------------------------------ MODULE Exporter ------------------------------
(***************************************************************************)
(* cmd/runpod-exporter/main.go, run, once the configuration is parsed: the *)
(* collector runs in a goroutine nobody waits for, the HTTP server in      *)
(* another one, and main waits for a signal or for the server to fail.     *)
(* When main returns the process ends, whatever the others are doing.      *)
(*                                                                         *)
(* Of net/http's Server (external) it has the connections, tracked from    *)
(* when they are accepted, and what Shutdown does with them.               *)
(***************************************************************************)
EXTENDS Runner

CONSTANT Conns  \* connections of the HTTP server, idle ones included

VARIABLES
  mainPc,    \* "select", "closing", "draining" (inside Shutdown) or "returned"
  status,    \* exit status of the process; "none" while it runs
  server,    \* ListenAndServe: not called yet, listening, or returned
  serveErr,  \* the serveErr channel, which holds one error
  conn       \* state of each connection, as net/http tracks it

mainVars     == <<mainPc, status, server, serveErr, conn>>
exporterVars == <<vars, mainVars>>

\* The values of main's variables; run leaves its goroutines, and the process
\* ends, with an exit status only, and it shuts the server down only when it is
\* told to stop, not when the server has failed (main.go:62-78).
ExporterTypeOK ==
  /\ TypeOK
  /\ mainPc \in {"select", "closing", "draining", "returned"}
  /\ status \in {"none", "ok", "failed"}
  /\ server \in {"unstarted", "listening", "returned"}
  /\ serveErr \in {"empty", "failed", "closed"}
  /\ conn \in [Conns -> {"none", "new", "active", "idle"}]
  /\ mainPc = "returned" <=> status # "none"
  /\ mainPc \in {"closing", "draining"} => ctxDone

ExporterInit ==
  /\ Init
  /\ mainPc = "select"
  /\ status = "none"
  /\ server = "unstarted"
  /\ serveErr = "empty"
  /\ conn = [c \in Conns |-> "none"]

Running    == status = "none"
InShutdown == mainPc # "select"

-----------------------------------------------------------------------------
(* The goroutine that runs ListenAndServe, and the server's connections.   *)

Listen ==
  /\ server = "unstarted"
  /\ ~InShutdown
  /\ server' = "listening"
  /\ UNCHANGED <<mainPc, status, serveErr, conn>>

\* The address is taken, or Accept fails for good.
ServeFails ==
  /\ server # "returned"
  /\ ~InShutdown
  /\ server' = "returned"
  /\ serveErr' = "failed"
  /\ UNCHANGED <<mainPc, status, conn>>

\* Shutdown makes ListenAndServe return ErrServerClosed, even if called later.
ServeClosed ==
  /\ server # "returned"
  /\ InShutdown
  /\ server' = "returned"
  /\ serveErr' = "closed"
  /\ UNCHANGED <<mainPc, status, conn>>

Accept(c) ==
  /\ server = "listening"
  /\ ~InShutdown
  /\ conn[c] = "none"
  /\ conn' = [conn EXCEPT ![c] = "new"]
  /\ UNCHANGED <<mainPc, status, server, serveErr>>

ReadRequest(c) ==
  /\ conn[c] \in {"new", "idle"}
  /\ conn' = [conn EXCEPT ![c] = "active"]
  /\ UNCHANGED <<mainPc, status, server, serveErr>>

\* /metrics or /healthz is answered; keep-alive ends with Shutdown.
Respond(c) ==
  /\ conn[c] = "active"
  /\ conn' = [conn EXCEPT ![c] = IF InShutdown THEN "none" ELSE "idle"]
  /\ UNCHANGED <<mainPc, status, server, serveErr>>

-----------------------------------------------------------------------------
(* run itself.                                                             *)

Return(code) ==
  /\ mainPc' = "returned"
  /\ status' = code

\* Mutant of ServeErrReceived: a server that has failed is shut down as well.
ServeErrReceivedDrains ==
  /\ mainPc = "select"
  /\ serveErr # "empty"
  /\ serveErr' = "empty"
  /\ mainPc' = "closing"
  /\ UNCHANGED <<status, server, conn>>

\* First case of the select.
ServeErrReceived ==
  /\ mainPc = "select"
  /\ serveErr # "empty"
  /\ serveErr' = "empty"
  /\ Return(IF serveErr = "closed" THEN "ok" ELSE "failed")
  /\ UNCHANGED <<server, conn>>

\* Second case: Shutdown begins, and stops listening.
SignalReceived ==
  /\ mainPc = "select"
  /\ ctxDone
  /\ mainPc' = "closing"
  /\ UNCHANGED <<status, server, serveErr, conn>>

\* Mutant of CloseIdle: Close instead of Shutdown.
CloseAll ==
  /\ mainPc = "closing"
  /\ Return("ok")
  /\ UNCHANGED <<server, serveErr, conn>>

\* Shutdown closes the idle connections, and those it has waited on for 5 s to
\* send their first request; with none left it is done, and its error is that of
\* closing the listeners, if there was one.
CloseIdle ==
  /\ mainPc = "closing"
  /\ \E stale \in SUBSET {c \in Conns : conn[c] = "new"} :
       conn' = [c \in Conns |-> IF conn[c] = "idle" \/ c \in stale THEN "none" ELSE conn[c]]
  /\ IF \A c \in Conns : conn'[c] = "none"
       THEN \E code \in {"ok", "failed"} : Return(code)
       ELSE mainPc' = "draining" /\ UNCHANGED status
  /\ UNCHANGED <<server, serveErr>>

\* Shutdown looks at the connections again after a while...
DrainAgain ==
  /\ mainPc = "draining"
  /\ mainPc' = "closing"
  /\ UNCHANGED <<status, server, serveErr, conn>>

DrainForEver == FALSE  \* mutant of DrainTimesOut: Shutdown gets no deadline

\* ... until shutdownCtx runs out.
DrainTimesOut ==
  /\ mainPc = "draining"
  /\ Return("failed")
  /\ UNCHANGED <<server, serveErr, conn>>

Serve == Listen \/ ServeFails \/ ServeClosed

Connection(c) == Accept(c) \/ ReadRequest(c) \/ Respond(c)

Main == ServeErrReceived \/ SignalReceived \/ CloseIdle \/ DrainAgain \/ DrainTimesOut

ExporterNext ==
  \/ Running /\ Next /\ UNCHANGED mainVars
  \/ Running /\ (Serve \/ Main \/ \E c \in Conns : Connection(c)) /\ UNCHANGED vars
  \/ ~Running /\ UNCHANGED exporterVars

ExporterSpec == ExporterInit /\ [][ExporterNext]_exporterVars

\* main is scheduled, and the 5 s of shutdownCtx do run out.
MainFairness ==
  /\ WF_exporterVars(Running /\ Main /\ UNCHANGED vars)
  /\ SF_exporterVars(Running /\ DrainTimesOut /\ UNCHANGED vars)

ExporterFairSpec == ExporterSpec /\ MainFairness

-----------------------------------------------------------------------------
(* Properties.                                                             *)

\* The process only reports success if it was told to stop, and every request
\* it had begun to serve has been answered: a server that fails is never taken
\* for an orderly end (main.go:62-75).
CleanExit ==
  status = "ok" => ctxDone /\ \A c \in Conns : conn[c] # "active"

\* Once it is told to stop, or has lost its server, the process ends, however
\* long a poll hangs or a client takes (main.go:62-75).
ProcessEnds == ctxDone \/ server = "returned" ~> status # "none"

\* What plans/0001-v1-exporter.md:238-239 says of shutdown, "the poll already
\* running is left to finish on its own for up to shutdownGrace": the process
\* does not end in good order under a poll whose context is still live.
PollLeftToFinish ==
  status = "ok" => \A d \in Domains : pc[d] = "polling" => callCtx[d] # "live"
=============================================================================
