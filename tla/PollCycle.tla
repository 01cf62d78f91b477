------------------------------ MODULE PollCycle ------------------------------
(***************************************************************************)
(* What collector.Run promises for each domain it is given                 *)
(* (internal/collector/domain.go:34-58, 110-118), without contexts, timers *)
(* or monitors: the domain is polled at least once and its polls never     *)
(* overlap; every poll ends and is booked, as an error or as a success,    *)
(* before the next one begins; and after shutdown polling ends for good.   *)
(***************************************************************************)
EXTENDS Naturals

CONSTANTS Domains, MaxPolls

VARIABLES
  shutdown,  \* the root context is cancelled
  phase,     \* what each domain is doing
  polls,     \* number of the latest poll
  errors,    \* polls booked as errors
  lastOk,    \* number of the latest poll booked as a success
  finished   \* Run has returned

vars == <<shutdown, phase, polls, errors, lastOk, finished>>

Phases == {"new", "busy", "idle", "stopped"}

Bump(n) == IF n < MaxPolls THEN n + 1 ELSE n

Init ==
  /\ shutdown = FALSE
  /\ phase = [d \in Domains |-> "new"]
  /\ polls = [d \in Domains |-> 0]
  /\ errors = [d \in Domains |-> 0]
  /\ lastOk = [d \in Domains |-> 0]
  /\ finished = FALSE

Begin(d) ==
  /\ phase[d] \in {"new", "idle"}
  /\ phase' = [phase EXCEPT ![d] = "busy"]
  /\ polls' = [polls EXCEPT ![d] = Bump(@)]
  /\ UNCHANGED <<shutdown, errors, lastOk, finished>>

BookError(d) ==
  /\ phase[d] = "busy"
  /\ phase' = [phase EXCEPT ![d] = "idle"]
  /\ errors' = [errors EXCEPT ![d] = Bump(@)]
  /\ UNCHANGED <<shutdown, polls, lastOk, finished>>

BookSuccess(d) ==
  /\ phase[d] = "busy"
  /\ phase' = [phase EXCEPT ![d] = "idle"]
  /\ lastOk' = [lastOk EXCEPT ![d] = polls[d]]
  /\ UNCHANGED <<shutdown, polls, errors, finished>>

Stop(d) ==
  /\ shutdown
  /\ phase[d] = "idle"
  /\ phase' = [phase EXCEPT ![d] = "stopped"]
  /\ UNCHANGED <<shutdown, polls, errors, lastOk, finished>>

BeginShutdown ==
  /\ ~shutdown
  /\ shutdown' = TRUE
  /\ UNCHANGED <<phase, polls, errors, lastOk, finished>>

Finish ==
  /\ ~finished
  /\ \A d \in Domains : phase[d] = "stopped"
  /\ finished' = TRUE
  /\ UNCHANGED <<shutdown, phase, polls, errors, lastOk>>

Next ==
  \/ \E d \in Domains : Begin(d) \/ BookError(d) \/ BookSuccess(d) \/ Stop(d)
  \/ BeginShutdown
  \/ Finish

Spec == Init /\ [][Next]_vars

\* Polling goes on, every poll is booked, and shutdown gets through.
Fairness ==
  /\ \A d \in Domains :
       /\ WF_vars(Begin(d))
       /\ WF_vars(BookError(d) \/ BookSuccess(d))
       /\ SF_vars(Stop(d))
  /\ WF_vars(Finish)

FairSpec == Spec /\ Fairness
=============================================================================
