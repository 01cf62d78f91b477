--------------------------- MODULE ExporterProofs ---------------------------
(* Theorems about Exporter, for any domains and connections. *)
EXTENDS Exporter, RunnerProofs

\* main only enters Shutdown when told to stop, ListenAndServe only returns
\* ErrServerClosed after that, and main leaves with every request answered.
MainInv ==
  /\ mainPc # "select" /\ status # "failed" => ctxDone
  /\ mainPc = "select" => serveErr # "closed"
  /\ mainPc = "returned" <=> status # "none"
  /\ status = "ok" => \A c \in Conns : conn[c] # "active"

\* The collector inside the exporter is the one of Runner.
THEOREM ExporterRunsRunner == ExporterSpec => Spec
<1>1. ExporterInit => Init
  BY DEF ExporterInit
<1>2. [ExporterNext]_exporterVars => [Next]_vars
  BY DEF ExporterNext, exporterVars
<1> QED
  BY <1>1, <1>2, PTL DEF ExporterSpec, Spec

LEMMA MainStep == MainInv /\ [ExporterNext]_exporterVars => MainInv'
<1> SUFFICES ASSUME MainInv, [ExporterNext]_exporterVars
             PROVE  MainInv'
  OBVIOUS
<1>1. ASSUME Next, UNCHANGED mainVars  PROVE MainInv'
  <2>1. ctxDone => ctxDone'
    BY <1>1 DEF Next, Goroutine, Monitor, Timer, FirstPoll, StartPoll, PollReturns, RecordError,
                BackToSelect, RecordSuccess, RecordDuration, SelectTick, SelectDone,
                MonitorSeesCallDone, MonitorSeesShutdown, GraceExpires, MonitorCloses,
                CallDeadline, TickerFires, Shutdown, RunReturns, Terminated, vars
  <2> QED
    BY <1>1, <2>1 DEF mainVars, MainInv
<1>2. ASSUME Running, Serve, UNCHANGED vars  PROVE MainInv'
  BY <1>2 DEF Running, Serve, Listen, ServeFails, ServeClosed, InShutdown, MainInv, vars
<1>3. ASSUME Running, NEW c \in Conns, Connection(c), UNCHANGED vars  PROVE MainInv'
  BY <1>3 DEF Running, Connection, Accept, ReadRequest, Respond, MainInv, vars
<1>4. ASSUME Running, Main, UNCHANGED vars  PROVE MainInv'
  BY <1>4 DEF Running, Main, ServeErrReceived, SignalReceived, CloseIdle, DrainAgain,
              DrainTimesOut, Return, MainInv, vars
<1>5. ASSUME UNCHANGED exporterVars  PROVE MainInv'
  BY <1>5 DEF exporterVars, mainVars, vars, MainInv
<1> QED
  BY <1>1, <1>2, <1>3, <1>4, <1>5 DEF ExporterNext

\* Success is only reported after a signal and with every request answered
\* (main.go:62-75).
THEOREM SuccessIsOrderly == ExporterSpec => []CleanExit
<1>1. ExporterInit => MainInv
  BY DEF ExporterInit, MainInv
<1>2. MainInv => CleanExit
  BY DEF MainInv, CleanExit
<1> QED
  BY <1>1, <1>2, MainStep, PTL DEF ExporterSpec

LEMMA ExporterTypeStep ==
  ExporterTypeOK /\ TypeOK' /\ MainInv' /\ [ExporterNext]_exporterVars => ExporterTypeOK'
<1> SUFFICES ASSUME ExporterTypeOK, TypeOK', MainInv', [ExporterNext]_exporterVars
             PROVE  ExporterTypeOK'
  OBVIOUS
<1>0. /\ (mainPc = "returned" <=> status # "none")'
      /\ (mainPc \in {"closing", "draining"} => ctxDone)'
  BY DEF MainInv
<1> USE <1>0 DEF ExporterTypeOK
<1>1. CASE UNCHANGED mainVars
  BY <1>1 DEF mainVars
<1>2. CASE Serve
  BY <1>2 DEF Serve, Listen, ServeFails, ServeClosed
<1>3. ASSUME NEW c \in Conns, Connection(c)  PROVE ExporterTypeOK'
  BY <1>3 DEF Connection, Accept, ReadRequest, Respond
<1>4. CASE Main
  <2>1. CASE ServeErrReceived \/ SignalReceived \/ DrainAgain \/ DrainTimesOut
    BY <2>1 DEF ServeErrReceived, SignalReceived, DrainAgain, DrainTimesOut, Return
  <2>2. CASE CloseIdle
    <3>1. conn' \in [Conns -> {"none", "new", "active", "idle"}]
      BY <2>2 DEF CloseIdle
    <3> QED
      BY <2>2, <3>1 DEF CloseIdle, Return
  <2> QED
    BY <1>4, <2>1, <2>2 DEF Main
<1> QED
  BY <1>1, <1>2, <1>3, <1>4 DEF ExporterNext, exporterVars

\* main, the server and its connections keep their types; run leaves its select
\* for Shutdown only when told to stop, and ends with a status (main.go:62-78).
THEOREM ExporterTypeCorrect == ExporterSpec => []ExporterTypeOK
<1>1. ExporterInit /\ TypeOK => ExporterTypeOK
  BY DEF ExporterInit, ExporterTypeOK
<1>2. ExporterInit => MainInv
  BY DEF ExporterInit, MainInv
<1> QED
  BY <1>1, <1>2, MainStep, ExporterTypeStep, ExporterRunsRunner, TypeCorrect, PTL
  DEF ExporterSpec
=============================================================================
