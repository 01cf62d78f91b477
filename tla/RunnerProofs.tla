---------------------------- MODULE RunnerProofs ----------------------------
(***************************************************************************)
(* Theorems about Runner for any set of domains and any bound, and that it *)
(* implements PollCycle's safety part.  Fairness is left to TLC.           *)
(***************************************************************************)
EXTENDS RunnerCycle, TLAPS

\* Only shutdown takes a monitor beyond its first select, and a monitor that
\* has force-cancelled its poll leaves callCtx done.
GraceAfterShutdown ==
  \A d \in Domains :
    /\ monitor[d] \in {"grace", "closing"} => ctxDone
    /\ monitor[d] = "closing" => callCtx[d] # "live"

\* What the two gauges hold at each point of the loop, while poll numbers are
\* below the bound: the strengthening LastPollVisible needs.
GaugesFollowPolls ==
  \A d \in Domains : pollNo[d] < MaxPolls =>
    /\ pc[d] = "start" => lastSuccess[d] = 0 /\ scrapeDuration[d] = 0 /\ pollNo[d] = 0
    /\ pc[d] \in {"polling", "joining"} =>
         lastSuccess[d] < pollNo[d] /\ scrapeDuration[d] < pollNo[d]
    /\ pc[d] = "timing" =>
         /\ outcome[d] = "nil"
         /\ lastSuccess[d] = pollNo[d]
         /\ scrapeDuration[d] < pollNo[d]
    /\ pc[d] = "select" /\ outcome[d] = "nil" =>
         lastSuccess[d] = pollNo[d] /\ scrapeDuration[d] = pollNo[d]
    /\ pc[d] = "select" /\ outcome[d] # "nil" =>
         lastSuccess[d] < pollNo[d] /\ scrapeDuration[d] < pollNo[d]

MonitorInv == MonitorWithinPoll /\ JoinNeedsNoTimer /\ ForcedOnlyByShutdown /\ GraceAfterShutdown

RunnerInv == TypeOK /\ MonitorInv /\ GaugesFollowPolls

-----------------------------------------------------------------------------
\* Count stays within the bound, and counts below it.
LEMMA CountLemma ==
  ASSUME NEW n \in Numbers
  PROVE  /\ Count(n) \in Numbers
         /\ Count(n) < MaxPolls => n < MaxPolls /\ Count(n) = n + 1
  BY MaxPollsAssumption DEF Count, Numbers

\* The goroutines, timers and contexts start in RunnerInv.
LEMMA InitInv == Init => RunnerInv
<1> SUFFICES ASSUME Init
             PROVE  RunnerInv
  OBVIOUS
<1>1. TypeOK
  <2>1. 0 \in Numbers
    BY MaxPollsAssumption DEF Numbers
  <2> QED
    BY <2>1 DEF Init, TypeOK, PlaceOK, LoopStates, MonitorStates, ContextStates, TickerStates, Results
<1>2. MonitorInv
  BY DEF Init, MonitorInv, MonitorWithinPoll, JoinNeedsNoTimer, ForcedOnlyByShutdown,
         GraceAfterShutdown
<1>3. GaugesFollowPolls
  BY DEF Init, GaugesFollowPolls
<1> QED
  BY <1>1, <1>2, <1>3 DEF RunnerInv

\* Every step keeps every variable in its type.
LEMMA TypeStep == TypeOK /\ [Next]_vars => TypeOK'
<1> SUFFICES ASSUME TypeOK, [Next]_vars
             PROVE  TypeOK'
  OBVIOUS
<1> USE CountLemma DEF TypeOK, PlaceOK, LoopStates, MonitorStates, ContextStates, TickerStates,
                       Results, selfMetrics, loopVars
<1>1. ASSUME NEW d \in Domains, FirstPoll(d)  PROVE TypeOK'
  BY <1>1 DEF FirstPoll, StartPoll
<1>2. ASSUME NEW d \in Domains, PollReturns(d)  PROVE TypeOK'
  BY <1>2 DEF PollReturns, Cancelled
<1>3. ASSUME NEW d \in Domains, RecordError(d)  PROVE TypeOK'
  BY <1>3 DEF RecordError, BackToSelect
<1>4. ASSUME NEW d \in Domains, RecordSuccess(d)  PROVE TypeOK'
  BY <1>4 DEF RecordSuccess
<1>5. ASSUME NEW d \in Domains, RecordDuration(d)  PROVE TypeOK'
  BY <1>5 DEF RecordDuration, BackToSelect
<1>6. ASSUME NEW d \in Domains, SelectTick(d)  PROVE TypeOK'
  BY <1>6 DEF SelectTick, StartPoll
<1>7. ASSUME NEW d \in Domains, SelectDone(d)  PROVE TypeOK'
  BY <1>7 DEF SelectDone
<1>8. ASSUME NEW d \in Domains, Monitor(d)  PROVE TypeOK'
  BY <1>8 DEF Monitor, MonitorSeesCallDone, MonitorSeesShutdown, GraceExpires,
              MonitorCloses, Cancelled
<1>9. ASSUME NEW d \in Domains, Timer(d)  PROVE TypeOK'
  BY <1>9 DEF Timer, CallDeadline, TickerFires
<1>10. CASE Shutdown
  BY <1>10 DEF Shutdown
<1>11. CASE RunReturns
  BY <1>11 DEF RunReturns
<1>12. CASE UNCHANGED vars
  BY <1>12 DEF vars
<1> QED
  BY <1>1, <1>2, <1>3, <1>4, <1>5, <1>6, <1>7, <1>8, <1>9, <1>10, <1>11, <1>12
  DEF Next, Goroutine, Terminated

-----------------------------------------------------------------------------
\* Monitors and contexts: every step of the polling goroutine, of its monitor
\* and of the timers preserves what the monitor is allowed to do.
LEMMA MonitorStep == TypeOK /\ MonitorInv /\ [Next]_vars => MonitorInv'
<1> SUFFICES ASSUME TypeOK, MonitorInv, [Next]_vars
             PROVE  MonitorInv'
  OBVIOUS
<1> USE DEF TypeOK, MonitorInv, MonitorWithinPoll, JoinNeedsNoTimer, ForcedOnlyByShutdown,
            GraceAfterShutdown, selfMetrics, loopVars
<1>1. ASSUME NEW d \in Domains, FirstPoll(d)  PROVE MonitorInv'
  BY <1>1 DEF FirstPoll, StartPoll
<1>2. ASSUME NEW d \in Domains, PollReturns(d)  PROVE MonitorInv'
  BY <1>2 DEF PollReturns, Cancelled
<1>3. ASSUME NEW d \in Domains, RecordError(d)  PROVE MonitorInv'
  BY <1>3 DEF RecordError, BackToSelect, MonitorJoined
<1>4. ASSUME NEW d \in Domains, RecordSuccess(d)  PROVE MonitorInv'
  BY <1>4 DEF RecordSuccess, MonitorJoined
<1>5. ASSUME NEW d \in Domains, RecordDuration(d)  PROVE MonitorInv'
  BY <1>5 DEF RecordDuration, BackToSelect
<1>6. ASSUME NEW d \in Domains, SelectTick(d)  PROVE MonitorInv'
  BY <1>6 DEF SelectTick, StartPoll
<1>7. ASSUME NEW d \in Domains, SelectDone(d)  PROVE MonitorInv'
  BY <1>7 DEF SelectDone
<1>8. ASSUME NEW d \in Domains, MonitorSeesCallDone(d)  PROVE MonitorInv'
  BY <1>8 DEF MonitorSeesCallDone
<1>9. ASSUME NEW d \in Domains, MonitorSeesShutdown(d)  PROVE MonitorInv'
  BY <1>9 DEF MonitorSeesShutdown
<1>10. ASSUME NEW d \in Domains, GraceExpires(d)  PROVE MonitorInv'
  BY <1>10 DEF GraceExpires, Cancelled
<1>11. ASSUME NEW d \in Domains, MonitorCloses(d)  PROVE MonitorInv'
  BY <1>11 DEF MonitorCloses
<1>12. ASSUME NEW d \in Domains, CallDeadline(d)  PROVE MonitorInv'
  BY <1>12 DEF CallDeadline
<1>13. ASSUME NEW d \in Domains, TickerFires(d)  PROVE MonitorInv'
  BY <1>13 DEF TickerFires
<1>14. CASE Shutdown
  BY <1>14 DEF Shutdown
<1>15. CASE RunReturns
  BY <1>15 DEF RunReturns
<1>16. CASE UNCHANGED vars
  BY <1>16 DEF vars
<1> QED
  BY <1>1, <1>2, <1>3, <1>4, <1>5, <1>6, <1>7, <1>8, <1>9, <1>10, <1>11, <1>12,
     <1>13, <1>14, <1>15, <1>16
  DEF Next, Goroutine, Monitor, Timer, Terminated

-----------------------------------------------------------------------------
\* The gauges: only the loop's own steps touch them, the poll number and pc.
LEMMA GaugesStep == TypeOK /\ GaugesFollowPolls /\ [Next]_vars => GaugesFollowPolls'
<1> SUFFICES ASSUME TypeOK, GaugesFollowPolls, [Next]_vars
             PROVE  GaugesFollowPolls'
  OBVIOUS
<1>0. /\ \A d \in Domains : /\ pollNo[d] \in Nat
                            /\ lastSuccess[d] \in Nat
                            /\ scrapeDuration[d] \in Nat
                            /\ lastSuccess[d] <= MaxPolls /\ scrapeDuration[d] <= MaxPolls
      /\ MaxPolls \in Nat
  BY MaxPollsAssumption DEF TypeOK, Numbers
<1> USE DEF TypeOK, selfMetrics, loopVars
<1>1. ASSUME NEW d \in Domains, pc[d] \in {"start", "select"}, StartPoll(d)
      PROVE  GaugesFollowPolls'
  <2>1. Count(pollNo[d]) < MaxPolls => pollNo[d] < MaxPolls /\ Count(pollNo[d]) = pollNo[d] + 1
    BY CountLemma
  <2>2. Count(pollNo[d]) < MaxPolls =>
          lastSuccess[d] < Count(pollNo[d]) /\ scrapeDuration[d] < Count(pollNo[d])
    BY <1>0, <1>1, <2>1 DEF GaugesFollowPolls
  <2> QED
    BY <1>1, <2>2 DEF StartPoll, GaugesFollowPolls
<1>2. ASSUME NEW d \in Domains, PollReturns(d)  PROVE GaugesFollowPolls'
  BY <1>2 DEF PollReturns, GaugesFollowPolls
<1>3. ASSUME NEW d \in Domains, RecordError(d)  PROVE GaugesFollowPolls'
  BY <1>3 DEF RecordError, BackToSelect, GaugesFollowPolls
<1>4. ASSUME NEW d \in Domains, RecordSuccess(d)  PROVE GaugesFollowPolls'
  BY <1>4 DEF RecordSuccess, GaugesFollowPolls
<1>5. ASSUME NEW d \in Domains, RecordDuration(d)  PROVE GaugesFollowPolls'
  BY <1>5 DEF RecordDuration, BackToSelect, GaugesFollowPolls
<1>6. ASSUME NEW d \in Domains, SelectDone(d)  PROVE GaugesFollowPolls'
  BY <1>6 DEF SelectDone, GaugesFollowPolls
<1>7. ASSUME UNCHANGED <<pc, outcome, pollNo, selfMetrics>>  PROVE GaugesFollowPolls'
  BY <1>7 DEF GaugesFollowPolls
<1>8. ASSUME NEW d \in Domains, Monitor(d) \/ Timer(d)
      PROVE  UNCHANGED <<pc, outcome, pollNo, selfMetrics>>
  BY <1>8 DEF Monitor, MonitorSeesCallDone, MonitorSeesShutdown, GraceExpires,
              MonitorCloses, Timer, CallDeadline, TickerFires
<1>9. Shutdown \/ RunReturns \/ UNCHANGED vars => UNCHANGED <<pc, outcome, pollNo, selfMetrics>>
  BY DEF Shutdown, RunReturns, vars
<1>10. ASSUME NEW d \in Domains, FirstPoll(d) \/ SelectTick(d)  PROVE GaugesFollowPolls'
  BY <1>1, <1>10 DEF FirstPoll, SelectTick
<1> QED
  BY <1>2, <1>3, <1>4, <1>5, <1>6, <1>7, <1>8, <1>9, <1>10
  DEF Next, Goroutine, Terminated

-----------------------------------------------------------------------------
\* RunnerInv holds of every reachable state.
THEOREM Invariance == Spec => []RunnerInv
<1>1. Init => RunnerInv
  BY InitInv
<1>2. RunnerInv /\ [Next]_vars => RunnerInv'
  BY TypeStep, MonitorStep, GaugesStep DEF RunnerInv
<1> QED
  BY <1>1, <1>2, PTL DEF Spec

\* Every variable keeps its type, and a loop has what it has at each place,
\* however many domains Run is given (domain.go:63-75, 103-118).
THEOREM TypeCorrect == Spec => []TypeOK
<1>1. RunnerInv => TypeOK
  BY DEF RunnerInv
<1> QED
  BY <1>1, Invariance, PTL

\* No monitor goroutine outlives its poll (domain.go:85-87).
THEOREM MonitorNeverOutlivesPoll == Spec => []MonitorWithinPoll
<1>1. RunnerInv => MonitorWithinPoll
  BY DEF RunnerInv, MonitorInv
<1> QED
  BY <1>1, Invariance, PTL

\* The join at the end of poll never waits for a timer (domain.go:107-108).
THEOREM JoinIsPrompt == Spec => []JoinNeedsNoTimer
<1>1. RunnerInv => JoinNeedsNoTimer
  BY DEF RunnerInv, MonitorInv
<1> QED
  BY <1>1, Invariance, PTL

\* Without shutdown no running poll is force-cancelled (domain.go:77-80).
THEOREM OnlyShutdownForces == Spec => []ForcedOnlyByShutdown
<1>1. RunnerInv => ForcedOnlyByShutdown
  BY DEF RunnerInv, MonitorInv
<1> QED
  BY <1>1, Invariance, PTL

\* Between polls last_success_timestamp tells whether the last one succeeded, and
\* after a success the duration is that poll's (domain.go:110-118).
THEOREM GaugesTellLastPoll == Spec => []LastPollVisible
<1>1. RunnerInv => LastPollVisible
  BY MaxPollsAssumption DEF RunnerInv, TypeOK, Numbers, GaugesFollowPolls, LastPollVisible
<1> QED
  BY <1>1, Invariance, PTL

-----------------------------------------------------------------------------
(* What is left once Run has returned.                                     *)

\* A context lives during its Poll only, a ticker between the first poll and
\* the end of the loop, and Run returns after all loops.
LeftInv ==
  /\ \A d \in Domains :
       /\ callCtx[d] = "live" => pc[d] = "polling"
       /\ ticker[d] # "unset" => pc[d] \notin {"start", "stopped"}
  /\ returned => \A d \in Domains : pc[d] = "stopped"

LEMMA LeftStep == TypeOK /\ LeftInv /\ [Next]_vars => LeftInv'
<1> SUFFICES ASSUME TypeOK, LeftInv, [Next]_vars
             PROVE  LeftInv'
  OBVIOUS
<1> USE DEF TypeOK, LeftInv, selfMetrics, loopVars
<1>1. ASSUME NEW d \in Domains, FirstPoll(d) \/ SelectTick(d)  PROVE LeftInv'
  BY <1>1 DEF FirstPoll, SelectTick, StartPoll
<1>2. ASSUME NEW d \in Domains, PollReturns(d)  PROVE LeftInv'
  BY <1>2 DEF PollReturns, Cancelled
<1>3. ASSUME NEW d \in Domains, RecordError(d) \/ RecordDuration(d)  PROVE LeftInv'
  BY <1>3 DEF RecordError, RecordDuration, BackToSelect
<1>4. ASSUME NEW d \in Domains, RecordSuccess(d)  PROVE LeftInv'
  BY <1>4 DEF RecordSuccess
<1>5. ASSUME NEW d \in Domains, SelectDone(d)  PROVE LeftInv'
  BY <1>5 DEF SelectDone
<1>6. ASSUME NEW d \in Domains, Monitor(d)  PROVE LeftInv'
  BY <1>6 DEF Monitor, MonitorSeesCallDone, MonitorSeesShutdown, GraceExpires, MonitorCloses,
              Cancelled
<1>7. ASSUME NEW d \in Domains, Timer(d)  PROVE LeftInv'
  BY <1>7 DEF Timer, CallDeadline, TickerFires
<1>8. CASE Shutdown \/ RunReturns \/ UNCHANGED vars
  BY <1>8 DEF Shutdown, RunReturns, vars
<1> QED
  BY <1>1, <1>2, <1>3, <1>4, <1>5, <1>6, <1>7, <1>8 DEF Next, Goroutine, Terminated

\* Once Run has returned neither a loop, nor a monitor, nor a ticker, nor a
\* deadline ever does anything again (domain.go:41-43, 66, 82-87).
THEOREM NothingAfterRun == Spec => RunLeavesNothing
<1>1. Init => LeftInv
  BY DEF Init, LeftInv
<1>2. RunnerInv /\ LeftInv /\ [Next]_vars
        => [returned => UNCHANGED <<loopVars, callCtx, monitor, selfMetrics, returned>>]_vars
  <2> SUFFICES ASSUME RunnerInv, LeftInv, Next, returned
               PROVE  UNCHANGED <<loopVars, callCtx, monitor, selfMetrics, returned>>
    OBVIOUS
  <2>1. \A d \in Domains : /\ pc[d] = "stopped" /\ callCtx[d] # "live"
                           /\ monitor[d] = "none" /\ ticker[d] = "unset"
    BY DEF LeftInv, RunnerInv, MonitorInv, MonitorWithinPoll
  <2>2. ASSUME NEW d \in Domains, Goroutine(d)  PROVE FALSE
    BY <2>1, <2>2 DEF Goroutine, FirstPoll, PollReturns, RecordError, RecordSuccess,
                      RecordDuration, SelectTick, SelectDone
  <2>3. ASSUME NEW d \in Domains, Monitor(d) \/ Timer(d)  PROVE FALSE
    BY <2>1, <2>3 DEF Monitor, MonitorSeesCallDone, MonitorSeesShutdown, GraceExpires,
                      MonitorCloses, Timer, CallDeadline, TickerFires
  <2>4. ~RunReturns
    BY DEF RunReturns
  <2> QED
    BY <2>2, <2>3, <2>4 DEF Next, Shutdown, Terminated, vars
<1>3. TypeOK /\ LeftInv /\ [Next]_vars => LeftInv'
  BY LeftStep
<1> QED
  BY <1>1, <1>2, <1>3, Invariance, TypeCorrect, PTL DEF Spec, RunLeavesNothing

-----------------------------------------------------------------------------
(* Refinement: each step of Runner is a step of PollCycle or a stutter.    *)

\* Moving one domain to another control point moves it alone to that point's phase.
LEMMA PhaseLemma ==
  ASSUME NEW d \in Domains, NEW state, TypeOK, pc' = [pc EXCEPT ![d] = state]
  PROVE  [e \in Domains |-> phaseOf(pc'[e])]
           = [[e \in Domains |-> phaseOf(pc[e])] EXCEPT ![d] = phaseOf(state)]
<1>1. \A e \in Domains : phaseOf(pc'[e]) = IF e = d THEN phaseOf(state) ELSE phaseOf(pc[e])
  BY DEF TypeOK
<1> QED
  BY <1>1

\* A poll that has started, seen from PollCycle.
LEMMA BeginStep ==
  ASSUME NEW d \in Domains, TypeOK, pc[d] \in {"start", "select"}, StartPoll(d)
  PROVE  Cycle!Begin(d)
<1>1. phaseOf(pc[d]) \in {"new", "idle"}
  BY DEF phaseOf
<1>2. [e \in Domains |-> phaseOf(pc'[e])]
        = [[e \in Domains |-> phaseOf(pc[e])] EXCEPT ![d] = "busy"]
  <2>1. phaseOf("polling") = "busy"
    BY DEF phaseOf
  <2> QED
    BY <2>1, PhaseLemma DEF StartPoll
<1>3. pollNo' = [pollNo EXCEPT ![d] = Cycle!Bump(@)]
  BY DEF StartPoll, Count, Cycle!Bump
<1> QED
  BY <1>1, <1>2, <1>3 DEF StartPoll, selfMetrics, Cycle!Begin

\* A step that moves no domain to another phase and changes no counter.
LEMMA StutterStep ==
  ASSUME UNCHANGED <<ctxDone, pollNo, scrapeErrors, lastSuccess, returned>>,
         \A d \in Domains : phaseOf(pc'[d]) = phaseOf(pc[d])
  PROVE  UNCHANGED Cycle!vars
  BY DEF Cycle!vars

LEMMA CycleStep == TypeOK /\ [Next]_vars => [Cycle!Next]_(Cycle!vars)
<1> SUFFICES ASSUME TypeOK, [Next]_vars
             PROVE  Cycle!Next \/ UNCHANGED Cycle!vars
  OBVIOUS
<1> DEFINE Cyclic == Cycle!Next \/ UNCHANGED Cycle!vars
<1>1. ASSUME NEW d \in Domains, FirstPoll(d) \/ SelectTick(d)  PROVE Cyclic
  BY <1>1, BeginStep DEF FirstPoll, SelectTick, Cycle!Next
<1>2. ASSUME NEW d \in Domains, PollReturns(d)  PROVE Cyclic
  <2>1. \A e \in Domains : phaseOf(pc'[e]) = phaseOf(pc[e])
    BY <1>2 DEF PollReturns, TypeOK, phaseOf
  <2> QED
    BY <1>2, <2>1, StutterStep DEF PollReturns, selfMetrics
<1>3. ASSUME NEW d \in Domains, RecordError(d)  PROVE Cyclic
  <2>1. phaseOf(pc[d]) = "busy"
    BY <1>3 DEF RecordError, phaseOf
  <2>2. [e \in Domains |-> phaseOf(pc'[e])]
          = [[e \in Domains |-> phaseOf(pc[e])] EXCEPT ![d] = "idle"]
    <3>1. phaseOf("select") = "idle"
      BY DEF phaseOf
    <3> QED
      BY <1>3, <3>1, PhaseLemma DEF RecordError, BackToSelect
  <2>3. Cycle!BookError(d)
    BY <1>3, <2>1, <2>2 DEF RecordError, BackToSelect, Count, Cycle!BookError, Cycle!Bump
  <2> QED
    BY <2>3 DEF Cycle!Next
<1>4. ASSUME NEW d \in Domains, RecordSuccess(d)  PROVE Cyclic
  <2>1. phaseOf(pc[d]) = "busy"
    BY <1>4 DEF RecordSuccess, phaseOf
  <2>2. [e \in Domains |-> phaseOf(pc'[e])]
          = [[e \in Domains |-> phaseOf(pc[e])] EXCEPT ![d] = "idle"]
    <3>1. phaseOf("timing") = "idle"
      BY DEF phaseOf
    <3> QED
      BY <1>4, <3>1, PhaseLemma DEF RecordSuccess
  <2>3. Cycle!BookSuccess(d)
    BY <1>4, <2>1, <2>2 DEF RecordSuccess, Cycle!BookSuccess
  <2> QED
    BY <2>3 DEF Cycle!Next
<1>5. ASSUME NEW d \in Domains, RecordDuration(d)  PROVE Cyclic
  <2>1. \A e \in Domains : phaseOf(pc'[e]) = phaseOf(pc[e])
    BY <1>5 DEF RecordDuration, BackToSelect, TypeOK, phaseOf
  <2> QED
    BY <1>5, <2>1, StutterStep DEF RecordDuration, BackToSelect
<1>6. ASSUME NEW d \in Domains, SelectDone(d)  PROVE Cyclic
  <2>1. phaseOf(pc[d]) = "idle"
    BY <1>6 DEF SelectDone, phaseOf
  <2>2. [e \in Domains |-> phaseOf(pc'[e])]
          = [[e \in Domains |-> phaseOf(pc[e])] EXCEPT ![d] = "stopped"]
    <3>1. phaseOf("stopped") = "stopped"
      BY DEF phaseOf
    <3> QED
      BY <1>6, <3>1, PhaseLemma DEF SelectDone
  <2>3. Cycle!Stop(d)
    BY <1>6, <2>1, <2>2 DEF SelectDone, selfMetrics, Cycle!Stop
  <2> QED
    BY <2>3 DEF Cycle!Next
<1>7. ASSUME NEW d \in Domains, Monitor(d) \/ Timer(d)  PROVE Cyclic
  <2>1. UNCHANGED <<pc, ctxDone, pollNo, scrapeErrors, lastSuccess, returned>>
    BY <1>7 DEF Monitor, MonitorSeesCallDone, MonitorSeesShutdown, GraceExpires, MonitorCloses,
                Timer, CallDeadline, TickerFires, loopVars, selfMetrics
  <2> QED
    BY <2>1, StutterStep
<1>8. CASE Shutdown
  BY <1>8 DEF Shutdown, loopVars, selfMetrics, Cycle!BeginShutdown, Cycle!Next
<1>9. CASE RunReturns
  <2>1. \A d \in Domains : phaseOf(pc[d]) = "stopped"
    BY <1>9 DEF RunReturns, phaseOf
  <2> QED
    BY <1>9, <2>1 DEF RunReturns, loopVars, selfMetrics, Cycle!Finish, Cycle!Next
<1>10. CASE UNCHANGED vars
  BY <1>10, StutterStep DEF vars, loopVars, selfMetrics
<1> QED
  BY <1>1, <1>2, <1>3, <1>4, <1>5, <1>6, <1>7, <1>8, <1>9, <1>10
  DEF Next, Goroutine, Terminated

\* The loops, polls and monitors of domain.go implement PollCycle's safety
\* part: polls of a domain never overlap, each is booked exactly once before
\* the next begins, and a stopped domain is never polled again.
THEOREM ImplementsCycle == Spec => Cycle!Spec
<1>1. Init => Cycle!Init
  BY DEF Init, Cycle!Init, phaseOf
<1>2. TypeOK /\ [Next]_vars => [Cycle!Next]_(Cycle!vars)
  BY CycleStep
<1> QED
  BY <1>1, <1>2, TypeCorrect, PTL DEF Spec, Cycle!Spec

-----------------------------------------------------------------------------
(* Runner seen from one of its domains, as if Run had been given it alone. *)

Only(d, f) == [x \in {d} |-> f[x]]

Alone(d) == INSTANCE Runner
              WITH Domains        <- {d},
                   pc             <- Only(d, pc),
                   callCtx        <- Only(d, callCtx),
                   monitor        <- Only(d, monitor),
                   ticker         <- Only(d, ticker),
                   outcome        <- Only(d, outcome),
                   pollNo         <- Only(d, pollNo),
                   scrapeErrors   <- Only(d, scrapeErrors),
                   lastSuccess    <- Only(d, lastSuccess),
                   scrapeDuration <- Only(d, scrapeDuration)

\* A step of d's own.
LEMMA AloneOwn ==
  ASSUME NEW d \in Domains, TypeOK, Goroutine(d) \/ Monitor(d) \/ Timer(d)
  PROVE  Alone(d)!Next
<1>0. /\ DOMAIN pc = Domains /\ DOMAIN callCtx = Domains /\ DOMAIN monitor = Domains
      /\ DOMAIN ticker = Domains /\ DOMAIN outcome = Domains /\ DOMAIN pollNo = Domains
      /\ DOMAIN scrapeErrors = Domains /\ DOMAIN lastSuccess = Domains
      /\ DOMAIN scrapeDuration = Domains
  BY DEF TypeOK
<1> USE DEF Only
<1>1. CASE FirstPoll(d)
  <2>1. Alone(d)!FirstPoll(d)
    BY <1>0, <1>1 DEF FirstPoll, StartPoll, Count, selfMetrics, Alone!FirstPoll,
       Alone!StartPoll, Alone!Count, Alone!selfMetrics
  <2> QED
    BY <2>1 DEF Alone!Next, Alone!Goroutine
<1>2. CASE PollReturns(d)
  <2>1. PICK r \in Results : outcome' = [outcome EXCEPT ![d] = r]
    BY <1>2 DEF PollReturns
  <2>2. r \in Alone(d)!Results
    BY DEF Results, Alone!Results
  <2>3. Only(d, outcome)' = [Only(d, outcome) EXCEPT ![d] = r]
    BY <1>0, <2>1
  <2>4. Only(d, callCtx)' = [Only(d, callCtx) EXCEPT ![d] = Alone(d)!Cancelled(@)]
    BY <1>0, <1>2 DEF PollReturns, Cancelled, Alone!Cancelled
  <2>5. /\ Only(d, pc)[d] = "polling"
        /\ Only(d, pc)' = [Only(d, pc) EXCEPT ![d] = "joining"]
        /\ UNCHANGED <<ctxDone, Only(d, monitor), Only(d, ticker), Only(d, pollNo),
                       Alone(d)!selfMetrics, returned>>
    BY <1>0, <1>2 DEF PollReturns, selfMetrics, Alone!selfMetrics
  <2>6. Alone(d)!PollReturns(d)
    BY <2>2, <2>3, <2>4, <2>5 DEF Alone!PollReturns
  <2> QED
    BY <2>6 DEF Alone!Next, Alone!Goroutine
<1>3. CASE RecordError(d)
  <2>1. Alone(d)!RecordError(d)
    BY <1>0, <1>3 DEF RecordError, MonitorJoined, BackToSelect, Count, Alone!RecordError,
       Alone!MonitorJoined, Alone!BackToSelect, Alone!Count
  <2> QED
    BY <2>1 DEF Alone!Next, Alone!Goroutine
<1>4. CASE RecordSuccess(d)
  <2>1. Alone(d)!RecordSuccess(d)
    BY <1>0, <1>4 DEF RecordSuccess, MonitorJoined, Alone!RecordSuccess, Alone!MonitorJoined
  <2> QED
    BY <2>1 DEF Alone!Next, Alone!Goroutine
<1>5. CASE RecordDuration(d)
  <2>1. Alone(d)!RecordDuration(d)
    BY <1>0, <1>5 DEF RecordDuration, BackToSelect, Alone!RecordDuration, Alone!BackToSelect
  <2> QED
    BY <2>1 DEF Alone!Next, Alone!Goroutine
<1>6. CASE SelectTick(d)
  <2>1. Alone(d)!SelectTick(d)
    BY <1>0, <1>6 DEF SelectTick, StartPoll, Count, selfMetrics, Alone!SelectTick,
       Alone!StartPoll, Alone!Count, Alone!selfMetrics
  <2> QED
    BY <2>1 DEF Alone!Next, Alone!Goroutine
<1>7. CASE SelectDone(d)
  <2>1. Alone(d)!SelectDone(d)
    BY <1>0, <1>7 DEF SelectDone, selfMetrics, Alone!SelectDone, Alone!selfMetrics
  <2> QED
    BY <2>1 DEF Alone!Next, Alone!Goroutine
<1>8. CASE Monitor(d)
  <2>1. Alone(d)!Monitor(d)
    BY <1>0, <1>8
    DEF Monitor, MonitorSeesCallDone, MonitorSeesShutdown, GraceExpires, MonitorCloses, Cancelled,
        loopVars, selfMetrics, Alone!Monitor, Alone!MonitorSeesCallDone,
        Alone!MonitorSeesShutdown, Alone!GraceExpires, Alone!MonitorCloses, Alone!Cancelled,
        Alone!loopVars, Alone!selfMetrics
  <2> QED
    BY <2>1 DEF Alone!Next
<1>9. CASE Timer(d)
  <2>1. Alone(d)!Timer(d)
    BY <1>0, <1>9 DEF Timer, CallDeadline, TickerFires, loopVars, selfMetrics, Alone!Timer,
       Alone!CallDeadline, Alone!TickerFires, Alone!loopVars, Alone!selfMetrics
  <2> QED
    BY <2>1 DEF Alone!Next
<1> QED
  BY <1>1, <1>2, <1>3, <1>4, <1>5, <1>6, <1>7, <1>8, <1>9 DEF Goroutine

\* A step of another domain's changes nothing of d's.
LEMMA AloneOther ==
  ASSUME NEW d \in Domains, NEW e \in Domains, e # d, TypeOK,
         Goroutine(e) \/ Monitor(e) \/ Timer(e)
  PROVE  UNCHANGED Alone(d)!vars
<1>1. UNCHANGED <<ctxDone, returned>>
  BY DEF Goroutine, Monitor, Timer, FirstPoll, StartPoll, PollReturns, RecordError, RecordSuccess,
         RecordDuration, BackToSelect, SelectTick, SelectDone, MonitorSeesCallDone,
         MonitorSeesShutdown, GraceExpires, MonitorCloses, CallDeadline, TickerFires
<1>2. /\ pc'[d] = pc[d] /\ ticker'[d] = ticker[d] /\ outcome'[d] = outcome[d]
      /\ pollNo'[d] = pollNo[d] /\ callCtx'[d] = callCtx[d] /\ monitor'[d] = monitor[d]
      /\ scrapeErrors'[d] = scrapeErrors[d] /\ lastSuccess'[d] = lastSuccess[d]
      /\ scrapeDuration'[d] = scrapeDuration[d]
  BY DEF Goroutine, Monitor, Timer, FirstPoll, StartPoll, PollReturns, RecordError, RecordSuccess,
         RecordDuration, BackToSelect, SelectTick, SelectDone, MonitorSeesCallDone,
         MonitorSeesShutdown, GraceExpires, MonitorCloses, CallDeadline, TickerFires,
         loopVars, selfMetrics, TypeOK
<1> QED
  BY <1>1, <1>2 DEF Only, Alone!vars, Alone!loopVars, Alone!selfMetrics

LEMMA AloneStep ==
  ASSUME NEW d \in Domains, TypeOK, [Next]_vars
  PROVE  [Alone(d)!Next]_(Alone(d)!vars)
<1>1. ASSUME NEW e \in Domains, Goroutine(e) \/ Monitor(e) \/ Timer(e)
      PROVE  [Alone(d)!Next]_(Alone(d)!vars)
  BY <1>1, AloneOwn, AloneOther
<1>2. CASE Shutdown
  <2>1. Alone(d)!Shutdown
    BY <1>2 DEF Shutdown, loopVars, selfMetrics, Only, Alone!Shutdown, Alone!loopVars,
       Alone!selfMetrics
  <2> QED
    BY <2>1 DEF Alone!Next
<1>3. CASE RunReturns
  <2>1. Alone(d)!RunReturns
    BY <1>3 DEF RunReturns, loopVars, selfMetrics, Only, Alone!RunReturns, Alone!loopVars,
       Alone!selfMetrics
  <2> QED
    BY <2>1 DEF Alone!Next
<1>4. CASE UNCHANGED vars
  BY <1>4 DEF vars, loopVars, selfMetrics, Only, Alone!vars, Alone!loopVars, Alone!selfMetrics
<1> QED
  BY <1>1, <1>2, <1>3, <1>4 DEF Next, Terminated

\* Each domain goes on as if Run had been given it alone, whatever the others
\* do: loops share the root context and Run's wait group only, so that a domain
\* that hangs or fails takes nothing from another (domain.go:41-56), and a
\* model of one domain says what there is to say of each of many.
THEOREM DomainsApart ==
  ASSUME NEW CONSTANT d \in Domains
  PROVE  Spec => Alone(d)!Spec
<1>1. Init => Alone(d)!Init
  BY DEF Init, Only, Alone!Init
<1>2. TypeOK /\ [Next]_vars => [Alone(d)!Next]_(Alone(d)!vars)
  BY AloneStep
<1> QED
  BY <1>1, <1>2, TypeCorrect, PTL DEF Spec, Alone!Spec
=============================================================================
