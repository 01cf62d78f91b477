------------------------- MODULE RunnerTimedProofs -------------------------
(***************************************************************************)
(* Theorems about RunnerTimed, for any domains, timeouts and intervals.    *)
(***************************************************************************)
EXTENDS RunnerTimed, RunnerProofs

\* A running poll whose context is live still has its monitor.
PollWatched ==
  \A d \in Domains :
    pc[d] = "polling" /\ callCtx[d] = "live" => monitor[d] \in {"watching", "grace"}

\* The grace timer measures the overlap of poll and shutdown, from its start.
GraceMeasured ==
  /\ ~ctxDone => sinceDone = 0
  /\ \A d \in Domains :
       /\ monitor[d] = "watching" /\ ctxDone => Overlap(d) = 0
       /\ monitor[d] = "grace" => graceAge[d] = Overlap(d)

\* The same bounds after the join, where no time passes either.
PollsInTime ==
  \A d \in Domains : pc[d] \in {"polling", "joining", "timing"} =>
    /\ age[d] <= PollTimeout
    /\ ctxDone => Overlap(d) <= Grace

ClockInv == TimedTypeOK /\ PollWatched /\ GraceMeasured /\ PollsInTime /\ NotCutShort

-----------------------------------------------------------------------------
\* Every timed step is a step of Runner or leaves its variables alone.
LEMMA TimedStepIsStep == [TimedNext]_timedVars => [Next]_vars
  BY DEF TimedNext, TimedStep, PollStarts, PollEnds, Untimed, GraceStarts, GraceRunsOut,
         DeadlinePasses, TickerDue, Tick, Next, Goroutine, Monitor, Timer, timedVars

\* The clock only restricts Runner: what is proved of Runner holds with time.
THEOREM TimedImplementsRunner == TimedSpec => Spec
<1>1. TimedInit => Init
  BY DEF TimedInit
<1> QED
  BY <1>1, TimedStepIsStep, PTL DEF TimedSpec, Spec

-----------------------------------------------------------------------------
\* Clocks that tick stay within their bounds.
LEMMA OlderLemma ==
  ASSUME NEW n \in Nat, NEW bound \in Nat, n <= bound
  PROVE  Older(n, bound) \in Nat /\ Older(n, bound) <= bound
  BY DEF Older

LEMMA ClockInitInv == TimedInit => ClockInv
<1> SUFFICES ASSUME TimedInit
             PROVE  ClockInv
  OBVIOUS
<1>1. TimedTypeOK
  BY TimesAssumption DEF TimedInit, TimedTypeOK, AgeBound, DoneBound
<1> QED
  BY <1>1, TimesAssumption
  DEF TimedInit, Init, ClockInv, PollWatched, GraceMeasured, PollsInTime, NotCutShort, Overlap

LEMMA TimedTypeStep == TypeOK /\ TimedTypeOK /\ [TimedNext]_timedVars => TimedTypeOK'
<1> SUFFICES ASSUME TypeOK, TimedTypeOK, [TimedNext]_timedVars
             PROVE  TimedTypeOK'
  OBVIOUS
<1> USE TimesAssumption
<1>1. ASSUME NEW d \in Domains, PollStarts(d)  PROVE TimedTypeOK'
  BY <1>1 DEF PollStarts, TimedTypeOK, AgeBound
<1>2. ASSUME NEW d \in Domains, PollEnds(d)  PROVE TimedTypeOK'
  BY <1>2 DEF PollEnds, TimedTypeOK
<1>3. ASSUME NEW d \in Domains, GraceStarts(d)  PROVE TimedTypeOK'
  BY <1>3 DEF GraceStarts, TimedTypeOK
<1>4. ASSUME NEW d \in Domains, TickerDue(d)  PROVE TimedTypeOK'
  BY <1>4 DEF TickerDue, TimedTypeOK
<1>5. CASE UNCHANGED clocks
  BY <1>5 DEF clocks, TimedTypeOK
<1>6. CASE Tick
  <2>1. \A d \in Domains : age'[d] \in Nat /\ age'[d] <= AgeBound(d)
    BY <1>6, OlderLemma DEF Tick, TimedTypeOK, AgeBound
  <2>2. \A d \in Domains : graceAge'[d] \in 0 .. Grace
    BY <1>6 DEF Tick, TimedTypeOK, TimerDue, GraceOver
  <2>3. \A d \in Domains : tickIn'[d] \in Nat /\ tickIn'[d] <= Interval[d]
    BY <1>6 DEF Tick, TimedTypeOK, TimerDue, TickDue
  <2>4. sinceDone' \in 0 .. DoneBound
    BY <1>6, OlderLemma DEF Tick, TimedTypeOK, DoneBound
  <2> QED
    BY <1>6, <2>1, <2>2, <2>3, <2>4 DEF Tick, TimedTypeOK
<1> QED
  BY <1>1, <1>2, <1>3, <1>4, <1>5, <1>6
  DEF TimedNext, TimedStep, Untimed, GraceRunsOut, DeadlinePasses, timedVars

\* Time only passes over a domain that waits: for the API, or for its ticker.
LEMMA WaitingLemma ==
  ASSUME RunnerInv, ClockInv, Tick, NEW d \in Domains
  PROVE  /\ pc[d] \in {"polling", "select", "stopped"}
         /\ pc[d] = "polling" =>
              /\ callCtx[d] = "live"
              /\ age[d] < PollTimeout
              /\ ctxDone => monitor[d] = "grace" /\ graceAge[d] < Grace
         /\ pc[d] = "select" => ~ctxDone /\ ticker[d] # "full"
         /\ ticker[d] # "unset" => tickIn[d] > 0
         /\ monitor[d] \in {"none", "watching", "grace"}
         /\ monitor[d] # "none" => pc[d] = "polling"
<1> USE DEF RunnerInv, TypeOK, LoopStates, MonitorStates
<1>1. ~GoroutineReady(d) /\ ~MonitorReady(d) /\ ~TimerDue(d)
  BY DEF Tick
<1>2. pc[d] # "joining"
  BY <1>1 DEF GoroutineReady, MonitorReady, MonitorJoined, MonitorInv, JoinNeedsNoTimer
<1>3. pc[d] \in {"polling", "select", "stopped"}
  BY <1>1, <1>2 DEF GoroutineReady
<1>4. pc[d] = "polling" => callCtx[d] = "live" /\ age[d] # PollTimeout /\ monitor[d] \in {"watching", "grace"}
  BY <1>1 DEF GoroutineReady, TimerDue, DeadlineOver, ClockInv, PollWatched
<1>5. pc[d] = "polling" => age[d] < PollTimeout
  BY <1>4, TimesAssumption DEF ClockInv, PollsInTime, TimedTypeOK
<1>6. pc[d] = "polling" /\ ctxDone => monitor[d] = "grace" /\ graceAge[d] < Grace
  BY <1>1, <1>4, TimesAssumption DEF MonitorReady, TimerDue, GraceOver, ClockInv, TimedTypeOK
<1>7. ticker[d] # "unset" => tickIn[d] > 0
  BY <1>1, TimesAssumption DEF TimerDue, TickDue, ClockInv, TimedTypeOK
<1>8. monitor[d] # "none" => pc[d] = "polling"
  BY <1>3 DEF MonitorInv, MonitorWithinPoll
<1> QED
  BY <1>1, <1>3, <1>4, <1>5, <1>6, <1>7, <1>8 DEF GoroutineReady, MonitorReady

\* A unit of time for one domain that waits.
LEMMA TickLemma ==
  ASSUME RunnerInv, ClockInv, Tick, NEW d \in Domains
  PROVE  /\ pc[d] = "polling" => age'[d] = age[d] + 1
         /\ pc[d] = "polling" /\ ctxDone => Overlap(d)' = Overlap(d) + 1 /\ Overlap(d) < Grace
         /\ sinceDone <= sinceDone'
         /\ ~ctxDone => sinceDone' = 0
<1> USE TimesAssumption
<1>1. sinceDone \in 0 .. DoneBound /\ age[d] \in Nat
  BY DEF ClockInv, TimedTypeOK
<1>2. sinceDone <= sinceDone' /\ (~ctxDone => sinceDone' = 0)
  BY <1>1 DEF Tick, Older, DoneBound, ClockInv, GraceMeasured
<1>3. pc[d] = "polling" => age'[d] = age[d] + 1
  BY <1>1, WaitingLemma DEF Tick, Older, AgeBound
<1>4. ASSUME pc[d] = "polling", ctxDone
      PROVE  Overlap(d)' = Overlap(d) + 1 /\ Overlap(d) < Grace
  <2>1. Overlap(d) < Grace
    BY <1>4, WaitingLemma DEF ClockInv, GraceMeasured
  <2>2. sinceDone' = IF sinceDone < DoneBound THEN sinceDone + 1 ELSE sinceDone
    BY <1>4 DEF Tick, Older
  <2> QED
    BY <1>1, <1>3, <1>4, <2>1, <2>2 DEF Overlap, DoneBound
<1> QED
  BY <1>2, <1>3, <1>4

\* What the clocks are claimed to measure, besides their bounds.
Measured == PollWatched /\ GraceMeasured /\ PollsInTime /\ NotCutShort

\* A step that touches neither clocks, polls, contexts nor monitors.
LEMMA IdleStep ==
  ASSUME Measured, UNCHANGED <<ctxDone, pc, callCtx, monitor, age, graceAge, sinceDone>>
  PROVE  Measured'
  BY DEF Measured, PollWatched, GraceMeasured, PollsInTime, NotCutShort, Overlap

\* A unit of time.
LEMMA TickMeasures ==
  ASSUME RunnerInv, ClockInv, Tick
  PROVE  Measured'
<1>1. UNCHANGED <<ctxDone, pc, callCtx, monitor>>
  BY DEF Tick, vars, loopVars
<1>2. PollWatched'
  BY <1>1 DEF ClockInv, PollWatched
<1>3. GraceMeasured'
  <2>1. ASSUME NEW d \in Domains, monitor[d] = "grace"  PROVE graceAge'[d] = Overlap(d)'
    <3>1. pc[d] = "polling" /\ ctxDone
      BY <2>1, WaitingLemma DEF RunnerInv, MonitorInv, GraceAfterShutdown
    <3>2. Overlap(d)' = Overlap(d) + 1
      BY <3>1, TickLemma
    <3> QED
      BY <2>1, <3>2 DEF Tick, ClockInv, GraceMeasured
  <2>2. ASSUME NEW d \in Domains, monitor[d] = "watching"  PROVE ~ctxDone
    BY <2>2, WaitingLemma
  <2>3. ~ctxDone => sinceDone' = 0
    BY DEF Tick
  <2> QED
    BY <1>1, <2>1, <2>2, <2>3 DEF GraceMeasured
<1>4. PollsInTime'
  <2>1. ASSUME NEW d \in Domains, pc[d] \in {"polling", "joining", "timing"}
        PROVE  age'[d] <= PollTimeout /\ (ctxDone => Overlap(d)' <= Grace)
    <3>1. pc[d] = "polling" /\ age[d] < PollTimeout /\ age'[d] = age[d] + 1
      BY <2>1, WaitingLemma, TickLemma
    <3>2. age[d] \in Nat
      BY DEF ClockInv, TimedTypeOK
    <3>3. Overlap(d) \in Nat
      BY <3>2, TimesAssumption DEF Overlap, ClockInv, TimedTypeOK, DoneBound
    <3> QED
      BY <3>1, <3>2, <3>3, TickLemma, TimesAssumption
  <2> QED
    BY <1>1, <2>1 DEF PollsInTime
<1>5. NotCutShort'
  BY <1>1, WaitingLemma DEF NotCutShort
<1> QED
  BY <1>2, <1>3, <1>4, <1>5 DEF Measured

\* The clocks measure what they are meant to, step by step.
LEMMA ClockStep == RunnerInv /\ ClockInv /\ [TimedNext]_timedVars => ClockInv'
<1> SUFFICES ASSUME RunnerInv, ClockInv, [TimedNext]_timedVars
             PROVE  Measured'
  BY TimedTypeStep DEF RunnerInv, ClockInv, Measured
<1>0. TimedTypeOK' /\ TimedTypeOK
  BY TimedTypeStep DEF RunnerInv, ClockInv
<1>1. Measured
  BY DEF ClockInv, Measured
<1>2. CASE UNCHANGED <<ctxDone, pc, callCtx, monitor, age, graceAge, sinceDone>>
  BY <1>1, <1>2, IdleStep
<1>3. CASE RunReturns /\ UNCHANGED clocks
  BY <1>2, <1>3 DEF RunReturns, loopVars, clocks
<1>4. CASE UNCHANGED timedVars
  BY <1>2, <1>4 DEF timedVars, vars, loopVars, clocks
<1>5. CASE Tick
  BY <1>5, TickMeasures
<1>6. ASSUME NEW d \in Domains, TickerDue(d)  PROVE Measured'
  BY <1>2, <1>6 DEF TickerDue, TickerFires, vars, loopVars
<1> USE TimesAssumption, <1>1
        DEF RunnerInv, TypeOK, MonitorInv, Measured, PollWatched, GraceMeasured, PollsInTime,
            NotCutShort, selfMetrics, loopVars, clocks
<1>7. ASSUME NEW d \in Domains, PollStarts(d)  PROVE Measured'
  BY <1>0, <1>7 DEF PollStarts, FirstPoll, SelectTick, StartPoll, Overlap, TimedTypeOK
<1>8. ASSUME NEW d \in Domains, PollEnds(d)  PROVE Measured'
  BY <1>8 DEF PollEnds, RecordError, RecordDuration, BackToSelect, Overlap, MonitorJoined
<1>9. ASSUME NEW d \in Domains, GraceStarts(d)  PROVE Measured'
  BY <1>0, <1>9 DEF TimedTypeOK, GraceStarts, MonitorSeesShutdown, Overlap
<1>10. ASSUME NEW d \in Domains, GraceRunsOut(d)  PROVE Measured'
  BY <1>10 DEF GraceRunsOut, GraceOver, GraceExpires, Cancelled, Overlap
<1>11. ASSUME NEW d \in Domains, DeadlinePasses(d)  PROVE Measured'
  BY <1>0, <1>11 DEF DeadlinePasses, DeadlineOver, CallDeadline, Overlap, TimedTypeOK
<1>12. ASSUME NEW d \in Domains, PollReturns(d), UNCHANGED clocks  PROVE Measured'
  BY <1>12 DEF PollReturns, Overlap
<1>13. ASSUME NEW d \in Domains, RecordSuccess(d), UNCHANGED clocks  PROVE Measured'
  BY <1>13 DEF RecordSuccess, Overlap
<1>14. ASSUME NEW d \in Domains, SelectDone(d), UNCHANGED clocks  PROVE Measured'
  BY <1>14 DEF SelectDone, Overlap
<1>15. ASSUME NEW d \in Domains, MonitorSeesCallDone(d), UNCHANGED clocks  PROVE Measured'
  BY <1>15 DEF MonitorSeesCallDone, Overlap
<1>16. ASSUME NEW d \in Domains, MonitorCloses(d), UNCHANGED clocks  PROVE Measured'
  BY <1>16 DEF MonitorCloses, Overlap, GraceAfterShutdown
<1>17. CASE Shutdown /\ UNCHANGED clocks
  BY <1>0, <1>17
  DEF Shutdown, Overlap, TimedTypeOK, ForcedOnlyByShutdown, GraceAfterShutdown
<1> QED
  BY <1>3, <1>4, <1>5, <1>6, <1>7, <1>8, <1>9, <1>10, <1>11, <1>12, <1>13, <1>14, <1>15,
     <1>16, <1>17
  DEF TimedNext, TimedStep, Untimed, Terminated, timedVars

\* The clocks are right in every reachable state.
THEOREM ClockInvariance == TimedSpec => []ClockInv
<1>1. TimedInit => ClockInv
  BY ClockInitInv
<1>2. RunnerInv /\ ClockInv /\ [TimedNext]_timedVars => ClockInv'
  BY ClockStep
<1> QED
  BY <1>1, <1>2, TimedImplementsRunner, Invariance, PTL DEF TimedSpec

\* Clocks and counters keep their types.
THEOREM TimedTypeCorrect == TimedSpec => []TimedTypeOK
<1>1. ClockInv => TimedTypeOK
  BY DEF ClockInv
<1> QED
  BY <1>1, ClockInvariance, PTL

\* No poll outlasts pollTimeout, whatever the API does (domain.go:77-78).
THEOREM EveryPollIsBounded == TimedSpec => []PollBounded
<1>1. ClockInv => PollBounded
  BY DEF ClockInv, PollsInTime, PollBounded
<1> QED
  BY <1>1, ClockInvariance, PTL

\* No poll overlaps shutdown for longer than the grace (domain.go:78-80).
THEOREM GraceIsBounded == TimedSpec => []GraceBounded
<1>1. ClockInv => GraceBounded
  BY DEF ClockInv, PollsInTime, GraceBounded
<1> QED
  BY <1>1, ClockInvariance, PTL

\* No poll loses any of its deadline or of its grace (domain.go:60-62, 78-80).
THEOREM GraceIsGranted == TimedSpec => []NotCutShort
<1>1. ClockInv => NotCutShort
  BY DEF ClockInv
<1> QED
  BY <1>1, ClockInvariance, PTL

-----------------------------------------------------------------------------
(* Tickers: how polls follow one another, and how a loop stops.            *)

InPoll(d) == pc[d] \in {"polling", "joining", "timing"}

\* An unread tick is the only reason for a gap between polls to exceed the
\* interval, and it is read when the poll it found running ends.
GapsFollowTicker ==
  \A d \in Domains :
    /\ pc[d] = "start" => age[d] = 0 /\ pollNo[d] = 0 /\ sinceDone = 0 /\ ticker[d] = "unset"
    /\ pc[d] = "stopped" => ctxDone
    /\ InPoll(d) =>
         /\ ticker[d] = "unset" => pollNo[d] <= 1
         /\ ticker[d] = "empty" => age[d] + tickIn[d] <= Interval[d]
    /\ pc[d] = "select" =>
         /\ ticker[d] # "unset"
         /\ ticker[d] = "empty" =>
              \/ age[d] + tickIn[d] <= Interval[d]
              \/ pollNo[d] <= 1 /\ age[d] + tickIn[d] <= PollTimeout + Interval[d]
         /\ ticker[d] = "full" =>
              \/ age[d] <= Interval[d]
              \/ age[d] <= PollTimeout
              \/ pollNo[d] <= 1 /\ age[d] <= PollTimeout + Interval[d]

\* With an interval longer than pollTimeout a poll never meets a tick: those
\* that overlap shutdown began before it, and the loop stops right after.
NoTickDuringPoll ==
  \A d \in Domains : Interval[d] > PollTimeout =>
    /\ InPoll(d) =>
         /\ ctxDone => sinceDone <= age[d]
         /\ ticker[d] # "full"
         /\ ticker[d] = "empty" => age[d] + tickIn[d] = Interval[d]
    /\ pc[d] = "select" =>
         /\ ticker[d] = "full" => tickIn[d] = Interval[d]
         /\ ctxDone => sinceDone <= Grace
         /\ sinceDone > 0 => ticker[d] = "empty" /\ tickIn[d] > 0

TickerInv == GapsFollowTicker /\ NoTickDuringPoll

\* A step of a domain that touches neither its ticker nor any clock, and
\* leaves it where it was, in or out of a poll.
LEMMA TickerIdle ==
  ASSUME TickerInv, ctxDone' = ctxDone, UNCHANGED <<ticker, pollNo, age, tickIn, sinceDone>>,
         \A d \in Domains : pc'[d] = pc[d] \/ (InPoll(d) /\ InPoll(d)')
  PROVE  TickerInv'
  BY DEF TickerInv, GapsFollowTicker, NoTickDuringPoll, InPoll

LEMMA TickerTypes ==
  ASSUME RunnerInv, ClockInv
  PROVE  /\ PollTimeout \in Nat /\ Grace \in Nat /\ sinceDone \in Nat
         /\ ~ctxDone => sinceDone = 0
         /\ \A d \in Domains :
              /\ age[d] \in Nat /\ tickIn[d] \in Nat /\ Interval[d] \in Nat /\ Interval[d] > 0
              /\ tickIn[d] <= Interval[d] /\ pollNo[d] \in Nat
              /\ ticker[d] \in {"unset", "empty", "full"}
              /\ InPoll(d) => age[d] <= PollTimeout
              /\ InPoll(d) /\ ctxDone => age[d] <= Grace \/ sinceDone <= Grace
  BY TimesAssumption, MaxPollsAssumption
  DEF RunnerInv, TypeOK, TickerStates, Numbers, ClockInv, TimedTypeOK, DoneBound, PollsInTime,
      GraceMeasured, Overlap, InPoll

\* A poll begins: with the domain's first step, or with a tick just read.
LEMMA TickerAtStart ==
  ASSUME RunnerInv, ClockInv, TickerInv, NEW d \in Domains, PollStarts(d)
  PROVE  TickerInv'
<1>1. /\ pc' = [pc EXCEPT ![d] = "polling"]
      /\ age' = [age EXCEPT ![d] = 0]
      /\ pollNo' = [pollNo EXCEPT ![d] = Count(@)]
      /\ UNCHANGED <<ctxDone, tickIn, sinceDone>>
  BY DEF PollStarts, FirstPoll, SelectTick, StartPoll
<1>2. /\ pc \in [Domains -> LoopStates] /\ age \in [Domains -> Nat]
      /\ pollNo \in [Domains -> Numbers] /\ ticker \in [Domains -> TickerStates]
  BY DEF RunnerInv, TypeOK, ClockInv, TimedTypeOK
<1>3. \/ pc[d] = "start" /\ ticker' = ticker
      \/ pc[d] = "select" /\ ticker[d] = "full" /\ ticker' = [ticker EXCEPT ![d] = "empty"]
  BY DEF PollStarts, FirstPoll, SelectTick
<1>4. pc[d] = "start" => pollNo'[d] <= 1
  BY <1>1, <1>2 DEF TickerInv, GapsFollowTicker, Count
<1>5. GapsFollowTicker'
  BY <1>1, <1>2, <1>3, <1>4, TickerTypes DEF TickerInv, GapsFollowTicker, InPoll
<1>6. NoTickDuringPoll'
  BY <1>1, <1>2, <1>3, TickerTypes DEF TickerInv, GapsFollowTicker, NoTickDuringPoll, InPoll
<1> QED
  BY <1>5, <1>6 DEF TickerInv

\* A poll ends, the first one with a new ticker.
LEMMA TickerAtEnd ==
  ASSUME RunnerInv, ClockInv, TickerInv, NEW d \in Domains, PollEnds(d)
  PROVE  TickerInv'
<1>1. /\ pc' = [pc EXCEPT ![d] = "select"] /\ InPoll(d)
      /\ ticker' = [ticker EXCEPT ![d] = IF @ = "unset" THEN "empty" ELSE @]
      /\ tickIn' = [tickIn EXCEPT ![d] = IF ticker[d] = "unset" THEN Interval[d] ELSE @]
      /\ UNCHANGED <<ctxDone, pollNo, age, sinceDone>>
  BY DEF PollEnds, RecordError, RecordDuration, BackToSelect, InPoll
<1>2. /\ pc \in [Domains -> LoopStates] /\ tickIn \in [Domains -> Nat]
      /\ ticker \in [Domains -> TickerStates]
  BY DEF RunnerInv, TypeOK, ClockInv, TimedTypeOK
<1>3. GapsFollowTicker'
  BY <1>1, <1>2, TickerTypes DEF TickerInv, GapsFollowTicker, InPoll
<1>4. NoTickDuringPoll'
  BY <1>1, <1>2, TickerTypes DEF TickerInv, NoTickDuringPoll, InPoll
<1> QED
  BY <1>3, <1>4 DEF TickerInv

\* A ticker fires.
LEMMA TickerAtFire ==
  ASSUME RunnerInv, ClockInv, TickerInv, NEW d \in Domains, TickerDue(d)
  PROVE  TickerInv'
<1>1. /\ ticker[d] # "unset" /\ tickIn[d] = 0
      /\ tickIn' = [tickIn EXCEPT ![d] = Interval[d]]
      /\ ticker' = [ticker EXCEPT ![d] = "full"]
      /\ UNCHANGED <<ctxDone, pc, pollNo, age, sinceDone>>
  BY DEF TickerDue, TickDue, TickerFires, vars, loopVars, RunnerInv, TypeOK
<1>2. tickIn \in [Domains -> Nat] /\ ticker \in [Domains -> TickerStates]
  BY DEF RunnerInv, TypeOK, ClockInv, TimedTypeOK
<1>3. GapsFollowTicker'
  BY <1>1, <1>2, TickerTypes DEF TickerInv, GapsFollowTicker, InPoll
<1>4. NoTickDuringPoll'
  BY <1>1, <1>2, TickerTypes DEF TickerInv, NoTickDuringPoll, InPoll
<1> QED
  BY <1>3, <1>4 DEF TickerInv

\* A unit of time passes.
LEMMA TickerAtTick ==
  ASSUME RunnerInv, ClockInv, TickerInv, Tick
  PROVE  TickerInv'
<1>1. UNCHANGED <<ctxDone, pc, pollNo, ticker>>
  BY DEF Tick, vars, loopVars
<1>2. \A d \in Domains :
        /\ age'[d] \in Nat /\ age'[d] <= age[d] + 1
        /\ tickIn'[d] = IF ticker[d] = "unset" THEN tickIn[d] ELSE tickIn[d] - 1
        /\ InPoll(d) => age'[d] = age[d] + 1
  BY TickerTypes, TickLemma, WaitingLemma DEF Tick, Older, InPoll
<1>3. sinceDone' \in Nat /\ sinceDone' <= sinceDone + 1 /\ (~ctxDone => sinceDone' = 0)
  BY TickerTypes DEF Tick, Older
<1>4. \A d \in Domains : pc[d] # "start" /\ (pc[d] = "select" => ~ctxDone /\ ticker[d] # "full")
  BY WaitingLemma
<1>5. GapsFollowTicker'
  BY <1>1, <1>2, <1>3, <1>4, TickerTypes, WaitingLemma DEF TickerInv, GapsFollowTicker, InPoll
<1>6. NoTickDuringPoll'
  BY <1>1, <1>2, <1>3, <1>4, TickerTypes, WaitingLemma DEF TickerInv, NoTickDuringPoll, InPoll
<1> QED
  BY <1>5, <1>6 DEF TickerInv

\* The remaining steps move a domain within a poll, or out of its select.
LEMMA TickerStep == RunnerInv /\ ClockInv /\ TickerInv /\ [TimedNext]_timedVars => TickerInv'
<1> SUFFICES ASSUME RunnerInv, ClockInv, TickerInv, [TimedNext]_timedVars
             PROVE  TickerInv'
  OBVIOUS
<1>1. ASSUME NEW d \in Domains, SelectDone(d), UNCHANGED clocks  PROVE TickerInv'
  <2>1. /\ pc' = [pc EXCEPT ![d] = "stopped"] /\ ctxDone /\ pc \in [Domains -> LoopStates]
        /\ ticker' = [ticker EXCEPT ![d] = "unset"] /\ ticker \in [Domains -> TickerStates]
        /\ UNCHANGED <<ctxDone, pollNo, age, tickIn, sinceDone>>
    BY <1>1 DEF SelectDone, clocks, RunnerInv, TypeOK
  <2> QED
    BY <2>1 DEF TickerInv, GapsFollowTicker, NoTickDuringPoll, InPoll
<1>2. ASSUME NEW d \in Domains, PollReturns(d) \/ RecordSuccess(d), UNCHANGED clocks
      PROVE  TickerInv'
  <2>1. \A e \in Domains : pc'[e] = pc[e] \/ (InPoll(e) /\ InPoll(e)')
    BY <1>2 DEF PollReturns, RecordSuccess, InPoll, RunnerInv, TypeOK
  <2> QED
    BY <1>2, <2>1, TickerIdle DEF PollReturns, RecordSuccess, clocks
<1>3. ASSUME UNCHANGED <<ctxDone, pc, ticker, pollNo, age, tickIn, sinceDone>>
      PROVE  TickerInv'
  BY <1>3, TickerIdle
<1>4. ASSUME NEW d \in Domains,
             \/ (MonitorSeesCallDone(d) \/ MonitorCloses(d)) /\ UNCHANGED clocks
             \/ GraceStarts(d) \/ GraceRunsOut(d) \/ DeadlinePasses(d)
      PROVE  UNCHANGED <<ctxDone, pc, ticker, pollNo, age, tickIn, sinceDone>>
  BY <1>4 DEF MonitorSeesCallDone, MonitorCloses, GraceStarts, MonitorSeesShutdown, GraceRunsOut,
              GraceExpires, DeadlinePasses, CallDeadline, loopVars, clocks
<1>5. (RunReturns /\ UNCHANGED clocks) \/ UNCHANGED timedVars
        => UNCHANGED <<ctxDone, pc, ticker, pollNo, age, tickIn, sinceDone>>
  BY DEF RunReturns, timedVars, vars, loopVars, clocks
<1>6. ASSUME Shutdown, UNCHANGED clocks  PROVE TickerInv'
  <2>1. sinceDone = 0 /\ ctxDone' /\ UNCHANGED <<pc, ticker, pollNo, age, tickIn, sinceDone>>
    BY <1>6, TickerTypes DEF Shutdown, loopVars, clocks
  <2> QED
    BY <2>1, TickerTypes DEF TickerInv, GapsFollowTicker, NoTickDuringPoll, InPoll
<1> QED
  BY <1>1, <1>2, <1>3, <1>4, <1>5, <1>6, TickerAtStart, TickerAtEnd, TickerAtFire, TickerAtTick
  DEF TimedNext, TimedStep, Untimed, Terminated, timedVars

\* Tickers relate to polls as TickerInv says in every reachable state.
THEOREM TickerInvariance == TimedSpec => [](RunnerInv /\ ClockInv /\ TickerInv)
<1>1. TimedInit => TickerInv
  BY DEF TimedInit, Init, TickerInv, GapsFollowTicker, NoTickDuringPoll, InPoll
<1>2. RunnerInv /\ ClockInv /\ TickerInv /\ [TimedNext]_timedVars => TickerInv'
  BY TickerStep
<1> QED
  BY <1>1, <1>2, TimedImplementsRunner, Invariance, ClockInvariance, PTL DEF TimedSpec

\* Until shutdown a domain's polls follow one another at its interval, or at
\* the duration of a poll that takes longer (domain.go:63-75).
THEOREM CadenceIsKept == TimedSpec => []Cadence
<1>1. RunnerInv /\ ClockInv /\ TickerInv => Cadence
  <2> SUFFICES ASSUME RunnerInv, ClockInv, TickerInv
               PROVE  Cadence
    OBVIOUS
  <2>1. \A d \in Domains : pc[d] \in {"start", "select", "stopped"} \/ InPoll(d)
    BY DEF InPoll, RunnerInv, TypeOK, LoopStates
  <2>2. ASSUME NEW d \in Domains, ~ctxDone
        PROVE  /\ pollNo[d] <= 1 => age[d] <= PollTimeout + Interval[d]
               /\ pollNo[d] > 1 => age[d] <= PollTimeout \/ age[d] <= Interval[d]
    <3>1. CASE pc[d] = "start" \/ InPoll(d)
      BY <3>1, TickerTypes DEF TickerInv, GapsFollowTicker
    <3>2. CASE pc[d] = "select"
      BY <3>2, TickerTypes DEF TickerInv, GapsFollowTicker
    <3>3. pc[d] # "stopped"
      BY <2>2 DEF TickerInv, GapsFollowTicker
    <3> QED
      BY <2>1, <3>1, <3>2, <3>3
  <2> QED
    BY <2>2 DEF Cadence
<1> QED
  BY <1>1, TickerInvariance, PTL

\* A loop whose interval is longer than pollTimeout, as both of the default
\* ones are, stops within shutdownGrace (domain.go:60-75).
THEOREM LongIntervalsStopInTime == TimedSpec => []StopsWithinGrace
<1>1. RunnerInv /\ ClockInv /\ TickerInv => StopsWithinGrace
  <2> SUFFICES ASSUME RunnerInv, ClockInv, TickerInv, NEW d \in Domains,
                      Interval[d] > PollTimeout, ctxDone, sinceDone > Grace
               PROVE  pc[d] = "stopped"
    BY DEF StopsWithinGrace
  <2>1. pc[d] \in {"start", "select", "stopped"} \/ InPoll(d)
    BY DEF InPoll, RunnerInv, TypeOK, LoopStates
  <2>2. pc[d] # "start"
    BY TickerTypes DEF TickerInv, GapsFollowTicker
  <2>3. pc[d] # "select"
    BY TickerTypes DEF TickerInv, NoTickDuringPoll
  <2>4. ~InPoll(d)
    BY TickerTypes DEF TickerInv, NoTickDuringPoll
  <2> QED
    BY <2>1, <2>2, <2>3, <2>4
<1> QED
  BY <1>1, TickerInvariance, PTL
=============================================================================
