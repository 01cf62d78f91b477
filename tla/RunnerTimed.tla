---------------------------- MODULE RunnerTimed ----------------------------
(***************************************************************************)
(* Runner with a clock: pollTimeout, shutdownGrace and the intervals of    *)
(* internal/collector/domain.go:29-32 and 44-56 in whole units of time.    *)
(*                                                                         *)
(* Every step but Tick takes no time, and Tick waits until no goroutine    *)
(* and no timer has anything to do: the runtime is taken to schedule what  *)
(* is ready well within a unit.  Only a Poll whose context is live, that   *)
(* is to say one that waits for the API, may let time pass.                *)
(***************************************************************************)
EXTENDS Runner

CONSTANTS PollTimeout,  \* pollTimeout
          Grace,        \* shutdownGrace
          Interval      \* each domain's interval, picked by its tier

ASSUME TimesAssumption ==
  /\ PollTimeout \in Nat \ {0}
  /\ Grace \in Nat \ {0}
  /\ Interval \in [Domains -> Nat \ {0}]

VARIABLES
  age,        \* time since the domain's last poll began
  graceAge,   \* time since its monitor armed the grace timer
  tickIn,     \* time until its ticker fires next
  sinceDone   \* time since shutdown began

clocks    == <<age, graceAge, tickIn, sinceDone>>
timedVars == <<vars, clocks>>

\* Bounds: past these the clocks stand still, and no property reads further.
AgeBound(d) == PollTimeout + Interval[d] + 1
DoneBound   == Grace + 1
Older(n, bound) == IF n < bound THEN n + 1 ELSE n

\* The ranges of the clocks: a monitor never waits past its grace timer, and a
\* ticker for no longer than its interval (domain.go:46-51, 65, 91-97).
TimedTypeOK ==
  /\ age \in [Domains -> Nat]
  /\ graceAge \in [Domains -> 0 .. Grace]
  /\ tickIn \in [Domains -> Nat]
  /\ \A d \in Domains : age[d] <= AgeBound(d) /\ tickIn[d] <= Interval[d]
  /\ sinceDone \in 0 .. DoneBound

TimedInit ==
  /\ Init
  /\ age = [d \in Domains |-> 0]
  /\ graceAge = [d \in Domains |-> 0]
  /\ tickIn = [d \in Domains |-> Interval[d]]
  /\ sinceDone = 0

-----------------------------------------------------------------------------
PollStarts(d) ==
  /\ FirstPoll(d) \/ SelectTick(d)
  /\ age' = [age EXCEPT ![d] = 0]
  /\ UNCHANGED <<graceAge, tickIn, sinceDone>>

\* Mutant of PollEnds: the interval starts anew after every poll.
PollEndsRestarting(d) ==
  /\ RecordError(d) \/ RecordDuration(d)
  /\ tickIn' = [tickIn EXCEPT ![d] = Interval[d]]
  /\ UNCHANGED <<age, graceAge, sinceDone>>

\* After the first poll loop makes its ticker: the interval starts running then.
PollEnds(d) ==
  /\ RecordError(d) \/ RecordDuration(d)
  /\ tickIn' = [tickIn EXCEPT ![d] = IF ticker[d] = "unset" THEN Interval[d] ELSE @]
  /\ UNCHANGED <<age, graceAge, sinceDone>>

GraceStarts(d) ==
  /\ MonitorSeesShutdown(d)
  /\ graceAge' = [graceAge EXCEPT ![d] = 0]
  /\ UNCHANGED <<age, tickIn, sinceDone>>

\* Mutants of GraceOver: the monitor waits for pollTimeout, or for nothing.
GraceAsLongAsTimeout(d) == monitor[d] = "grace" /\ graceAge[d] = PollTimeout
GraceAtOnce(d) == monitor[d] = "grace"

GraceOver(d) == monitor[d] = "grace" /\ graceAge[d] = Grace

GraceRunsOut(d) ==
  /\ GraceOver(d)
  /\ GraceExpires(d)
  /\ UNCHANGED clocks

DeadlineLate(d) == callCtx[d] = "live" /\ age[d] = PollTimeout + 1  \* mutant of DeadlineOver

DeadlineOver(d) == callCtx[d] = "live" /\ age[d] = PollTimeout

DeadlinePasses(d) ==
  /\ DeadlineOver(d)
  /\ CallDeadline(d)
  /\ UNCHANGED clocks

TickDue(d) == ticker[d] # "unset" /\ tickIn[d] = 0

\* Mutant of TickerDue: every domain gets the same, short, interval.
TickerDueShort(d) ==
  /\ TickDue(d)
  /\ TickerFires(d) \/ (ticker[d] = "full" /\ UNCHANGED vars)
  /\ tickIn' = [tickIn EXCEPT ![d] = Grace]
  /\ UNCHANGED <<age, graceAge, sinceDone>>

\* A ticker fires every interval; the tick is lost if the last one is unread.
TickerDue(d) ==
  /\ TickDue(d)
  /\ TickerFires(d) \/ (ticker[d] = "full" /\ UNCHANGED vars)
  /\ tickIn' = [tickIn EXCEPT ![d] = Interval[d]]
  /\ UNCHANGED <<age, graceAge, sinceDone>>

\* The steps that no clock drives or follows.
Untimed(d) ==
  /\ \/ PollReturns(d) \/ RecordSuccess(d) \/ SelectDone(d)
     \/ MonitorSeesCallDone(d) \/ MonitorCloses(d)
  /\ UNCHANGED clocks

\* The domain has something to do now.
GoroutineReady(d) ==
  \/ pc[d] \in {"start", "timing"}
  \/ pc[d] = "polling" /\ callCtx[d] # "live"
  \/ pc[d] = "joining" /\ MonitorJoined(d)
  \/ pc[d] = "select" /\ (ctxDone \/ ticker[d] = "full")

MonitorReady(d) ==
  \/ monitor[d] = "closing"
  \/ monitor[d] # "none" /\ callCtx[d] # "live"
  \/ monitor[d] = "watching" /\ ctxDone

TimerDue(d) == DeadlineOver(d) \/ GraceOver(d) \/ TickDue(d)

\* One unit of time passes.
Tick ==
  /\ ~returned
  /\ \A d \in Domains : ~GoroutineReady(d) /\ ~MonitorReady(d) /\ ~TimerDue(d)
  /\ age' = [d \in Domains |-> Older(age[d], AgeBound(d))]
  /\ graceAge' = [d \in Domains |-> IF monitor[d] = "grace" THEN graceAge[d] + 1
                                    ELSE graceAge[d]]
  /\ tickIn' = [d \in Domains |-> IF ticker[d] = "unset" THEN tickIn[d] ELSE tickIn[d] - 1]
  /\ sinceDone' = IF ctxDone THEN Older(sinceDone, DoneBound) ELSE 0
  /\ UNCHANGED vars

TimedStep(d) ==
  \/ PollStarts(d) \/ PollEnds(d) \/ Untimed(d)
  \/ GraceStarts(d) \/ GraceRunsOut(d) \/ DeadlinePasses(d) \/ TickerDue(d)

TimedNext ==
  \/ \E d \in Domains : TimedStep(d)
  \/ (Shutdown \/ RunReturns \/ Terminated) /\ UNCHANGED clocks
  \/ Tick

TimedSpec == TimedInit /\ [][TimedNext]_timedVars

-----------------------------------------------------------------------------
(* Properties.                                                             *)

\* For how long shutdown and the current poll have overlapped.
Overlap(d) == IF age[d] < sinceDone THEN age[d] ELSE sinceDone

\* No poll outlasts pollTimeout, the join of its monitor included
\* (domain.go:77-78).
PollBounded ==
  \A d \in Domains : pc[d] \in {"polling", "joining"} => age[d] <= PollTimeout

\* A poll that overlaps shutdown ends within the grace, whichever of the two
\* came first (domain.go:78-80).
GraceBounded ==
  \A d \in Domains : pc[d] \in {"polling", "joining"} /\ ctxDone => Overlap(d) <= Grace

\* And no poll is cut short: one cancelled while it runs has had all of its
\* grace, or has no time left (domain.go:60-62, 78-80).
NotCutShort ==
  \A d \in Domains :
    /\ pc[d] = "polling" /\ callCtx[d] = "canceled" => Overlap(d) >= Grace
    /\ pc[d] = "polling" /\ callCtx[d] = "deadline" => age[d] >= PollTimeout

\* Until shutdown the polls of a domain begin at most an interval apart, or
\* a poll's longest duration if that is more; the ticker only starts after
\* the first poll, so that the second may take both (domain.go:64-65).
Cadence ==
  \A d \in Domains :
    /\ ~ctxDone /\ pollNo[d] <= 1 => age[d] <= PollTimeout + Interval[d]
    /\ ~ctxDone /\ pollNo[d] > 1  => age[d] <= PollTimeout \/ age[d] <= Interval[d]

\* Once shutdown has begun a loop may still start polls, for each tick it
\* finds in the channel.  With an interval longer than pollTimeout no tick
\* arrives during a poll, so that the loop stops within one grace of shutdown
\* (domain.go:60-75); with a shorter one nothing bounds it but chance.
StopsWithinGrace ==
  \A d \in Domains :
    Interval[d] > PollTimeout /\ ctxDone /\ sinceDone > Grace => pc[d] = "stopped"
=============================================================================
