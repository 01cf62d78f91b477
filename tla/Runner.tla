------------------------------- MODULE Runner -------------------------------
(***************************************************************************)
(* internal/collector/domain.go: Run, loop, poll and poll's monitor        *)
(* goroutine.                                                              *)
(*                                                                         *)
(* Every domain has a goroutine (pc) that polls once, then selects between *)
(* the root context and its ticker.  Every poll has a context of its own   *)
(* (callCtx), cut off by its deadline, by its monitor goroutine once       *)
(* shutdown has lasted the grace period, or by poll itself after Poll has  *)
(* returned.  No time here: a deadline, a grace timer or a ticker may fire *)
(* at any moment once it is armed.  RunnerTimed adds the clock.            *)
(***************************************************************************)
EXTENDS Naturals

CONSTANTS Domains,   \* the domains Run was given
          MaxPolls   \* bound: polls and errors are counted up to MaxPolls

ASSUME MaxPollsAssumption == MaxPolls \in Nat \ {0}

VARIABLES
  ctxDone,         \* the root context is cancelled: shutdown has begun
  pc,              \* where each domain's goroutine is
  callCtx,         \* the context of the domain's current, or last, poll
  monitor,         \* where that poll's monitor goroutine is; "none": monitorDone is closed
  ticker,          \* the ticker's channel, which holds at most one tick
  outcome,         \* what the last Poll call returned
  pollNo,          \* number of the current, or last, poll
  scrapeErrors,    \* runpod_exporter_scrape_errors_total
  lastSuccess,     \* runpod_exporter_last_success_timestamp_seconds, as a poll number
  scrapeDuration,  \* runpod_exporter_scrape_duration_seconds, as a poll number
  returned         \* Run has returned

selfMetrics == <<scrapeErrors, lastSuccess, scrapeDuration>>
loopVars    == <<pc, ticker, outcome, pollNo>>
vars        == <<ctxDone, loopVars, callCtx, monitor, selfMetrics, returned>>

-----------------------------------------------------------------------------
LoopStates    == {"start", "polling", "joining", "timing", "select", "stopped"}
MonitorStates == {"none", "watching", "grace", "closing"}
ContextStates == {"none", "live", "deadline", "canceled"}
TickerStates  == {"unset", "empty", "full"}
Results       == {"nil", "error"}
Numbers       == 0 .. MaxPolls

Count(n) == IF n < MaxPolls THEN n + 1 ELSE n

\* What each place of a loop says of its ticker and of the last Poll's result.
PlaceOK(d) ==
  /\ pc[d] \in {"start", "stopped"} => ticker[d] = "unset"
  /\ pc[d] = "select" => ticker[d] # "unset"
  /\ pc[d] \in {"joining", "select", "stopped"} => outcome[d] # "none"
  /\ pc[d] = "timing" => outcome[d] = "nil"

\* The values of the variables, and what a loop has at each of its places: a
\* ticker from its first select until it stops, a result once Poll has returned,
\* and success where it sets the duration (domain.go:63-75, 103-118).
TypeOK ==
  /\ ctxDone \in BOOLEAN
  /\ pc \in [Domains -> LoopStates]
  /\ callCtx \in [Domains -> ContextStates]
  /\ monitor \in [Domains -> MonitorStates]
  /\ ticker \in [Domains -> TickerStates]
  /\ outcome \in [Domains -> Results \cup {"none"}]
  /\ pollNo \in [Domains -> Numbers]
  /\ scrapeErrors \in [Domains -> Numbers]
  /\ lastSuccess \in [Domains -> Numbers]
  /\ scrapeDuration \in [Domains -> Numbers]
  /\ returned \in BOOLEAN
  /\ \A d \in Domains : PlaceOK(d)

\* Run has started one goroutine per domain; none has been scheduled yet.
Init ==
  /\ ctxDone = FALSE
  /\ pc = [d \in Domains |-> "start"]
  /\ callCtx = [d \in Domains |-> "none"]
  /\ monitor = [d \in Domains |-> "none"]
  /\ ticker = [d \in Domains |-> "unset"]
  /\ outcome = [d \in Domains |-> "none"]
  /\ pollNo = [d \in Domains |-> 0]
  /\ scrapeErrors = [d \in Domains |-> 0]
  /\ lastSuccess = [d \in Domains |-> 0]
  /\ scrapeDuration = [d \in Domains |-> 0]
  /\ returned = FALSE

-----------------------------------------------------------------------------
(* The domain's goroutine: loop, and poll as loop calls it.                *)

\* poll creates callCtx and starts the monitor, then calls d.Poll(callCtx).
StartPoll(d) ==
  /\ pc' = [pc EXCEPT ![d] = "polling"]
  /\ callCtx' = [callCtx EXCEPT ![d] = "live"]
  /\ monitor' = [monitor EXCEPT ![d] = "watching"]
  /\ pollNo' = [pollNo EXCEPT ![d] = Count(@)]
  /\ UNCHANGED <<ctxDone, outcome, selfMetrics, returned>>

\* Mutant of FirstPoll: loop waits for its ticker before it polls.
FirstPollWaits(d) ==
  /\ pc[d] = "start"
  /\ pc' = [pc EXCEPT ![d] = "select"]
  /\ ticker' = [ticker EXCEPT ![d] = "empty"]
  /\ UNCHANGED <<ctxDone, callCtx, monitor, outcome, pollNo, selfMetrics, returned>>

\* loop polls once before it looks at the context or at a ticker.
FirstPoll(d) ==
  /\ pc[d] = "start"
  /\ StartPoll(d)
  /\ UNCHANGED ticker

\* cancel() on a context: only the first cause is kept.
Cancelled(c) == IF c = "live" THEN "canceled" ELSE c

\* Mutant of PollReturns: cancel is only deferred, to after the join.
PollReturnsUncancelled(d) ==
  /\ pc[d] = "polling"
  /\ \E r \in Results : outcome' = [outcome EXCEPT ![d] = r]
  /\ pc' = [pc EXCEPT ![d] = "joining"]
  /\ UNCHANGED <<ctxDone, callCtx, monitor, ticker, pollNo, selfMetrics, returned>>

\* d.Poll returns, and poll cancels callCtx before it joins the monitor.
PollReturns(d) ==
  /\ pc[d] = "polling"
  /\ \E r \in Results : outcome' = [outcome EXCEPT ![d] = r]
  /\ callCtx' = [callCtx EXCEPT ![d] = Cancelled(@)]
  /\ pc' = [pc EXCEPT ![d] = "joining"]
  /\ UNCHANGED <<ctxDone, monitor, ticker, pollNo, selfMetrics, returned>>

MonitorNotJoined(d) == TRUE  \* mutant of MonitorJoined

\* poll's receive from monitorDone.
MonitorJoined(d) == monitor[d] = "none"

\* Mutant of BackToSelect: the ticker is never made.
BackToSelectTickless(d) ==
  /\ pc' = [pc EXCEPT ![d] = "select"]
  /\ UNCHANGED <<ctxDone, callCtx, monitor, ticker, outcome, pollNo, returned>>

\* poll returns to loop, which creates its ticker after the first poll.
BackToSelect(d) ==
  /\ pc' = [pc EXCEPT ![d] = "select"]
  /\ ticker' = [ticker EXCEPT ![d] = IF @ = "unset" THEN "empty" ELSE @]
  /\ UNCHANGED <<ctxDone, callCtx, monitor, outcome, pollNo, returned>>

\* Mutant of RecordError: no return after the error is counted.
RecordErrorGoesOn(d) ==
  /\ pc[d] = "joining"
  /\ MonitorJoined(d)
  /\ outcome[d] = "error"
  /\ scrapeErrors' = [scrapeErrors EXCEPT ![d] = Count(@)]
  /\ lastSuccess' = [lastSuccess EXCEPT ![d] = pollNo[d]]
  /\ pc' = [pc EXCEPT ![d] = "timing"]
  /\ UNCHANGED <<ctxDone, callCtx, monitor, ticker, outcome, pollNo, scrapeDuration, returned>>

RecordError(d) ==
  /\ pc[d] = "joining"
  /\ MonitorJoined(d)
  /\ outcome[d] = "error"
  /\ scrapeErrors' = [scrapeErrors EXCEPT ![d] = Count(@)]
  /\ BackToSelect(d)
  /\ UNCHANGED <<lastSuccess, scrapeDuration>>

\* The two gauges of a successful poll are set one after the other.
RecordSuccess(d) ==
  /\ pc[d] = "joining"
  /\ MonitorJoined(d)
  /\ outcome[d] = "nil"
  /\ lastSuccess' = [lastSuccess EXCEPT ![d] = pollNo[d]]
  /\ pc' = [pc EXCEPT ![d] = "timing"]
  /\ UNCHANGED <<ctxDone, callCtx, monitor, ticker, outcome, pollNo,
                 scrapeErrors, scrapeDuration, returned>>

RecordDuration(d) ==
  /\ pc[d] = "timing"
  /\ scrapeDuration' = [scrapeDuration EXCEPT ![d] = pollNo[d]]
  /\ BackToSelect(d)
  /\ UNCHANGED <<scrapeErrors, lastSuccess>>

\* loop's select: with both cases ready, either may be chosen.
SelectTick(d) ==
  /\ pc[d] = "select"
  /\ ticker[d] = "full"
  /\ ticker' = [ticker EXCEPT ![d] = "empty"]
  /\ StartPoll(d)

\* Mutant of SelectDone: no deferred Stop of the ticker.
SelectDoneTicking(d) ==
  /\ pc[d] = "select"
  /\ ctxDone
  /\ pc' = [pc EXCEPT ![d] = "stopped"]
  /\ UNCHANGED <<ctxDone, callCtx, monitor, ticker, outcome, pollNo, selfMetrics, returned>>

SelectOnlyTicks(d) == FALSE  \* mutant of SelectDone: no case for ctx.Done

SelectDone(d) ==
  /\ pc[d] = "select"
  /\ ctxDone
  /\ pc' = [pc EXCEPT ![d] = "stopped"]
  /\ ticker' = [ticker EXCEPT ![d] = "unset"]
  /\ UNCHANGED <<ctxDone, callCtx, monitor, outcome, pollNo, selfMetrics, returned>>

-----------------------------------------------------------------------------
(* The poll's monitor goroutine.                                           *)

\* Either select: callCtx is done, so the monitor returns and closes monitorDone.
MonitorSeesCallDone(d) ==
  /\ monitor[d] \in {"watching", "grace"}
  /\ callCtx[d] # "live"
  /\ monitor' = [monitor EXCEPT ![d] = "none"]
  /\ UNCHANGED <<ctxDone, loopVars, callCtx, selfMetrics, returned>>

\* Mutant of MonitorSeesShutdown: the grace timer starts with the poll.
MonitorWaitsForNothing(d) ==
  /\ monitor[d] = "watching"
  /\ monitor' = [monitor EXCEPT ![d] = "grace"]
  /\ UNCHANGED <<ctxDone, loopVars, callCtx, selfMetrics, returned>>

\* First select: shutdown has begun, so the monitor arms the grace timer.
MonitorSeesShutdown(d) ==
  /\ monitor[d] = "watching"
  /\ ctxDone
  /\ monitor' = [monitor EXCEPT ![d] = "grace"]
  /\ UNCHANGED <<ctxDone, loopVars, callCtx, selfMetrics, returned>>

\* Second select: the grace timer fires, and the monitor force-cancels the poll.
GraceExpires(d) ==
  /\ monitor[d] = "grace"
  /\ monitor' = [monitor EXCEPT ![d] = "closing"]
  /\ callCtx' = [callCtx EXCEPT ![d] = Cancelled(@)]
  /\ UNCHANGED <<ctxDone, loopVars, selfMetrics, returned>>

MonitorCloses(d) ==
  /\ monitor[d] = "closing"
  /\ monitor' = [monitor EXCEPT ![d] = "none"]
  /\ UNCHANGED <<ctxDone, loopVars, callCtx, selfMetrics, returned>>

-----------------------------------------------------------------------------
(* Timers, shutdown, and Run.                                              *)

NoCallDeadline(d) == FALSE  \* mutant of CallDeadline: WithCancel, not WithTimeout

\* callCtx's pollTimeout runs out.
CallDeadline(d) ==
  /\ callCtx[d] = "live"
  /\ callCtx' = [callCtx EXCEPT ![d] = "deadline"]
  /\ UNCHANGED <<ctxDone, loopVars, monitor, selfMetrics, returned>>

\* A tick that finds the channel full is dropped.
TickerFires(d) ==
  /\ ticker[d] = "empty"
  /\ ticker' = [ticker EXCEPT ![d] = "full"]
  /\ UNCHANGED <<ctxDone, pc, callCtx, monitor, outcome, pollNo, selfMetrics, returned>>

\* main cancels the root context on SIGINT or SIGTERM.
Shutdown ==
  /\ ~ctxDone
  /\ ctxDone' = TRUE
  /\ UNCHANGED <<loopVars, callCtx, monitor, selfMetrics, returned>>

\* wg.Wait: Run returns once every loop has.
RunReturns ==
  /\ ~returned
  /\ \A d \in Domains : pc[d] = "stopped"
  /\ returned' = TRUE
  /\ UNCHANGED <<ctxDone, loopVars, callCtx, monitor, selfMetrics>>

\* After Run has returned nothing is left to happen.
Terminated == returned /\ UNCHANGED vars

Goroutine(d) ==
  \/ FirstPoll(d) \/ PollReturns(d)
  \/ RecordError(d) \/ RecordSuccess(d) \/ RecordDuration(d)
  \/ SelectTick(d) \/ SelectDone(d)

Monitor(d) ==
  \/ MonitorSeesCallDone(d) \/ MonitorSeesShutdown(d)
  \/ GraceExpires(d) \/ MonitorCloses(d)

Timer(d) == CallDeadline(d) \/ TickerFires(d)

Next ==
  \/ \E d \in Domains : Goroutine(d) \/ Monitor(d) \/ Timer(d)
  \/ Shutdown
  \/ RunReturns
  \/ Terminated

Spec == Init /\ [][Next]_vars

-----------------------------------------------------------------------------
(* Fairness.  Goroutines that can run do run and armed timers fire.  Poll  *)
(* may hang for as long as its context lives, but every Poll passes that   *)
(* context to its HTTP requests, so it returns once the context is done.   *)
(* select picks uniformly among its ready cases, so a loop that finds the  *)
(* context done again and again ends up choosing that case.                *)

PollAborts(d) == callCtx[d] # "live" /\ PollReturns(d)

Fairness ==
  /\ \A d \in Domains :
       /\ WF_vars(FirstPoll(d)) /\ WF_vars(PollAborts(d))
       /\ WF_vars(RecordError(d) \/ RecordSuccess(d) \/ RecordDuration(d))
       /\ WF_vars(SelectTick(d)) /\ SF_vars(SelectDone(d))
       /\ WF_vars(Monitor(d))
       /\ WF_vars(CallDeadline(d)) /\ WF_vars(TickerFires(d))
  /\ WF_vars(RunReturns)

FairSpec == Spec /\ Fairness

-----------------------------------------------------------------------------
(* Properties.                                                             *)

\* A monitor goroutine never outlives the poll it belongs to: whenever the
\* domain's goroutine is outside poll, or past the join in it, there is none
\* (domain.go:85-87, "this goroutine can never outlive poll()").
MonitorWithinPoll ==
  \A d \in Domains : pc[d] \notin {"polling", "joining"} => monitor[d] = "none"

\* While poll waits for its monitor, callCtx is already done, so that the
\* monitor has a ready case and the join never waits for a timer
\* (domain.go:107, "unblock the monitor promptly").
JoinNeedsNoTimer ==
  \A d \in Domains : pc[d] = "joining" => callCtx[d] # "live"

\* Shutdown is the only reason for which a poll still running is cancelled
\* rather than timed out, and only its own monitor does it, after the grace
\* (domain.go:77-80; plans/0001-v1-exporter.md:237-243).
ForcedOnlyByShutdown ==
  \A d \in Domains :
    pc[d] = "polling" /\ callCtx[d] = "canceled" =>
      ctxDone /\ monitor[d] \in {"closing", "none"}

\* Between polls last_success_timestamp tells whether the last poll succeeded:
\* it is that poll's if it did and an earlier one's if it failed; and after a
\* success the duration is of that poll too (domain.go:110-118).  Of the duration
\* after a failure it says nothing: internal/metrics/self.go:23 has it "of the last
\* poll", the code leaves it.  Poll numbers are only distinct below the bound.
LastPollVisible ==
  \A d \in Domains :
    pc[d] = "select" /\ pollNo[d] < MaxPolls =>
      /\ outcome[d] = "nil" <=> lastSuccess[d] = pollNo[d]
      /\ outcome[d] = "nil" => scrapeDuration[d] = pollNo[d]

\* Once Run has returned nothing of it is left that could still happen: no loop,
\* no monitor, no ticker, and no context whose deadline is still to come
\* (domain.go:41-43, "It blocks until every domain's loop has stopped").
RunLeavesNothing ==
  [][returned => UNCHANGED <<loopVars, callCtx, monitor, selfMetrics, returned>>]_vars

\* Every poll ends and is recorded, even one whose request hangs
\* (domain.go:23-24, "one hung request can't wedge a domain's loop forever").
PollsEnd ==
  \A d \in Domains : pc[d] = "polling" ~> pc[d] = "select"

\* Until shutdown every domain is polled again and again.
PollsForever ==
  \A d \in Domains : []<>(pc[d] = "polling" \/ ctxDone)

\* Once shutdown has begun every loop stops and Run returns
\* (domain.go:41-43, "It blocks until every domain's loop has stopped").
RunEnds == ctxDone ~> returned

\* What plans/0001-v1-exporter.md:234 says of shutdown, "stop accepting new
\* ticks": no tick starts a poll once the root context is cancelled.
NoTickAfterShutdown ==
  [][\A d \in Domains : ctxDone /\ pc[d] = "select" => pc'[d] # "polling"]_vars
=============================================================================
