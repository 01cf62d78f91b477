----------------------------- MODULE Collector -----------------------------
(***************************************************************************)
(* internal/collector as a whole, for one domain: Runner, whose Poll is    *)
(* the one of MetricCache, call by call and gauge by gauge.                *)
(*                                                                         *)
(* A loop's tick or start begins a poll of the cache, the poll's return    *)
(* value is what the loop counts, and deadline, shutdown and grace reach   *)
(* the poll at whichever of its steps it is.  Once the context is done its *)
(* calls end, answered or not, as ApiCall has it; nothing else in Poll     *)
(* looks at the context.                                                   *)
(***************************************************************************)
EXTENDS Runner, Sequences

CONSTANTS Polls, Resources, Whole, MaxEpoch  \* as in MetricCache

ASSUME OneDomainAssumption == \E d \in Domains : Domains = {d}

VARIABLES
  poll, epoch, alive, reporting, step, resp, left, held, table, published,
  inPoll,      \* MetricCache's pc: what each Poll is doing
  publishedBy  \* history: number of the last poll to return nil

Cache == INSTANCE MetricCache WITH Loops <- Domains, pc <- inPoll

\* MetricCache's own assumption.
ASSUME CollectorCacheAssumption ==
  /\ \A p \in Polls : Cache!WellFormed(p)
  /\ Whole \notin Resources
  /\ MaxEpoch \in Nat \ {0}

storeVars     == <<poll, epoch, alive, reporting, step, resp, left, held, table, published,
                   inPoll, publishedBy>>
collectorVars == <<vars, storeVars>>

\* The values of the variables; and d.Poll runs just while its loop waits for it,
\* in the loop's own goroutine (domain.go:103).
CollectorTypeOK ==
  /\ TypeOK
  /\ Cache!CacheTypeOK
  /\ publishedBy \in Numbers
  /\ \A d \in Domains : inPoll[d] # "idle" <=> pc[d] = "polling"

CollectorInit == Init /\ Cache!CacheInit /\ publishedBy = 0

-----------------------------------------------------------------------------
\* poll calls d.Poll.
PollBegins(d) ==
  /\ FirstPoll(d) \/ SelectTick(d)
  /\ Cache!PollBegins(d)
  /\ UNCHANGED publishedBy

\* The next call of d.Poll is answered.
CallAnswered(d) ==
  /\ Cache!ListAnswered(d) \/ \E r \in Resources : Cache!DetailAnswered(d, r)
  /\ UNCHANGED <<vars, publishedBy>>

\* Mutant of CallFails: Poll asks everything again, for as long as it takes.
CallFailsAndRetries(d) ==
  /\ inPoll[d] = "fetching"
  /\ step' = [step EXCEPT ![d] = 0]
  /\ resp' = [resp EXCEPT ![d] = Cache!NoAnswers]
  /\ UNCHANGED <<vars, poll, epoch, alive, reporting, left, held, table, published,
                 inPoll, publishedBy>>

\* Mutant of CallFails: poll returns at the context's end, d.Poll goes on alone.
CallFailsAbandoned(d) ==
  /\ inPoll[d] = "fetching"
  /\ callCtx[d] # "live"
  /\ PollReturns(d)
  /\ outcome'[d] = "error"
  /\ UNCHANGED storeVars

\* Mutant of CallFails: the context's end stops Poll wherever it is.
CallFailsMidway(d) ==
  /\ \/ Cache!CallFails(d)
     \/ /\ callCtx[d] # "live" /\ inPoll[d] = "updating" /\ held[d] = Cache!NoGauge
        /\ Cache!Return(d)
        /\ UNCHANGED <<table, published>>
  /\ PollReturns(d)
  /\ outcome'[d] = "error"
  /\ UNCHANGED publishedBy

\* Mutant of CallFails: the error is logged, and nil returned.
CallFailsSilently(d) ==
  /\ Cache!CallFails(d)
  /\ PollReturns(d)
  /\ outcome'[d] = "nil"
  /\ UNCHANGED publishedBy

\* It fails, and with it d.Poll.
CallFails(d) ==
  /\ Cache!CallFails(d)
  /\ PollReturns(d)
  /\ outcome'[d] = "error"
  /\ UNCHANGED publishedBy

\* d.Poll writes the vecs.
Updates(d) ==
  /\ \/ Cache!UpdateBegins(d) \/ Cache!ResetVec(d)
     \/ \E s \in left[d] : Cache!GetGauge(d, s[1], s[2]) \/ Cache!SetGauge(d, s[1], s[2])
  /\ UNCHANGED <<vars, publishedBy>>

PollSucceeds(d) ==
  /\ Cache!PollReturnsNil(d)
  /\ PollReturns(d)
  /\ outcome'[d] = "nil"
  /\ publishedBy' = pollNo[d]

\* The steps of the loop and of its monitor that are not of d.Poll.
LoopStep(d) == RecordError(d) \/ RecordSuccess(d) \/ RecordDuration(d) \/ SelectDone(d)

Outside == \E d \in Domains : LoopStep(d) \/ Monitor(d) \/ Timer(d)

CollectorNext ==
  \/ \E d \in Domains :
       PollBegins(d) \/ CallAnswered(d) \/ CallFails(d) \/ Updates(d) \/ PollSucceeds(d)
  \/ Cache!AccountChanges /\ UNCHANGED <<vars, publishedBy>>
  \/ (Outside \/ Shutdown \/ RunReturns \/ Terminated) /\ UNCHANGED storeVars

CollectorSpec == CollectorInit /\ [][CollectorNext]_collectorVars

\* Runner's fairness, but of a Poll only what its calls and its code give: once
\* the context is done a call ends, and writing the vecs waits for nothing.
CollectorFairness ==
  /\ \A d \in Domains :
       /\ WF_collectorVars(FirstPoll(d) /\ PollBegins(d))
       /\ WF_collectorVars(SelectTick(d) /\ PollBegins(d))
       /\ WF_collectorVars(callCtx[d] # "live" /\ (CallAnswered(d) \/ CallFails(d)))
       /\ WF_collectorVars(Updates(d) \/ PollSucceeds(d))
       /\ WF_collectorVars((RecordError(d) \/ RecordSuccess(d) \/ RecordDuration(d)) /\ UNCHANGED storeVars)
       /\ SF_collectorVars(SelectDone(d) /\ UNCHANGED storeVars)
       /\ WF_collectorVars(Monitor(d) /\ UNCHANGED storeVars)
       /\ WF_collectorVars(CallDeadline(d) /\ UNCHANGED storeVars)
       /\ WF_collectorVars(TickerFires(d) /\ UNCHANGED storeVars)
  /\ WF_collectorVars(RunReturns /\ UNCHANGED storeVars)

CollectorFairSpec == CollectorSpec /\ CollectorFairness

-----------------------------------------------------------------------------
(* Properties.                                                             *)

\* Outside Poll, and so when Run has returned, the vecs hold one successful
\* poll's answers, whole: neither the deadline nor a forced cancel at shutdown
\* ever leaves them half written (plans/0001-v1-exporter.md:197-201).
WholeOutsidePolls ==
  \A d \in Domains : pc[d] # "polling" => table = Cache!Rendered(published)

\* Between polls last_success_timestamp is that of the very poll whose answers
\* the vecs hold, so that its age is the age of what is served (self.go).
TimestampOfServed ==
  \A d \in Domains : pc[d] = "select" => lastSuccess[d] = publishedBy

\* Runner's assumption of its Poll, that it returns once its context is done,
\* is what calls that end and code that does not wait amount to.
ImplementsRunner == FairSpec
=============================================================================
