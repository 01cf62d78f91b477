-------------------------- MODULE CollectorProofs --------------------------
(* Theorems about Collector, for any Poll methods and any bounds. *)
EXTENDS Collector, RunnerProofs

\* MetricCache as Collector has it, together with what is proved of it.
CacheFacts == INSTANCE MetricCacheProofs WITH Loops <- Domains, pc <- inPoll

LEMMA CollectorStep == [CollectorNext]_collectorVars => [Next]_vars
<1> SUFFICES ASSUME [CollectorNext]_collectorVars
             PROVE  Next \/ UNCHANGED vars
  OBVIOUS
<1>1. ASSUME NEW d \in Domains, PollBegins(d)  PROVE Next
  BY <1>1 DEF PollBegins, Next, Goroutine
<1>2. ASSUME NEW d \in Domains, CallAnswered(d) \/ Updates(d)  PROVE UNCHANGED vars
  BY <1>2 DEF CallAnswered, Updates
<1>3. ASSUME NEW d \in Domains, CallFails(d) \/ PollSucceeds(d)  PROVE Next
  BY <1>3 DEF CallFails, PollSucceeds, Next, Goroutine
<1>4. CASE Cache!AccountChanges /\ UNCHANGED <<vars, publishedBy>>
  BY <1>4
<1>5. ASSUME Outside  PROVE Next
  BY <1>5 DEF Outside, LoopStep, Next, Goroutine
<1>6. CASE Shutdown \/ RunReturns \/ Terminated
  BY <1>6 DEF Next
<1>7. CASE UNCHANGED collectorVars
  BY <1>7 DEF collectorVars
<1> QED
  BY <1>1, <1>2, <1>3, <1>4, <1>5, <1>6, <1>7 DEF CollectorNext

\* With its polls call by call and gauge by gauge the collector is still the
\* one of Runner, so that Runner's theorems hold of it.
THEOREM CollectorRunsRunner == CollectorSpec => Spec
<1>1. CollectorInit => Init
  BY DEF CollectorInit
<1> QED
  BY <1>1, CollectorStep, PTL DEF CollectorSpec, Spec

\* publishedBy is what the success gauge holds, or is about to hold.
TimestampInv ==
  \A d \in Domains :
    publishedBy = IF pc[d] = "joining" /\ outcome[d] = "nil" THEN pollNo[d] ELSE lastSuccess[d]

LEMMA TimestampStep == TypeOK /\ TimestampInv /\ [CollectorNext]_collectorVars => TimestampInv'
<1> SUFFICES ASSUME TypeOK, TimestampInv, [CollectorNext]_collectorVars
             PROVE  TimestampInv'
  OBVIOUS
<1>1. PICK d \in Domains : Domains = {d}
  BY OneDomainAssumption
<1> DEFINE Holds == publishedBy = IF pc[d] = "joining" /\ outcome[d] = "nil"
                                    THEN pollNo[d] ELSE lastSuccess[d]
<1>2. Holds
  BY <1>1 DEF TimestampInv
<1>3. SUFFICES Holds'
  BY <1>1 DEF TimestampInv
<1>t. /\ outcome \in [Domains -> Results \cup {"none"}] /\ pc \in [Domains -> LoopStates]
      /\ pollNo \in [Domains -> Numbers] /\ lastSuccess \in [Domains -> Numbers]
  BY DEF TypeOK
<1>4. CASE PollBegins(d)
  BY <1>2, <1>t, <1>4 DEF PollBegins, FirstPoll, SelectTick, StartPoll, selfMetrics
<1>5. CASE \/ CallAnswered(d) \/ Updates(d)
           \/ Cache!AccountChanges /\ UNCHANGED <<vars, publishedBy>>
           \/ UNCHANGED collectorVars
  <2>1. UNCHANGED <<vars, publishedBy>>
    BY <1>5 DEF CallAnswered, Updates, collectorVars, storeVars
  <2> QED
    BY <1>2, <1>t, <2>1 DEF vars, loopVars, selfMetrics
<1>6. CASE CallFails(d)
  BY <1>2, <1>t, <1>6 DEF CallFails, PollReturns, selfMetrics
<1>7. CASE PollSucceeds(d)
  BY <1>2, <1>t, <1>7 DEF PollSucceeds, PollReturns, selfMetrics
<1>8. CASE LoopStep(d) /\ UNCHANGED storeVars
  <2>1. publishedBy' = publishedBy
    BY <1>8 DEF storeVars
  <2>2. CASE RecordError(d)
    BY <1>2, <1>t, <2>1, <2>2 DEF RecordError, BackToSelect
  <2>3. CASE RecordSuccess(d)
    BY <1>2, <1>t, <2>1, <2>3 DEF RecordSuccess
  <2>4. CASE RecordDuration(d)
    BY <1>2, <1>t, <2>1, <2>4 DEF RecordDuration, BackToSelect
  <2>5. CASE SelectDone(d)
    BY <1>2, <1>t, <2>1, <2>5 DEF SelectDone, selfMetrics
  <2> QED
    BY <1>8, <2>2, <2>3, <2>4, <2>5 DEF LoopStep
<1>9. CASE (Monitor(d) \/ Timer(d) \/ Shutdown \/ RunReturns \/ Terminated) /\ UNCHANGED storeVars
  <2>1. UNCHANGED <<pc, outcome, pollNo, lastSuccess, publishedBy>>
    BY <1>9 DEF storeVars, Monitor, MonitorSeesCallDone, MonitorSeesShutdown, GraceExpires,
                MonitorCloses, Timer, CallDeadline, TickerFires, Shutdown, RunReturns,
                Terminated, vars, loopVars, selfMetrics
  <2> QED
    BY <1>2, <1>t, <2>1
<1>10. \/ PollBegins(d) \/ CallAnswered(d) \/ CallFails(d) \/ Updates(d) \/ PollSucceeds(d)
       \/ Cache!AccountChanges /\ UNCHANGED <<vars, publishedBy>>
       \/ LoopStep(d) /\ UNCHANGED storeVars
       \/ (Monitor(d) \/ Timer(d) \/ Shutdown \/ RunReturns \/ Terminated) /\ UNCHANGED storeVars
       \/ UNCHANGED collectorVars
  <2>1. \A x \in Domains : x = d
    BY <1>1
  <2> QED
    BY <2>1, Zenon DEF CollectorNext, Outside
<1> QED
  BY <1>4, <1>5, <1>6, <1>7, <1>8, <1>9, <1>10

\* Between polls the success timestamp is that of the very poll whose answers
\* were published last (domain.go:110-117).
THEOREM TimestampIsOfServed == CollectorSpec => []TimestampOfServed
<1>1. CollectorInit => TimestampInv
  BY DEF CollectorInit, Init, TimestampInv
<1>2. TimestampInv => TimestampOfServed
  BY DEF TimestampInv, TimestampOfServed
<1> QED
  BY <1>1, <1>2, TimestampStep, CollectorRunsRunner, TypeCorrect, PTL DEF CollectorSpec

-----------------------------------------------------------------------------
(* The vecs between polls.                                                 *)

\* Cache and CacheFacts are one module's definitions under one substitution.
LEMMA SameCache ==
  /\ Cache!CacheInit => CacheFacts!CacheInit
  /\ [Cache!CacheNext]_(Cache!cacheVars) => [CacheFacts!CacheNext]_(CacheFacts!cacheVars)
  /\ CacheFacts!StaleServe => Cache!StaleServe
  /\ CacheFacts!CacheTypeOK => Cache!CacheTypeOK
  /\ CacheFacts!OneGeneration => Cache!OneGeneration
  /\ CacheFacts!NeverOlder => Cache!NeverOlder
  BY DEF
    Cache!CacheInit, CacheFacts!CacheInit, Cache!CacheNext, CacheFacts!CacheNext,
    Cache!cacheVars, CacheFacts!cacheVars, Cache!apiVars, CacheFacts!apiVars,
    Cache!loopVars, CacheFacts!loopVars, Cache!AccountChanges,
    CacheFacts!AccountChanges, Cache!Poll, CacheFacts!Poll, Cache!PollBegins,
    CacheFacts!PollBegins, Cache!ListAnswered, CacheFacts!ListAnswered,
    Cache!DetailAnswered, CacheFacts!DetailAnswered, Cache!CallFails,
    CacheFacts!CallFails, Cache!UpdateBegins, CacheFacts!UpdateBegins,
    Cache!ResetVec, CacheFacts!ResetVec, Cache!GetGauge, CacheFacts!GetGauge,
    Cache!SetGauge, CacheFacts!SetGauge, Cache!PollReturnsNil,
    CacheFacts!PollReturnsNil, Cache!Return, CacheFacts!Return, Cache!Detached,
    CacheFacts!Detached, Cache!IsNext, CacheFacts!IsNext, Cache!HalfDone,
    CacheFacts!HalfDone, Cache!Fetched, CacheFacts!Fetched, Cache!Listed,
    CacheFacts!Listed, Cache!Reporting, CacheFacts!Reporting, Cache!Now,
    CacheFacts!Now, Cache!Snapshots, CacheFacts!Snapshots, Cache!NoAnswer,
    CacheFacts!NoAnswer, Cache!NoAnswers, CacheFacts!NoAnswers, Cache!Answers,
    CacheFacts!Answers, Cache!Has, CacheFacts!Has, Cache!ToSet, CacheFacts!ToSet,
    Cache!Value, CacheFacts!Value, Cache!NothingSet, CacheFacts!NothingSet,
    Cache!Rendered, CacheFacts!Rendered, Cache!Absent, CacheFacts!Absent,
    Cache!Blank, CacheFacts!Blank, Cache!NoGauge, CacheFacts!NoGauge, Cache!Series,
    CacheFacts!Series, Cache!Columns, CacheFacts!Columns, Cache!VecOf,
    CacheFacts!VecOf, Cache!LoopOf, CacheFacts!LoopOf, Cache!CallOf,
    CacheFacts!CallOf, Cache!IsEach, CacheFacts!IsEach, Cache!IsVec,
    CacheFacts!IsVec, Cache!HasDetail, CacheFacts!HasDetail, Cache!Quiet,
    CacheFacts!Quiet, Cache!StaleServe, CacheFacts!StaleServe, Cache!CacheTypeOK,
    CacheFacts!CacheTypeOK, Cache!OneGeneration, CacheFacts!OneGeneration, Cache!NeverOlder,
    CacheFacts!NeverOlder

LEMMA CacheStep == [CollectorNext]_collectorVars => [Cache!CacheNext]_(Cache!cacheVars)
<1> SUFFICES ASSUME [CollectorNext]_collectorVars
             PROVE  Cache!CacheNext \/ UNCHANGED Cache!cacheVars
  OBVIOUS
<1>1. ASSUME NEW d \in Domains,
             PollBegins(d) \/ CallAnswered(d) \/ CallFails(d) \/ Updates(d) \/ PollSucceeds(d)
      PROVE  Cache!CacheNext
  BY <1>1 DEF PollBegins, CallAnswered, CallFails, Updates, PollSucceeds, Cache!CacheNext,
              Cache!Poll
<1>2. CASE Cache!AccountChanges
  BY <1>2 DEF Cache!CacheNext
<1>3. CASE UNCHANGED storeVars
  BY <1>3 DEF storeVars, Cache!cacheVars, Cache!apiVars, Cache!loopVars
<1> QED
  BY <1>1, <1>2, <1>3 DEF CollectorNext, collectorVars

\* What the polls do to the vecs is what MetricCache has of them, with one loop,
\* whatever loop, monitor and timers do meanwhile (pod.go:23-40).
THEOREM CollectorRunsCache == CollectorSpec => Cache!CacheSpec
<1>1. CollectorInit => Cache!CacheInit
  BY DEF CollectorInit
<1> QED
  BY <1>1, CacheStep, PTL DEF CollectorSpec, Cache!CacheSpec

LEMMA SameForward == CacheFacts!ServedForward => Cache!ServedForward
  BY PTL DEF Cache!ServedForward, CacheFacts!ServedForward, Cache!Moments, CacheFacts!Moments,
             Cache!cacheVars, CacheFacts!cacheVars, Cache!apiVars, CacheFacts!apiVars,
             Cache!loopVars, CacheFacts!loopVars

LEMMA CacheHolds ==
  CollectorSpec =>
    /\ [](Cache!CacheTypeOK /\ Cache!StaleServe /\ Cache!OneGeneration /\ Cache!NeverOlder)
    /\ Cache!ServedForward
<1>1. CacheFacts!OneLoop
  BY OneDomainAssumption DEF CacheFacts!OneLoop
<1>2. /\ \A p \in Polls : CacheFacts!WellFormed(p)
      /\ Whole \notin Resources
      /\ MaxEpoch \in Nat \ {0}
  BY CollectorCacheAssumption DEF Cache!WellFormed, CacheFacts!WellFormed
<1>3. CacheFacts!CacheSpec =>
        /\ []CacheFacts!CacheTypeOK /\ []CacheFacts!StaleServe
        /\ []CacheFacts!OneGeneration /\ []CacheFacts!NeverOlder
        /\ CacheFacts!ServedForward
  BY <1>1, <1>2, CacheFacts!CacheTypeCorrect, CacheFacts!StaleIsServed, CacheFacts!NeverMixed,
     CacheFacts!ShowsNothingOlder, CacheFacts!GoesForward, PTL
<1>4. Cache!CacheInit => CacheFacts!CacheInit
  BY SameCache
<1>5. [Cache!CacheNext]_(Cache!cacheVars) => [CacheFacts!CacheNext]_(CacheFacts!cacheVars)
  BY SameCache
<1>6. /\ CacheFacts!CacheTypeOK => Cache!CacheTypeOK
      /\ CacheFacts!StaleServe => Cache!StaleServe
      /\ CacheFacts!OneGeneration => Cache!OneGeneration
      /\ CacheFacts!NeverOlder => Cache!NeverOlder
  BY SameCache
<1> QED
  BY <1>3, <1>4, <1>5, <1>6, SameForward, CollectorRunsCache, PTL DEF Cache!CacheSpec, CacheFacts!CacheSpec

\* No family ever shows data of two polls, nor any older than what the last
\* successful poll found, and no poll replaces what is served by older answers,
\* in the collector as a whole: a deadline, a forced cancel or a missed tick
\* makes no difference to that (serverless.go:20-47).
THEOREM FamiliesStayWhole ==
  CollectorSpec => [](Cache!OneGeneration /\ Cache!NeverOlder) /\ Cache!ServedForward
  BY CacheHolds, PTL

\* A Poll is under way just when its loop is in it.
InStep == \A d \in Domains : inPoll[d] # "idle" <=> pc[d] = "polling"

LEMMA InStepStep ==
  TypeOK /\ Cache!CacheTypeOK /\ InStep /\ [CollectorNext]_collectorVars => InStep'
<1> SUFFICES ASSUME TypeOK, Cache!CacheTypeOK, InStep, [CollectorNext]_collectorVars
             PROVE  InStep'
  OBVIOUS
<1>t. /\ pc \in [Domains -> LoopStates]
      /\ inPoll \in [Domains -> {"idle", "fetching", "updating"}]
  BY DEF TypeOK, Cache!CacheTypeOK
<1>1. ASSUME NEW d \in Domains, PollBegins(d)  PROVE InStep'
  <2>1. pc' = [pc EXCEPT ![d] = "polling"] /\ inPoll' = [inPoll EXCEPT ![d] = "fetching"]
    BY <1>1 DEF PollBegins, FirstPoll, SelectTick, StartPoll, Cache!PollBegins
  <2> QED
    BY <1>t, <2>1 DEF InStep
<1>2. ASSUME NEW d \in Domains, CallAnswered(d) \/ Updates(d)  PROVE InStep'
  <2>1. /\ pc' = pc
        /\ \/ inPoll' = inPoll
           \/ inPoll[d] = "fetching" /\ inPoll' = [inPoll EXCEPT ![d] = "updating"]
    BY <1>2 DEF CallAnswered, Updates, vars, loopVars, Cache!ListAnswered, Cache!DetailAnswered,
                Cache!UpdateBegins, Cache!ResetVec, Cache!GetGauge, Cache!SetGauge
  <2> QED
    BY <1>t, <2>1 DEF InStep
<1>3. ASSUME NEW d \in Domains, CallFails(d) \/ PollSucceeds(d)  PROVE InStep'
  <2>1. pc' = [pc EXCEPT ![d] = "joining"] /\ inPoll' = [inPoll EXCEPT ![d] = "idle"]
    BY <1>3 DEF CallFails, PollSucceeds, PollReturns, Cache!CallFails, Cache!PollReturnsNil,
                Cache!Return
  <2> QED
    BY <1>t, <2>1 DEF InStep
<1>4. CASE Cache!AccountChanges /\ UNCHANGED <<vars, publishedBy>>
  <2>1. UNCHANGED <<pc, inPoll>>
    BY <1>4 DEF vars, loopVars, Cache!AccountChanges, Cache!loopVars
  <2> QED
    BY <2>1 DEF InStep
<1>5. ASSUME NEW d \in Domains, LoopStep(d), UNCHANGED storeVars  PROVE InStep'
  <2>1. /\ inPoll' = inPoll
        /\ pc[d] # "polling"
        /\ \E to \in {"select", "timing", "stopped"} : pc' = [pc EXCEPT ![d] = to]
    BY <1>5 DEF storeVars, LoopStep, RecordError, RecordSuccess, RecordDuration, SelectDone,
                BackToSelect
  <2> QED
    BY <1>t, <2>1 DEF InStep
<1>6. CASE \/ UNCHANGED collectorVars
           \/ /\ (\E d \in Domains : Monitor(d) \/ Timer(d)) \/ Shutdown \/ RunReturns \/ Terminated
              /\ UNCHANGED storeVars
  <2>1. UNCHANGED <<pc, inPoll>>
    BY <1>6 DEF collectorVars, storeVars, Monitor, MonitorSeesCallDone, MonitorSeesShutdown,
                GraceExpires, MonitorCloses, Timer, CallDeadline, TickerFires, Shutdown,
                RunReturns, Terminated, vars, loopVars
  <2> QED
    BY <2>1 DEF InStep
<1> QED
  BY <1>1, <1>2, <1>3, <1>4, <1>5, <1>6 DEF CollectorNext, Outside

\* Whenever no Poll runs the vecs hold one successful poll's answers, whole,
\* however the last poll ended (domain.go:88-107, pod.go:23-40).
THEOREM VecsWholeOutsidePolls == CollectorSpec => []WholeOutsidePolls
<1>1. CollectorInit => InStep
  BY DEF CollectorInit, Init, InStep, Cache!CacheInit
<1>2. Cache!StaleServe /\ InStep => WholeOutsidePolls
  <2> SUFFICES ASSUME Cache!StaleServe, InStep, NEW d \in Domains, pc[d] # "polling"
               PROVE  table = Cache!Rendered(published)
    BY DEF WholeOutsidePolls
  <2>1. Cache!Quiet
    BY OneDomainAssumption DEF InStep, Cache!Quiet
  <2> QED
    BY <2>1 DEF Cache!StaleServe
<1> QED
  BY <1>1, <1>2, InStepStep, CacheHolds, CollectorRunsRunner, TypeCorrect, PTL DEF CollectorSpec

\* Every variable keeps its type, and a Poll runs just when its loop says so.
THEOREM CollectorTypeCorrect == CollectorSpec => []CollectorTypeOK
<1>1. CollectorInit => InStep /\ TimestampInv
  BY DEF CollectorInit, Init, InStep, TimestampInv, Cache!CacheInit
<1>2. TypeOK /\ Cache!CacheTypeOK /\ TimestampInv /\ InStep => CollectorTypeOK
  <2> SUFFICES ASSUME TypeOK, Cache!CacheTypeOK, TimestampInv, InStep
               PROVE  publishedBy \in Numbers
    BY DEF CollectorTypeOK, InStep
  <2>1. PICK d \in Domains : Domains = {d}
    BY OneDomainAssumption
  <2> QED
    BY <2>1 DEF TimestampInv, TypeOK
<1> QED
  BY <1>1, <1>2, InStepStep, TimestampStep, CacheHolds, CollectorRunsRunner, TypeCorrect, PTL
     DEF CollectorSpec
=============================================================================
