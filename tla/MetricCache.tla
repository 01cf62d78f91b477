---------------------------- MODULE MetricCache ----------------------------
(***************************************************************************)
(* Poll-cache-serve: what a Poll method of internal/collector does to its  *)
(* vecs of internal/metrics, and what /metrics can find there meanwhile.   *)
(*                                                                         *)
(* Every Poll first makes all its API calls, returning an error as soon as *)
(* one fails; then resets the domain's vecs; then creates and sets gauge   *)
(* after gauge.  DomainPolls says which.  A vec hands its series out under *)
(* its lock, so a scrape shows of it what table has of it at some moment.  *)
(* A value is the age of the data: the epoch of the API it is of.  The     *)
(* order of the resources in an answer is left open.                       *)
(*                                                                         *)
(* Loops are the goroutines that poll the domain: one, or more when        *)
(* --domains names it more than once.                                      *)
(***************************************************************************)
EXTENDS Integers, Sequences

CONSTANTS Polls,      \* what the Poll methods do, as in DomainPolls
          Loops,      \* goroutines that poll the domain
          Resources,  \* the pods, endpoints, registries... of the account
          Whole,      \* key of a gauge that is of the account as a whole
          MaxEpoch    \* bound: changes of the account

\* Every column is of a loop over some call's answer, those of one vec are
\* told apart by their labels, and a plain gauge, one that is never reset, is
\* a single column that is set once.  Details are of one resource each.
WellFormed(p) ==
  /\ p.calls \in Seq([op : STRING, params : SUBSET STRING]) \ {<<>>}
  /\ p.resets \in Seq(STRING)
  /\ p.loops \in Seq([call : DOMAIN p.calls, each : BOOLEAN])
  /\ p.columns \in Seq([loop : 1 .. Len(p.loops), vec : STRING, label : STRING])
  /\ \A i, j \in DOMAIN p.columns :
       p.columns[i].vec = p.columns[j].vec /\ p.columns[i].label = p.columns[j].label => i = j
  /\ \A j \in DOMAIN p.columns :
       \/ \E i \in DOMAIN p.resets : p.resets[i] = p.columns[j].vec
       \/ /\ ~p.loops[p.columns[j].loop].each
          /\ \A i \in DOMAIN p.columns : p.columns[i].vec = p.columns[j].vec => i = j
  /\ \A j \in DOMAIN p.columns : p.columns[j].vec \in p.detailed => p.loops[p.columns[j].loop].each

ASSUME CacheAssumption ==
  /\ \A p \in Polls : WellFormed(p)
  /\ Whole \notin Resources
  /\ MaxEpoch \in Nat \ {0}

VARIABLES
  poll,       \* the domain's Poll method
  epoch,      \* the API: number of the account's current state
  alive,      \* the resources that exist in it
  reporting,  \* those that report their optional data
  pc,         \* what each loop is doing
  step,       \* list calls of its poll that were answered, then vecs it has reset
  resp,       \* the answers
  left,       \* gauges it has yet to set
  held,       \* the gauge that WithLabelValues has returned to it
  table,      \* the vecs
  published   \* history: the answers of the last poll to return nil

apiVars   == <<epoch, alive, reporting>>
loopVars  == <<pc, step, resp, left, held>>
cacheVars == <<poll, apiVars, loopVars, table, published>>

-----------------------------------------------------------------------------
(* The gauges of a Poll, and what answers make of them.                    *)

Absent == -1  \* no such series
Blank  == 0   \* a series just created, or a plain gauge, not set yet

Columns     == DOMAIN poll.columns
VecOf(j)    == poll.columns[j].vec
LoopOf(j)   == poll.columns[j].loop
CallOf(j)   == poll.loops[LoopOf(j)].call
IsEach(j)   == poll.loops[LoopOf(j)].each
IsVec(j)    == \E i \in DOMAIN poll.resets : poll.resets[i] = VecOf(j)
HasDetail   == poll.detailed # {}

\* A series is a column and the resource it is of.
Series == {s \in Columns \X (Resources \cup {Whole}) : IsEach(s[1]) <=> s[2] # Whole}

\* Data of the account at some moment; epoch 0: not asked yet.
Snapshots == [epoch : 0 .. MaxEpoch, alive : SUBSET Resources, reporting : SUBSET Resources]
Now       == [epoch |-> epoch, alive |-> alive, reporting |-> reporting]
NoAnswer  == [epoch |-> 0, alive |-> {}, reporting |-> {}]

\* What a Poll has fetched: an answer per list call, and one per resource.
Answers   == [list : [DOMAIN poll.calls -> Snapshots], detail : [Resources -> 0 .. MaxEpoch]]
NoAnswers == [list   |-> [c \in DOMAIN poll.calls |-> NoAnswer],
              detail |-> [r \in Resources |-> 0]]

\* The gauges a Poll sets once it has these answers, and to what.
Has(answer, vec) == IF vec \in poll.optional THEN answer.reporting ELSE answer.alive

ToSet(answers) ==
  {s \in Series : s[2] # Whole => s[2] \in Has(answers.list[CallOf(s[1])], VecOf(s[1]))}

Value(answers, j, k) ==
  IF VecOf(j) \in poll.detailed THEN answers.detail[k] ELSE answers.list[CallOf(j)].epoch

\* Plain gauges are there from the start, at 0.
NothingSet == [s \in Series |-> IF IsVec(s[1]) THEN Absent ELSE Blank]

\* Resources the answer to the list call has: a detailed Poll asks for each.
Listed(answers) == answers.list[1].alive

Fetched(l) ==
  /\ step[l] = Len(poll.calls)
  /\ HasDetail => \A r \in Listed(resp[l]) : resp[l].detail[r] > 0

NoGauge == [series |-> <<>>, attached |-> FALSE]

\* Without an optional vec nobody looks at what is reported.
Reporting(resources) == IF poll.optional = {} THEN {{}} ELSE SUBSET resources

CacheTypeOK ==
  /\ poll \in Polls
  /\ epoch \in 1 .. MaxEpoch
  /\ alive \in SUBSET Resources
  /\ reporting \in SUBSET alive
  /\ pc \in [Loops -> {"idle", "fetching", "updating"}]
  /\ step \in [Loops -> Nat]
  /\ \A l \in Loops :
       step[l] <= IF pc[l] = "updating" THEN Len(poll.resets) ELSE Len(poll.calls)
  /\ resp \in [Loops -> Answers]
  /\ left \in [Loops -> SUBSET Series]
  /\ held \in [Loops -> [series : Series, attached : BOOLEAN] \cup {NoGauge}]
  /\ table \in [Series -> {Absent, Blank} \cup 1 .. MaxEpoch]
  /\ published \in Answers

CacheInit ==
  /\ poll \in Polls
  /\ epoch = 1
  /\ alive \in SUBSET Resources
  /\ reporting \in Reporting(alive)
  /\ pc = [l \in Loops |-> "idle"]
  /\ step = [l \in Loops |-> 0]
  /\ resp = [l \in Loops |-> NoAnswers]
  /\ left = [l \in Loops |-> {}]
  /\ held = [l \in Loops |-> NoGauge]
  /\ table = NothingSet
  /\ published = NoAnswers

-----------------------------------------------------------------------------
\* Resources come and go, start and cease to report, or just change; nobody
\* looks unless a poll is asking.
AccountChanges ==
  /\ epoch < MaxEpoch
  /\ \E l \in Loops : pc[l] = "fetching"
  /\ epoch' = epoch + 1
  /\ alive' \in SUBSET Resources
  /\ reporting' \in Reporting(alive')
  /\ UNCHANGED <<poll, loopVars, table, published>>

PollBegins(l) ==
  /\ pc[l] = "idle"
  /\ pc' = [pc EXCEPT ![l] = "fetching"]
  /\ UNCHANGED <<poll, apiVars, step, resp, left, held, table, published>>

\* Mutant of ListAnswered: the last call is not taken for the last.
ListAnsweredAgain(l) ==
  /\ pc[l] = "fetching"
  /\ step' = [step EXCEPT ![l] = @ + 1]
  /\ UNCHANGED <<poll, apiVars, pc, resp, left, held, table, published>>

\* The next list call is answered with a 200.
ListAnswered(l) ==
  /\ pc[l] = "fetching"
  /\ step[l] < Len(poll.calls)
  /\ step' = [step EXCEPT ![l] = @ + 1]
  /\ resp' = [resp EXCEPT ![l].list[step'[l]] = Now]
  /\ UNCHANGED <<poll, apiVars, pc, left, held, table, published>>

\* And so is a call for one of the resources just listed.
DetailAnswered(l, r) ==
  /\ pc[l] = "fetching"
  /\ HasDetail
  /\ step[l] = Len(poll.calls)
  /\ r \in Listed(resp[l])
  /\ resp[l].detail[r] = 0
  /\ resp' = [resp EXCEPT ![l].detail[r] = epoch]
  /\ UNCHANGED <<poll, apiVars, pc, step, left, held, table, published>>

\* Mutant of Return: the answers are kept for the next poll.
ReturnKeepingAnswers(l) ==
  /\ pc' = [pc EXCEPT ![l] = "idle"]
  /\ step' = [step EXCEPT ![l] = 0]
  /\ UNCHANGED <<poll, apiVars, resp, left, held>>

\* Poll returns, and with it go its local variables.
Return(l) ==
  /\ pc' = [pc EXCEPT ![l] = "idle"]
  /\ step' = [step EXCEPT ![l] = 0]
  /\ resp' = [resp EXCEPT ![l] = NoAnswers]
  /\ UNCHANGED <<poll, apiVars, left, held>>

\* Mutant of CallFails: the vecs are reset before the calls, not after them.
CallFailsBlank(l) ==
  /\ pc[l] = "fetching"
  /\ ~Fetched(l)
  /\ Return(l)
  /\ table' = NothingSet
  /\ UNCHANGED published

\* A call fails, is not answered with a 200, or meets the end of its context:
\* Poll returns an error, and touches no vec.
CallFails(l) ==
  /\ pc[l] = "fetching"
  /\ ~Fetched(l)
  /\ Return(l)
  /\ UNCHANGED <<table, published>>

\* All answers are there: from here on Poll cannot fail.
UpdateBegins(l) ==
  /\ pc[l] = "fetching"
  /\ Fetched(l)
  /\ pc' = [pc EXCEPT ![l] = "updating"]
  /\ step' = [step EXCEPT ![l] = 0]
  /\ left' = [left EXCEPT ![l] = ToSet(resp[l])]
  /\ UNCHANGED <<poll, apiVars, resp, held, table, published>>

\* A gauge whose series has been removed is no longer part of its vec.
Detached(vec) ==
  [l \in Loops |-> IF held[l] # NoGauge /\ VecOf(held[l].series[1]) = vec
                   THEN [held[l] EXCEPT !.attached = FALSE] ELSE held[l]]

\* Mutant of ResetVec: the last Reset is forgotten.
ResetAllButLast(l) ==
  /\ pc[l] = "updating"
  /\ step[l] < Len(poll.resets)
  /\ step' = [step EXCEPT ![l] = @ + 1]
  /\ table' = [s \in Series |-> IF VecOf(s[1]) = poll.resets[step'[l]] /\ step'[l] < Len(poll.resets)
                                THEN Absent ELSE table[s]]
  /\ UNCHANGED <<poll, apiVars, pc, resp, left, held, published>>

ResetVec(l) ==
  /\ pc[l] = "updating"
  /\ step[l] < Len(poll.resets)
  /\ step' = [step EXCEPT ![l] = @ + 1]
  /\ table' = [s \in Series |-> IF VecOf(s[1]) = poll.resets[step'[l]] THEN Absent ELSE table[s]]
  /\ held' = Detached(poll.resets[step'[l]])
  /\ UNCHANGED <<poll, apiVars, pc, resp, left, published>>

\* The resources some of whose gauges a loop has set, but not all.
HalfDone(l, loop) ==
  LET ofLoop(set) == {s[2] : s \in {t \in set : LoopOf(t[1]) = loop}}
  IN  ofLoop(left[l]) \cap ofLoop(ToSet(resp[l]) \ left[l])

\* The gauge is the next to be set: loop after loop, resource after resource,
\* column after column.
IsNext(l, j, k) ==
  /\ <<j, k>> \in left[l]
  /\ \A s \in left[l] : s[1] < j => LoopOf(s[1]) = LoopOf(j) /\ s[2] # k
  /\ HalfDone(l, LoopOf(j)) \subseteq {k}

\* WithLabelValues returns the series' gauge, a new one if there is none.
GetGauge(l, j, k) ==
  /\ pc[l] = "updating"
  /\ step[l] = Len(poll.resets)
  /\ held[l] = NoGauge
  /\ IsNext(l, j, k)
  /\ held' = [held EXCEPT ![l] = [series |-> <<j, k>>, attached |-> TRUE]]
  /\ table' = [table EXCEPT ![<<j, k>>] = IF @ = Absent THEN Blank ELSE @]
  /\ UNCHANGED <<poll, apiVars, pc, step, resp, left, published>>

\* Set on that gauge, wherever it is by now.
SetGauge(l, j, k) ==
  /\ pc[l] = "updating"
  /\ held[l].series = <<j, k>>
  /\ table' = IF held[l].attached
                THEN [table EXCEPT ![<<j, k>>] = Value(resp[l], j, k)]
                ELSE table
  /\ left' = [left EXCEPT ![l] = @ \ {<<j, k>>}]
  /\ held' = [held EXCEPT ![l] = NoGauge]
  /\ UNCHANGED <<poll, apiVars, pc, step, resp, published>>

\* With no gauge left to set, Poll returns nil.
PollReturnsNil(l) ==
  /\ pc[l] = "updating"
  /\ step[l] = Len(poll.resets)
  /\ left[l] = {}
  /\ published' = resp[l]
  /\ Return(l)
  /\ UNCHANGED table

Poll(l) ==
  \/ PollBegins(l) \/ ListAnswered(l) \/ CallFails(l) \/ UpdateBegins(l)
  \/ \E r \in Resources : DetailAnswered(l, r)
  \/ ResetVec(l) \/ PollReturnsNil(l)
  \/ \E s \in left[l] : GetGauge(l, s[1], s[2]) \/ SetGauge(l, s[1], s[2])

CacheNext == AccountChanges \/ \E l \in Loops : Poll(l)

CacheSpec == CacheInit /\ [][CacheNext]_cacheVars

-----------------------------------------------------------------------------
(* Properties.                                                             *)

\* What the vecs hold once exactly these answers have been written.
Rendered(answers) ==
  IF answers = NoAnswers
    THEN NothingSet
    ELSE [s \in Series |-> IF s \in ToSet(answers) THEN Value(answers, s[1], s[2]) ELSE Absent]

Quiet == \A l \in Loops : pc[l] # "updating"

\* Between two polls, and while the next one fetches, the vecs hold the last
\* successful poll's answers and nothing else: nothing of a resource that has
\* vanished, or of data it no longer reports, and nothing of a poll that
\* failed, at whichever of its calls (plans/0001-v1-exporter.md:66-77).
StaleServe == Quiet => table = Rendered(published)

\* No family ever shows data of two polls, whatever its Poll is doing
\* (serverless.go:22-24, "rather than mixing fresh and stale data within one
\* metric family").
OneGeneration ==
  LET shown == {s \in Series : table[s] > Blank}
      ShowsOf(vec, answers) ==
        LET rendered == Rendered(answers)
        IN  \A s \in shown : VecOf(s[1]) = vec => table[s] = rendered[s]
  IN  \A vec \in {VecOf(j) : j \in Columns} :
        \/ ShowsOf(vec, published)
        \/ \E l \in Loops : pc[l] = "updating" /\ ShowsOf(vec, resp[l])

\* Nothing is shown that is older than what the last successful poll found, be
\* it left over or of an answer that was long on its way.
NeverOlder ==
  \A s \in Series : table[s] > Blank =>
    /\ table[s] >= published.list[CallOf(s[1])].epoch
    /\ table[s] >= Value(published, s[1], s[2])

\* The moments that a poll's answers are of.
Moments(answers) ==
  {answers.list[c].epoch : c \in DOMAIN poll.calls}
    \cup {answers.detail[r] : r \in {q \in Resources : answers.detail[q] > 0}}

\* What is served never goes back in time: a poll replaces the answers of the
\* last one by its own only, and none of these is of an earlier moment than any
\* of those, for it asks again whatever it was told before (serverless.go:25-45).
ServedForward ==
  [][published' # published =>
       \A old \in Moments(published), new \in Moments(published') : old <= new]_cacheVars

\* What plans/0001-v1-exporter.md:73-77 says of vanished resources, which
\* disappear "on the next successful poll, rather than reporting a frozen
\* last-known value forever": when no loop is writing, nothing is shown that
\* the last successful poll did not find.
VanishedGone ==
  Quiet => \A s \in Series : table[s] > Blank => s \in ToSet(published)

\* What plans/0001-v1-exporter.md:68-71 says of the vecs, "the last good values
\* keep being served until the next successful poll": once a poll has succeeded
\* each family shows all of its series, or all of the next poll's.
LastGoodServed ==
  published # NoAnswers => \A j \in Columns :
    LET Serves(answers) ==
          \A s \in Series : VecOf(s[1]) = VecOf(j) => table[s] = Rendered(answers)[s]
    IN  Serves(published) \/ \E l \in Loops : pc[l] = "updating" /\ Serves(resp[l])
=============================================================================
