------------------------- MODULE MetricCacheProofs -------------------------
(* Theorems about MetricCache, for any well-formed polls and any bounds. *)
EXTENDS MetricCache, SequenceTheorems, TLAPS

LEMMA PollKept == [CacheNext]_cacheVars => UNCHANGED poll
  BY DEF CacheNext, AccountChanges, Poll, PollBegins, ListAnswered, DetailAnswered, CallFails,
         UpdateBegins, ResetVec, GetGauge, SetGauge, PollReturnsNil, Return, cacheVars

\* What depends on poll alone stays as it is.
LEMMA Frame ==
  ASSUME UNCHANGED poll
  PROVE  /\ Series' = Series
         /\ Answers' = Answers
         /\ NoAnswers' = NoAnswers
         /\ Columns' = Columns
         /\ \A j \in Columns :
              VecOf(j)' = VecOf(j) /\ LoopOf(j)' = LoopOf(j) /\ CallOf(j)' = CallOf(j)
  BY DEF Series, Columns, IsEach, LoopOf, Answers, NoAnswers, Snapshots, VecOf, CallOf, NoAnswer

LEMMA PollFacts ==
  ASSUME poll \in Polls
  PROVE  /\ Len(poll.calls) \in Nat \ {0}
         /\ DOMAIN poll.calls = 1 .. Len(poll.calls)
         /\ Len(poll.resets) \in Nat
         /\ DOMAIN poll.resets = 1 .. Len(poll.resets)
         /\ \A j \in Columns : CallOf(j) \in DOMAIN poll.calls
         /\ \A j \in Columns : VecOf(j) \in poll.detailed => IsEach(j)
<1>1. WellFormed(poll)
  BY CacheAssumption
<1>2. /\ poll.calls \in Seq([op : STRING, params : SUBSET STRING]) \ {<<>>}
      /\ poll.resets \in Seq(STRING)
      /\ poll.loops \in Seq([call : DOMAIN poll.calls, each : BOOLEAN])
      /\ poll.columns \in Seq([loop : 1 .. Len(poll.loops), vec : STRING, label : STRING])
  BY <1>1 DEF WellFormed
<1>3. Len(poll.calls) # 0
  BY <1>2, EmptySeq
<1>4. \A j \in Columns : LoopOf(j) \in DOMAIN poll.loops
  <2> SUFFICES ASSUME NEW j \in Columns PROVE LoopOf(j) \in DOMAIN poll.loops
    OBVIOUS
  <2>1. poll.columns[j] \in [loop : 1 .. Len(poll.loops), vec : STRING, label : STRING]
    <3>1. j \in 1 .. Len(poll.columns)
      BY <1>2 DEF Columns
    <3> QED
      BY <1>2, <3>1, ElementOfSeq
  <2>2. DOMAIN poll.loops = 1 .. Len(poll.loops)
    BY <1>2
  <2> QED
    BY <2>1, <2>2 DEF LoopOf
<1>5. \A j \in Columns : CallOf(j) \in DOMAIN poll.calls
  <2> SUFFICES ASSUME NEW j \in Columns PROVE CallOf(j) \in DOMAIN poll.calls
    OBVIOUS
  <2>1. poll.loops[LoopOf(j)] \in [call : DOMAIN poll.calls, each : BOOLEAN]
    <3>1. LoopOf(j) \in 1 .. Len(poll.loops)
      BY <1>2, <1>4
    <3> QED
      BY <1>2, <3>1, ElementOfSeq
  <2> QED
    BY <2>1 DEF CallOf
<1>6. \A j \in Columns : VecOf(j) \in poll.detailed => IsEach(j)
  BY <1>1 DEF WellFormed, Columns, VecOf, IsEach, LoopOf
<1> QED
  BY <1>2, <1>3, <1>5, <1>6

LEMMA ValueType ==
  ASSUME poll \in Polls, NEW a \in Answers, NEW s \in Series
  PROVE  Value(a, s[1], s[2]) \in 0 .. MaxEpoch
<1>1. s[1] \in Columns /\ (IsEach(s[1]) => s[2] \in Resources)
  BY DEF Series
<1>2. CASE VecOf(s[1]) \in poll.detailed
  BY <1>1, <1>2, PollFacts DEF Value, Answers
<1>3. CASE VecOf(s[1]) \notin poll.detailed
  <2>1. a.list[CallOf(s[1])] \in Snapshots
    BY <1>1, PollFacts DEF Answers
  <2> QED
    BY <1>3, <2>1 DEF Value, Snapshots
<1> QED
  BY <1>2, <1>3

LEMMA TypeInit == CacheInit => CacheTypeOK
<1> SUFFICES ASSUME CacheInit PROVE CacheTypeOK
  OBVIOUS
<1>1. poll \in Polls
  BY DEF CacheInit
<1>2. NoAnswer \in Snapshots
  BY CacheAssumption DEF NoAnswer, Snapshots
<1>3. NoAnswers \in Answers
  BY <1>2, CacheAssumption DEF NoAnswers, Answers
<1>4. NothingSet \in [Series -> {Absent, Blank} \cup 1 .. MaxEpoch]
  BY DEF NothingSet
<1>5. reporting \in SUBSET alive
  BY DEF CacheInit, Reporting
<1> QED
  BY <1>1, <1>3, <1>4, <1>5, PollFacts, CacheAssumption DEF CacheInit, CacheTypeOK

LEMMA TypeStep == CacheTypeOK /\ [CacheNext]_cacheVars => CacheTypeOK'
<1> SUFFICES ASSUME CacheTypeOK, [CacheNext]_cacheVars
             PROVE  CacheTypeOK'
  OBVIOUS
<1>f. /\ poll' = poll /\ Series' = Series /\ Answers' = Answers /\ NoAnswers' = NoAnswers
  BY PollKept, Frame
<1>p. poll \in Polls
  BY DEF CacheTypeOK
<1> DEFINE TableType == [Series -> {Absent, Blank} \cup 1 .. MaxEpoch]
           HeldType  == [Loops -> [series : Series, attached : BOOLEAN] \cup {NoGauge}]
<1>n. NoAnswers \in Answers
  <2>1. NoAnswer \in Snapshots
    BY CacheAssumption DEF NoAnswer, Snapshots
  <2> QED
    BY <2>1, CacheAssumption DEF NoAnswers, Answers
<1>w. Now \in Snapshots
  BY CacheAssumption DEF CacheTypeOK, Now, Snapshots
<1>1. CASE AccountChanges
  <2>1. /\ epoch' \in 1 .. MaxEpoch
        /\ alive' \in SUBSET Resources
    BY <1>1, CacheAssumption DEF AccountChanges, CacheTypeOK
  <2>2. reporting' \in SUBSET alive'
    BY <1>1 DEF AccountChanges, Reporting
  <2> QED
    BY <1>1, <2>1, <2>2, <1>f DEF AccountChanges, CacheTypeOK, loopVars
<1>2. ASSUME NEW l \in Loops, PollBegins(l)  PROVE CacheTypeOK'
  BY <1>2, <1>f DEF PollBegins, CacheTypeOK, apiVars
<1>3. ASSUME NEW l \in Loops, ListAnswered(l)  PROVE CacheTypeOK'
  <2>1. /\ step[l] \in Nat /\ step[l] + 1 \in DOMAIN poll.calls
        /\ step' = [step EXCEPT ![l] = step[l] + 1]
    BY <1>3, <1>p, PollFacts DEF ListAnswered, CacheTypeOK
  <2>2. resp' \in [Loops -> Answers]
    BY <1>3, <2>1, <1>w DEF ListAnswered, CacheTypeOK, Answers
  <2>3. step' \in [Loops -> Nat]
    BY <2>1 DEF CacheTypeOK
  <2>4. UNCHANGED <<poll, epoch, alive, reporting, pc, left, held, table, published>>
    BY <1>3 DEF ListAnswered, apiVars
  <2>5. ASSUME NEW m \in Loops
        PROVE step'[m] <= IF pc[m] = "updating" THEN Len(poll.resets) ELSE Len(poll.calls)
    <3>1. CASE m = l
      BY <1>3, <2>1, <3>1, <1>p, PollFacts DEF ListAnswered, CacheTypeOK
    <3>2. CASE m # l
      BY <2>1, <3>2 DEF CacheTypeOK
    <3> QED
      BY <3>1, <3>2
  <2> QED
    BY <2>2, <2>3, <2>4, <2>5, <1>f DEF CacheTypeOK
<1>4. ASSUME NEW l \in Loops, NEW r \in Resources, DetailAnswered(l, r)  PROVE CacheTypeOK'
  <2>1. resp' \in [Loops -> Answers]
    <3>1. resp' = [resp EXCEPT ![l] =
                    [resp[l] EXCEPT !.detail = [resp[l].detail EXCEPT ![r] = epoch]]]
      BY <1>4 DEF DetailAnswered
    <3>2. resp[l] \in Answers /\ epoch \in 0 .. MaxEpoch
      BY CacheAssumption DEF CacheTypeOK
    <3>3. [resp[l] EXCEPT !.detail = [resp[l].detail EXCEPT ![r] = epoch]] \in Answers
      BY <3>2 DEF Answers
    <3> QED
      BY <3>1, <3>3 DEF CacheTypeOK
  <2> QED
    BY <1>4, <2>1, <1>f DEF DetailAnswered, CacheTypeOK, apiVars
<1>5. ASSUME NEW l \in Loops, Return(l), table' = table, published' \in Answers
      PROVE CacheTypeOK'
  BY <1>5, <1>f, <1>n, <1>p, PollFacts DEF Return, CacheTypeOK, apiVars
<1>6. ASSUME NEW l \in Loops, CallFails(l) \/ PollReturnsNil(l)  PROVE CacheTypeOK'
  BY <1>5, <1>6 DEF CallFails, PollReturnsNil, CacheTypeOK
<1>7. ASSUME NEW l \in Loops, UpdateBegins(l)  PROVE CacheTypeOK'
  <2>1. ToSet(resp[l]) \in SUBSET Series
    BY DEF ToSet
  <2> QED
    BY <1>7, <2>1, <1>f, <1>p, PollFacts DEF UpdateBegins, CacheTypeOK, apiVars
<1>8. ASSUME NEW l \in Loops, ResetVec(l)  PROVE CacheTypeOK'
  <2>1. table' \in TableType
    BY <1>8 DEF ResetVec, CacheTypeOK
  <2>2. held' \in HeldType
    BY <1>8 DEF ResetVec, CacheTypeOK, Detached, NoGauge
  <2>3. /\ UNCHANGED <<poll, epoch, alive, reporting, pc, resp, left, published>>
        /\ step' = [step EXCEPT ![l] = step[l] + 1]
        /\ step[l] < Len(poll.resets) /\ pc[l] = "updating"
    BY <1>8 DEF ResetVec, apiVars
  <2>4. /\ step' \in [Loops -> Nat]
        /\ \A m \in Loops :
             step'[m] <= IF pc[m] = "updating" THEN Len(poll.resets) ELSE Len(poll.calls)
    BY <2>3, <1>p, PollFacts DEF CacheTypeOK
  <2> QED
    BY <2>1, <2>2, <2>3, <2>4, <1>f DEF CacheTypeOK
<1>9. ASSUME NEW l \in Loops, NEW s \in left[l], GetGauge(l, s[1], s[2])  PROVE CacheTypeOK'
  <2>1. s \in Series /\ s = <<s[1], s[2]>>
    BY DEF CacheTypeOK, Series
  <2>2. table' \in TableType
    BY <1>9, <2>1 DEF GetGauge, CacheTypeOK
  <2>3. held' \in HeldType
    BY <1>9, <2>1 DEF GetGauge, CacheTypeOK
  <2> QED
    BY <1>9, <2>2, <2>3, <1>f DEF GetGauge, CacheTypeOK, apiVars
<1>10. ASSUME NEW l \in Loops, NEW s \in left[l], SetGauge(l, s[1], s[2])  PROVE CacheTypeOK'
  <2>1. s \in Series /\ s = <<s[1], s[2]>>
    BY DEF CacheTypeOK, Series
  <2>2. Value(resp[l], s[1], s[2]) \in 0 .. MaxEpoch
    BY <2>1, ValueType, <1>p DEF CacheTypeOK
  <2>4. table' \in TableType
    <3>1. Value(resp[l], s[1], s[2]) \in {Absent, Blank} \cup 1 .. MaxEpoch
      BY <2>2, CacheAssumption DEF Blank
    <3> QED
      BY <1>10, <2>1, <3>1 DEF SetGauge, CacheTypeOK
  <2>5. held' \in HeldType
    BY <1>10 DEF SetGauge, CacheTypeOK
  <2>6. left' \in [Loops -> SUBSET Series]
    BY <1>10 DEF SetGauge, CacheTypeOK
  <2> QED
    BY <1>10, <2>4, <2>5, <2>6, <1>f DEF SetGauge, CacheTypeOK, apiVars
<1>11. CASE UNCHANGED cacheVars
  BY <1>11, <1>f DEF cacheVars, apiVars, loopVars, CacheTypeOK
<1> QED
  BY <1>1, <1>2, <1>3, <1>4, <1>6, <1>7, <1>8, <1>9, <1>10, <1>11 DEF CacheNext, Poll

-----------------------------------------------------------------------------
(* The vecs, when no two loops write them at the same time.                *)

OneLoop == \E l \in Loops : Loops = {l}

OneWriter == \A l, m \in Loops : pc[l] = "updating" /\ pc[m] = "updating" => l = m

IsReset(l, vec) == \E i \in 1 .. step[l] : poll.resets[i] = vec

\* What an update that is under way has made of a series.
Expected(l, s) ==
  IF s \in ToSet(resp[l]) \ left[l] THEN Value(resp[l], s[1], s[2])
  ELSE IF ~IsReset(l, VecOf(s[1]))  THEN Rendered(published)[s]
  ELSE IF held[l] = [series |-> s, attached |-> TRUE] THEN Blank ELSE Absent

\* A loop that does not write has nothing left to write.
Waiting(l) ==
  /\ left[l] = {}
  /\ held[l] = NoGauge
  /\ pc[l] = "idle" => step[l] = 0 /\ resp[l] = NoAnswers
  /\ pc[l] = "fetching" => \A c \in 1 .. step[l] : resp[l].list[c].epoch > 0

\* No update is under way: the vecs are those of the last successful poll.
AtRest(l) == table = Rendered(published) /\ Waiting(l)

\* One is: series after series goes from the old answers over a reset to the
\* new ones.
Writing(l) ==
  /\ resp[l].list[1].epoch > 0
  /\ left[l] \subseteq ToSet(resp[l])
  /\ held[l] # NoGauge => held[l].attached /\ held[l].series \in left[l]
  /\ step[l] < Len(poll.resets) => held[l] = NoGauge /\ left[l] = ToSet(resp[l])
  /\ \A s \in Series : table[s] = Expected(l, s)

CacheInv ==
  /\ Quiet => table = Rendered(published)
  /\ \A l \in Loops : IF pc[l] = "updating" THEN Writing(l) ELSE Waiting(l)

LEMMA SeriesFacts ==
  ASSUME poll \in Polls, NEW s \in Series
  PROVE  /\ s[1] \in Columns
         /\ s = <<s[1], s[2]>>
         /\ ~IsVec(s[1]) => s[2] = Whole
<1>1. s \in Columns \X (Resources \cup {Whole}) /\ (IsEach(s[1]) <=> s[2] # Whole)
  BY DEF Series
<1>2. ~IsVec(s[1]) => ~IsEach(s[1])
  <2>1. WellFormed(poll) /\ s[1] \in DOMAIN poll.columns
    BY <1>1, CacheAssumption DEF Columns
  <2> QED
    BY <2>1 DEF WellFormed, IsVec, VecOf, IsEach, LoopOf
<1> QED
  BY <1>1, <1>2

\* Where the answers stay, so does what is made of them.
LEMMA AnswersFrame ==
  ASSUME UNCHANGED poll, NEW l \in Loops, resp'[l] = resp[l]
  PROVE  /\ ToSet(resp[l])' = ToSet(resp[l])
         /\ \A s \in Series : Value(resp[l], s[1], s[2])' = Value(resp[l], s[1], s[2])
         /\ \A s \in Series : VecOf(s[1])' = VecOf(s[1])
  BY Frame DEF ToSet, Value, Has, VecOf, CallOf, LoopOf, IsEach, Series, Columns

LEMMA RenderedFrame ==
  ASSUME UNCHANGED <<poll, published>>
  PROVE  Rendered(published)' = Rendered(published)
  BY Frame DEF Rendered, NothingSet, IsVec, ToSet, Value, Has, VecOf, CallOf, LoopOf, IsEach,
               Series, Columns, NoAnswers

LEMMA RenderedNew ==
  ASSUME UNCHANGED poll, NEW l \in Loops, published' = resp[l]
  PROVE  Rendered(published)' = Rendered(resp[l])
  BY Frame DEF Rendered, NothingSet, IsVec, ToSet, Value, Has, VecOf, CallOf, LoopOf, IsEach,
               Series, Columns, NoAnswers

\* A plain gauge is always there.
LEMMA PlainThere ==
  ASSUME poll \in Polls, NEW a \in Answers, NEW s \in Series, ~IsVec(s[1])
  PROVE  Rendered(a)[s] # Absent
<1>1. s \in ToSet(a)
  BY SeriesFacts DEF ToSet
<1>2. Value(a, s[1], s[2]) \in 0 .. MaxEpoch
  BY ValueType
<1> QED
  BY <1>1, <1>2, CacheAssumption DEF Rendered, NothingSet, Absent, Blank

\* And it is the only one of its name.
LEMMA PlainAlone ==
  ASSUME poll \in Polls, NEW s \in Series, NEW u \in Series,
         VecOf(s[1]) = VecOf(u[1]), ~IsVec(s[1])
  PROVE  s = u
<1>1. s[1] = u[1]
  <2>1. WellFormed(poll) /\ s[1] \in DOMAIN poll.columns /\ u[1] \in DOMAIN poll.columns
    BY SeriesFacts, CacheAssumption DEF Columns
  <2> QED
    BY <2>1 DEF WellFormed, IsVec, VecOf
<1>2. s[2] = Whole /\ u[2] = Whole
  BY <1>1, SeriesFacts
<1> QED
  BY <1>1, <1>2, SeriesFacts

LEMMA InvInit == CacheInit => CacheInv
<1> SUFFICES ASSUME CacheInit, NEW l \in Loops
             PROVE  Waiting(l) /\ pc[l] # "updating"
  BY DEF CacheInv, CacheInit, Rendered
<1> QED
  BY DEF CacheInit, Waiting

\* A loop's own step, if it is the only one that writes or none does.
OwnStep(l) ==
  \/ UNCHANGED <<loopVars, table, published>>
  \/ PollBegins(l) \/ ListAnswered(l) \/ CallFails(l) \/ UpdateBegins(l)
  \/ \E r \in Resources : DetailAnswered(l, r)
  \/ ResetVec(l) \/ PollReturnsNil(l)
  \/ \E s \in left[l] : GetGauge(l, s[1], s[2]) \/ SetGauge(l, s[1], s[2])

LEMMA WriterStep ==
  ASSUME NEW l \in Loops, CacheTypeOK, CacheTypeOK', UNCHANGED poll, OwnStep(l),
         IF pc[l] = "updating" THEN Writing(l) ELSE AtRest(l)
  PROVE  (IF pc[l] = "updating" THEN Writing(l) ELSE AtRest(l))'
<1>i. IF pc[l] = "updating" THEN Writing(l) ELSE AtRest(l)
  OBVIOUS
<1>f. poll' = poll /\ Series' = Series /\ NoAnswers' = NoAnswers
  BY Frame
<1>p. poll \in Polls
  BY DEF CacheTypeOK
<1>n. /\ Len(poll.calls) \in Nat \ {0} /\ DOMAIN poll.calls = 1 .. Len(poll.calls)
      /\ Len(poll.resets) \in Nat /\ DOMAIN poll.resets = 1 .. Len(poll.resets)
  BY <1>p, PollFacts
<1>t. /\ step \in [Loops -> Nat] /\ resp \in [Loops -> Answers]
      /\ pc \in [Loops -> {"idle", "fetching", "updating"}]
      /\ left \in [Loops -> SUBSET Series] /\ published \in Answers
      /\ held \in [Loops -> [series : Series, attached : BOOLEAN] \cup {NoGauge}]
      /\ table \in [Series -> {Absent, Blank} \cup 1 .. MaxEpoch]
      /\ step[l] <= IF pc[l] = "updating" THEN Len(poll.resets) ELSE Len(poll.calls)
  BY DEF CacheTypeOK
<1>1. ASSUME UNCHANGED <<loopVars, table, published>>
      PROVE  (IF pc[l] = "updating" THEN Writing(l) ELSE AtRest(l))'
  BY <1>1, <1>i, <1>f, AnswersFrame, RenderedFrame
     DEF loopVars, Writing, AtRest, Waiting, Expected, IsReset
<1>2. CASE PollBegins(l)
  BY <1>2, <1>i, <1>f, <1>t, RenderedFrame DEF PollBegins, AtRest, Waiting, apiVars
<1>3. CASE ListAnswered(l)
  <2>1. /\ pc[l] = "fetching" /\ UNCHANGED <<pc, left, held, table, published>>
        /\ step' = [step EXCEPT ![l] = step[l] + 1]
        /\ step[l] < Len(poll.calls)
    BY <1>3 DEF ListAnswered
  <2>2. resp'[l].list = [resp[l].list EXCEPT ![step[l] + 1] = Now]
    BY <1>3, <1>t, <2>1 DEF ListAnswered, Answers
  <2>3. \A c \in 1 .. step[l] + 1 : resp'[l].list[c].epoch > 0
    <3>1. Now.epoch > 0
      BY CacheAssumption DEF Now, CacheTypeOK
    <3>2. resp[l].list \in [DOMAIN poll.calls -> Snapshots]
      BY <1>t DEF Answers
    <3>3. \A c \in 1 .. step[l] : resp[l].list[c].epoch > 0
      BY <1>i, <2>1 DEF AtRest, Waiting
    <3> QED
      BY <1>t, <1>n, <2>1, <2>2, <3>1, <3>2, <3>3
  <2> QED
    BY <1>i, <1>t, <1>f, <2>1, <2>3, RenderedFrame DEF AtRest, Waiting
<1>4. ASSUME NEW r \in Resources, DetailAnswered(l, r)
      PROVE  (IF pc[l] = "updating" THEN Writing(l) ELSE AtRest(l))'
  <2>1. resp'[l].list = resp[l].list
    BY <1>4, <1>t DEF DetailAnswered, Answers
  <2> QED
    BY <1>4, <1>i, <1>f, <2>1, RenderedFrame DEF DetailAnswered, AtRest, Waiting, apiVars
<1>5. CASE CallFails(l)
  BY <1>5, <1>i, <1>f, <1>t, RenderedFrame DEF CallFails, Return, AtRest, Waiting, apiVars
<1>6. CASE UpdateBegins(l)
  <2>1. /\ pc[l] = "fetching" /\ pc'[l] = "updating" /\ step'[l] = 0 /\ left'[l] = ToSet(resp[l])
        /\ step[l] = Len(poll.calls)
        /\ UNCHANGED <<poll, resp, held, table, published>>
    BY <1>6, <1>t DEF UpdateBegins, Fetched
  <2>2. AtRest(l)
    BY <1>i, <2>1
  <2>3. ToSet(resp[l])' = ToSet(resp[l]) /\ Rendered(published)' = Rendered(published)
    BY <2>1, AnswersFrame, RenderedFrame
  <2>4. \A vec : ~IsReset(l, vec)'
    BY <2>1 DEF IsReset
  <2>5. \A s \in Series : Expected(l, s)' = table[s]
    BY <2>1, <2>2, <2>3, <2>4 DEF Expected, AtRest
  <2>6. resp[l].list[1].epoch > 0
    BY <1>n, <2>1, <2>2 DEF AtRest, Waiting
  <2> QED
    BY <1>f, <2>1, <2>2, <2>3, <2>5, <2>6 DEF Writing, AtRest, Waiting
<1>7. CASE ResetVec(l)
  <2>1. /\ pc[l] = "updating" /\ step[l] < Len(poll.resets)
        /\ step' = [step EXCEPT ![l] = step[l] + 1]
        /\ held' = Detached(poll.resets[step[l] + 1])
        /\ table' = [s \in Series |-> IF VecOf(s[1]) = poll.resets[step[l] + 1]
                                      THEN Absent ELSE table[s]]
        /\ UNCHANGED <<poll, pc, resp, left, published>>
    BY <1>7, <1>t DEF ResetVec
  <2>2. Writing(l) /\ held[l] = NoGauge /\ left[l] = ToSet(resp[l])
    BY <1>i, <2>1 DEF Writing
  <2>3. held'[l] = NoGauge
    BY <2>1, <2>2 DEF Detached
  <2>4. /\ ToSet(resp[l])' = ToSet(resp[l]) /\ Rendered(published)' = Rendered(published)
        /\ \A s \in Series : VecOf(s[1])' = VecOf(s[1])
    BY <2>1, AnswersFrame, RenderedFrame
  <2>5. \A vec : IsReset(l, vec)' <=> IsReset(l, vec) \/ vec = poll.resets[step[l] + 1]
    <3>1. step'[l] = step[l] + 1 /\ step[l] \in Nat
      BY <1>t, <2>1
    <3>2. 1 .. step[l] + 1 = 1 .. step[l] \cup {step[l] + 1}
      BY <3>1
    <3> QED
      BY <2>1, <3>1, <3>2 DEF IsReset
  <2>6. ASSUME NEW s \in Series
        PROVE  table'[s] = Expected(l, s)'
    <3>1. table[s] = Expected(l, s)
      BY <2>2 DEF Writing
    <3>2. VecOf(s[1])' = VecOf(s[1]) /\ left'[l] = left[l] /\ ToSet(resp[l])' \ left'[l] = {}
      BY <2>1, <2>2, <2>4
    <3>3. Expected(l, s)' = IF ~IsReset(l, VecOf(s[1]))' THEN Rendered(published)[s] ELSE Absent
      BY <2>3, <2>4, <3>2 DEF Expected, NoGauge
    <3>4. Expected(l, s) = IF ~IsReset(l, VecOf(s[1])) THEN Rendered(published)[s] ELSE Absent
      BY <2>2 DEF Expected, NoGauge
    <3>5. IsReset(l, VecOf(s[1]))' <=>
            IsReset(l, VecOf(s[1])) \/ VecOf(s[1]) = poll.resets[step[l] + 1]
      BY <2>5, <3>2 DEF IsReset
    <3> QED
      BY <2>1, <3>1, <3>3, <3>4, <3>5
  <2> QED
    BY <1>f, <2>1, <2>2, <2>3, <2>4, <2>6 DEF Writing
<1>8. ASSUME NEW s \in left[l], GetGauge(l, s[1], s[2])
      PROVE  (IF pc[l] = "updating" THEN Writing(l) ELSE AtRest(l))'
  <2>1. s \in Series /\ s = <<s[1], s[2]>>
    BY <1>t, <1>p, SeriesFacts
  <2>2. /\ pc[l] = "updating" /\ step[l] = Len(poll.resets) /\ held[l] = NoGauge
        /\ held'[l] = [series |-> s, attached |-> TRUE]
        /\ table' = [table EXCEPT ![s] = IF table[s] = Absent THEN Blank ELSE table[s]]
        /\ UNCHANGED <<poll, pc, step, resp, left, published>>
    BY <1>8, <1>t, <2>1 DEF GetGauge
  <2>3. Writing(l)
    BY <1>i, <2>2
  <2>4. /\ ToSet(resp[l])' = ToSet(resp[l]) /\ Rendered(published)' = Rendered(published)
        /\ \A u \in Series : Value(resp[l], u[1], u[2])' = Value(resp[l], u[1], u[2])
        /\ \A u \in Series : VecOf(u[1])' = VecOf(u[1])
    BY <2>2, AnswersFrame, RenderedFrame
  <2>5. \A u \in Series : IsReset(l, VecOf(u[1]))' <=> IsReset(l, VecOf(u[1]))
    BY <2>2, <2>4 DEF IsReset
  <2>6. ~IsReset(l, VecOf(s[1])) => table[s] # Absent
    <3>1. ASSUME ~IsReset(l, VecOf(s[1])) PROVE ~IsVec(s[1])
      BY <1>n, <2>2, <3>1 DEF IsReset, IsVec
    <3>2. ASSUME ~IsReset(l, VecOf(s[1])) PROVE table[s] = Rendered(published)[s]
      BY <2>1, <2>3, <3>2 DEF Writing, Expected
    <3> QED
      BY <1>p, <1>t, <2>1, <3>1, <3>2, PlainThere
  <2>7. ASSUME NEW u \in Series
        PROVE  table'[u] = Expected(l, u)'
    <3>1. table[u] = Expected(l, u)
      BY <2>3 DEF Writing
    <3>2. Expected(l, u)' =
            IF u \in ToSet(resp[l]) \ left[l] THEN Value(resp[l], u[1], u[2])
            ELSE IF ~IsReset(l, VecOf(u[1]))  THEN Rendered(published)[u]
            ELSE IF u = s THEN Blank ELSE Absent
      <4>1. held'[l] = [series |-> u, attached |-> TRUE] <=> u = s
        <5>1. held'[l].series = s /\ [series |-> u, attached |-> TRUE].series = u
          BY <2>2
        <5> QED
          BY <2>2, <5>1
      <4> QED
        BY <2>2, <2>4, <2>5, <4>1 DEF Expected
    <3>3. CASE u = s
      BY <1>t, <2>1, <2>2, <2>6, <3>1, <3>2, <3>3 DEF Expected, NoGauge
    <3>4. CASE u # s
      BY <1>t, <2>1, <2>2, <3>1, <3>2, <3>4 DEF Expected, NoGauge
    <3> QED
      BY <3>3, <3>4
  <2> QED
    BY <1>f, <2>2, <2>3, <2>4, <2>7 DEF Writing
<1>9. ASSUME NEW s \in left[l], SetGauge(l, s[1], s[2])
      PROVE  (IF pc[l] = "updating" THEN Writing(l) ELSE AtRest(l))'
  <2>1. s \in Series /\ s = <<s[1], s[2]>>
    BY <1>t, <1>p, SeriesFacts
  <2>2. /\ pc[l] = "updating" /\ held[l].series = s
        /\ held'[l] = NoGauge
        /\ left'[l] = left[l] \ {s}
        /\ UNCHANGED <<poll, pc, step, resp, published>>
    BY <1>9, <1>t, <2>1 DEF SetGauge
  <2>3. Writing(l)
    BY <1>i, <2>2
  <2>4. held[l] # NoGauge /\ held[l] = [series |-> s, attached |-> TRUE]
    <3>1. held[l] # NoGauge
      <4>1. <<s[1], s[2]>> # <<>>
        OBVIOUS
      <4>2. NoGauge.series = <<>>
        BY DEF NoGauge
      <4> QED
        BY <2>1, <2>2, <4>1, <4>2
    <3> QED
      BY <1>t, <2>2, <2>3, <3>1 DEF Writing
  <2>5. table' = [table EXCEPT ![s] = Value(resp[l], s[1], s[2])]
    <3>1. held[l].attached
      BY <2>4
    <3>2. table' = [table EXCEPT ![<<s[1], s[2]>>] = Value(resp[l], s[1], s[2])]
      BY <1>9, <3>1 DEF SetGauge
    <3> QED
      BY <2>1, <3>2
  <2>6. /\ ToSet(resp[l])' = ToSet(resp[l]) /\ Rendered(published)' = Rendered(published)
        /\ \A u \in Series : Value(resp[l], u[1], u[2])' = Value(resp[l], u[1], u[2])
        /\ \A u \in Series : VecOf(u[1])' = VecOf(u[1])
    BY <2>2, AnswersFrame, RenderedFrame
  <2>7. \A u \in Series : IsReset(l, VecOf(u[1]))' <=> IsReset(l, VecOf(u[1]))
    BY <2>2, <2>6 DEF IsReset
  <2>8. ASSUME NEW u \in Series
        PROVE  table'[u] = Expected(l, u)'
    <3>1. table[u] = Expected(l, u)
      BY <2>3 DEF Writing
    <3>2. s \in ToSet(resp[l])
      BY <2>3 DEF Writing
    <3>3. Expected(l, u)' =
            IF u \in ToSet(resp[l]) \ (left[l] \ {s}) THEN Value(resp[l], u[1], u[2])
            ELSE IF ~IsReset(l, VecOf(u[1]))  THEN Rendered(published)[u] ELSE Absent
      BY <2>2, <2>6, <2>7 DEF Expected, NoGauge
    <3>4. CASE u = s
      BY <1>t, <2>1, <2>5, <3>2, <3>3, <3>4
    <3>5. CASE u # s
      BY <1>t, <2>1, <2>4, <2>5, <3>1, <3>3, <3>5 DEF Expected
    <3> QED
      BY <3>4, <3>5
  <2>9. step[l] = Len(poll.resets)
    BY <1>t, <1>n, <2>2, <2>3, <2>4 DEF Writing
  <2> QED
    BY <1>f, <1>n, <2>2, <2>3, <2>6, <2>8, <2>9 DEF Writing
<1>10. CASE PollReturnsNil(l)
  <2>1. /\ pc[l] = "updating" /\ step[l] = Len(poll.resets) /\ left[l] = {}
        /\ published' = resp[l] /\ pc'[l] = "idle" /\ step'[l] = 0 /\ resp'[l] = NoAnswers
        /\ UNCHANGED <<poll, left, held, table>>
    BY <1>10, <1>t DEF PollReturnsNil, Return
  <2>2. Writing(l)
    BY <1>i, <2>1
  <2>3. held[l] = NoGauge
    BY <2>1, <2>2 DEF Writing
  <2>4. resp[l] # NoAnswers
    BY <1>n, <2>2 DEF Writing, NoAnswers, NoAnswer
  <2>5. ASSUME NEW s \in Series
        PROVE  table[s] = Rendered(resp[l])[s]
    <3>1. table[s] = Expected(l, s)
      BY <2>2 DEF Writing
    <3>2. ASSUME s \notin ToSet(resp[l]) PROVE IsReset(l, VecOf(s[1]))
      <4>1. IsVec(s[1])
        BY <1>p, <3>2, SeriesFacts DEF ToSet
      <4> QED
        BY <1>n, <2>1, <4>1 DEF IsVec, IsReset
    <3> QED
      BY <2>1, <2>3, <2>4, <3>1, <3>2 DEF Expected, Rendered, NoGauge
  <2>6. table = Rendered(resp[l])
    BY <1>t, <2>4, <2>5 DEF Rendered
  <2>7. table' = Rendered(published)'
    BY <1>f, <2>1, <2>6, RenderedNew
  <2> QED
    BY <1>f, <2>1, <2>3, <2>7 DEF AtRest, Waiting
<1> QED
  BY <1>1, <1>2, <1>3, <1>4, <1>5, <1>6, <1>7, <1>8, <1>9, <1>10 DEF OwnStep

\* A loop that does not come to write still has nothing to write.
LEMMA WaitingStep ==
  ASSUME NEW l \in Loops, CacheTypeOK, UNCHANGED poll, OwnStep(l), Waiting(l),
         pc[l] # "updating", pc'[l] # "updating"
  PROVE  Waiting(l)'
<1>t. /\ step \in [Loops -> Nat] /\ resp \in [Loops -> Answers] /\ epoch \in 1 .. MaxEpoch
      /\ pc \in [Loops -> {"idle", "fetching", "updating"}]
      /\ held \in [Loops -> [series : Series, attached : BOOLEAN] \cup {NoGauge}]
  BY DEF CacheTypeOK
<1>n. Len(poll.calls) \in Nat /\ DOMAIN poll.calls = 1 .. Len(poll.calls)
  BY PollFacts DEF CacheTypeOK
<1>f. NoAnswers' = NoAnswers
  BY Frame
<1>1. CASE UNCHANGED loopVars
  BY <1>f, <1>1 DEF loopVars, Waiting
<1>2. CASE PollBegins(l)
  BY <1>2, <1>t DEF PollBegins, Waiting
<1>3. CASE ListAnswered(l)
  <2>1. /\ pc[l] = "fetching" /\ UNCHANGED <<pc, left, held>>
        /\ step' = [step EXCEPT ![l] = step[l] + 1]
        /\ step[l] < Len(poll.calls)
    BY <1>3 DEF ListAnswered
  <2>2. resp'[l].list = [resp[l].list EXCEPT ![step[l] + 1] = Now]
    BY <1>3, <1>t, <2>1 DEF ListAnswered, Answers
  <2>3. \A c \in 1 .. step[l] + 1 : resp'[l].list[c].epoch > 0
    <3>1. Now.epoch > 0
      BY <1>t, CacheAssumption DEF Now
    <3>2. resp[l].list \in [DOMAIN poll.calls -> Snapshots]
      BY <1>t DEF Answers
    <3>3. \A c \in 1 .. step[l] : resp[l].list[c].epoch > 0
      BY <2>1 DEF Waiting
    <3> QED
      BY <1>t, <1>n, <2>1, <2>2, <3>1, <3>2, <3>3
  <2> QED
    BY <1>t, <2>1, <2>3 DEF Waiting
<1>4. ASSUME NEW r \in Resources, DetailAnswered(l, r)  PROVE Waiting(l)'
  <2>1. resp'[l].list = resp[l].list
    BY <1>4, <1>t DEF DetailAnswered, Answers
  <2> QED
    BY <1>4, <2>1 DEF DetailAnswered, Waiting
<1>5. CASE CallFails(l)
  BY <1>5, <1>f, <1>t DEF CallFails, Return, Waiting
<1>6. ~UpdateBegins(l)
  BY <1>t DEF UpdateBegins
<1>7. ~(\E s \in left[l] : GetGauge(l, s[1], s[2]) \/ SetGauge(l, s[1], s[2]))
  BY DEF GetGauge, SetGauge
<1>8. ~ResetVec(l) /\ ~PollReturnsNil(l)
  BY DEF ResetVec, PollReturnsNil
<1> QED
  BY <1>1, <1>2, <1>3, <1>4, <1>5, <1>6, <1>7, <1>8 DEF OwnStep

\* A step of another loop that does not write.
LEMMA OthersStep ==
  ASSUME NEW l \in Loops, NEW m \in Loops, l # m, CacheTypeOK, UNCHANGED poll, OwnStep(m),
         pc[l] # "updating" => Waiting(l)
  PROVE  /\ pc'[l] = pc[l]
         /\ pc[l] # "updating" => Waiting(l)'
         /\ pc[l] = "updating" /\ pc[m] # "updating" /\ Writing(l) => Writing(l)'
<1>t. /\ step \in [Loops -> Nat] /\ resp \in [Loops -> Answers]
      /\ pc \in [Loops -> {"idle", "fetching", "updating"}]
      /\ left \in [Loops -> SUBSET Series]
      /\ held \in [Loops -> [series : Series, attached : BOOLEAN] \cup {NoGauge}]
  BY DEF CacheTypeOK
<1>f. Series' = Series /\ NoAnswers' = NoAnswers
  BY Frame
<1>1. /\ pc'[l] = pc[l] /\ step'[l] = step[l] /\ resp'[l] = resp[l] /\ left'[l] = left[l]
  BY <1>t DEF OwnStep, loopVars, PollBegins, ListAnswered, DetailAnswered, CallFails, UpdateBegins,
              ResetVec, GetGauge, SetGauge, PollReturnsNil, Return
<1>2. held[l] = NoGauge => held'[l] = NoGauge
  BY <1>t DEF OwnStep, loopVars, PollBegins, ListAnswered, DetailAnswered, CallFails, UpdateBegins,
              ResetVec, GetGauge, SetGauge, PollReturnsNil, Return, Detached
<1>3. pc[m] # "updating" => held'[l] = held[l] /\ UNCHANGED <<table, published>>
  BY <1>t DEF OwnStep, loopVars, PollBegins, ListAnswered, DetailAnswered, CallFails, UpdateBegins,
              ResetVec, GetGauge, SetGauge, PollReturnsNil, Return
<1>4. pc[l] # "updating" => Waiting(l)'
  BY <1>f, <1>1, <1>2 DEF Waiting
<1>5. pc[l] = "updating" /\ pc[m] # "updating" /\ Writing(l) => Writing(l)'
  BY <1>f, <1>1, <1>3, AnswersFrame, RenderedFrame DEF Writing, Expected, IsReset
<1> QED
  BY <1>1, <1>4, <1>5

LEMMA InvStep ==
  /\ OneWriter /\ OneWriter' /\ CacheTypeOK /\ CacheTypeOK' /\ CacheInv
  /\ [CacheNext]_cacheVars
  => CacheInv'
<1> SUFFICES ASSUME OneWriter, OneWriter', CacheTypeOK, CacheTypeOK', CacheInv,
                    [CacheNext]_cacheVars
             PROVE  CacheInv'
  OBVIOUS
<1>p. poll' = poll
  BY PollKept
<1>1. ASSUME NEW m \in Loops, OwnStep(m)  PROVE CacheInv'
  <2>1. \A l \in Loops \ {m} :
          /\ pc'[l] = pc[l]
          /\ pc[l] # "updating" => Waiting(l)'
          /\ pc[l] = "updating" /\ pc[m] # "updating" => Writing(l)'
    BY <1>p, <1>1, OthersStep DEF CacheInv
  <2>2. CASE \A l \in Loops \ {m} : pc[l] # "updating"
    <3>1. IF pc[m] = "updating" THEN Writing(m) ELSE AtRest(m)
      BY <2>2 DEF CacheInv, AtRest, Quiet
    <3>2. (IF pc[m] = "updating" THEN Writing(m) ELSE AtRest(m))'
      BY <1>p, <1>1, <3>1, WriterStep
    <3> QED
      BY <2>1, <2>2, <3>2 DEF CacheInv, AtRest, Quiet
  <2>3. ASSUME NEW l \in Loops \ {m}, pc[l] = "updating"  PROVE CacheInv'
    <3>1. pc[m] # "updating" /\ pc'[m] # "updating" /\ pc'[l] = "updating"
      BY <2>1, <2>3 DEF OneWriter
    <3>2. Waiting(m)'
      BY <1>1, <1>p, <3>1, WaitingStep DEF CacheInv
    <3> QED
      BY <2>1, <3>1, <3>2 DEF CacheInv, Quiet
  <2> QED
    BY <2>2, <2>3
<1>2. CASE AccountChanges \/ UNCHANGED cacheVars
  <2>1. CASE Loops = {}
    BY <1>2, <1>p, <2>1, RenderedFrame DEF AccountChanges, cacheVars, CacheInv, Quiet
  <2>2. ASSUME NEW m \in Loops  PROVE CacheInv'
    BY <1>1, <1>2 DEF OwnStep, AccountChanges, cacheVars
  <2> QED
    BY <2>1, <2>2
<1> QED
  BY <1>1, <1>2 DEF CacheNext, Poll, OwnStep

\* The loop, its poll and the vecs have their types (any number of loops).
THEOREM CacheTypeCorrect == CacheSpec => []CacheTypeOK
  BY TypeInit, TypeStep, PTL DEF CacheSpec

LEMMA SerialInvariant == CacheSpec /\ []OneWriter => [](CacheTypeOK /\ CacheInv)
<1>1. CacheInit => CacheTypeOK /\ CacheInv
  BY TypeInit, InvInit
<1>2. OneWriter /\ OneWriter' /\ CacheTypeOK /\ CacheInv /\ [CacheNext]_cacheVars
        => (CacheTypeOK /\ CacheInv)'
  BY TypeStep, InvStep
<1> QED
  BY <1>1, <1>2, PTL DEF CacheSpec

LEMMA CacheInvariant == ASSUME OneLoop PROVE CacheSpec => [](CacheTypeOK /\ CacheInv)
<1>1. OneWriter
  BY DEF OneLoop, OneWriter
<1> QED
  BY <1>1, SerialInvariant, PTL

LEMMA RenderedShown ==
  ASSUME poll \in Polls, NEW a \in Answers, NEW s \in Series, Rendered(a)[s] > Blank
  PROVE  Rendered(a)[s] = Value(a, s[1], s[2])
  BY DEF Rendered, NothingSet, Absent, Blank

LEMMA InvShown == CacheTypeOK /\ CacheInv => OneGeneration
<1>1. ASSUME CacheTypeOK, CacheInv PROVE OneGeneration
  <2> SUFFICES ASSUME NEW vec \in {VecOf(j) : j \in Columns}
               PROVE  \/ \A s \in Series : table[s] > Blank /\ VecOf(s[1]) = vec =>
                           table[s] = Rendered(published)[s]
                      \/ \E l \in Loops :
                           /\ pc[l] = "updating"
                           /\ \A s \in Series : table[s] > Blank /\ VecOf(s[1]) = vec =>
                                table[s] = Rendered(resp[l])[s]
    BY DEF OneGeneration
  <2>2. CASE Quiet
    BY <1>1, <2>2 DEF CacheInv
  <2>3. ASSUME NEW l \in Loops, pc[l] = "updating"
        PROVE  \/ \A s \in Series : table[s] > Blank /\ VecOf(s[1]) = vec =>
                    table[s] = Rendered(published)[s]
               \/ \A s \in Series : table[s] > Blank /\ VecOf(s[1]) = vec =>
                    table[s] = Rendered(resp[l])[s]
    <3>p. poll \in Polls /\ resp[l] \in Answers /\ step[l] \in Nat
      BY <1>1 DEF CacheTypeOK
    <3>1. Writing(l)
      BY <1>1, <2>3 DEF CacheInv
    <3>2. resp[l] # NoAnswers
      BY <3>p, <3>1, PollFacts DEF Writing, NoAnswers, NoAnswer
    <3>3. ASSUME NEW s \in Series, s \in ToSet(resp[l]) \ left[l]
          PROVE  table[s] = Rendered(resp[l])[s]
      BY <3>1, <3>2, <3>3 DEF Writing, Expected, Rendered
    <3>4. ASSUME NEW s \in Series, s \notin ToSet(resp[l]) \ left[l], ~IsReset(l, VecOf(s[1]))
          PROVE  table[s] = Rendered(published)[s]
      BY <3>1, <3>4 DEF Writing, Expected
    <3>5. ASSUME NEW s \in Series, s \notin ToSet(resp[l]) \ left[l], IsReset(l, VecOf(s[1]))
          PROVE  ~(table[s] > Blank)
      <4>1. table[s] = Blank \/ table[s] = Absent
        BY <3>1, <3>5 DEF Writing, Expected
      <4> QED
        BY <4>1 DEF Absent, Blank
    <3>6. CASE IsReset(l, vec)
      BY <2>3, <3>3, <3>5, <3>6
    <3>7. CASE ~IsReset(l, vec) /\ \E i \in DOMAIN poll.resets : poll.resets[i] = vec
      <4>1. step[l] < Len(poll.resets)
        BY <3>p, <3>7, PollFacts DEF IsReset
      <4>2. left[l] = ToSet(resp[l])
        BY <3>1, <4>1 DEF Writing
      <4> QED
        BY <3>4, <3>7, <4>2
    <3>8. CASE ~\E i \in DOMAIN poll.resets : poll.resets[i] = vec
      <4>1. ~IsReset(l, vec)
        <5>1. step[l] <= Len(poll.resets)
          BY <1>1, <2>3 DEF CacheTypeOK
        <5> QED
          BY <3>p, <3>8, <5>1, PollFacts DEF IsReset
      <4>2. CASE \E s \in Series : VecOf(s[1]) = vec /\ s \in ToSet(resp[l]) \ left[l]
        BY <2>3, <3>p, <3>3, <3>8, <4>2, PlainAlone DEF IsVec
      <4>3. CASE \A s \in Series : VecOf(s[1]) = vec => s \notin ToSet(resp[l]) \ left[l]
        BY <3>4, <4>1, <4>3
      <4> QED
        BY <4>2, <4>3
    <3> QED
      BY <3>6, <3>7, <3>8
  <2> QED
    BY <2>2, <2>3 DEF Quiet
<1> QED
  BY <1>1

\* Whatever loops there are, and whatever they fetch at the same time: as long as
\* no two write at the same time, the vecs hold the last successful poll's
\* answers between writes, and no family ever mixes two polls.  What is wrong
\* with a domain named twice is the overlap of its writes (config.go:128,
\* pod.go:32-84).
THEOREM SerialWritesSuffice ==
  CacheSpec /\ []OneWriter => []StaleServe /\ []OneGeneration
<1>1. CacheInv => StaleServe
  BY DEF CacheInv, StaleServe
<1> QED
  BY <1>1, InvShown, SerialInvariant, PTL

\* After every poll, however it ended, and until the next one writes, the vecs
\* hold the last successful poll's answers (pod.go:23-40).
THEOREM StaleIsServed == ASSUME OneLoop PROVE CacheSpec => []StaleServe
<1>1. CacheInv => StaleServe
  BY DEF CacheInv, StaleServe
<1> QED
  BY <1>1, CacheInvariant, PTL

\* No family shows data of two polls, whatever its Poll is doing
\* (serverless.go:20-47).
THEOREM NeverMixed == ASSUME OneLoop PROVE CacheSpec => []OneGeneration
  BY InvShown, CacheInvariant, PTL

-----------------------------------------------------------------------------
(* Nothing older is ever shown.                                            *)

\* Nothing in the answers is of after that epoch.
Upto(answers, e) ==
  /\ \A c \in DOMAIN poll.calls : answers.list[c].epoch <= e
  /\ \A r \in Resources : answers.detail[r] <= e

\* Details are asked for once the lists are there.
ListsFirst(answers) ==
  \A r \in Resources : answers.detail[r] > 0 =>
    \A c \in DOMAIN poll.calls : answers.list[c].epoch <= answers.detail[r]

\* All that a poll finds it finds after the last successful poll found what it
\* did, for its loop is the only one.
EpochInv ==
  /\ Upto(published, epoch)
  /\ ListsFirst(published)
  /\ \A l \in Loops :
       /\ Upto(resp[l], epoch)
       /\ ListsFirst(resp[l])
       /\ \A c \in DOMAIN poll.calls :
            resp[l].list[c].epoch > 0 => Upto(published, resp[l].list[c].epoch)
       /\ \A r \in Resources : resp[l].detail[r] > 0 => Upto(published, resp[l].detail[r])
       /\ pc[l] = "fetching" /\ step[l] < Len(poll.calls) =>
            \A r \in Resources : resp[l].detail[r] = 0

LEMMA NothingAsked ==
  ASSUME poll \in Polls, NEW e \in Nat
  PROVE  /\ Upto(NoAnswers, e) /\ ListsFirst(NoAnswers)
         /\ \A c \in DOMAIN poll.calls : NoAnswers.list[c].epoch = 0
         /\ \A r \in Resources : NoAnswers.detail[r] = 0
  BY DEF Upto, ListsFirst, NoAnswers, NoAnswer

LEMMA EpochInit == CacheInit => EpochInv
<1> SUFFICES ASSUME CacheInit PROVE EpochInv
  OBVIOUS
<1>1. poll \in Polls /\ epoch = 1
  BY DEF CacheInit
<1> QED
  BY <1>1, NothingAsked DEF CacheInit, EpochInv

LEMMA EpochStep ==
  OneLoop /\ CacheTypeOK /\ CacheInv /\ EpochInv /\ [CacheNext]_cacheVars => EpochInv'
<1> SUFFICES ASSUME OneLoop, CacheTypeOK, CacheInv, EpochInv, [CacheNext]_cacheVars
             PROVE  EpochInv'
  OBVIOUS
<1>l. PICK l \in Loops : Loops = {l}
  BY DEF OneLoop
<1>f. poll' = poll /\ NoAnswers' = NoAnswers
  BY PollKept, Frame
<1>t. /\ poll \in Polls /\ epoch \in 1 .. MaxEpoch /\ published \in Answers
      /\ resp \in [Loops -> Answers] /\ step \in [Loops -> Nat]
      /\ pc \in [Loops -> {"idle", "fetching", "updating"}]
  BY DEF CacheTypeOK
<1>e. /\ \A c \in DOMAIN poll.calls : published.list[c].epoch \in 0 .. MaxEpoch
      /\ \A r \in Resources : published.detail[r] \in 0 .. MaxEpoch
      /\ \A c \in DOMAIN poll.calls : resp[l].list[c].epoch \in 0 .. MaxEpoch
      /\ \A r \in Resources : resp[l].detail[r] \in 0 .. MaxEpoch
  BY <1>t DEF Answers, Snapshots
<1>n. Len(poll.calls) \in Nat
  BY <1>t, PollFacts
<1>1. ASSUME UNCHANGED <<resp, published>>, epoch' \in Nat, epoch' >= epoch,
             pc'[l] = "fetching" /\ step'[l] < Len(poll.calls) =>
               \A r \in Resources : resp[l].detail[r] = 0
      PROVE  EpochInv'
  BY <1>1, <1>f, <1>t, <1>e, <1>l DEF EpochInv, Upto, ListsFirst
<1>2. CASE AccountChanges \/ UNCHANGED cacheVars
  BY <1>1, <1>2, <1>t, CacheAssumption DEF AccountChanges, cacheVars, apiVars, loopVars, EpochInv
<1>3. CASE PollBegins(l)
  <2>1. resp[l] = NoAnswers
    BY <1>3, <1>l DEF PollBegins, CacheInv, Waiting
  <2> QED
    BY <1>1, <1>3, <1>t, <2>1, NothingAsked DEF PollBegins, apiVars
<1>4. CASE ListAnswered(l)
  <2>1. /\ pc[l] = "fetching" /\ step[l] < Len(poll.calls)
        /\ UNCHANGED <<poll, epoch, published>>
    BY <1>4 DEF ListAnswered, apiVars
  <2>2. /\ resp'[l].list = [resp[l].list EXCEPT ![step[l] + 1] = Now]
        /\ resp'[l].detail = resp[l].detail
    BY <1>4, <1>t, <1>n DEF ListAnswered, Answers
  <2>3. \A c \in DOMAIN poll.calls : resp'[l].list[c].epoch \in {resp[l].list[c].epoch, epoch}
    <3>1. resp[l].list \in [DOMAIN poll.calls -> Snapshots]
      BY <1>t DEF Answers
    <3> QED
      BY <2>2, <3>1 DEF Now
  <2>4. \A r \in Resources : resp'[l].detail[r] = 0
    BY <1>l, <2>1, <2>2 DEF EpochInv
  <2>5. Upto(published, epoch) /\ ListsFirst(published) /\ Upto(resp[l], epoch)
    BY DEF EpochInv
  <2>6. \A c \in DOMAIN poll.calls :
          resp[l].list[c].epoch > 0 => Upto(published, resp[l].list[c].epoch)
    BY DEF EpochInv
  <2>7. \A c \in DOMAIN poll.calls :
          resp'[l].list[c].epoch > 0 => Upto(published, resp'[l].list[c].epoch)
    BY <2>3, <2>5, <2>6
  <2>8. Upto(resp[l], epoch)' /\ ListsFirst(resp[l])'
    BY <1>t, <2>1, <2>3, <2>4, <2>5 DEF Upto, ListsFirst
  <2>9. Upto(published, epoch)' /\ ListsFirst(published)'
    BY <2>1, <2>5 DEF Upto, ListsFirst
  <2> QED
    BY <1>l, <2>1, <2>4, <2>7, <2>8, <2>9 DEF EpochInv, Upto
<1>5. ASSUME NEW r \in Resources, DetailAnswered(l, r)  PROVE EpochInv'
  <2>1. /\ pc[l] = "fetching" /\ step[l] = Len(poll.calls) /\ pc' = pc /\ step' = step
        /\ UNCHANGED <<poll, epoch, published>>
    BY <1>5 DEF DetailAnswered, apiVars
  <2>2. /\ resp'[l].list = resp[l].list
        /\ resp'[l].detail = [resp[l].detail EXCEPT ![r] = epoch]
    BY <1>5, <1>t DEF DetailAnswered, Answers
  <2>3. \A q \in Resources : resp'[l].detail[q] \in {resp[l].detail[q], epoch}
    <3>1. resp[l].detail \in [Resources -> 0 .. MaxEpoch]
      BY <1>t DEF Answers
    <3> QED
      BY <2>2, <3>1
  <2>4. /\ Upto(published, epoch) /\ ListsFirst(published)
        /\ Upto(resp[l], epoch) /\ ListsFirst(resp[l])
        /\ \A c \in DOMAIN poll.calls :
             resp[l].list[c].epoch > 0 => Upto(published, resp[l].list[c].epoch)
        /\ \A q \in Resources : resp[l].detail[q] > 0 => Upto(published, resp[l].detail[q])
    BY DEF EpochInv
  <2>5. Upto(resp[l], epoch)' /\ ListsFirst(resp[l])'
    BY <1>t, <2>1, <2>2, <2>3, <2>4 DEF Upto, ListsFirst
  <2>6. Upto(published, epoch)' /\ ListsFirst(published)'
    BY <2>1, <2>4 DEF Upto, ListsFirst
  <2>7. \A q \in Resources : resp'[l].detail[q] > 0 => Upto(published, resp'[l].detail[q])
    BY <2>3, <2>4
  <2>8. \A c \in DOMAIN poll.calls :
          resp'[l].list[c].epoch > 0 => Upto(published, resp'[l].list[c].epoch)
    BY <2>2, <2>4
  <2>9. ~(step'[l] < Len(poll.calls))
    BY <1>n, <2>1
  <2> QED
    BY <1>l, <2>1, <2>5, <2>6, <2>7, <2>8, <2>9 DEF EpochInv, Upto
<1>6. CASE CallFails(l) \/ PollReturnsNil(l)
  <2>1. /\ resp'[l] = NoAnswers /\ published' \in {published, resp[l]} /\ pc'[l] = "idle"
        /\ UNCHANGED <<poll, epoch>>
    BY <1>6, <1>t DEF CallFails, PollReturnsNil, Return, apiVars
  <2>2. Upto(published, epoch)' /\ ListsFirst(published)'
    <3>1. Upto(published', epoch) /\ ListsFirst(published')
      BY <2>1 DEF EpochInv
    <3> QED
      BY <2>1, <3>1 DEF Upto, ListsFirst
  <2>3. Upto(resp[l], epoch)' /\ ListsFirst(resp[l])'
    BY <1>t, <2>1, NothingAsked DEF Upto, ListsFirst
  <2>4. /\ \A c \in DOMAIN poll.calls : ~(resp'[l].list[c].epoch > 0)
        /\ \A r \in Resources : ~(resp'[l].detail[r] > 0)
    BY <1>t, <2>1, NothingAsked
  <2> QED
    BY <1>l, <2>1, <2>2, <2>3, <2>4 DEF EpochInv
<1>7. CASE UpdateBegins(l) \/ ResetVec(l)
  BY <1>1, <1>7, <1>t DEF UpdateBegins, ResetVec, apiVars
<1>8. CASE \E s \in left[l] : GetGauge(l, s[1], s[2]) \/ SetGauge(l, s[1], s[2])
  BY <1>1, <1>8, <1>t DEF GetGauge, SetGauge, apiVars
<1>9. CASE \E m \in Loops : Poll(m)
  BY <1>l, <1>3, <1>4, <1>5, <1>6, <1>7, <1>8, <1>9 DEF Poll
<1> QED
  BY <1>2, <1>9 DEF CacheNext

LEMMA EpochInvariant ==
  ASSUME OneLoop PROVE CacheSpec => [](CacheTypeOK /\ CacheInv /\ EpochInv)
<1>1. CacheInit => EpochInv
  BY EpochInit
<1>2. CacheTypeOK /\ CacheInv /\ EpochInv /\ [CacheNext]_cacheVars => EpochInv'
  BY EpochStep
<1> QED
  BY <1>1, <1>2, CacheInvariant, PTL DEF CacheSpec

\* Nothing shown is older than what the last successful poll found.
THEOREM ShowsNothingOlder == ASSUME OneLoop PROVE CacheSpec => []NeverOlder
<1>1. ASSUME CacheTypeOK, CacheInv, EpochInv PROVE NeverOlder
  <2> SUFFICES ASSUME NEW s \in Series, table[s] > Blank
               PROVE  /\ table[s] >= published.list[CallOf(s[1])].epoch
                      /\ table[s] >= Value(published, s[1], s[2])
    BY DEF NeverOlder
  <2>1. PICK l \in Loops : Loops = {l}
    BY DEF OneLoop
  <2>2. /\ poll \in Polls /\ resp[l] \in Answers /\ published \in Answers
    BY <1>1 DEF CacheTypeOK
  <2>3. /\ s[1] \in Columns /\ CallOf(s[1]) \in DOMAIN poll.calls
        /\ VecOf(s[1]) \in poll.detailed => s[2] \in Resources
    BY <2>2, SeriesFacts, PollFacts DEF Series
  <2>4. /\ published.list[CallOf(s[1])].epoch \in 0 .. MaxEpoch
        /\ Value(published, s[1], s[2]) \in 0 .. MaxEpoch
    BY <2>2, <2>3, ValueType DEF Answers, Snapshots
  <2>5. CASE table[s] = Rendered(published)[s]
    <3>1. table[s] = Value(published, s[1], s[2])
      BY <2>2, <2>5, RenderedShown
    <3>2. CASE VecOf(s[1]) \in poll.detailed
      BY <1>1, <2>3, <2>4, <3>1, <3>2 DEF Value, EpochInv, ListsFirst, Blank
    <3>3. CASE VecOf(s[1]) \notin poll.detailed
      BY <2>4, <3>1, <3>3 DEF Value
    <3> QED
      BY <3>2, <3>3
  <2>6. CASE table[s] = Value(resp[l], s[1], s[2])
    <3>1. Upto(published, table[s])
      <4>1. CASE VecOf(s[1]) \in poll.detailed
        BY <1>1, <2>3, <2>6, <4>1 DEF Value, EpochInv, Blank
      <4>2. CASE VecOf(s[1]) \notin poll.detailed
        BY <1>1, <2>3, <2>6, <4>2 DEF Value, EpochInv, Blank
      <4> QED
        BY <4>1, <4>2
    <3>2. Value(published, s[1], s[2]) <= table[s] /\ published.list[CallOf(s[1])].epoch <= table[s]
      BY <2>3, <3>1 DEF Value, Upto
    <3>3. table[s] \in Int
      BY <2>2, <2>6, ValueType
    <3> QED
      BY <2>4, <3>2, <3>3
  <2>7. CASE pc[l] # "updating"
    BY <1>1, <2>1, <2>5, <2>7 DEF CacheInv, Quiet
  <2>8. CASE pc[l] = "updating"
    <3>1. table[s] = Expected(l, s)
      BY <1>1, <2>8 DEF CacheInv, Writing
    <3>2. table[s] # Blank /\ table[s] # Absent
      BY DEF Blank, Absent
    <3> QED
      BY <2>5, <2>6, <3>1, <3>2 DEF Expected
  <2> QED
    BY <2>7, <2>8
<1> QED
  BY <1>1, EpochInvariant, PTL

\* Past a list call, and while the vecs are written, its answer is there.
AskedInv ==
  \A l \in Loops :
    /\ pc[l] = "idle" => step[l] = 0
    /\ \A c \in DOMAIN poll.calls :
         pc[l] = "updating" \/ (pc[l] = "fetching" /\ c <= step[l]) => resp[l].list[c].epoch > 0

LEMMA AskedStep == CacheTypeOK /\ AskedInv /\ [CacheNext]_cacheVars => AskedInv'
<1> DEFINE Asked(p, n, answers) ==
             /\ p = "idle" => n = 0
             /\ \A c \in DOMAIN poll.calls :
                  p = "updating" \/ (p = "fetching" /\ c <= n) => answers.list[c].epoch > 0
<1> SUFFICES ASSUME CacheTypeOK, AskedInv, [CacheNext]_cacheVars, NEW l \in Loops
             PROVE  Asked(pc'[l], step'[l], resp'[l])
  BY PollKept DEF AskedInv
<1>t. /\ poll \in Polls /\ epoch \in 1 .. MaxEpoch /\ MaxEpoch \in Nat
      /\ resp \in [Loops -> Answers] /\ step \in [Loops -> Nat]
      /\ pc \in [Loops -> {"idle", "fetching", "updating"}]
  BY CacheAssumption DEF CacheTypeOK
<1>n. Len(poll.calls) \in Nat /\ DOMAIN poll.calls = 1 .. Len(poll.calls)
  BY <1>t, PollFacts
<1>i. Asked(pc[l], step[l], resp[l])
  BY DEF AskedInv
<1>1. ASSUME NEW m \in Loops, PollBegins(m)  PROVE Asked(pc'[l], step'[l], resp'[l])
  <2>1. pc[m] = "idle" /\ pc' = [pc EXCEPT ![m] = "fetching"] /\ UNCHANGED <<step, resp>>
    BY <1>1 DEF PollBegins
  <2>2. step[m] = 0
    BY <2>1 DEF AskedInv
  <2> QED
    BY <1>t, <1>n, <1>i, <2>1, <2>2
<1>2. ASSUME NEW m \in Loops, ListAnswered(m)  PROVE Asked(pc'[l], step'[l], resp'[l])
  <2>1. /\ pc[m] = "fetching" /\ step' = [step EXCEPT ![m] = @ + 1] /\ pc' = pc
        /\ step[m] < Len(poll.calls)
        /\ resp' = [resp EXCEPT ![m].list[step'[m]] = Now]
    BY <1>2 DEF ListAnswered
  <2>2. CASE l # m
    BY <1>t, <1>i, <2>1, <2>2
  <2>3. ASSUME l = m, NEW c \in DOMAIN poll.calls, c <= step'[l]
        PROVE  resp'[l].list[c].epoch > 0
    <3>1. resp'[l].list = [resp[l].list EXCEPT ![step[l] + 1] = Now]
      BY <1>t, <1>n, <2>1, <2>3 DEF Answers
    <3>2. resp[l].list \in [DOMAIN poll.calls -> Snapshots]
      BY <1>t DEF Answers
    <3>3. CASE c = step[l] + 1
      <4>1. resp'[l].list[c] = Now
        BY <3>1, <3>2, <3>3
      <4> QED
        BY <1>t, <4>1 DEF Now
    <3>4. CASE c # step[l] + 1
      <4>1. resp'[l].list[c] = resp[l].list[c]
        BY <3>1, <3>2, <3>4
      <4>2. c <= step[l]
        BY <1>t, <1>n, <2>1, <2>3, <3>4
      <4> QED
        BY <1>i, <2>1, <2>3, <4>1, <4>2
    <3> QED
      BY <3>3, <3>4
  <2> QED
    BY <1>t, <2>1, <2>2, <2>3
<1>3. ASSUME NEW m \in Loops, NEW r \in Resources, DetailAnswered(m, r)
      PROVE  Asked(pc'[l], step'[l], resp'[l])
  <2>1. resp'[l].list = resp[l].list /\ pc' = pc /\ step' = step
    BY <1>3, <1>t DEF DetailAnswered, Answers
  <2> QED
    BY <1>i, <2>1
<1>4. ASSUME NEW m \in Loops, CallFails(m) \/ PollReturnsNil(m)
      PROVE  Asked(pc'[l], step'[l], resp'[l])
  <2>1. /\ pc' = [pc EXCEPT ![m] = "idle"] /\ step' = [step EXCEPT ![m] = 0]
        /\ resp' = [resp EXCEPT ![m] = NoAnswers]
    BY <1>4 DEF CallFails, PollReturnsNil, Return
  <2> QED
    BY <1>t, <1>i, <2>1
<1>5. ASSUME NEW m \in Loops, UpdateBegins(m)  PROVE Asked(pc'[l], step'[l], resp'[l])
  <2>1. /\ pc[m] = "fetching" /\ step[m] = Len(poll.calls) /\ resp' = resp
        /\ pc' = [pc EXCEPT ![m] = "updating"] /\ step' = [step EXCEPT ![m] = 0]
    BY <1>5 DEF UpdateBegins, Fetched
  <2> QED
    BY <1>t, <1>n, <1>i, <2>1
<1>6. ASSUME NEW m \in Loops,
             ResetVec(m) \/ \E s \in left[m] : GetGauge(m, s[1], s[2]) \/ SetGauge(m, s[1], s[2])
      PROVE  Asked(pc'[l], step'[l], resp'[l])
  <2>1. /\ pc[m] = "updating" /\ pc' = pc /\ resp' = resp
        /\ \A k \in Loops : k # m => step'[k] = step[k]
    BY <1>6, <1>t DEF ResetVec, GetGauge, SetGauge
  <2>2. CASE l = m
    BY <1>i, <2>1, <2>2
  <2>3. CASE l # m
    BY <1>i, <2>1, <2>3
  <2> QED
    BY <2>2, <2>3
<1>7. CASE AccountChanges \/ UNCHANGED cacheVars
  BY <1>7, <1>i DEF AccountChanges, cacheVars, loopVars
<1> QED
  BY <1>1, <1>2, <1>3, <1>4, <1>5, <1>6, <1>7 DEF CacheNext, Poll

LEMMA AskedInvariant == CacheSpec => [](CacheTypeOK /\ AskedInv)
<1>1. CacheInit => AskedInv
  BY DEF CacheInit, AskedInv
<1> QED
  BY <1>1, TypeInit, TypeStep, AskedStep, PTL DEF CacheSpec

LEMMA PublishStep ==
  ASSUME OneLoop, AskedInv, EpochInv, [CacheNext]_cacheVars,
         published' # published,
         NEW old \in Moments(published), NEW new \in Moments(published')
  PROVE  old <= new
<1>l. PICK l \in Loops : Loops = {l}
  BY DEF OneLoop
<1>1. PollReturnsNil(l)
  <2>1. \A m \in Loops : m = l
    BY <1>l
  <2> QED
    BY <2>1 DEF CacheNext, AccountChanges, cacheVars, Poll, PollBegins, ListAnswered,
         DetailAnswered, CallFails, UpdateBegins, ResetVec, GetGauge, SetGauge
<1>2. published' = resp[l] /\ pc[l] = "updating"
  BY <1>1 DEF PollReturnsNil
<1>4. Upto(published, new)
  <2>1. CASE \E c \in DOMAIN poll.calls : new = resp[l].list[c].epoch
    <3>1. \A c \in DOMAIN poll.calls : resp[l].list[c].epoch > 0
      BY <1>2 DEF AskedInv
    <3> QED
      BY <2>1, <3>1 DEF EpochInv
  <2>2. CASE \E r \in Resources : resp[l].detail[r] > 0 /\ new = resp[l].detail[r]
    BY <2>2 DEF EpochInv
  <2> QED
    BY <1>2, <2>1, <2>2 DEF Moments
<1>5. CASE \E c \in DOMAIN poll.calls : old = published.list[c].epoch
  BY <1>4, <1>5 DEF Upto
<1>6. CASE \E r \in Resources : old = published.detail[r]
  BY <1>4, <1>6 DEF Upto
<1> QED
  BY <1>5, <1>6 DEF Moments

\* A poll only ever replaces what is served by answers that are not older
\* (serverless.go:25-45); with two loops for a domain it may.
THEOREM GoesForward == ASSUME OneLoop PROVE CacheSpec => ServedForward
<1>1. ASSUME AskedInv, EpochInv, [CacheNext]_cacheVars
      PROVE  [published' # published =>
                \A old \in Moments(published), new \in Moments(published') : old <= new]_cacheVars
  BY <1>1, PublishStep
<1> QED
  BY <1>1, EpochInvariant, AskedInvariant, PTL DEF CacheSpec, ServedForward
=============================================================================
