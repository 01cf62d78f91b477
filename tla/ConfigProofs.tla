---------------------------- MODULE ConfigProofs ----------------------------
(***************************************************************************)
(* Lemmas about the operators of Config, for lists of any length.          *)
(*                                                                         *)
(* Keep is a recursive function, so that what it returns is shown by       *)
(* induction.  The induction theorems of the library take a predicate for  *)
(* a parameter, which the provers cannot instantiate; SetInduction takes a *)
(* set instead.  It follows from the strict subset ordering being well     *)
(* founded on finite sets, which is stated of sets throughout.             *)
(***************************************************************************)
EXTENDS Config, FiniteSetTheorems, SequenceTheorems, WellFoundedInduction, TLAPS

\* Induction over the naturals: of the intervals 0 .. n whose n is not in T
\* none is the smallest.
LEMMA SetInduction ==
  ASSUME NEW T, 0 \in T, \A n \in Nat : n \in T => n + 1 \in T
  PROVE  Nat \subseteq T
<1> SUFFICES ASSUME Nat \ T # {} PROVE FALSE
  OBVIOUS
<1> DEFINE W == {0 .. n : n \in Nat \ T}
<1>1. W \subseteq FiniteSubsetsOf(Nat)
  <2> SUFFICES ASSUME NEW n \in Nat PROVE 0 .. n \in FiniteSubsetsOf(Nat)
    OBVIOUS
  <2>1. IsFiniteSet(0 .. n)
    BY FS_Interval
  <2>2. 0 .. n \in SUBSET Nat
    OBVIOUS
  <2> QED
    BY <2>1, <2>2 DEF FiniteSubsetsOf
<1>2. IsWellFoundedOn(StrictSubsetOrdering(Nat), FiniteSubsetsOf(Nat))
  BY FS_StrictSubsetOrderingWellFounded
<1>3. W # {}
  OBVIOUS
<1> HIDE DEF W
<1>4. PICK X \in W : \A Y \in W : ~(<<Y, X>> \in StrictSubsetOrdering(Nat))
  BY <1>1, <1>2, <1>3, WFMin
<1>5. PICK n \in Nat \ T : X = 0 .. n
  BY DEF W
<1>6. n # 0 /\ n - 1 \in Nat /\ n - 1 \notin T
  BY <1>5
<1>7. 0 .. (n - 1) \in W
  BY <1>6 DEF W
<1>8. 0 .. (n - 1) \subseteq X /\ 0 .. (n - 1) # X /\ X \subseteq Nat
  <2>1. n \in 0 .. n /\ n \notin 0 .. (n - 1)
    BY <1>5
  <2> QED
    BY <1>5, <2>1
<1>9. <<0 .. (n - 1), X>> \in StrictSubsetOrdering(Nat)
  BY <1>8, Zenon DEF StrictSubsetOrdering
<1> QED
  BY <1>4, <1>7, <1>9

-----------------------------------------------------------------------------
\* g is out of Keep's loop, up to the n-th name.
IsKept(g, s, T, n) ==
  g = [i \in 0 .. n |->
        IF i = 0 THEN <<>> ELSE IF s[i] \in T THEN Append(g[i - 1], s[i]) ELSE g[i - 1]]

\* There is such a loop, and Keep returns what it ends with.
LEMMA KeptExists ==
  ASSUME NEW s, NEW T, NEW l \in Nat
  PROVE  \E g : IsKept(g, s, T, l)
<1> DEFINE Ns == {n \in Nat : \E g : IsKept(g, s, T, n)}
<1>1. 0 \in Ns
  <2> DEFINE g == [i \in 0 .. 0 |-> <<>>]
  <2>1. IsKept(g, s, T, 0)
    BY DEF IsKept
  <2> QED
    BY <2>1
<1>2. ASSUME NEW n \in Nat, n \in Ns
      PROVE  n + 1 \in Ns
  <2>1. PICK g : IsKept(g, s, T, n)
    BY <1>2
  <2> DEFINE last == IF s[n + 1] \in T THEN Append(g[n], s[n + 1]) ELSE g[n]
             h == [i \in 0 .. n + 1 |-> IF i = n + 1 THEN last ELSE g[i]]
  <2>2. h = [i \in 0 .. n + 1 |-> IF i = 0 THEN <<>>
                        ELSE IF s[i] \in T THEN Append(h[i - 1], s[i]) ELSE h[i - 1]]
    <3> SUFFICES ASSUME NEW i \in 0 .. n + 1
                 PROVE  h[i] = IF i = 0 THEN <<>>
                        ELSE IF s[i] \in T THEN Append(h[i - 1], s[i]) ELSE h[i - 1]
      OBVIOUS
    <3>1. CASE i = n + 1
      <4>1. h[i] = last /\ h[i - 1] = g[n] /\ i # 0
        BY <3>1
      <4> QED
        BY <3>1, <4>1
    <3>2. CASE i # n + 1
      <4>1. i \in 0 .. n
        BY <3>2
      <4>2. g[i] = IF i = 0 THEN <<>>
                   ELSE IF s[i] \in T THEN Append(g[i - 1], s[i]) ELSE g[i - 1]
        BY <2>1, <4>1 DEF IsKept
      <4>3. h[i] = g[i]
        BY <3>2
      <4>4. i # 0 => h[i - 1] = g[i - 1]
        BY <4>1
      <4> HIDE DEF h
      <4> QED
        BY <4>2, <4>3, <4>4
    <3> QED
      BY <3>1, <3>2
  <2>3. IsKept(h, s, T, n + 1)
    BY <2>2 DEF IsKept
  <2> QED
    BY <2>3
<1> HIDE DEF Ns
<1>3. l \in Ns
  BY <1>1, <1>2, SetInduction
<1> QED
  BY <1>3 DEF Ns

\* So that the recursive function of Keep is one.
LEMMA KeepIs ==
  ASSUME NEW s, NEW T, Len(s) \in Nat
  PROVE  \E g : IsKept(g, s, T, Len(s)) /\ Keep(s, T) = g[Len(s)]
<1>1. PICK g : IsKept(g, s, T, Len(s))
  BY KeptExists
<1> QED
  BY <1>1, Zenon DEF Keep, IsKept
\* What holds of out before the loop, and after each turn if it did before it,
\* holds of what is returned: Q relates the number of turns to out.
LEMMA KeepInduction ==
  ASSUME NEW s, NEW T, Len(s) \in Nat, NEW Q,
         <<0, <<>>>> \in Q,
         \A n \in 1 .. Len(s) : \A out :
           <<n - 1, out>> \in Q =>
             <<n, IF s[n] \in T THEN Append(out, s[n]) ELSE out>> \in Q
  PROVE  <<Len(s), Keep(s, T)>> \in Q
<1>1. PICK g : IsKept(g, s, T, Len(s)) /\ Keep(s, T) = g[Len(s)]
  BY KeepIs
<1>2. g[0] = <<>>
  BY <1>1 DEF IsKept
<1>3. ASSUME NEW n \in 1 .. Len(s)
      PROVE  g[n] = IF s[n] \in T THEN Append(g[n - 1], s[n]) ELSE g[n - 1]
  <2>1. n \in 0 .. Len(s) /\ n # 0
    OBVIOUS
  <2>2. g = [i \in 0 .. Len(s) |->
              IF i = 0 THEN <<>> ELSE IF s[i] \in T THEN Append(g[i - 1], s[i]) ELSE g[i - 1]]
    BY <1>1 DEF IsKept
  <2> QED
    BY <2>1, <2>2, Zenon
<1> DEFINE Ns == {n \in Nat : n <= Len(s) => <<n, g[n]>> \in Q}
<1>4. 0 \in Ns
  BY <1>2
<1>5. ASSUME NEW n \in Nat, n \in Ns
      PROVE  n + 1 \in Ns
  <2> SUFFICES ASSUME n + 1 <= Len(s)
               PROVE  <<n + 1, g[n + 1]>> \in Q
    OBVIOUS
  <2>1. n + 1 \in 1 .. Len(s) /\ (n + 1) - 1 = n /\ <<n, g[n]>> \in Q
    BY <1>5
  <2> HIDE DEF Ns
  <2>2. g[n + 1] = IF s[n + 1] \in T THEN Append(g[n], s[n + 1]) ELSE g[n]
    BY <1>3, <2>1
  <2> QED
    BY <2>1, <2>2
<1> HIDE DEF Ns
<1>6. Len(s) \in Ns
  BY <1>4, <1>5, SetInduction
<1> QED
  BY <1>1, <1>6 DEF Ns

\* Only wanted names are kept.
LEMMA KeepType ==
  ASSUME NEW S, NEW s \in Seq(S), NEW T
  PROVE  Keep(s, T) \in Seq(S \cap T)
<1> DEFINE Q == Nat \X Seq(S \cap T)
<1>1. <<0, <<>>>> \in Q
  <2>1. 0 \in Nat /\ <<>> \in Seq(S \cap T)
    OBVIOUS
  <2> QED
    BY <2>1, Zenon
<1>2. ASSUME NEW n \in 1 .. Len(s), NEW out, <<n - 1, out>> \in Q
      PROVE  <<n, IF s[n] \in T THEN Append(out, s[n]) ELSE out>> \in Q
  <2>1. out \in Seq(S \cap T) /\ s[n] \in S /\ n \in Nat
    BY <1>2, ElementOfSeq
  <2>2. (IF s[n] \in T THEN Append(out, s[n]) ELSE out) \in Seq(S \cap T)
    <3>1. s[n] \in T => Append(out, s[n]) \in Seq(S \cap T)
      BY <2>1, AppendProperties
    <3> QED
      BY <2>1, <3>1
  <2> QED
    BY <2>1, <2>2, Zenon
<1> HIDE DEF Q
<1>3. <<Len(s), Keep(s, T)>> \in Q
  BY <1>1, <1>2, KeepInduction
<1> QED
  BY <1>3 DEF Q

\* If all of them are wanted the list stays as it is.
LEMMA KeepAll ==
  ASSUME NEW T, NEW s \in Seq(T)
  PROVE  Keep(s, T) = s
<1> DEFINE Q == {<<n, SubSeq(s, 1, n)>> : n \in 0 .. Len(s)}
<1>1. <<0, <<>>>> \in Q
  <2>1. SubSeq(s, 1, 0) = <<>>
    BY SubSeqEmpty
  <2> QED
    BY <2>1
<1>2. ASSUME NEW n \in 1 .. Len(s), NEW out, <<n - 1, out>> \in Q
      PROVE  <<n, IF s[n] \in T THEN Append(out, s[n]) ELSE out>> \in Q
  <2>1. out = SubSeq(s, 1, n - 1) /\ s[n] \in T
    BY <1>2, ElementOfSeq
  <2>2. SubSeq(s, 1, n) = Append(SubSeq(s, 1, n - 1), s[n])
    OBVIOUS
  <2> QED
    BY <2>1, <2>2
<1> HIDE DEF Q
<1>3. <<Len(s), Keep(s, T)>> \in Q
  BY <1>1, <1>2, KeepInduction
<1>4. Keep(s, T) = SubSeq(s, 1, Len(s))
  BY <1>3 DEF Q
<1> QED
  BY <1>4, SubSeqFull

\* How many of the first n names are wanted.
Wanted(s, T, n) == {i \in 1 .. n : s[i] \in T}
Rank(s, T, n)   == Cardinality(Wanted(s, T, n))

LEMMA WantedFinite ==
  ASSUME NEW s, NEW T, NEW n \in Nat
  PROVE  IsFiniteSet(Wanted(s, T, n)) /\ Rank(s, T, n) \in Nat
<1>1. IsFiniteSet(1 .. n)
  BY FS_Interval
<1>2. Wanted(s, T, n) \in SUBSET (1 .. n)
  BY DEF Wanted
<1>3. IsFiniteSet(Wanted(s, T, n))
  BY <1>1, <1>2, FS_Subset
<1> QED
  BY <1>3, FS_CardinalityType DEF Rank

\* A wanted name is one more, another is none; a wanted name's rank is one at
\* least, and at most that of any name after it.
LEMMA RankStep ==
  ASSUME NEW s, NEW T, NEW n \in Nat \ {0}
  PROVE  Rank(s, T, n) = IF s[n] \in T THEN Rank(s, T, n - 1) + 1 ELSE Rank(s, T, n - 1)
<1>1. IsFiniteSet(Wanted(s, T, n - 1))
  BY WantedFinite
<1>2. n \notin Wanted(s, T, n - 1)
  BY DEF Wanted
<1>3. 1 .. n = 1 .. (n - 1) \cup {n}
  OBVIOUS
<1>4. Wanted(s, T, n) = IF s[n] \in T THEN Wanted(s, T, n - 1) \cup {n} ELSE Wanted(s, T, n - 1)
  BY <1>3 DEF Wanted
<1> QED
  BY <1>1, <1>2, <1>4, FS_AddElement DEF Rank

LEMMA RankBounds ==
  ASSUME NEW s, NEW T, NEW n \in Nat, NEW i \in 1 .. n
  PROVE  /\ Rank(s, T, i) \in Nat /\ Rank(s, T, i) <= Rank(s, T, n)
         /\ s[i] \in T => Rank(s, T, i) >= 1
<1>1. Wanted(s, T, i) \in SUBSET Wanted(s, T, n)
  BY DEF Wanted
<1>2. Rank(s, T, i) <= Rank(s, T, n)
  BY <1>1, WantedFinite, FS_Subset DEF Rank
<1>3. Rank(s, T, i) \in Nat /\ Rank(s, T, i - 1) \in Nat
  BY WantedFinite
<1>4. s[i] \in T => Rank(s, T, i) = Rank(s, T, i - 1) + 1
  BY RankStep
<1> QED
  BY <1>2, <1>3, <1>4

\* Each wanted name is kept at the place it has among the wanted ones, and
\* nothing else is kept.
LEMMA KeepPlaces ==
  ASSUME NEW S, NEW s \in Seq(S), NEW T
  PROVE  /\ Len(Keep(s, T)) = Rank(s, T, Len(s))
         /\ \A i \in 1 .. Len(s) : s[i] \in T => Keep(s, T)[Rank(s, T, i)] = s[i]
<1> DEFINE Placed(n, out) ==
             /\ Len(out) = Rank(s, T, n)
             /\ \A i \in 1 .. n : s[i] \in T => out[Rank(s, T, i)] = s[i]
           Q == {p \in Nat \X Seq(S) : Placed(p[1], p[2])}
<1>0. ASSUME NEW n \in Nat, NEW out \in Seq(S), Placed(n, out)
      PROVE  <<n, out>> \in Q
  <2>1. <<n, out>> \in Nat \X Seq(S)
    OBVIOUS
  <2>2. <<n, out>>[1] = n /\ <<n, out>>[2] = out
    OBVIOUS
  <2> HIDE DEF Placed
  <2> QED
    BY <1>0, <2>1, <2>2, Zenon
<1>1. <<0, <<>>>> \in Q
  <2>1. Wanted(s, T, 0) = {}
    BY DEF Wanted
  <2>2. Rank(s, T, 0) = 0
    BY <2>1, FS_EmptySet DEF Rank
  <2>3. <<>> \in Seq(S) /\ Placed(0, <<>>)
    BY <2>2
  <2> HIDE DEF Q, Placed
  <2> QED
    BY <1>0, <2>3
<1>2. ASSUME NEW n \in 1 .. Len(s), NEW out, <<n - 1, out>> \in Q
      PROVE  <<n, IF s[n] \in T THEN Append(out, s[n]) ELSE out>> \in Q
  <2>1. out \in Seq(S) /\ s[n] \in S /\ n \in Nat \ {0} /\ n - 1 \in Nat
    BY <1>2, ElementOfSeq
  <2>2. Placed(n - 1, out)
    BY <1>2
  <2>3. Rank(s, T, n) = IF s[n] \in T THEN Len(out) + 1 ELSE Len(out)
    BY <2>1, <2>2, RankStep
  <2>4. 1 .. n = 1 .. (n - 1) \cup {n}
    OBVIOUS
  <2>5. CASE s[n] \in T
    <3> DEFINE new == Append(out, s[n])
    <3>1. /\ new \in Seq(S) /\ Len(new) = Len(out) + 1 /\ new[Len(out) + 1] = s[n]
          /\ \A k \in 1 .. Len(out) : new[k] = out[k]
      BY <2>1, AppendProperties
    <3>2. ASSUME NEW i \in 1 .. (n - 1), s[i] \in T
          PROVE  new[Rank(s, T, i)] = s[i]
      <4>1. Rank(s, T, i) \in 1 .. Len(out)
        BY <2>1, <2>2, <3>2, RankBounds
      <4>2. out[Rank(s, T, i)] = s[i]
        BY <2>2, <3>2
      <4> HIDE DEF new
      <4> QED
        BY <3>1, <4>1, <4>2
    <3> HIDE DEF new
    <3>3. Placed(n, new)
      BY <2>3, <2>4, <2>5, <3>1, <3>2
    <3> HIDE DEF Q, Placed
    <3>4. <<n, new>> \in Q
      BY <1>0, <2>1, <3>1, <3>3
    <3> QED
      BY <2>5, <3>4 DEF new
  <2>6. CASE s[n] \notin T
    <3>1. Placed(n, out)
      BY <2>2, <2>3, <2>4, <2>6
    <3> HIDE DEF Q, Placed
    <3> QED
      BY <1>0, <2>1, <2>6, <3>1
  <2> QED
    BY <2>5, <2>6
<1> HIDE DEF Q
<1>3. <<Len(s), Keep(s, T)>> \in Q
  BY <1>1, <1>2, KeepInduction
<1> QED
  BY <1>3 DEF Q

-----------------------------------------------------------------------------
LEMMA KnownIs ==
  Known = {"pod", "serverless", "billing", "account", "cluster",
           "template", "network-volume", "registry", "catalog"}
BY DEF Known, AllDomains

\* The lists of Parse and of Build name the same domains (client.go:29-31).
LEMMA AllImplemented == Known = Implemented
<1>1. /\ Pod.name = "pod" /\ Serverless.name = "serverless" /\ Catalog.name = "catalog"
      /\ Cluster.name = "cluster" /\ Registry.name = "registry" /\ Billing.name = "billing"
      /\ Account.name = "account" /\ Template.name = "template"
      /\ NetworkVolume.name = "network-volume"
  BY DEF Pod, Serverless, Catalog, Cluster, Registry, Billing, Account, Template, NetworkVolume,
         Simple
<1> QED
  BY <1>1, KnownIs DEF Implemented, AllPolls

\* No two domains have the same name, so that Tier is that of the domain.
LEMMA TierIs ==
  /\ \A name \in {"pod", "serverless", "account", "cluster"} : Tier(name) = "fast"
  /\ \A name \in {"billing", "template", "network-volume", "registry", "catalog"} :
       Tier(name) = "slow"
<1>1. /\ Pod.name = "pod" /\ Serverless.name = "serverless" /\ Catalog.name = "catalog"
      /\ Cluster.name = "cluster" /\ Registry.name = "registry" /\ Billing.name = "billing"
      /\ Account.name = "account" /\ Template.name = "template"
      /\ NetworkVolume.name = "network-volume"
  BY DEF Pod, Serverless, Catalog, Cluster, Registry, Billing, Account, Template, NetworkVolume,
         Simple
<1>2. /\ Pod.tier = "fast" /\ Serverless.tier = "fast" /\ Account.tier = "fast"
      /\ Cluster.tier = "fast" /\ Billing.tier = "slow" /\ Template.tier = "slow"
      /\ NetworkVolume.tier = "slow" /\ Registry.tier = "slow" /\ Catalog.tier = "slow"
  BY DEF Pod, Serverless, Catalog, Cluster, Registry, Billing, Account, Template, NetworkVolume,
         Simple
<1>3. \A p, q \in AllPolls : p.name = q.name => p.tier = q.tier
  BY <1>1, <1>2 DEF AllPolls
<1>4. ASSUME NEW p \in AllPolls  PROVE Tier(p.name) = p.tier
  BY <1>3 DEF Tier
<1> QED
  BY <1>1, <1>2, <1>4 DEF AllPolls

-----------------------------------------------------------------------------
\* What parseDomains returns, of a list it accepts, are domains that Parse
\* knows (config.go:117-128)...
LEMMA NamesKnown ==
  ASSUME NEW Parts, NEW parts \in Seq(Parts), DomainsOK(parts)
  PROVE  Names(parts) \in Seq(Known)
<1>1. CASE IsAll(parts)
  <2>1. Names(parts) = AllDomains
    BY <1>1 DEF Names
  <2> QED
    BY <2>1 DEF AllDomains, Known
<1>2. CASE ~IsAll(parts)
  <2> DEFINE trimmed == Trimmed(parts)
             S == {parts[i].name : i \in DOMAIN parts}
             T == NonEmpty(trimmed)
  <2>1. DOMAIN parts = 1 .. Len(parts) /\ Len(parts) \in Nat
    OBVIOUS
  <2>2. S \subseteq Known \cup {""}
    BY <1>2 DEF DomainsOK
  <2>3. trimmed \in [1 .. Len(parts) -> S]
    BY <2>1 DEF Trimmed
  <2>4. "" \notin T
    BY DEF NonEmpty
  <2>5. Names(parts) = Keep(trimmed, T)
    BY <1>2 DEF Names
  <2> HIDE DEF trimmed, S, T
  <2>6. trimmed \in Seq(S)
    BY <2>1, <2>3
  <2>7. Names(parts) \in Seq(S \cap T)
    BY <2>5, <2>6, KeepType
  <2>8. S \cap T \subseteq Known
    BY <2>2, <2>4
  <2> QED
    BY <2>7, <2>8, SeqMonotonic
<1> QED
  BY <1>1, <1>2

\* ... and all the names of the list, each in its place.
LEMMA NamesPlaced ==
  ASSUME NEW Parts, NEW parts \in Seq(Parts), ~IsAll(parts)
  PROVE  /\ Len(Names(parts)) = Cardinality({i \in DOMAIN parts : parts[i].name # ""})
         /\ \A i \in DOMAIN parts : parts[i].name # "" =>
              Names(parts)[Cardinality({j \in 1 .. i : parts[j].name # ""})] = parts[i].name
<1> DEFINE trimmed == Trimmed(parts)
           S == {parts[i].name : i \in DOMAIN parts}
           T == NonEmpty(trimmed)
<1>1. DOMAIN parts = 1 .. Len(parts) /\ Len(parts) \in Nat
  OBVIOUS
<1>2. DOMAIN trimmed = DOMAIN parts /\ \A i \in DOMAIN parts : trimmed[i] = parts[i].name
  BY DEF Trimmed
<1>3. trimmed \in [1 .. Len(parts) -> S]
  BY <1>1 DEF Trimmed
<1>4. \A i \in DOMAIN parts : trimmed[i] \in T <=> parts[i].name # ""
  BY <1>2 DEF NonEmpty
<1>5. Names(parts) = Keep(trimmed, T)
  BY DEF Names
<1> HIDE DEF trimmed, S, T
<1>6. trimmed \in Seq(S) /\ Len(trimmed) = Len(parts)
  BY <1>1, <1>3
<1>7. ASSUME NEW i \in DOMAIN parts \cup {Len(parts)}
      PROVE  Rank(trimmed, T, i) = Cardinality({j \in 1 .. i : parts[j].name # ""})
  <2>1. \A j \in 1 .. i : j \in DOMAIN parts
    BY <1>1
  <2>2. {j \in 1 .. i : trimmed[j] \in T} = {j \in 1 .. i : parts[j].name # ""}
    BY <1>4, <2>1
  <2> QED
    BY <2>2 DEF Rank, Wanted
<1>8. /\ Len(Keep(trimmed, T)) = Rank(trimmed, T, Len(parts))
      /\ \A i \in DOMAIN parts : trimmed[i] \in T =>
           Keep(trimmed, T)[Rank(trimmed, T, i)] = trimmed[i]
  BY <1>1, <1>6, KeepPlaces
<1>9. {i \in DOMAIN parts : parts[i].name # ""} = {j \in 1 .. Len(parts) : parts[j].name # ""}
  BY <1>1
<1>10. Len(Names(parts)) = Cardinality({i \in DOMAIN parts : parts[i].name # ""})
  BY <1>5, <1>7, <1>8, <1>9
<1>11. ASSUME NEW i \in DOMAIN parts, parts[i].name # ""
       PROVE  Names(parts)[Cardinality({j \in 1 .. i : parts[j].name # ""})] = parts[i].name
  BY <1>2, <1>4, <1>5, <1>7, <1>8, <1>11
<1> QED
  BY <1>10, <1>11

\* Build makes a domain of each name that Parse knows, in the same order.
LEMMA BuildsAll ==
  ASSUME NEW names \in Seq(Known)
  PROVE  Build(names) = names
BY AllImplemented, KeepAll DEF Build
=============================================================================
