------------------------- MODULE AclDecisionProofs -------------------------
(***************************************************************************)
(* Proofs about the decisions of AclRules, for configurations of any size. *)
(***************************************************************************)
EXTENDS AclDecision, TLAPS, WellFoundedInduction

\* Every set of natural numbers but the empty one has a least element.
LEMMA LeastNatural ==
  ASSUME NEW S \in SUBSET Nat, S # {}
  PROVE  \E m \in S : \A n \in S : m <= n
<1>1. PICK m \in S : \A n \in S : ~(<<n, m>> \in OpToRel(<, Nat))
  BY NatLessThanWellFounded, WFMin
<1>2. \A n \in S : ~(n < m)
  BY <1>1 DEF OpToRel
<1> QED
  BY <1>2

\* Among any matching rules there is one that the stable sort puts first.
LEMMA FirstOfExists ==
  ASSUME NEW c, NEW S, S # {},
         \A i \in S : i \in Nat /\ c.rules[i].priority \in Nat
  PROVE  /\ FirstOf(c, S) \in S
         /\ \A j \in S \ {FirstOf(c, S)} : SortsBefore(c, FirstOf(c, S), j)
<1> DEFINE P == {c.rules[i].priority : i \in S}
<1>1. PICK pr \in P : \A q \in P : pr <= q
  <2>1. P \in SUBSET Nat /\ P # {}
    OBVIOUS
  <2> QED
    BY <2>1, LeastNatural
<1> DEFINE T == {i \in S : c.rules[i].priority = pr}
<1>2. PICK i \in T : \A j \in T : i <= j
  <2>1. T \in SUBSET Nat /\ T # {}
    BY <1>1
  <2> QED
    BY <2>1, LeastNatural
<1>3. \A j \in S \ {i} : SortsBefore(c, i, j)
  <2> SUFFICES ASSUME NEW j \in S \ {i} PROVE SortsBefore(c, i, j)
    OBVIOUS
  <2>1. pr \in Nat /\ i \in Nat /\ j \in Nat /\ c.rules[i].priority = pr
    BY <1>2
  <2>2. pr <= c.rules[j].priority /\ c.rules[j].priority \in Nat
    BY <1>1
  <2>3. c.rules[j].priority = pr => i <= j
    BY <1>2
  <2> QED
    BY <2>1, <2>2, <2>3 DEF SortsBefore
<1> QED
  BY <1>2, <1>3 DEF FirstOf

\* The configuration stays the one that was loaded.
LEMMA DecisionTypes == Spec => [](config \in Configs)
<1>1. Init => config \in Configs
  BY DEF Init
<1>2. config \in Configs /\ [Next]_vars => (config \in Configs)'
  BY DEF Next, Receive, vars
<1> QED
  BY <1>1, <1>2, PTL DEF Spec

-----------------------------------------------------------------------------
(* Sorting and scanning.                                                   *)

\* What sorted(key=priority) and sort_by_key() promise of a set of rules: each one
\* is there, by priority, and those of one priority in their old order.
IsStableSort(c, S, s) ==
  /\ s \in Seq(S)
  /\ \A i \in S : \E n \in DOMAIN s : s[n] = i
  /\ \A m, n \in DOMAIN s : m < n =>
       \/ c.rules[s[m]].priority < c.rules[s[n]].priority
       \/ c.rules[s[m]].priority = c.rules[s[n]].priority /\ s[m] < s[n]

\* A scan ends at place n: the first whose rule is in S.
EndsAt(s, S, n) == s[n] \in S /\ \A m \in 1..n-1 : s[m] \notin S

\* Where the scan of a sorted list ends, there is the first rule of the set.
LEMMA ScanEndsAtFirst ==
  ASSUME NEW c \in Configs, NEW s, IsStableSort(c, EnabledRules(c), s),
         NEW S \in SUBSET EnabledRules(c), NEW n \in DOMAIN s, EndsAt(s, S, n)
  PROVE  FirstOf(c, S) = s[n]
<1>1. \A i \in S : i \in Nat /\ c.rules[i].priority \in Nat
  BY ConfigsAssumption DEF EnabledRules
<1>2. DOMAIN s \subseteq Nat /\ DOMAIN s = 1..Len(s)
  BY DEF IsStableSort
<1>3. ASSUME NEW j \in S \ {s[n]} PROVE SortsBefore(c, s[n], j)
  <2>1. PICK m \in DOMAIN s : s[m] = j
    BY DEF IsStableSort
  <2>2. n < m
    BY <1>2, <2>1 DEF EndsAt
  <2> QED
    BY <2>1, <2>2 DEF IsStableSort, SortsBefore
<1>4. /\ FirstOf(c, S) \in S
      /\ \A j \in S \ {FirstOf(c, S)} : SortsBefore(c, FirstOf(c, S), j)
  BY <1>1, FirstOfExists DEF EndsAt
<1>5. SUFFICES ASSUME FirstOf(c, S) # s[n] PROVE FALSE
  OBVIOUS
<1>6. SortsBefore(c, s[n], FirstOf(c, S)) /\ SortsBefore(c, FirstOf(c, S), s[n])
  BY <1>3, <1>4, <1>5 DEF EndsAt
<1> QED
  BY <1>1, <1>4, <1>6 DEF SortsBefore, EndsAt

\* Whatever stable sort an engine uses, the first match of its scan is the rule
\* that find_matching_rule() is defined to choose, for any number of rules.
THEOREM FirstMatchOfAnySort ==
  ASSUME NEW c \in Configs, NEW p, NEW s, IsStableSort(c, EnabledRules(c), s)
  PROVE  /\ \A n \in DOMAIN s : EndsAt(s, MatchingRules(c, p), n)
                                => FindMatchingRule(c, p) = s[n]
         /\ (\A n \in DOMAIN s : ~Matches(c.rules[s[n]], p)) => FindMatchingRule(c, p) = 0
         /\ \A n \in DOMAIN s : EndsAt(s, RsMatchingRules(c, p), n)
                                => RsFindMatchingRule(c, p) = s[n]
         /\ (\A n \in DOMAIN s : ~RsMatches(c.rules[s[n]], p)) => RsFindMatchingRule(c, p) = 0
<1>1. MatchingRules(c, p) \in SUBSET EnabledRules(c)
  BY DEF MatchingRules
<1>2. RsMatchingRules(c, p) \in SUBSET EnabledRules(c)
  BY DEF RsMatchingRules
<1>3. ASSUME NEW n \in DOMAIN s, EndsAt(s, MatchingRules(c, p), n)
      PROVE  FindMatchingRule(c, p) = s[n]
  BY <1>1, <1>3, ScanEndsAtFirst DEF FindMatchingRule, EndsAt
<1>4. ASSUME NEW n \in DOMAIN s, EndsAt(s, RsMatchingRules(c, p), n)
      PROVE  RsFindMatchingRule(c, p) = s[n]
  BY <1>2, <1>4, ScanEndsAtFirst DEF RsFindMatchingRule, EndsAt
<1>5. (\A n \in DOMAIN s : ~Matches(c.rules[s[n]], p)) => FindMatchingRule(c, p) = 0
  BY DEF IsStableSort, FindMatchingRule, MatchingRules
<1>6. (\A n \in DOMAIN s : ~RsMatches(c.rules[s[n]], p)) => RsFindMatchingRule(c, p) = 0
  BY DEF IsStableSort, RsFindMatchingRule, RsMatchingRules
<1> QED
  BY <1>3, <1>4, <1>5, <1>6

\* t is s with e at place k.
HasInserted(t, s, k, e) ==
  /\ Len(t) = Len(s) + 1
  /\ \A m \in 1..(Len(s) + 1) : t[m] = IF m < k THEN s[m] ELSE IF m = k THEN e ELSE s[m - 1]

\* What InsertAt() makes of a sequence.
LEMMA InsertAtProperties ==
  ASSUME NEW T, NEW s \in Seq(T), NEW k \in 1..(Len(s) + 1), NEW e \in T
  PROVE  InsertAt(s, k, e) \in Seq(T) /\ HasInserted(InsertAt(s, k, e), s, k, e)
<1> DEFINE front == SubSeq(s, 1, k - 1)
           back == SubSeq(s, k, Len(s))
<1>1. /\ front \in Seq(T) /\ Len(front) = k - 1
      /\ \A m \in 1..(k - 1) : front[m] = s[m]
  OBVIOUS
<1>2. /\ back \in Seq(T) /\ Len(back) = Len(s) - k + 1
      /\ \A m \in 1..(Len(s) - k + 1) : back[m] = s[k + m - 1]
  OBVIOUS
<1>3. InsertAt(s, k, e) = front \o <<e>> \o back
  BY DEF InsertAt
<1> DEFINE upTo == front \o <<e>>
<1> HIDE DEF front, back
<1>4. /\ upTo \in Seq(T) /\ Len(upTo) = k
      /\ \A m \in 1..(k - 1) : upTo[m] = s[m]
      /\ upTo[k] = e
  BY <1>1
<1> HIDE DEF upTo
<1>5. /\ upTo \o back \in Seq(T) /\ Len(upTo \o back) = Len(s) + 1
      /\ \A m \in 1..k : (upTo \o back)[m] = upTo[m]
      /\ \A m \in (k + 1)..(Len(s) + 1) : (upTo \o back)[m] = back[m - k]
  BY <1>2, <1>4
<1>6. ASSUME NEW m \in (k + 1)..(Len(s) + 1) PROVE back[m - k] = s[m - 1]
  <2>1. m - k \in 1..(Len(s) - k + 1) /\ k + (m - k) - 1 = m - 1
    OBVIOUS
  <2> QED
    BY <1>2, <2>1
<1> QED
  BY <1>3, <1>4, <1>5, <1>6 DEF upTo, HasInserted

\* Min() is the least element.
LEMMA MinIsLeast ==
  ASSUME NEW S \in SUBSET Nat, S # {}
  PROVE  Min(S) \in S /\ \A n \in S : Min(S) <= n
BY LeastNatural DEF Min

\* Where in s the elements of S stand.
Places(s, S) == {n \in DOMAIN s : s[n] \in S}

\* The scan ends at the least of these places.
LEMMA ScanEndsAtLeast ==
  ASSUME NEW s, NEW S, Len(s) \in Nat, DOMAIN s = 1..Len(s), Places(s, S) # {}
  PROVE  EndsAt(s, S, Min(Places(s, S)))
<1> DEFINE least == Min(Places(s, S))
<1>1. Places(s, S) \in SUBSET Nat
  BY DEF Places
<1>2. least \in Places(s, S) /\ \A n \in Places(s, S) : least <= n
  BY <1>1, MinIsLeast
<1> HIDE DEF least
<1>3. least \in 1..Len(s) /\ s[least] \in S
  BY <1>2 DEF Places
<1>4. ASSUME NEW m \in 1..(least - 1) PROVE s[m] \notin S
  <2>1. m \in DOMAIN s /\ ~(least <= m)
    BY <1>3
  <2> QED
    BY <1>2, <2>1 DEF Places
<1>5. EndsAt(s, S, least)
  BY <1>3, <1>4 DEF EndsAt
<1> QED
  BY <1>5 DEF least

\* The enabled rules among the first n.
EnabledUpTo(c, n) == {i \in EnabledRules(c) : i <= n}

\* Inserting the next rule keeps the sort stable.
LEMMA InsertKeepsStable ==
  ASSUME NEW c \in Configs, NEW n \in DOMAIN c.rules, NEW s,
         IsStableSort(c, EnabledUpTo(c, n - 1), s)
  PROVE  IsStableSort(c, EnabledUpTo(c, n), Insert(c, s, n))
<1> DEFINE S == EnabledUpTo(c, n - 1)
           T == EnabledUpTo(c, n)
           prio(i) == c.rules[i].priority
<1>1. /\ n \in Nat \ {0} /\ prio(n) \in Nat
      /\ \A i \in EnabledRules(c) : i \in Nat /\ prio(i) \in Nat
  BY ConfigsAssumption DEF EnabledRules
<1>2. CASE ~c.rules[n].enabled
  <2>1. T = S
    BY <1>1, <1>2 DEF EnabledUpTo, EnabledRules
  <2> QED
    BY <1>2, <2>1 DEF Insert
<1>3. CASE c.rules[n].enabled
  <2> DEFINE k == Place(c, s, n)
             t == InsertAt(s, k, n)
             behind == {m \in DOMAIN s : prio(s[m]) > prio(n)}
  <2>1. T = S \cup {n} /\ n \in T /\ \A i \in S : i < n
    BY <1>1, <1>3, ConfigsAssumption DEF EnabledUpTo, EnabledRules
  <2>2. /\ s \in Seq(S) /\ s \in Seq(T) /\ Len(s) \in Nat /\ DOMAIN s = 1..Len(s)
        /\ \A m \in 1..Len(s) : s[m] \in S /\ prio(s[m]) \in Nat
    BY <1>1, <2>1 DEF IsStableSort, EnabledUpTo
  <2>3. /\ k \in 1..(Len(s) + 1)
        /\ \A m \in 1..(k - 1) : prio(s[m]) <= prio(n)
        /\ \A m \in k..Len(s) : prio(s[m]) > prio(n)
    <3>1. k = IF behind = {} THEN Len(s) + 1 ELSE Min(behind)
      BY DEF Place
    <3>2. behind \in SUBSET Nat
      BY <2>2
    <3>3. \A m \in 1..Len(s) : m \in behind <=> prio(s[m]) > prio(n)
      BY <2>2
    <3>4. behind \subseteq 1..Len(s)
      BY <2>2
    <3> HIDE DEF behind, k
    <3>5. CASE behind = {}
      <4>1. k = Len(s) + 1
        BY <3>1, <3>5
      <4> QED
        BY <1>1, <2>2, <3>3, <3>5, <4>1
    <3>6. CASE behind # {}
      <4>1. k \in behind /\ \A m \in behind : k <= m
        BY <3>1, <3>2, <3>6, MinIsLeast
      <4>2. k \in 1..Len(s) /\ prio(s[k]) > prio(n)
        BY <3>3, <3>4, <4>1
      <4>3. \A m \in 1..(k - 1) : m \notin behind /\ m \in 1..Len(s)
        BY <2>2, <4>1, <4>2
      <4>4. \A m \in 1..(k - 1) : prio(s[m]) <= prio(n)
        BY <1>1, <2>2, <3>3, <4>3
      <4>5. ASSUME NEW m \in k..Len(s) PROVE prio(s[m]) > prio(n)
        <5>1. CASE m = k
          BY <4>2, <5>1
        <5>2. CASE m # k
          <6>1. m \in DOMAIN s /\ k \in DOMAIN s /\ k < m
            BY <2>2, <4>2, <5>2
          <6>2. prio(s[k]) <= prio(s[m])
            BY <2>2, <6>1 DEF IsStableSort
          <6> QED
            BY <1>1, <2>2, <4>2, <6>1, <6>2
        <5> QED
          BY <5>1, <5>2
      <4> QED
        BY <2>2, <4>2, <4>4, <4>5
    <3> QED
      BY <3>5, <3>6
  <2> HIDE DEF k
  <2>4. /\ t \in Seq(T) /\ Len(t) = Len(s) + 1 /\ DOMAIN t = 1..(Len(s) + 1)
        /\ \A m \in 1..(Len(s) + 1) :
             t[m] = IF m < k THEN s[m] ELSE IF m = k THEN n ELSE s[m - 1]
    <3>1. t \in Seq(T) /\ HasInserted(t, s, k, n)
      BY <2>1, <2>2, <2>3, InsertAtProperties
    <3> QED
      BY <3>1 DEF HasInserted
  <2> HIDE DEF t
  <2>5. ASSUME NEW i \in T PROVE \E m \in DOMAIN t : t[m] = i
    <3>1. CASE i = n
      BY <2>3, <2>4, <3>1
    <3>2. CASE i # n
      <4>1. PICK m \in 1..Len(s) : s[m] = i
        BY <2>1, <2>2, <3>2 DEF IsStableSort
      <4>2. CASE m < k
        BY <2>2, <2>4, <4>1, <4>2
      <4>3. CASE ~(m < k)
        <5>1. m + 1 \in DOMAIN t /\ t[m + 1] = s[m]
          BY <2>2, <2>3, <2>4, <4>3
        <5> QED
          BY <4>1, <5>1
      <4> QED
        BY <4>2, <4>3
    <3> QED
      BY <3>1, <3>2
  <2>6. ASSUME NEW m \in DOMAIN t, NEW l \in DOMAIN t, m < l
        PROVE  \/ prio(t[m]) < prio(t[l])
               \/ prio(t[m]) = prio(t[l]) /\ t[m] < t[l]
    <3>1. m \in Nat /\ l \in Nat /\ k \in Nat
      BY <2>2, <2>3, <2>4
    <3>2. CASE l = k
      <4>1. m \in 1..(k - 1) /\ t[m] = s[m] /\ t[l] = n /\ m \in 1..Len(s)
        BY <2>2, <2>3, <2>4, <2>6, <3>1, <3>2
      <4> QED
        BY <1>1, <2>1, <2>2, <2>3, <4>1
    <3>3. CASE m = k
      <4>1. l - 1 \in k..Len(s) /\ l - 1 \in 1..Len(s) /\ t[m] = n /\ t[l] = s[l - 1]
        BY <2>2, <2>3, <2>4, <2>6, <3>1, <3>3
      <4> QED
        BY <1>1, <2>1, <2>2, <2>3, <4>1
    <3>4. CASE l # k /\ m # k
      <4> DEFINE a == IF m < k THEN m ELSE m - 1
                 b == IF l < k THEN l ELSE l - 1
      <4>1. a \in DOMAIN s /\ b \in DOMAIN s /\ a < b
        BY <2>2, <2>3, <2>4, <2>6, <3>1, <3>4
      <4>2. t[m] = s[a] /\ t[l] = s[b]
        BY <2>2, <2>3, <2>4, <3>1, <3>4
      <4> QED
        BY <4>1, <4>2 DEF IsStableSort
    <3> QED
      BY <3>2, <3>3, <3>4
  <2>7. Insert(c, s, n) = t
    BY <1>3 DEF Insert, k, t
  <2> QED
    BY <2>4, <2>5, <2>6, <2>7 DEF IsStableSort
<1> QED
  BY <1>2, <1>3

\* f sorts the rules of c one by one, up to n.
SortsUpTo(c, f, n) ==
  f = [k \in 0..n |-> IF k = 0 THEN <<>> ELSE Insert(c, f[k - 1], k)]

\* There is such a function up to every n: if not there would be a least n
\* without one, and the function for its predecessor could be extended.
LEMMA SortExists ==
  ASSUME NEW c, NEW n \in Nat
  PROVE  \E f : SortsUpTo(c, f, n)
<1> DEFINE Without == {m \in Nat : ~\E f : SortsUpTo(c, f, m)}
<1>1. SUFFICES ASSUME Without # {} PROVE FALSE
  OBVIOUS
<1>2. PICK m \in Without : \A l \in Without : m <= l
  <2>1. Without \in SUBSET Nat
    OBVIOUS
  <2> QED
    BY <1>1, <2>1, LeastNatural
<1>3. m # 0
  <2> DEFINE f == [k \in 0..0 |-> <<>>]
  <2>1. SortsUpTo(c, f, 0)
    <3>1. \A k \in 0..0 : k = 0
      OBVIOUS
    <3> QED
      BY <3>1 DEF SortsUpTo
  <2> QED
    BY <1>2, <2>1
<1>4. PICK f : SortsUpTo(c, f, m - 1)
  <2>1. m - 1 \in Nat /\ ~(m <= m - 1)
    BY <1>3
  <2> QED
    BY <1>2, <2>1
<1> DEFINE g == [k \in 0..m |-> IF k = m THEN Insert(c, f[m - 1], m) ELSE f[k]]
<1>5. \A k \in 0..m : g[k] = IF k = 0 THEN <<>> ELSE Insert(c, g[k - 1], k)
  <2> SUFFICES ASSUME NEW k \in 0..m
               PROVE  g[k] = IF k = 0 THEN <<>> ELSE Insert(c, g[k - 1], k)
    OBVIOUS
  <2>1. CASE k = m
    <3>1. k # 0 /\ k - 1 \in 0..m /\ k - 1 # m
      BY <1>3, <2>1
    <3> QED
      BY <2>1, <3>1
  <2>2. CASE k # m
    <3>1. k \in 0..(m - 1) /\ g[k] = f[k]
      BY <2>2
    <3>2. k # 0 => k - 1 \in 0..m /\ k - 1 # m
      BY <2>2
    <3>3. f[k] = IF k = 0 THEN <<>> ELSE Insert(c, f[k - 1], k)
      BY <1>4, <3>1 DEF SortsUpTo
    <3> QED
      BY <3>1, <3>2, <3>3
  <2> QED
    BY <2>1, <2>2
<1>6. SortsUpTo(c, g, m)
  <2>1. DOMAIN g = 0..m /\ g = [k \in 0..m |-> g[k]]
    OBVIOUS
  <2> HIDE DEF g
  <2> QED
    BY <1>5, <2>1 DEF SortsUpTo
<1> QED
  BY <1>2, <1>6

\* The recursive definition is satisfied by what it defines.
LEMMA SortedUpToSorts ==
  ASSUME NEW c \in Configs
  PROVE  SortsUpTo(c, SortedUpTo(c), Len(c.rules))
<1>1. PICK f : SortsUpTo(c, f, Len(c.rules))
  BY SortExists, ConfigsAssumption
<1>2. SortedUpTo(c) = CHOOSE g : SortsUpTo(c, g, Len(c.rules))
  BY DEF SortedUpTo, SortsUpTo
<1> QED
  BY <1>1, <1>2

\* Rule by rule, the enabled rules so far are sorted.
LEMMA EveryPrefixIsSorted ==
  ASSUME NEW c \in Configs, NEW n \in 0..Len(c.rules)
  PROVE  IsStableSort(c, EnabledUpTo(c, n), SortedUpTo(c)[n])
<1> DEFINE f == SortedUpTo(c)
           Unsorted == {m \in 0..Len(c.rules) : ~IsStableSort(c, EnabledUpTo(c, m), f[m])}
<1>1. \A m \in 0..Len(c.rules) : f[m] = IF m = 0 THEN <<>> ELSE Insert(c, f[m - 1], m)
  BY SortedUpToSorts DEF SortsUpTo
<1>2. SUFFICES ASSUME Unsorted # {} PROVE FALSE
  OBVIOUS
<1>3. PICK m \in Unsorted : \A l \in Unsorted : m <= l
  <2>1. Unsorted \in SUBSET Nat
    BY ConfigsAssumption
  <2> QED
    BY <1>2, <2>1, LeastNatural
<1>4. CASE m = 0
  <2>1. EnabledUpTo(c, 0) = {}
    BY ConfigsAssumption DEF EnabledUpTo, EnabledRules
  <2>2. f[0] = <<>>
    BY <1>1, <1>4
  <2>3. IsStableSort(c, {}, <<>>)
    BY DEF IsStableSort
  <2> QED
    BY <1>3, <1>4, <2>1, <2>2, <2>3
<1>5. CASE m # 0
  <2>1. m \in DOMAIN c.rules /\ m - 1 \in 0..Len(c.rules) /\ ~(m <= m - 1)
    BY <1>5, ConfigsAssumption
  <2>2. IsStableSort(c, EnabledUpTo(c, m - 1), f[m - 1])
    BY <1>3, <2>1
  <2>3. f[m] = Insert(c, f[m - 1], m)
    BY <1>1, <1>5
  <2> QED
    BY <1>3, <2>1, <2>2, <2>3, InsertKeepsStable
<1> QED
  BY <1>4, <1>5

\* The reference sort is stable and complete, for lists of any length.
THEOREM SortIsStable ==
  ASSUME NEW c \in Configs
  PROVE  IsStableSort(c, EnabledRules(c), GetSortedRules(c))
<1>1. Len(c.rules) \in 0..Len(c.rules)
  BY ConfigsAssumption
<1>2. EnabledUpTo(c, Len(c.rules)) = EnabledRules(c)
  BY ConfigsAssumption DEF EnabledUpTo, EnabledRules
<1> QED
  BY <1>1, <1>2, EveryPrefixIsSorted DEF GetSortedRules

\* Choosing the first rule is what sorting and scanning computes, with either
\* engine's predicate and however many rules there are.
THEOREM ScanFindsFirst == Spec => []FirstMatchIsTheScan
<1>1. ASSUME NEW c \in Configs, NEW p
      PROVE  /\ FindMatchingRule(c, p) = ScanRules(c, p, Matches)
             /\ RsFindMatchingRule(c, p) = ScanRules(c, p, RsMatches)
  <2> DEFINE s == GetSortedRules(c)
             Hits == {n \in DOMAIN s : Matches(c.rules[s[n]], p)}
             RsHits == {n \in DOMAIN s : RsMatches(c.rules[s[n]], p)}
  <2>1. IsStableSort(c, EnabledRules(c), s)
    BY SortIsStable
  <2>2. DOMAIN s = 1..Len(s) /\ Len(s) \in Nat /\ \A n \in DOMAIN s : s[n] \in EnabledRules(c)
    BY <2>1 DEF IsStableSort
  <2> HIDE DEF s
  <2>3. Hits \in SUBSET Nat /\ RsHits \in SUBSET Nat
    BY <2>2
  <2>4. Hits # {} => EndsAt(s, MatchingRules(c, p), Min(Hits))
    <3>1. Hits = Places(s, MatchingRules(c, p))
      BY <2>2 DEF Places, MatchingRules
    <3> QED
      BY <2>2, <3>1, ScanEndsAtLeast
  <2>5. RsHits # {} => EndsAt(s, RsMatchingRules(c, p), Min(RsHits))
    <3>1. RsHits = Places(s, RsMatchingRules(c, p))
      BY <2>2 DEF Places, RsMatchingRules
    <3> QED
      BY <2>2, <3>1, ScanEndsAtLeast
  <2>6. FindMatchingRule(c, p) = IF Hits = {} THEN 0 ELSE s[Min(Hits)]
    BY <2>1, <2>3, <2>4, MinIsLeast, FirstMatchOfAnySort
  <2>7. RsFindMatchingRule(c, p) = IF RsHits = {} THEN 0 ELSE s[Min(RsHits)]
    BY <2>1, <2>3, <2>5, MinIsLeast, FirstMatchOfAnySort
  <2> QED
    BY <2>6, <2>7 DEF ScanRules, s
<1>2. config \in Configs => FirstMatchIsTheScan
  BY <1>1 DEF FirstMatchIsTheScan
<1> QED
  BY <1>2, DecisionTypes, PTL

-----------------------------------------------------------------------------
(* The two engines.                                                        *)

\* On what can be compared the two matching predicates are the same.
LEMMA SameMatches ==
  ASSUME NEW c, NEW p, Comparable(c, p)
  PROVE  RsMatchingRules(c, p) = MatchingRules(c, p)
<1>1. ASSUME NEW i \in EnabledRules(c) PROVE RsMatches(c.rules[i], p) <=> Matches(c.rules[i], p)
  <2> DEFINE r == c.rules[i]
  <2>1. r.types # {} /\ (p.dst = NoAddr => r.dstDev = NoDev)
    BY DEF Comparable, EveryRuleListsTypes, NoDestDevice, EnabledRules
  <2>2. RsMatchesDest(r, p.dst, p.dstDev) <=> MatchesDestination(r, p.dst, p.dstDev)
    BY <2>1 DEF RsMatchesDest, MatchesDestination
  <2>3. RsMatchesMessageType(r, MessageType(p)) <=> MatchesMessageType(r, MessageType(p))
    BY <2>1 DEF RsMatchesMessageType
  <2> QED
    BY <2>2, <2>3 DEF RsMatches, Matches
<1> QED
  BY <1>1 DEF RsMatchingRules, MatchingRules

\* The rule that decides is one that matches.
LEMMA DecidingRuleMatches ==
  ASSUME NEW c \in Configs, NEW p, MatchingRules(c, p) # {}
  PROVE  FindMatchingRule(c, p) \in MatchingRules(c, p) /\ FindMatchingRule(c, p) # 0
<1> DEFINE S == MatchingRules(c, p)
<1>1. \A i \in S : i \in Nat \ {0} /\ c.rules[i].priority \in Nat
  BY ConfigsAssumption DEF MatchingRules, EnabledRules
<1>2. FirstOf(c, S) \in S
  BY <1>1, FirstOfExists
<1> QED
  BY <1>1, <1>2 DEF FindMatchingRule

\* With distinct names the table of names leads back to the rule.
LEMMA NameLeadsBack ==
  ASSUME NEW c \in Configs, DistinctNames(c), NEW i \in DOMAIN c.rules
  PROVE  RuleNamed(c, c.rules[i].name) = i
<1>1. \A j \in DOMAIN c.rules : c.rules[j].name = c.rules[i].name <=> j = i
  BY DEF DistinctNames
<1>2. i \in Nat
  BY ConfigsAssumption
<1> QED
  BY <1>1, <1>2 DEF RuleNamed

\* The native engine and its time check by name decide as the Python fallback
\* does on every comparable configuration, however many rules it has.
THEOREM EnginesAgreeOnComparable ==
  ASSUME NEW c \in Configs, NEW p, NEW t, Comparable(c, p)
  PROVE  RsCheckPacket(c, p, t) = PyCheckPacket(c, p, t)
<1> DEFINE i == FindMatchingRule(c, p)
<1>1. RsFindMatchingRule(c, p) = i
  BY SameMatches DEF RsFindMatchingRule, FindMatchingRule
<1>2. CASE i = 0
  <2>1. RsVerdict(c, p) = DefaultVerdict(c)
    BY <1>1, <1>2 DEF RsVerdict
  <2>2. ~NamedRuleIsOutside(c, RsVerdict(c, p).rule, t)
    BY <2>1 DEF NamedRuleIsOutside, DefaultVerdict
  <2> QED
    BY <1>2, <2>1, <2>2 DEF RsCheckPacket, PyCheckPacket
<1>3. CASE i # 0
  <2>1. i \in DOMAIN c.rules
    BY <1>3, DecidingRuleMatches DEF FindMatchingRule, MatchingRules, EnabledRules
  <2>2. RsVerdict(c, p) = RuleVerdict(c.rules[i])
    BY <1>1, <1>3 DEF RsVerdict
  <2>3. RuleNamed(c, c.rules[i].name) = i /\ c.rules[i].name # DefaultName
    BY <2>1, NameLeadsBack DEF Comparable, NoRuleNamedDefault
  <2>4. NamedRuleIsOutside(c, RsVerdict(c, p).rule, t) <=> OutsideWindow(c.rules[i], t)
    BY <1>3, <2>2, <2>3 DEF NamedRuleIsOutside, RuleVerdict
  <2> QED
    BY <1>3, <2>2, <2>4 DEF RsCheckPacket, PyCheckPacket
<1> QED
  BY <1>2, <1>3

\* The same, of every packet a behaviour of AclDecision receives.
THEOREM EnginesAgreeAlways == Spec => []EnginesAgree
<1>1. config \in Configs => EnginesAgree
  BY EnginesAgreeOnComparable DEF EnginesAgree
<1> QED
  BY <1>1, DecisionTypes, PTL

\* The first of a set is the first of every part of it that it belongs to.
LEMMA FirstOfPart ==
  ASSUME NEW c, NEW S, NEW T \in SUBSET S, FirstOf(c, S) \in T,
         \A i \in S : i \in Nat /\ c.rules[i].priority \in Nat
  PROVE  FirstOf(c, T) = FirstOf(c, S)
<1>1. \A j \in S \ {FirstOf(c, S)} : SortsBefore(c, FirstOf(c, S), j)
  BY FirstOfExists
<1>2. /\ FirstOf(c, T) \in T
      /\ \A j \in T \ {FirstOf(c, T)} : SortsBefore(c, FirstOf(c, T), j)
  BY FirstOfExists
<1>3. SUFFICES ASSUME FirstOf(c, T) # FirstOf(c, S) PROVE FALSE
  OBVIOUS
<1>4. /\ SortsBefore(c, FirstOf(c, S), FirstOf(c, T))
      /\ SortsBefore(c, FirstOf(c, T), FirstOf(c, S))
  BY <1>1, <1>2, <1>3
<1>5. /\ FirstOf(c, S) \in Nat /\ c.rules[FirstOf(c, S)].priority \in Nat
      /\ FirstOf(c, T) \in Nat /\ c.rules[FirstOf(c, T)].priority \in Nat
  BY <1>2
<1> QED
  BY <1>4, <1>5 DEF SortsBefore

\* Either engine decides as the active rules do among themselves, unless a
\* sleeping rule hides an active one, for any number of rules and windows.
THEOREM SleepersDoNotAct == Spec => []SleepingRulesDoNotAct
<1>1. ASSUME NEW c \in Configs, NEW p, NEW t, ~SleeperHidesRule(c, p, t)
      PROVE  PyCheckPacket(c, p, t) = ActiveVerdict(c, p, t)
  <2> DEFINE S == MatchingRules(c, p)
             T == ActiveRules(c, p, t)
             i == FindMatchingRule(c, p)
  <2>1. T \in SUBSET S /\ \A k \in S : k \in T <=> ~OutsideWindow(c.rules[k], t)
    BY DEF ActiveRules
  <2>2. CASE T = {}
    <3>1. i # 0 => i \in S
      BY DecidingRuleMatches DEF FindMatchingRule
    <3>2. i # 0 => OutsideWindow(c.rules[i], t)
      BY <2>1, <2>2, <3>1
    <3> QED
      BY <2>2, <3>2 DEF PyCheckPacket, ActiveVerdict
  <2>3. CASE T # {}
    <3>1. i \in T
      BY <1>1, <2>3 DEF SleeperHidesRule
    <3>2. i \in S /\ i # 0 /\ ~OutsideWindow(c.rules[i], t)
      BY <2>1, <3>1, DecidingRuleMatches
    <3>3. i = FirstOf(c, S)
      BY <3>2 DEF FindMatchingRule
    <3>4. \A k \in S : k \in Nat /\ c.rules[k].priority \in Nat
      BY ConfigsAssumption DEF MatchingRules, EnabledRules
    <3>5. FirstOf(c, T) = i
      BY <2>1, <3>1, <3>3, <3>4, FirstOfPart
    <3> QED
      BY <2>3, <3>2, <3>5 DEF PyCheckPacket, ActiveVerdict
  <2> QED
    BY <2>2, <2>3
<1>2. config \in Configs => SleepingRulesDoNotAct
  BY <1>1, EnginesAgreeOnComparable DEF SleepingRulesDoNotAct
<1> QED
  BY <1>2, DecisionTypes, PTL

-----------------------------------------------------------------------------
(* Cut-through.                                                            *)

\* An allow-all rule for a source matches every packet from it.
LEMMA AllowAllMatches ==
  ASSUME NEW r, NEW p, IsAllowAllFor(r, p.src)
  PROVE  Matches(r, p)
BY DEF IsAllowAllFor, Matches, MatchesSource, MatchesDestination, MatchesMessageType

\* A source that owes its cut-through to an allow-all rule is cut through only
\* where the skipped check would have allowed the packet, if no rule could
\* refuse the packet or waits for its window.
THEOREM CutThroughIsSafe == Spec => []CutThroughIsSafeWithoutRefusals
<1>1. ASSUME config \in Configs, NothingRefuses(config, packet),
             ~InCutThroughNetwork(config, packet.src),
             IsCutThroughEligible(config, packet.src)
      PROVE  PyCheckPacket(config, packet, instant).allowed
  <2> DEFINE i == FindMatchingRule(config, packet)
  <2>1. MatchingRules(config, packet) # {}
    BY <1>1, AllowAllMatches DEF IsCutThroughEligible, MatchingRules
  <2>2. i \in MatchingRules(config, packet) /\ i # 0
    BY <1>1, <2>1, DecidingRuleMatches
  <2>3. IsAllow(config.rules[i].action) /\ ~OutsideWindow(config.rules[i], instant)
    BY <1>1, <2>2 DEF NothingRefuses, MatchingRules, OutsideWindow
  <2> QED
    BY <2>2, <2>3 DEF PyCheckPacket, RuleVerdict
<1>2. config \in Configs => CutThroughIsSafeWithoutRefusals
  BY <1>1 DEF CutThroughIsSafeWithoutRefusals
<1> QED
  BY <1>2, DecisionTypes, PTL

-----------------------------------------------------------------------------
(* Time windows.                                                           *)

LEMMA AheadWithoutModulus ==
  ASSUME NEW a \in 0..(Marks - 1), NEW b \in 0..(Marks - 1)
  PROVE  Ahead(a, b) = IF a <= b THEN b - a ELSE b - a + Marks
<1>1. CASE a <= b
  BY <1>1, MarksAssumption, SMTT(30) DEF Ahead
<1>2. CASE ~(a <= b)
  BY <1>2, MarksAssumption, SMTT(30) DEF Ahead
<1> QED
  BY <1>1, <1>2

\* The comparison of the code is the run of marks from start to end.
LEMMA TimeRangeIsArc ==
  ASSUME NEW w, NEW now, w.start \in 0..(Marks - 1), w.end \in 0..(Marks - 1),
         now.mark \in 0..(Marks - 1)
  PROVE  CheckTimeRange(w, now)
           <=> /\ w.days = {} \/ now.day \in w.days
               /\ Ahead(w.start, now.mark) <= Ahead(w.start, w.end)
<1>1. /\ Ahead(w.start, now.mark)
           = IF w.start <= now.mark THEN now.mark - w.start
             ELSE now.mark - w.start + Marks
      /\ Ahead(w.start, w.end)
           = IF w.start <= w.end THEN w.end - w.start ELSE w.end - w.start + Marks
  BY AheadWithoutModulus
<1>2. Ahead(w.start, now.mark) <= Ahead(w.start, w.end)
        <=> \/ w.start <= now.mark /\ now.mark <= w.end
            \/ w.start > w.end /\ (now.mark >= w.start \/ now.mark <= w.end)
  BY <1>1, MarksAssumption
<1> QED
  BY <1>2 DEF CheckTimeRange

\* Every window the validator admits is such a run on its days, overnight
\* windows and windows that end at a mark no clock shows included.
THEOREM WindowsAreArcs == Spec => []WindowIsAnArc
<1> DEFINE Inputs == config \in Configs /\ instant \in Instants
<1>1. Inputs => WindowIsAnArc
  <2> SUFFICES ASSUME Inputs, NEW i \in DOMAIN config.rules, config.rules[i].window # NoWindow
               PROVE  CheckTimeRange(config.rules[i].window, instant)
                        <=> /\ \/ config.rules[i].window.days = {}
                               \/ instant.day \in config.rules[i].window.days
                            /\ Ahead(config.rules[i].window.start, instant.mark)
                                 <= Ahead(config.rules[i].window.start, config.rules[i].window.end)
    BY DEF WindowIsAnArc
  <2> QED
    BY MarksAssumption, TimeRangeIsArc
<1>2. Init => Inputs
  BY DEF Init
<1>3. Inputs /\ [Next]_vars => Inputs'
  BY DEF Next, Receive, vars
<1> QED
  BY <1>1, <1>2, <1>3, PTL DEF Spec

=============================================================================
