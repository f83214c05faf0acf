-------------------------- MODULE SuggestionsProofs --------------------------
(* Proofs about Suggestions, for any identities, texts and bounds: the types *)
(* with the consistency of the tables, and that decisions are kept.        *)
EXTENDS Suggestions, FiniteSetTheorems, WellFoundedInduction, TLAPS

(* Induction up to a bound, on the set of the numbers it holds for.        *)
LEMMA UpTo ==
    ASSUME NEW n \in Nat, NEW S, 0 \in S, \A k \in S : k \in Nat /\ k < n => k + 1 \in S
    PROVE  0..n \subseteq S
<1> DEFINE T == {k \in 0..n : k \notin S}
           F == {0..k : k \in T}
           R == StrictSubsetOrdering(Nat)
<1> SUFFICES ASSUME T # {} PROVE FALSE
  OBVIOUS
<1>1. F \subseteq FiniteSubsetsOf(Nat)
  <2>1. \A k \in T : 0..k \in SUBSET Nat /\ IsFiniteSet(0..k)
    BY FS_Interval
  <2> QED BY <2>1 DEF FiniteSubsetsOf
<1>2. \E x \in F : \A y \in F : ~ (<<y, x>> \in R)
  <2>1. IsWellFoundedOn(R, FiniteSubsetsOf(Nat)) /\ F # {}
    BY FS_StrictSubsetOrderingWellFounded
  <2> HIDE DEF F, R
  <2> QED BY <1>1, <2>1, WFMin
<1>3. PICK k \in T : \A j \in T : ~ (<<0..j, 0..k>> \in R)
  BY <1>2
<1>4. k \in Nat /\ k # 0 /\ k <= n
  OBVIOUS
<1>5. k - 1 \in 0..n /\ k - 1 \in Nat /\ k - 1 < n /\ (k - 1) + 1 = k
  BY <1>4
<1>6. k - 1 \notin T
  <2>1. 0..(k - 1) \subseteq 0..k /\ 0..(k - 1) # 0..k
    BY <1>4, <1>5
  <2>2. 0..(k - 1) \in SUBSET Nat /\ 0..k \in SUBSET Nat
    BY <1>4, <1>5
  <2> HIDE DEF T
  <2> QED BY <1>3, <2>1, <2>2 DEF StrictSubsetOrdering
<1>7. k - 1 \in S
  BY <1>5, <1>6
<1> QED BY <1>5, <1>7

(* What holds at first and is kept by every step holds all along: S[k] is   *)
(* what the value after k steps is in.                                      *)
LEMMA Throughout ==
    ASSUME NEW n \in Nat, NEW S, NEW h, h[0] \in S[0],
           \A k \in 1..n : h[k-1] \in S[k-1] => h[k] \in S[k]
    PROVE  \A k \in 0..n : h[k] \in S[k]
<1> DEFINE T == {k \in 0..n : h[k] \in S[k]}
<1>1. 0 \in T
  OBVIOUS
<1>2. ASSUME NEW k \in T, k < n PROVE k + 1 \in T
  <2>1. k + 1 \in 1..n /\ k + 1 \in 0..n /\ (k + 1) - 1 = k
    BY <1>2
  <2> QED BY <2>1
<1>3. \A k \in T : k \in Nat /\ k < n => k + 1 \in T
  BY <1>2
<1> HIDE DEF T
<1>4. 0..n \subseteq T
  BY <1>1, <1>3, UpTo
<1> QED BY <1>4 DEF T

(* A function that is defined step by step exists.                         *)
Stepped(g, base, step, n) ==
    g = [k \in 0..n |-> IF k = 0 THEN base ELSE step[k][g[k-1]]]

LEMMA Recursion ==
    ASSUME NEW n \in Nat, NEW S, NEW base \in S[0], NEW step,
           \A k \in 1..n : \A a \in S[k-1] : step[k][a] \in S[k]
    PROVE  \E g : Stepped(g, base, step, n) /\ \A k \in 0..n : g[k] \in S[k]
<1> DEFINE T == {m \in 0..n : \E g : Stepped(g, base, step, m)}
<1>1. 0 \in T
  <2> DEFINE g == [k \in 0..0 |-> base]
  <2>1. Stepped(g, base, step, 0)
    BY DEF Stepped
  <2> HIDE DEF g
  <2> QED BY <2>1
<1>2. ASSUME NEW m \in T, m < n PROVE m + 1 \in T
  <2>1. PICK g : Stepped(g, base, step, m)
    OBVIOUS
  <2>2. m \in Nat /\ m + 1 \in 0..n
    BY <1>2
  <2> DEFINE h == [k \in 0..(m + 1) |-> IF k = m + 1 THEN step[k][g[m]] ELSE g[k]]
  <2>3. \A k \in 0..m : h[k] = g[k]
    BY <2>2
  <2>4. \A k \in 0..m : g[k] = IF k = 0 THEN base ELSE step[k][g[k-1]]
    BY <2>1 DEF Stepped
  <2>5. ASSUME NEW k \in 0..(m + 1)
        PROVE  h[k] = IF k = 0 THEN base ELSE step[k][h[k-1]]
    <3>1. CASE k = m + 1
      <4>1. h[k] = step[k][g[m]] /\ k - 1 = m /\ k # 0 /\ m \in 0..m
        BY <2>2, <3>1
      <4>2. h[k-1] = g[m]
        BY <2>3, <4>1
      <4> HIDE DEF h
      <4> QED BY <4>1, <4>2
    <3>2. CASE k # m + 1
      <4>1. k \in 0..m /\ (k # 0 => k - 1 \in 0..m)
        BY <2>2, <3>2
      <4>2. h[k] = g[k] /\ (k # 0 => h[k-1] = g[k-1])
        BY <2>3, <4>1
      <4> HIDE DEF h
      <4> QED BY <2>4, <4>1, <4>2
    <3> QED BY <3>1, <3>2
  <2>6. Stepped(h, base, step, m + 1)
    <3>1. h = [k \in 0..(m + 1) |-> h[k]]
      OBVIOUS
    <3> HIDE DEF h
    <3> QED BY <2>5, <3>1 DEF Stepped
  <2> HIDE DEF h
  <2> QED BY <2>2, <2>6
<1>3. PICK g : Stepped(g, base, step, n)
  <2>1. \A k \in T : k \in Nat /\ k < n => k + 1 \in T
    BY <1>2
  <2> HIDE DEF T
  <2>2. 0..n \subseteq T
    BY <1>1, <2>1, UpTo
  <2> QED BY <2>2 DEF T
<1>4. \A k \in 0..n : g[k] = IF k = 0 THEN base ELSE step[k][g[k-1]]
  BY <1>3 DEF Stepped
<1>5. \A k \in 1..n : g[k-1] \in S[k-1] => g[k] \in S[k]
  <2> SUFFICES ASSUME NEW k \in 1..n, g[k-1] \in S[k-1] PROVE g[k] \in S[k]
    OBVIOUS
  <2>1. k \in 0..n /\ k # 0
    OBVIOUS
  <2> QED BY <1>4, <2>1
<1>6. g[0] \in S[0]
  BY <1>4
<1> QED BY <1>3, <1>5, <1>6, Throughout

----------------------------------------------------------------------------
(* Pairs, views and tables.                                                *)

Good(d) == d \in Databases /\ Consistent(d)

LEMMA Numbers == MaxPersons \in Nat /\ MaxEdits \in Nat
BY SuggestionsBounds

LEMMA PairsPair ==
    /\ \A p, q \in Persons : p # q => {p, q} \in Pairs
    /\ \A pr \in Pairs : /\ pr \subseteq Persons
                         /\ \E p, q \in pr : p # q /\ pr = {p, q}
<1>1. ASSUME NEW p \in Persons, NEW q \in Persons, p # q PROVE {p, q} \in Pairs
  <2>1. p < q \/ q < p
    BY <1>1, Numbers DEF Persons
  <2>2. \A a, b \in Persons : a < b => {a, b} \in Pairs
    <3> SUFFICES ASSUME NEW a \in Persons, NEW b \in Persons, a < b PROVE {a, b} \in Pairs
      OBVIOUS
    <3> DEFINE x == <<a, b>>
    <3>1. x \in Persons \X Persons /\ x[1] < x[2] /\ {a, b} = {x[1], x[2]}
      OBVIOUS
    <3> HIDE DEF x
    <3> QED BY <3>1 DEF Pairs
  <2>3. {p, q} = {q, p}
    OBVIOUS
  <2> QED BY <2>1, <2>2, <2>3
<1>2. ASSUME NEW pr \in Pairs
      PROVE  pr \subseteq Persons /\ \E p, q \in pr : p # q /\ pr = {p, q}
  <2>1. PICK x \in Persons \X Persons : x[1] < x[2] /\ pr = {x[1], x[2]}
    BY DEF Pairs
  <2>2. x[1] \in Persons /\ x[2] \in Persons /\ x[1] # x[2]
    BY <2>1, Numbers DEF Persons
  <2> QED BY <2>1, <2>2
<1> QED BY <1>1, <1>2

LEMMA LivePersons ==
    ASSUME NEW d \in Databases
    PROVE  /\ Live(d) \subseteq Persons
           /\ \A i \in Idents : d.owner[i] \in 0..MaxPersons
           /\ \A i \in Idents : d.owner[i] # 0 => d.owner[i] \in Live(d)
<1>1. \A i \in Idents : d.owner[i] \in 0..MaxPersons
  BY DEF Databases
<1>2. \A p \in 0..MaxPersons : p # 0 => p \in Persons
  BY Numbers DEF Persons
<1> QED BY <1>1, <1>2 DEF Live

LEMMA ViewsTyped ==
    ASSUME NEW d, Good(d)
    PROVE  /\ Views(d) \subseteq PersonViews
           /\ OnePerPerson(Views(d))
           /\ \A v \in Views(d) : v.id \in Live(d)
<1> DEFINE raw == {RawView(d, p) : p \in Live(d)}
           Kept(v) == [v EXCEPT !.names =
               {n \in @ : Cardinality({w \in raw : n \in w.names}) <= OwnerCap(n)}]
<1>1. Views(d) = {Kept(v) : v \in raw}
  BY DEF Views, PruneSharedNames
<1>2. ASSUME NEW p \in Live(d)
      PROVE  RawView(d, p) \in PersonViews /\ RawView(d, p).id = p
  <2>1. p \in Persons /\ d.display[p] \in Names
    BY LivePersons DEF Good, Databases, Consistent
  <2>2. Identities(d, p) \subseteq Idents
    BY DEF Identities
  <2>3. {EmailOf[i] : i \in Identities(d, p)} \ {None} \subseteq Emails
    BY <2>2, IdentsAssumption
  <2>4. {LoginOf[i] : i \in Identities(d, p)} \ {None} \subseteq Handles
    BY <2>2, IdentsAssumption
  <2>5. ({NameOf[i] : i \in Identities(d, p)} \cup {d.display[p]}) \cap Names \subseteq Names
    OBVIOUS
  <2> QED BY <2>1, <2>3, <2>4, <2>5 DEF RawView, PersonViews
<1>3. ASSUME NEW v \in raw
      PROVE  Kept(v) \in PersonViews /\ Kept(v).id = v.id /\ v.id \in Live(d)
  <2>1. v \in PersonViews /\ v.id \in Live(d)
    BY <1>2
  <2> DEFINE names == {n \in v.names : Cardinality({w \in raw : n \in w.names}) <= OwnerCap(n)}
  <2>2. names \subseteq Names
    BY <2>1 DEF PersonViews
  <2>3. Kept(v) = [v EXCEPT !.names = names]
    OBVIOUS
  <2> HIDE DEF names, Kept, raw
  <2> QED BY <2>1, <2>2, <2>3 DEF PersonViews
<1>4. \A v, w \in raw : v.id = w.id => v = w
  BY <1>2
<1> HIDE DEF raw, Kept
<1> QED BY <1>1, <1>3, <1>4 DEF OnePerPerson

----------------------------------------------------------------------------
(* A merge: the identities, the place on a list and the end of every       *)
(* suggestion about either person.                                         *)
Absorbs(m, d, target, source) ==
    /\ m.owner = [i \in Idents |-> IF d.owner[i] = source THEN target ELSE d.owner[i]]
    /\ m.last = d.last
    /\ m.filtered = {IF p = source THEN target ELSE p : p \in d.filtered}
    /\ m.dismissed = {pr \in d.dismissed : pr \cap {target, source} = {}}

LEMMA MergeLeaves ==
    ASSUME NEW d, Good(d), NEW m, NEW target \in Live(d), NEW source \in Live(d),
           target # source, Absorbs(m, d, target, source)
    PROVE  /\ Live(m) = Live(d) \ {source}
           /\ Unseen(m) = Unseen(d)
           /\ \A i \in Idents : m.owner[i] \in 0..MaxPersons /\ m.owner[i] <= m.last
<1>1. target \in Persons /\ source \in Persons /\ target # 0 /\ source # 0
  BY LivePersons DEF Good, Live
<1>2. \A i \in Idents : m.owner[i] = IF d.owner[i] = source THEN target ELSE d.owner[i]
  BY DEF Absorbs
<1>3. Live(m) = Live(d) \ {source}
  <2>1. PICK j \in Idents : d.owner[j] = target
    BY DEF Live
  <2>2. ASSUME NEW p \in Live(m) PROVE p \in Live(d) \ {source}
    BY <1>2, <2>2 DEF Live
  <2>3. ASSUME NEW p \in Live(d) \ {source} PROVE p \in Live(m)
    <3>1. PICK i \in Idents : d.owner[i] = p /\ p # 0
      BY <2>3 DEF Live
    <3>2. m.owner[i] = p
      BY <1>2, <2>3, <3>1
    <3> QED BY <3>1, <3>2 DEF Live
  <2> QED BY <2>2, <2>3
<1>4. Unseen(m) = Unseen(d)
  BY <1>1, <1>2 DEF Unseen
<1>5. \A i \in Idents : m.owner[i] \in 0..MaxPersons /\ m.owner[i] <= m.last
  <2>1. \A i \in Idents : d.owner[i] \in 0..MaxPersons /\ d.owner[i] <= d.last
    BY LivePersons DEF Good, Consistent
  <2>2. PICK j \in Idents : d.owner[j] = target
    BY DEF Live
  <2>3. m.last = d.last
    BY DEF Absorbs
  <2> QED BY <1>2, <2>1, <2>2, <2>3
<1> QED BY <1>3, <1>4, <1>5

LEMMA MergedGood ==
    ASSUME NEW d, Good(d), NEW target \in Live(d), NEW source \in Live(d), target # source
    PROVE  /\ Good(Merged(d, target, source))
           /\ Absorbs(Merged(d, target, source), d, target, source)
<1> DEFINE moved == [d EXCEPT
            !.owner = [i \in Idents |-> IF @[i] = source THEN target ELSE @[i]],
            !.filtered = {IF p = source THEN target ELSE p : p \in @},
            !.pending = {pr \in @ : pr \cap {target, source} = {}},
            !.dismissed = {pr \in @ : pr \cap {target, source} = {}},
            !.display[source] = None]
           m == Merged(d, target, source)
           fresh == NewSuggestions(moved, target)
<1>1. m = [moved EXCEPT !.pending = @ \cup fresh]
  BY DEF Merged
<1>2. d \in Databases /\ target \in Persons /\ source \in Persons
  BY LivePersons DEF Good
<1>3. /\ moved.owner = [i \in Idents |-> IF d.owner[i] = source THEN target ELSE d.owner[i]]
      /\ moved.last = d.last
      /\ moved.filtered = {IF p = source THEN target ELSE p : p \in d.filtered}
      /\ moved.pending = {pr \in d.pending : pr \cap {target, source} = {}}
      /\ moved.dismissed = {pr \in d.dismissed : pr \cap {target, source} = {}}
      /\ moved.display = [d.display EXCEPT ![source] = None]
  BY <1>2 DEF Databases
<1>4. Absorbs(moved, d, target, source)
  BY <1>3 DEF Absorbs
<1>5. /\ Live(moved) = Live(d) \ {source}
      /\ Unseen(moved) = Unseen(d)
      /\ \A i \in Idents : moved.owner[i] \in 0..MaxPersons /\ moved.owner[i] <= moved.last
  BY <1>4, MergeLeaves
<1>6. moved \in Databases
  <2>1. [i \in Idents |-> IF d.owner[i] = source THEN target ELSE d.owner[i]]
            \in [Idents -> 0..MaxPersons]
    BY <1>3, <1>5
  <2>2. {IF p = source THEN target ELSE p : p \in d.filtered} \in SUBSET Persons
    BY <1>2 DEF Databases
  <2>3. /\ {pr \in d.pending : pr \cap {target, source} = {}} \in SUBSET Pairs
        /\ {pr \in d.dismissed : pr \cap {target, source} = {}} \in SUBSET Pairs
        /\ [d.display EXCEPT ![source] = None] \in [Persons -> Names \cup {None}]
    BY <1>2 DEF Databases
  <2> DEFINE owner == [i \in Idents |-> IF d.owner[i] = source THEN target ELSE d.owner[i]]
             filtered == {IF p = source THEN target ELSE p : p \in d.filtered}
             pending == {pr \in d.pending : pr \cap {target, source} = {}}
             dismissed == {pr \in d.dismissed : pr \cap {target, source} = {}}
             display == [d.display EXCEPT ![source] = None]
  <2>4. moved = [d EXCEPT !.owner = owner, !.filtered = filtered, !.pending = pending,
                          !.dismissed = dismissed, !.display = display]
    OBVIOUS
  <2>5. /\ owner \in [Idents -> 0..MaxPersons] /\ filtered \in SUBSET Persons
        /\ pending \in SUBSET Pairs /\ dismissed \in SUBSET Pairs
        /\ display \in [Persons -> Names \cup {None}]
    BY <2>1, <2>2, <2>3
  <2> HIDE DEF moved, owner, filtered, pending, dismissed, display
  <2> QED BY <1>2, <2>4, <2>5 DEF Databases
<1>7. Consistent(moved)
  <2>1. d \in Databases /\ Consistent(d)
    BY DEF Good
  <2>2. {p \in Persons : moved.display[p] # None} = Live(moved)
    BY <1>2, <1>3, <1>5, <2>1 DEF Consistent, Databases
  <2>3. moved.pending \cap moved.dismissed = {}
    BY <1>3, <2>1 DEF Consistent
  <2>4. /\ \A pr \in moved.pending \cup moved.dismissed : pr \subseteq Live(moved)
        /\ moved.filtered \subseteq Live(moved)
    <3>1. \A pr \in moved.pending \cup moved.dismissed : pr \subseteq Live(d) \ {source}
      <4> SUFFICES ASSUME NEW pr \in moved.pending \cup moved.dismissed
                   PROVE  pr \subseteq Live(d) \ {source}
        OBVIOUS
      <4>1. pr \in d.pending \cup d.dismissed /\ pr \cap {target, source} = {}
        BY <1>3
      <4>2. pr \subseteq Live(d)
        BY <2>1, <4>1 DEF Consistent
      <4> QED BY <4>1, <4>2
    <3>2. \A p \in moved.filtered : p \in Live(d) \ {source}
      BY <1>3, <2>1 DEF Consistent
    <3> QED BY <1>5, <3>1, <3>2
  <2>5. moved.last + Cardinality(Unseen(moved)) <= MaxPersons
    BY <1>3, <1>5, <2>1 DEF Consistent
  <2> HIDE DEF moved
  <2> QED BY <1>5, <2>2, <2>3, <2>4, <2>5 DEF Consistent
<1>8. /\ fresh \subseteq Pairs
      /\ fresh \cap (moved.pending \cup moved.dismissed) = {}
      /\ UNION fresh \subseteq Live(moved)
  <2> HIDE DEF moved
  <2>1. /\ Views(moved) \subseteq PersonViews
        /\ \A v \in Views(moved) : v.id \in Live(moved)
    BY <1>6, <1>7, ViewsTyped DEF Good
  <2>2. ASSUME NEW pr \in fresh
        PROVE  /\ pr \notin moved.pending \cup moved.dismissed
               /\ \E p, q \in Live(moved) : p # q /\ pr = {p, q}
    <3>1. PICK v \in Views(moved), w \in Views(moved) :
             v.id = target /\ w.id # target /\ pr = {target, w.id}
      BY <2>2 DEF NewSuggestions
    <3>2. pr \notin moved.pending \cup moved.dismissed
      BY <2>2 DEF NewSuggestions
    <3> QED BY <2>1, <3>1, <3>2
  <2>3. Live(moved) \subseteq Persons
    BY <1>6, LivePersons
  <2>4. fresh \subseteq Pairs
    BY <2>2, <2>3, PairsPair
  <2> QED BY <2>2, <2>4
<1>9. /\ m.owner = moved.owner /\ m.last = moved.last /\ m.filtered = moved.filtered
      /\ m.dismissed = moved.dismissed /\ m.display = moved.display
      /\ m.pending = moved.pending \cup fresh
  BY <1>1, <1>6 DEF Databases
<1>10. m \in Databases
  <2>1. moved.pending \cup fresh \in SUBSET Pairs
    BY <1>6, <1>8 DEF Databases
  <2> HIDE DEF moved, m, fresh
  <2> QED BY <1>1, <1>6, <2>1 DEF Databases
<1>11. Live(m) = Live(moved) /\ Unseen(m) = Unseen(moved)
  BY <1>9 DEF Live, Unseen
<1> HIDE DEF moved, m, fresh
<1>12. Consistent(m)
  <2>1. m.pending \cap m.dismissed = {}
    BY <1>7, <1>8, <1>9 DEF Consistent
  <2>2. /\ \A pr \in m.pending \cup m.dismissed : pr \subseteq Live(m)
        /\ m.filtered \subseteq Live(m)
    BY <1>7, <1>8, <1>9, <1>11 DEF Consistent
  <2> QED BY <1>7, <1>9, <1>11, <2>1, <2>2 DEF Consistent
<1>13. Absorbs(m, d, target, source)
  BY <1>4, <1>9 DEF Absorbs
<1> QED BY <1>10, <1>12, <1>13 DEF Good, m

LEMMA AutoMergedGood ==
    ASSUME NEW d, Good(d), NEW target \in Live(d), NEW source \in Live(d),
           target # source, NEW name
    PROVE  /\ Good(AutoMerged(d, target, source, name))
           /\ Absorbs(AutoMerged(d, target, source, name), d, target, source)
<1> DEFINE m == Merged(d, target, source)
           n == [m EXCEPT !.display[target] = name]
<1>1. Good(m) /\ Absorbs(m, d, target, source)
  BY MergedGood
<1>2. target \in Persons /\ target \in Live(m)
  BY <1>1, MergeLeaves, LivePersons DEF Good
<1>3. ASSUME name \in Full
      PROVE  Good(n) /\ Absorbs(n, d, target, source)
  <2>1. name \in Names /\ name # None
    BY <1>3, TextsAssumption
  <2>2. m \in Databases
    BY <1>1 DEF Good
  <2> HIDE DEF m
  <2>3. /\ n.owner = m.owner /\ n.last = m.last /\ n.filtered = m.filtered
        /\ n.dismissed = m.dismissed /\ n.pending = m.pending
        /\ n.display = [m.display EXCEPT ![target] = name]
    BY <2>2 DEF Databases
  <2>4. n \in Databases
    <3> DEFINE display == [m.display EXCEPT ![target] = name]
    <3>1. display \in [Persons -> Names \cup {None}]
      BY <2>1, <2>2 DEF Databases
    <3>2. n = [m EXCEPT !.display = display]
      OBVIOUS
    <3> HIDE DEF display, n
    <3> QED BY <2>2, <3>1, <3>2 DEF Databases
  <2> HIDE DEF n
  <2>5. Live(n) = Live(m) /\ Unseen(n) = Unseen(m)
    BY <2>3 DEF Live, Unseen
  <2>6. {p \in Persons : n.display[p] # None} = {p \in Persons : m.display[p] # None}
    BY <1>1, <1>2, <2>1, <2>2, <2>3 DEF Good, Consistent, Databases
  <2>7. Consistent(n)
    BY <1>1, <2>3, <2>5, <2>6 DEF Good, Consistent
  <2> QED BY <1>1, <2>3, <2>4, <2>7 DEF Good, Absorbs
<1>4. \/ AutoMerged(d, target, source, name) = n /\ name \in Full
      \/ AutoMerged(d, target, source, name) = m
  BY DEF AutoMerged
<1> HIDE DEF m, n
<1> QED BY <1>1, <1>3, <1>4

----------------------------------------------------------------------------
(* A fresh person for an identity that is new, or not alone on its person. *)
LEMMA OwnPersonGood ==
    ASSUME NEW d, Good(d), NEW i \in Idents,
           d.last + 1 + Cardinality(Unseen(d) \ {i}) <= MaxPersons,
           d.owner[i] = 0 \/ \E j \in Idents : j # i /\ d.owner[j] = d.owner[i]
    PROVE  /\ Good(WithOwnPerson(d, i))
           /\ WithOwnPerson(d, i).owner = [d.owner EXCEPT ![i] = d.last + 1]
           /\ WithOwnPerson(d, i).last = d.last + 1
           /\ WithOwnPerson(d, i).dismissed = d.dismissed
           /\ WithOwnPerson(d, i).filtered = d.filtered
           /\ Live(WithOwnPerson(d, i)) = Live(d) \cup {d.last + 1}
<1> DEFINE m == WithOwnPerson(d, i)
           new == d.last + 1
           owner == [d.owner EXCEPT ![i] = new]
           display == [d.display EXCEPT ![new] = DefaultName(i)]
<1>1. d \in Databases /\ Consistent(d)
  BY DEF Good
<1>2. new \in Persons /\ d.last \in Nat /\ new # 0
  <2>1. IsFiniteSet(Unseen(d) \ {i})
    BY IdentsAssumption, FS_Subset DEF Unseen
  <2>2. Cardinality(Unseen(d) \ {i}) \in Nat
    BY <2>1, FS_CardinalityType
  <2>3. d.last \in 0..MaxPersons
    BY <1>1 DEF Databases
  <2> HIDE DEF new
  <2> QED BY <2>2, <2>3, Numbers DEF Persons, new
<1>3. DefaultName(i) \in Names /\ DefaultName(i) # None
  BY IdentsAssumption, TextsAssumption DEF DefaultName
<1>4. owner \in [Idents -> 0..MaxPersons] /\ display \in [Persons -> Names \cup {None}]
  <2>1. d.owner \in [Idents -> 0..MaxPersons] /\ d.display \in [Persons -> Names \cup {None}]
    BY <1>1 DEF Databases
  <2>2. new \in 0..MaxPersons
    BY <1>2, Numbers DEF Persons
  <2> HIDE DEF new
  <2> QED BY <1>3, <2>1, <2>2
<1>5. m = [d EXCEPT !.owner = owner, !.last = new, !.display = display]
  BY DEF WithOwnPerson
<1>6. m.owner = owner /\ m.last = new /\ m.display = display /\ m.pending = d.pending
      /\ m.dismissed = d.dismissed /\ m.filtered = d.filtered
  BY <1>1, <1>5 DEF Databases
<1>7. m \in Databases
  <2>1. new \in 0..MaxPersons
    BY <1>2, Numbers DEF Persons
  <2> HIDE DEF m, owner, display, new
  <2> QED BY <1>1, <1>4, <1>5, <2>1 DEF Databases
<1>8. \A j \in Idents : owner[j] = IF j = i THEN new ELSE d.owner[j]
  <2>1. d.owner \in [Idents -> 0..MaxPersons]
    BY <1>1 DEF Databases
  <2> QED BY <2>1
<1>9. \A p \in Persons : display[p] = IF p = new THEN DefaultName(i) ELSE d.display[p]
  <2>1. d.display \in [Persons -> Names \cup {None}]
    BY <1>1 DEF Databases
  <2> QED BY <2>1
<1> HIDE DEF m, owner, display, new
<1>10. Live(m) = Live(d) \cup {new}
  <2>1. ASSUME NEW p \in Live(d) PROVE p \in Live(m)
    <3>1. PICK j \in Idents : d.owner[j] = p /\ p # 0
      BY DEF Live
    <3>2. CASE j = i
      <4>1. PICK k \in Idents : k # i /\ d.owner[k] = p
        BY <3>1, <3>2
      <4>2. m.owner[k] = p
        BY <1>6, <1>8, <4>1
      <4> QED BY <3>1, <4>2 DEF Live
    <3>3. CASE j # i
      BY <1>6, <1>8, <3>1, <3>3 DEF Live
    <3> QED BY <3>2, <3>3
  <2>2. new \in Live(m)
    BY <1>2, <1>6, <1>8 DEF Live
  <2>3. \A p \in Live(m) : p \in Live(d) \cup {new}
    BY <1>6, <1>8 DEF Live
  <2> QED BY <2>1, <2>2, <2>3
<1>11. Consistent(m)
  <2>1. \A j \in Idents : m.owner[j] <= m.last
    <3>1. \A j \in Idents : d.owner[j] \in 0..MaxPersons /\ d.owner[j] <= d.last
      BY <1>1, LivePersons DEF Consistent
    <3> QED BY <1>2, <1>6, <1>8, <3>1, Numbers DEF new
  <2>2. Unseen(m) = Unseen(d) \ {i}
    BY <1>2, <1>6, <1>8 DEF Unseen
  <2>3. {p \in Persons : m.display[p] # None} = Live(m)
    BY <1>1, <1>2, <1>3, <1>6, <1>9, <1>10 DEF Consistent
  <2>4. m.pending \cap m.dismissed = {} /\ m.filtered \subseteq Live(m)
        /\ \A pr \in m.pending \cup m.dismissed : pr \subseteq Live(m)
    BY <1>1, <1>6, <1>10 DEF Consistent
  <2>5. m.last + Cardinality(Unseen(m)) <= MaxPersons
    BY <1>6, <2>2 DEF new
  <2> QED BY <2>1, <2>3, <2>4, <2>5 DEF Consistent
<1> QED BY <1>6, <1>7, <1>10, <1>11 DEF Good, m, owner, new

(* There is an id for every identity that is still to come.                *)
LEMMA RoomForUnseen ==
    ASSUME NEW d, Good(d), NEW i \in Idents, d.owner[i] = 0
    PROVE  d.last + 1 + Cardinality(Unseen(d) \ {i}) <= MaxPersons
<1>1. i \in Unseen(d)
  BY DEF Unseen
<1>2. IsFiniteSet(Unseen(d))
  BY IdentsAssumption, FS_Subset DEF Unseen
<1>3. Cardinality(Unseen(d) \ {i}) = Cardinality(Unseen(d)) - 1
  BY <1>1, <1>2, FS_RemoveElement
<1>4. Cardinality(Unseen(d)) \in Nat
  BY <1>2, FS_CardinalityType
<1>5. d.last \in 0..MaxPersons /\ d.last + Cardinality(Unseen(d)) <= MaxPersons
  BY DEF Good, Databases, Consistent
<1> QED BY <1>3, <1>4, <1>5, Numbers

----------------------------------------------------------------------------
(* What the merges of one transaction have left of the tables it found.  A *)
(* person who is still there has all the identities it had, nobody who is  *)
(* gone comes back, and a dismissal that is gone was about a person who is *)
(* gone or has absorbed somebody.  "pardoned" are the pairs a scan had read *)
(* while they were pending.                                                *)
Absorbed(d, d0, p) == \E i \in Idents : d0.owner[i] \notin {0, p} /\ d.owner[i] = p

Follows(d, d0, pardoned) ==
    /\ d0.last <= d.last
    /\ \A p \in Live(d) : p \in Live(d0) \/ p > d0.last
    /\ \A i \in Idents : d0.owner[i] \in Live(d) => d.owner[i] = d0.owner[i]
    /\ \A pr \in d0.dismissed \ d.dismissed :
          pr \in pardoned \/ \E p \in pr : p \notin Live(d) \/ Absorbed(d, d0, p)
    /\ \A i \in Idents : d0.owner[i] \in d0.filtered => d.owner[i] \in d.filtered

LEMMA FollowsItself ==
    ASSUME NEW d, Good(d), NEW pardoned
    PROVE  Follows(d, d, pardoned)
BY Numbers DEF Good, Databases, Follows

LEMMA MergeFollows ==
    ASSUME NEW d0, Good(d0), NEW d, Good(d), NEW m, NEW pardoned, Follows(d, d0, pardoned),
           NEW target \in Live(d), NEW source \in Live(d), target # source,
           Absorbs(m, d, target, source),
           \E i \in Idents : d0.owner[i] # 0 /\ d.owner[i] = source
    PROVE  Follows(m, d0, pardoned)
<1>1. \A i \in Idents : m.owner[i] = IF d.owner[i] = source THEN target ELSE d.owner[i]
  BY DEF Absorbs
<1>2. Live(m) = Live(d) \ {source}
  BY MergeLeaves
<1>3. d0.last <= m.last /\ \A p \in Live(m) : p \in Live(d0) \/ p > d0.last
  BY <1>2 DEF Follows, Absorbs
<1>4. \A i \in Idents : d0.owner[i] \in Live(m) => m.owner[i] = d0.owner[i]
  BY <1>1, <1>2 DEF Follows
<1>5. ASSUME NEW pr \in d0.dismissed \ m.dismissed
      PROVE  pr \in pardoned \/ \E p \in pr : p \notin Live(m) \/ Absorbed(m, d0, p)
  <2>1. CASE pr \notin d.dismissed
    <3>1. CASE pr \in pardoned
      BY <3>1
    <3>2. ASSUME NEW p \in pr, p \notin Live(d) \/ Absorbed(d, d0, p)
          PROVE  p \notin Live(m) \/ Absorbed(m, d0, p)
      BY <1>1, <1>2, <3>2 DEF Absorbed
    <3> QED BY <2>1, <3>1, <3>2 DEF Follows
  <2>2. CASE pr \in d.dismissed
    <3>1. pr \cap {target, source} # {}
      BY <2>2 DEF Absorbs
    <3>2. CASE source \in pr
      BY <1>2, <3>2
    <3>3. CASE target \in pr
      <4>1. PICK i \in Idents : d0.owner[i] # 0 /\ d.owner[i] = source
        OBVIOUS
      <4>2. d0.owner[i] # target
        BY <4>1 DEF Follows
      <4>3. Absorbed(m, d0, target)
        BY <1>1, <4>1, <4>2 DEF Absorbed
      <4> QED BY <3>3, <4>3
    <3> QED BY <3>1, <3>2, <3>3
  <2> QED BY <2>1, <2>2
<1>6. \A i \in Idents : d0.owner[i] \in d0.filtered => m.owner[i] \in m.filtered
  BY <1>1 DEF Follows, Absorbs
<1> QED BY <1>3, <1>4, <1>5, <1>6 DEF Follows

LEMMA OwnPersonFollows ==
    ASSUME NEW d0, Good(d0), NEW d, Good(d), NEW pardoned, Follows(d, d0, pardoned),
           NEW i \in Idents, d.owner[i] = 0
    PROVE  Follows(WithOwnPerson(d, i), d0, pardoned)
<1> DEFINE m == WithOwnPerson(d, i)
<1>1. /\ Good(m) /\ m.last = d.last + 1 /\ m.dismissed = d.dismissed
      /\ m.filtered = d.filtered /\ Live(m) = Live(d) \cup {d.last + 1}
      /\ m.owner = [d.owner EXCEPT ![i] = d.last + 1]
  BY RoomForUnseen, OwnPersonGood
<1>2. \A j \in Idents : m.owner[j] = IF j = i THEN d.last + 1 ELSE d.owner[j]
  BY <1>1 DEF Good, Databases
<1> HIDE DEF m
<1>3. d.last \in Nat /\ d0.last \in Nat /\ d0.last <= d.last
  BY Numbers DEF Good, Databases, Follows
<1>4. \A p \in Live(d0) : p \in Nat /\ p <= d0.last /\ p # 0 /\ p # d.last + 1
  <2> SUFFICES ASSUME NEW p \in Live(d0)
               PROVE  p \in Nat /\ p <= d0.last /\ p # 0 /\ p # d.last + 1
    OBVIOUS
  <2>1. PICK j \in Idents : d0.owner[j] = p /\ p # 0
    BY DEF Live
  <2>2. p \in 0..MaxPersons /\ p <= d0.last
    BY <2>1, LivePersons DEF Good, Consistent
  <2> QED BY <1>3, <2>1, <2>2, Numbers
<1>5. \A j \in Idents : d0.owner[j] # 0 => d0.owner[j] \in Live(d0)
  BY DEF Live
<1>6. \A p \in Live(m) : p \in Live(d0) \/ p > d0.last
  BY <1>1, <1>3 DEF Follows
<1>7. 0 \notin Live(d) /\ \A j \in Idents : d.owner[j] # 0 => d.owner[j] \in Live(d)
  BY DEF Live
<1>8. ASSUME NEW j \in Idents, d0.owner[j] \in Live(m) PROVE m.owner[j] = d0.owner[j]
  <2>1. d0.owner[j] \in Live(d)
    <3>1. d.last + 1 # 0
      BY <1>3
    <3> QED BY <1>1, <1>4, <1>5, <1>8, <3>1
  <2>2. d.owner[j] = d0.owner[j] /\ d.owner[j] # 0
    BY <1>7, <2>1 DEF Follows
  <2> QED BY <1>2, <2>2
<1>9. ASSUME NEW pr \in d0.dismissed \ m.dismissed
      PROVE  pr \in pardoned \/ \E p \in pr : p \notin Live(m) \/ Absorbed(m, d0, p)
  <2>1. pr \subseteq Live(d0)
    BY DEF Good, Consistent
  <2>2. ASSUME NEW p \in pr, p \notin Live(d) PROVE p \notin Live(m)
    BY <1>1, <1>4, <2>1, <2>2
  <2>3. ASSUME NEW p \in pr, Absorbed(d, d0, p) PROVE Absorbed(m, d0, p)
    <3>1. PICK j \in Idents : d0.owner[j] \notin {0, p} /\ d.owner[j] = p
      BY <2>3 DEF Absorbed
    <3>2. p # 0
      BY <1>4, <2>1
    <3>3. m.owner[j] = p
      BY <1>2, <3>1, <3>2
    <3> QED BY <3>1, <3>3 DEF Absorbed
  <2>4. pr \in pardoned \/ \E p \in pr : p \notin Live(d) \/ Absorbed(d, d0, p)
    BY <1>1 DEF Follows
  <2> QED BY <2>2, <2>3, <2>4
<1>10. ASSUME NEW j \in Idents, d0.owner[j] \in d0.filtered PROVE m.owner[j] \in m.filtered
  <2>1. d.owner[j] \in d.filtered /\ d.filtered \subseteq Live(d)
    BY <1>10 DEF Follows, Good, Consistent
  <2>2. j # i
    BY <1>7, <2>1
  <2> QED BY <1>1, <1>2, <2>1, <2>2
<1>11. d0.last <= m.last
  BY <1>1, <1>3
<1> QED BY <1>6, <1>8, <1>9, <1>10, <1>11 DEF Follows, m

----------------------------------------------------------------------------
(* The queue of a scan.  Of two persons one is to survive, because their    *)
(* ranks end in their ids.                                                 *)
LEMMA RanksDiffer ==
    ASSUME NEW v \in PersonViews, NEW w \in PersonViews, v.id # w.id
    PROVE  RankLess(Rank(v), Rank(w)) \/ RankLess(Rank(w), Rank(v))
<1>1. ASSUME NEW x \in PersonViews
      PROVE  /\ Rank(x)[1] \in Nat /\ Rank(x)[2] \in Nat /\ Rank(x)[3] \in Nat
             /\ Rank(x)[4] \in Nat /\ Rank(x)[4] = MaxPersons - x.id
  <2>1. IsFiniteSet(x.emails) /\ IsFiniteSet(x.logins)
    BY TextsAssumption, FS_Subset DEF PersonViews
  <2>2. Cardinality(x.emails) \in Nat /\ Cardinality(x.logins) \in Nat
    BY <2>1, FS_CardinalityType
  <2>3. x.id \in 1..MaxPersons
    BY DEF PersonViews, Persons
  <2>4. MaxPersons - x.id \in Nat
    BY <2>3, Numbers
  <2>5. Cardinality(x.emails) + Cardinality(x.logins) \in Nat
    BY <2>2
  <2> QED BY <2>4, <2>5 DEF Rank
<1>2. Rank(v)[4] # Rank(w)[4]
  <2>1. v.id \in 1..MaxPersons /\ w.id \in 1..MaxPersons
    BY DEF PersonViews, Persons
  <2>2. MaxPersons - v.id # MaxPersons - w.id
    BY <2>1, Numbers
  <2> QED BY <1>1, <2>2
<1> DEFINE r == Rank(v)
           s == Rank(w)
<1>3. \A k \in 1..4 : r[k] \in Nat /\ s[k] \in Nat
  <2>1. \A k \in 1..4 : k = 1 \/ k = 2 \/ k = 3 \/ k = 4
    OBVIOUS
  <2> QED BY <1>1, <2>1
<1>4. r[4] # s[4]
  BY <1>2
<1> HIDE DEF r, s
<1>5. PICK k \in 1..4 : r[k] # s[k] /\ \A l \in 1..(k - 1) : r[l] = s[l]
  <2>1. CASE r[1] # s[1]
    <3>1. 1 \in 1..4 /\ \A l \in 1..(1 - 1) : r[l] = s[l]
      OBVIOUS
    <3> QED BY <2>1, <3>1
  <2>2. CASE r[1] = s[1] /\ r[2] # s[2]
    <3>1. 2 \in 1..4 /\ \A l \in 1..(2 - 1) : l = 1
      OBVIOUS
    <3> QED BY <2>2, <3>1
  <2>3. CASE r[1] = s[1] /\ r[2] = s[2] /\ r[3] # s[3]
    <3>1. 3 \in 1..4 /\ \A l \in 1..(3 - 1) : l = 1 \/ l = 2
      OBVIOUS
    <3> QED BY <2>3, <3>1
  <2>4. CASE r[1] = s[1] /\ r[2] = s[2] /\ r[3] = s[3]
    <3>1. 4 \in 1..4 /\ \A l \in 1..(4 - 1) : l = 1 \/ l = 2 \/ l = 3
      OBVIOUS
    <3> QED BY <1>4, <2>4, <3>1
  <2> QED BY <2>1, <2>2, <2>3, <2>4
<1>6. r[k] < s[k] \/ s[k] < r[k]
  BY <1>3, <1>5
<1>7. RankLess(r, s) \/ RankLess(s, r)
  BY <1>5, <1>6 DEF RankLess
<1> QED BY <1>7 DEF r, s

(* Where a scan's merges stand: the tables follow those it found, and       *)
(* whoever it had a view of is, or went into, somebody it has a view of.   *)
Progress(views, d0, pardoned) ==
    {acc \in [db : Databases, into : [Persons -> Persons], ok : BOOLEAN] :
        /\ Good(acc.db) /\ Follows(acc.db, d0, pardoned)
        /\ Live(acc.db) \subseteq Live(d0)
        /\ \A v \in views : \E w \in views : acc.into[v.id] = w.id}

LEMMA MergeNextProgress ==
    ASSUME NEW views \in SUBSET PersonViews, OnePerPerson(views),
           NEW d0, Good(d0), NEW pardoned, NEW acc \in Progress(views, d0, pardoned),
           NEW x, \E v \in views : v.id = x[1], \E v \in views : v.id = x[2]
    PROVE  MergeNext(views, acc, x) \in Progress(views, d0, pardoned)
<1> DEFINE ids == {acc.into[x[1]], acc.into[x[2]]}
           Best(v) == v.id \in ids /\ \A w \in views :
                         w.id \in ids \ {v.id} => RankLess(Rank(w), Rank(v))
           target == CHOOSE v \in views : Best(v)
           source == CHOOSE w \in views : w.id \in ids \ {target.id}
           next == [acc EXCEPT
               !.db = AutoMerged(@, target.id, source.id, source.display),
               !.into = [p \in Persons |-> IF @[p] = source.id THEN target.id ELSE @[p]]]
<1>1. MergeNext(views, acc, x) =
          IF Cardinality(ids) = 1 \/ ~acc.ok THEN acc
          ELSE IF ids \subseteq Live(acc.db) THEN next ELSE [acc EXCEPT !.ok = FALSE]
  BY DEF MergeNext
<1>2. /\ acc \in [db : Databases, into : [Persons -> Persons], ok : BOOLEAN]
      /\ Good(acc.db) /\ Follows(acc.db, d0, pardoned) /\ Live(acc.db) \subseteq Live(d0)
      /\ \A v \in views : \E w \in views : acc.into[v.id] = w.id
  BY DEF Progress
<1>3. PICK a \in views, b \in views : ids = {a.id, b.id}
  BY <1>2
<1>4. [acc EXCEPT !.ok = FALSE] \in Progress(views, d0, pardoned)
  <2> DEFINE n == [acc EXCEPT !.ok = FALSE]
  <2>1. /\ n \in [db : Databases, into : [Persons -> Persons], ok : BOOLEAN]
        /\ n.db = acc.db /\ n.into = acc.into
    BY <1>2
  <2> HIDE DEF n
  <2>2. n \in Progress(views, d0, pardoned)
    BY <1>2, <2>1 DEF Progress
  <2> QED BY <2>2 DEF n
<1>5. ASSUME Cardinality(ids) # 1, ids \subseteq Live(acc.db)
      PROVE  next \in Progress(views, d0, pardoned)
  <2>1. a.id # b.id
    <3>1. Cardinality({a.id}) = 1
      BY FS_Singleton
    <3> QED BY <1>3, <1>5, <3>1
  <2>2. \E v \in views : Best(v)
    <3>1. \A w \in views : w.id \in ids => w = a \/ w = b
      BY <1>3 DEF OnePerPerson
    <3>2. RankLess(Rank(a), Rank(b)) \/ RankLess(Rank(b), Rank(a))
      BY <2>1, RanksDiffer
    <3>3. CASE RankLess(Rank(a), Rank(b))
      <4>1. Best(b)
        BY <1>3, <3>1, <3>3
      <4> QED BY <4>1
    <3>4. CASE RankLess(Rank(b), Rank(a))
      <4>1. Best(a)
        BY <1>3, <3>1, <3>4
      <4> QED BY <4>1
    <3> QED BY <3>2, <3>3, <3>4
  <2>3. target \in views /\ target.id \in ids
    <3> HIDE DEF ids
    <3> QED BY <2>2
  <2>4. \E w \in views : w.id \in ids \ {target.id}
    BY <1>3, <2>1, <2>3
  <2>5. source \in views /\ source.id \in ids /\ source.id # target.id
    <3> HIDE DEF ids, target
    <3> QED BY <2>4
  <2> HIDE DEF target, source
  <2>6. target.id \in Live(acc.db) /\ source.id \in Live(acc.db)
    BY <1>5, <2>3, <2>5
  <2> DEFINE m == AutoMerged(acc.db, target.id, source.id, source.display)
             into == [p \in Persons |-> IF acc.into[p] = source.id THEN target.id
                                        ELSE acc.into[p]]
  <2>7. Good(m) /\ Absorbs(m, acc.db, target.id, source.id)
    BY <1>2, <2>5, <2>6, AutoMergedGood
  <2>8. Live(m) \subseteq Live(d0)
    BY <1>2, <2>5, <2>6, <2>7, MergeLeaves
  <2>9. Follows(m, d0, pardoned)
    <3>1. PICK i \in Idents : d0.owner[i] = source.id /\ source.id # 0
      BY <1>2, <2>6 DEF Live
    <3>2. acc.db.owner[i] = source.id
      BY <1>2, <2>6, <3>1 DEF Follows
    <3> QED BY <1>2, <2>5, <2>6, <2>7, <3>1, <3>2, MergeFollows
  <2>10. into \in [Persons -> Persons]
    <3>1. target.id \in Persons
      BY <2>3 DEF PersonViews
    <3> QED BY <1>2, <3>1
  <2>11. \A v \in views : \E w \in views : into[v.id] = w.id
    <3> SUFFICES ASSUME NEW v \in views PROVE \E w \in views : into[v.id] = w.id
      OBVIOUS
    <3>1. v.id \in Persons
      BY DEF PersonViews
    <3> QED BY <1>2, <2>3, <3>1
  <2>12. next = [acc EXCEPT !.db = m, !.into = into]
    BY DEF next
  <2> HIDE DEF next, m, into
  <2>13. /\ next \in [db : Databases, into : [Persons -> Persons], ok : BOOLEAN]
         /\ next.db = m /\ next.into = into
    BY <1>2, <2>7, <2>10, <2>12 DEF Good
  <2> QED BY <2>7, <2>8, <2>9, <2>11, <2>13 DEF Progress
<1> HIDE DEF next, ids
<1> QED BY <1>1, <1>4, <1>5

LEMMA MergeAllProgress ==
    ASSUME NEW views \in SUBSET PersonViews, OnePerPerson(views),
           NEW d0, Good(d0), NEW pardoned, NEW acc \in Progress(views, d0, pardoned),
           NEW queue, \A pr \in queue : \A p \in pr : \E v \in views : v.id = p
    PROVE  MergeAll(views, acc, queue) \in Progress(views, d0, pardoned)
<1> DEFINE n == MaxPersons * MaxPersons
           P == Progress(views, d0, pardoned)
           Then(a, k) == IF Queued(queue, Squares[k]) THEN MergeNext(views, a, Squares[k])
                         ELSE a
           Eq(f) == f = [k \in 0..n |-> IF k = 0 THEN acc ELSE Then(f[k-1], k)]
           after == CHOOSE f : Eq(f)
           S == [k \in 0..n |-> P]
           step == [k \in 1..n |-> [a \in P |-> Then(a, k)]]
<1>1. n \in Nat
  BY Numbers
<1>2. MergeAll(views, acc, queue) = after[n]
  BY DEF MergeAll
<1>3. ASSUME NEW k \in 1..n, NEW a \in P PROVE Then(a, k) \in P
  <2>1. CASE Queued(queue, Squares[k])
    <3> DEFINE x == Squares[k]
    <3>1. {x[1], x[2]} \in queue
      BY <2>1 DEF Queued
    <3>2. (\E v \in views : v.id = x[1]) /\ (\E v \in views : v.id = x[2])
      BY <3>1
    <3> HIDE DEF x
    <3>3. MergeNext(views, a, x) \in P
      BY <3>2, MergeNextProgress
    <3> QED BY <2>1, <3>3 DEF x
  <2>2. CASE ~Queued(queue, Squares[k])
    BY <2>2
  <2> QED BY <2>1, <2>2
<1> HIDE DEF n, P, Then
<1>4. \E f : Eq(f)
  <2>1. /\ acc \in S[0]
        /\ \A k \in 1..n : \A a \in S[k-1] : step[k][a] \in S[k]
    <3>1. acc \in P
      BY DEF P
    <3>2. \A k \in 1..n : k - 1 \in 0..n /\ k \in 0..n
      BY <1>1
    <3> QED BY <1>1, <1>3, <3>1, <3>2
  <2> HIDE DEF S, step
  <2>2. PICK g : Stepped(g, acc, step, n) /\ \A k \in 0..n : g[k] \in S[k]
    BY <1>1, <2>1, Recursion
  <2>3. g = [k \in 0..n |-> IF k = 0 THEN acc ELSE step[k][g[k-1]]]
    BY <2>2 DEF Stepped
  <2>4. \A k \in 0..n : k # 0 => k \in 1..n /\ k - 1 \in 0..n
    BY <1>1
  <2>5. \A k \in 0..n : k # 0 => step[k][g[k-1]] = Then(g[k-1], k)
    BY <2>2, <2>4 DEF S, step
  <2>6. Eq(g)
    BY <2>3, <2>5
  <2> QED BY <2>6
<1>5. Eq(after)
  BY <1>4
<1> HIDE DEF after
<1>6. \A k \in 0..n : after[k] \in S[k]
  <2>1. \A k \in 0..n : after[k] = IF k = 0 THEN acc ELSE Then(after[k-1], k)
    BY <1>5
  <2>2. after[0] \in S[0]
    BY <1>1, <2>1 DEF P
  <2>3. \A k \in 1..n : after[k-1] \in S[k-1] => after[k] \in S[k]
    <3>1. \A k \in 1..n : k # 0 /\ k \in 0..n /\ k - 1 \in 0..n
      BY <1>1
    <3> QED BY <1>3, <2>1, <3>1
  <2> HIDE DEF S
  <2> QED BY <1>1, <2>2, <2>3, Throughout
<1> QED BY <1>1, <1>2, <1>6 DEF P

----------------------------------------------------------------------------
(* GitHub's attribution.  Only accounts get a person meanwhile: whoever     *)
(* else has an owner had one before.                                       *)
Attributed(d0, pardoned) ==
    {d \in Databases :
        /\ Good(d) /\ Follows(d, d0, pardoned)
        /\ \A i \in Idents \ Accounts : d0.owner[i] = 0 => d.owner[i] = 0}

LEMMA AttributeEmailKeeps ==
    ASSUME NEW d0, Good(d0), NEW pardoned, NEW d \in Attributed(d0, pardoned), NEW e, registered[e] \in Accounts
    PROVE  AttributeEmail(d, e) \in Attributed(d0, pardoned)
<1> DEFINE account == registered[e]
           known == WithAccount(d, account)
           sources == Sources(known, e)
           Then(a, k) == IF k \in sources THEN Attribute(a, k, account) ELSE a
           Eq(f) == f = [k \in 0..MaxPersons |-> IF k = 0 THEN known ELSE Then(f[k-1], k)]
           after == CHOOSE f : Eq(f)
           Writes(a, q) == \E i \in Idents \ Accounts : a.owner[i] = q
           P(k) == {a \in Attributed(d0, pardoned) :
                       a.owner[account] # 0 /\ \A q \in sources : q > k => Writes(a, q)}
           S == [k \in 0..MaxPersons |-> P(k)]
           step == [k \in 1..MaxPersons |-> [a \in P(k-1) |-> Then(a, k)]]
<1>1. AttributeEmail(d, e) = after[MaxPersons]
  BY DEF AttributeEmail
<1>2. account \in Idents /\ account \in Accounts
  BY DEF Accounts
<1> HIDE DEF account
<1>3. known \in Attributed(d0, pardoned) /\ known.owner[account] # 0
  <2>1. d \in Databases /\ Good(d) /\ Follows(d, d0, pardoned)
        /\ \A i \in Idents \ Accounts : d0.owner[i] = 0 => d.owner[i] = 0
    BY DEF Attributed
  <2>2. CASE d.owner[account] # 0
    <3>1. known = d
      BY <2>2 DEF WithAccount
    <3> HIDE DEF known
    <3> QED BY <2>2, <3>1
  <2>3. CASE d.owner[account] = 0
    <3>1. known = WithOwnPerson(d, account)
      BY <2>3 DEF WithAccount
    <3> HIDE DEF known
    <3>2. Good(known) /\ known.owner = [d.owner EXCEPT ![account] = d.last + 1]
      BY <1>2, <2>1, <2>3, <3>1, RoomForUnseen, OwnPersonGood
    <3>3. Follows(known, d0, pardoned)
      BY <1>2, <2>1, <2>3, <3>1, OwnPersonFollows
    <3>4. d.last + 1 # 0
      BY <2>1, Numbers DEF Databases
    <3>5. \A i \in Idents : known.owner[i] = IF i = account THEN d.last + 1 ELSE d.owner[i]
      BY <2>1, <3>2 DEF Databases
    <3>6. known.owner[account] # 0
      BY <1>2, <3>4, <3>5
    <3>7. \A i \in Idents \ Accounts : d0.owner[i] = 0 => known.owner[i] = 0
      BY <1>2, <2>1, <3>5
    <3> QED BY <3>2, <3>3, <3>6, <3>7 DEF Attributed, Good
  <2> QED BY <2>2, <2>3
<1>4. \A q \in sources : q # 0 /\ Writes(known, q)
  BY DEF Sources
<1> HIDE DEF known, sources
<1>5. known \in P(0)
  BY <1>3, <1>4
<1>6. ASSUME NEW k \in 1..MaxPersons, NEW a \in P(k-1) PROVE Then(a, k) \in P(k)
  <2>1. k - 1 \in Nat /\ k \in Nat /\ k > k - 1
    BY Numbers
  <2>2. /\ a \in Databases /\ Good(a) /\ Follows(a, d0, pardoned)
        /\ \A i \in Idents \ Accounts : d0.owner[i] = 0 => a.owner[i] = 0
        /\ a.owner[account] # 0
    BY DEF Attributed
  <2>3. sources \subseteq Nat
    BY <1>3, LivePersons DEF sources, Sources, Attributed
  <2>4. \A q \in sources : q > k => q > k - 1 /\ q # k
    BY <2>1, <2>3
  <2>5. a \in P(k)
    BY <2>4
  <2>6. CASE k \notin sources
    BY <2>5, <2>6
  <2>7. CASE k \in sources /\ Attribute(a, k, account) = a
    BY <2>5, <2>7
  <2>8. CASE k \in sources /\ Attribute(a, k, account) # a
    <3> DEFINE target == a.owner[account]
               m == AutoMerged(a, target, k, a.display[k])
    <3>1. k # target /\ Attribute(a, k, account) = m
      BY <2>8 DEF Attribute
    <3>2. PICK j \in Idents \ Accounts : a.owner[j] = k
      BY <2>1, <2>8
    <3>3. target \in Live(a) /\ k \in Live(a)
      BY <1>2, <2>1, <2>2, <3>2 DEF Live
    <3> HIDE DEF target
    <3>4. Good(m) /\ Absorbs(m, a, target, k)
      BY <2>2, <3>1, <3>3, AutoMergedGood
    <3> HIDE DEF m
    <3>5. \A i \in Idents : m.owner[i] = IF a.owner[i] = k THEN target ELSE a.owner[i]
      BY <3>4 DEF Absorbs
    <3>6. d0.owner[j] # 0
      BY <2>1, <2>2, <3>2
    <3>7. Follows(m, d0, pardoned)
      BY <2>2, <3>1, <3>2, <3>3, <3>4, <3>6, MergeFollows
    <3>8. \A i \in Idents \ Accounts : d0.owner[i] = 0 => m.owner[i] = 0
      BY <2>1, <2>2, <3>5
    <3>9. m.owner[account] # 0
      BY <1>2, <2>2, <3>5 DEF target
    <3>10. \A q \in sources : q > k => Writes(m, q)
      BY <2>4, <3>5
    <3> QED BY <2>8, <3>1, <3>4, <3>7, <3>8, <3>9, <3>10 DEF Attributed, Good
  <2> QED BY <2>6, <2>7, <2>8
<1> HIDE DEF P, Then
<1>7. \E f : Eq(f)
  <2>1. /\ known \in S[0]
        /\ \A k \in 1..MaxPersons : \A a \in S[k-1] : step[k][a] \in S[k]
    <3>1. \A k \in 1..MaxPersons : k - 1 \in 0..MaxPersons /\ k \in 0..MaxPersons
      BY Numbers
    <3>2. 0 \in 0..MaxPersons
      BY Numbers
    <3> QED BY <1>5, <1>6, <3>1, <3>2
  <2> HIDE DEF S, step
  <2>2. PICK g : Stepped(g, known, step, MaxPersons) /\ \A k \in 0..MaxPersons : g[k] \in S[k]
    BY <2>1, Numbers, Recursion
  <2>3. g = [k \in 0..MaxPersons |-> IF k = 0 THEN known ELSE step[k][g[k-1]]]
    BY <2>2 DEF Stepped
  <2>4. \A k \in 0..MaxPersons : k # 0 => k \in 1..MaxPersons /\ k - 1 \in 0..MaxPersons
    BY Numbers
  <2>5. \A k \in 0..MaxPersons : k # 0 => step[k][g[k-1]] = Then(g[k-1], k)
    BY <2>2, <2>4 DEF S, step
  <2>6. Eq(g)
    BY <2>3, <2>5
  <2> QED BY <2>6
<1>8. Eq(after)
  BY <1>7
<1> HIDE DEF after
<1>9. \A k \in 0..MaxPersons : after[k] \in S[k]
  <2>1. \A k \in 0..MaxPersons : after[k] = IF k = 0 THEN known ELSE Then(after[k-1], k)
    BY <1>8
  <2>2. after[0] \in S[0]
    BY <1>5, <2>1, Numbers
  <2>3. \A k \in 1..MaxPersons : after[k-1] \in S[k-1] => after[k] \in S[k]
    <3>1. \A k \in 1..MaxPersons : k # 0 /\ k \in 0..MaxPersons /\ k - 1 \in 0..MaxPersons
      BY Numbers
    <3> QED BY <1>6, <2>1, <3>1
  <2> HIDE DEF S
  <2> QED BY <2>2, <2>3, Numbers, Throughout
<1>10. after[MaxPersons] \in P(MaxPersons)
  BY <1>9, Numbers
<1> QED BY <1>1, <1>10 DEF P

LEMMA AnOrder ==
    ASSUME NEW E, IsFiniteSet(E)
    PROVE  Cardinality(E) \in Nat /\ SetToSeq(E) \in [1..Cardinality(E) -> E]
<1>1. Cardinality(E) \in Nat /\ ExistsBijection(1..Cardinality(E), E)
  BY FS_CardinalityType
<1>2. \E f \in [1..Cardinality(E) -> E] : IsInjective(f)
  BY <1>1 DEF ExistsBijection, Bijection, Injection
<1> QED BY <1>1, <1>2 DEF SetToSeq

LEMMA AttributeAllKeeps ==
    ASSUME NEW d, Good(d), NEW pardoned, NEW E \in SUBSET Emails,
           \A e \in E : registered[e] \in Accounts
    PROVE  AttributeAll(d, E) \in Attributed(d, pardoned)
<1> DEFINE n == Cardinality(E)
           order == SetToSeq(E)
           P == Attributed(d, pardoned)
           Then(a, k) == AttributeEmail(a, order[k])
           Eq(f) == f = [k \in 0..n |-> IF k = 0 THEN d ELSE Then(f[k-1], k)]
           after == CHOOSE f : Eq(f)
           S == [k \in 0..n |-> P]
           step == [k \in 1..n |-> [a \in P |-> Then(a, k)]]
<1>1. n \in Nat /\ order \in [1..n -> E]
  BY TextsAssumption, FS_Subset, AnOrder
<1>2. AttributeAll(d, E) = after[n]
  BY DEF AttributeAll
<1>3. d \in P
  BY FollowsItself DEF Attributed, Good
<1> HIDE DEF n, order
<1>4. ASSUME NEW k \in 1..n, NEW a \in P PROVE Then(a, k) \in P
  <2>1. order[k] \in E
    BY <1>1
  <2> QED BY <2>1, AttributeEmailKeeps
<1> HIDE DEF P, Then
<1>5. \E f : Eq(f)
  <2>1. d \in S[0] /\ \A k \in 1..n : \A a \in S[k-1] : step[k][a] \in S[k]
    <3>1. \A k \in 1..n : k - 1 \in 0..n /\ k \in 0..n
      BY <1>1
    <3> QED BY <1>1, <1>3, <1>4, <3>1
  <2> HIDE DEF S, step
  <2>2. PICK g : Stepped(g, d, step, n) /\ \A k \in 0..n : g[k] \in S[k]
    BY <1>1, <2>1, Recursion
  <2>3. g = [k \in 0..n |-> IF k = 0 THEN d ELSE step[k][g[k-1]]]
    BY <2>2 DEF Stepped
  <2>4. \A k \in 0..n : k # 0 => k \in 1..n /\ k - 1 \in 0..n
    BY <1>1
  <2>5. \A k \in 0..n : k # 0 => step[k][g[k-1]] = Then(g[k-1], k)
    BY <2>2, <2>4 DEF S, step
  <2>6. Eq(g)
    BY <2>3, <2>5
  <2> QED BY <2>6
<1>6. Eq(after)
  BY <1>5
<1> HIDE DEF after
<1>7. \A k \in 0..n : after[k] \in S[k]
  <2>1. \A k \in 0..n : after[k] = IF k = 0 THEN d ELSE Then(after[k-1], k)
    BY <1>6
  <2>2. after[0] \in S[0]
    BY <1>1, <1>3, <2>1
  <2>3. \A k \in 1..n : after[k-1] \in S[k-1] => after[k] \in S[k]
    <3>1. \A k \in 1..n : k # 0 /\ k \in 0..n /\ k - 1 \in 0..n
      BY <1>1
    <3> QED BY <1>4, <2>1, <3>1
  <2> HIDE DEF S
  <2> QED BY <1>1, <2>2, <2>3, Throughout
<1> QED BY <1>1, <1>2, <1>7 DEF P

----------------------------------------------------------------------------
(* A scan's transaction, when it goes through.                             *)
LEMMA ScannedKeeps ==
    ASSUME NEW d, Good(d), scan.views \in SUBSET PersonViews, OnePerPerson(scan.views),
           Scanned(d).ok
    PROVE  Good(Scanned(d).db) /\ Follows(Scanned(d).db, d, scan.pending)
<1> DEFINE views == scan.views
           proven == CertainPairs(views)
           plausible == Surfaced(ScoringPairs(views)) \ proven
           kept == Revalidated(d, proven \cup plausible)
           removed == scan.pending \ (proven \cup plausible)
           existing == kept.pending \cup kept.dismissed
           created == plausible \ existing
           grown == [kept EXCEPT !.pending = @ \cup created]
           queued == MergeStart(grown)
           first == MergeAll(views, queued, proven \cap scan.pending)
           P == Progress(views, d, scan.pending)
<1>1. Scanned(d) = IF UNION created \subseteq Live(d) THEN MergeAll(views, first, proven \ existing)
                   ELSE [queued EXCEPT !.ok = FALSE]
  BY DEF Scanned
<1>2. UNION created \subseteq Live(d)
  <2>1. [queued EXCEPT !.ok = FALSE].ok = FALSE
    BY DEF MergeStart
  <2> HIDE DEF created, queued, first, existing, proven
  <2> QED BY <1>1, <2>1
<1>3. d \in Databases /\ Consistent(d)
  BY DEF Good
<1>4. /\ kept = [d EXCEPT !.pending = d.pending \ removed, !.dismissed = d.dismissed \ removed]
      /\ kept.owner = d.owner /\ kept.last = d.last /\ kept.display = d.display
      /\ kept.filtered = d.filtered
      /\ kept.pending = d.pending \ removed /\ kept.dismissed = d.dismissed \ removed
  BY <1>3 DEF Revalidated, Databases
<1> HIDE DEF kept
<1>5. kept \in Databases
  <2>1. d.pending \ removed \in SUBSET Pairs /\ d.dismissed \ removed \in SUBSET Pairs
    BY <1>3 DEF Databases
  <2> DEFINE pending == d.pending \ removed
             dismissed == d.dismissed \ removed
  <2>2. kept = [d EXCEPT !.pending = pending, !.dismissed = dismissed]
    BY <1>4
  <2> HIDE DEF pending, dismissed
  <2> QED BY <1>3, <2>1, <2>2 DEF Databases, pending, dismissed
<1>6. \A prs \in {CertainPairs(views), ScoringPairs(views)} : \A pr \in prs :
         \E v, w \in views : v.id # w.id /\ pr = {v.id, w.id}
  <2>1. \A v \in views : v.id \in Nat
    BY Numbers DEF PersonViews, Persons
  <2>2. \A x \in PairsOf(views) : x[1] \in views /\ x[2] \in views /\ x[1].id # x[2].id
    BY <2>1 DEF PairsOf
  <2>3. \A pr \in CertainPairs(views) : \E v, w \in views : v.id # w.id /\ pr = {v.id, w.id}
    BY <2>2 DEF CertainPairs
  <2>4. \A pr \in ScoringPairs(views) : \E v, w \in views : v.id # w.id /\ pr = {v.id, w.id}
    BY <2>2 DEF ScoringPairs
  <2> QED BY <2>3, <2>4
<1>7. /\ created \subseteq Pairs /\ created \cap existing = {}
      /\ \A pr \in proven : \A p \in pr : \E v \in views : v.id = p
  <2>1. \A v \in views : v.id \in Persons
    BY DEF PersonViews
  <2>2. created \subseteq ScoringPairs(views)
    BY DEF Surfaced
  <2> HIDE DEF created, views
  <2>3. created \subseteq Pairs
    BY <1>6, <2>1, <2>2, PairsPair
  <2>4. \A pr \in proven : \A p \in pr : \E v \in views : v.id = p
    BY <1>6
  <2>5. created \cap existing = {}
    BY DEF created
  <2> QED BY <2>3, <2>4, <2>5
<1> HIDE DEF proven, plausible, removed, created
<1>8. /\ grown.owner = d.owner /\ grown.last = d.last /\ grown.display = d.display
      /\ grown.filtered = d.filtered /\ grown.pending = kept.pending \cup created
      /\ grown.dismissed = kept.dismissed
  BY <1>4, <1>5 DEF Databases
<1>9. Good(grown)
  <2>1. grown \in Databases
    <3>1. kept.pending \cup created \in SUBSET Pairs
      BY <1>5, <1>7 DEF Databases
    <3> QED BY <1>5, <3>1 DEF Databases
  <2>2. Live(grown) = Live(d) /\ Unseen(grown) = Unseen(d)
    BY <1>8 DEF Live, Unseen
  <2>3. grown.pending \cap grown.dismissed = {}
    BY <1>3, <1>4, <1>7, <1>8 DEF Consistent
  <2>4. \A pr \in grown.pending \cup grown.dismissed : pr \subseteq Live(grown)
    BY <1>2, <1>3, <1>4, <1>8, <2>2 DEF Consistent
  <2> HIDE DEF grown
  <2> QED BY <1>3, <1>8, <2>1, <2>2, <2>3, <2>4 DEF Good, Consistent
<1>10. Follows(grown, d, scan.pending) /\ Live(grown) = Live(d)
  <2>1. d.last <= d.last
    BY <1>3, Numbers DEF Databases
  <2>2. Live(grown) = Live(d)
    BY <1>8 DEF Live
  <2>3. d.dismissed \ grown.dismissed \subseteq scan.pending
    BY <1>4, <1>8 DEF removed
  <2> HIDE DEF grown
  <2> QED BY <1>8, <2>1, <2>2, <2>3 DEF Follows
<1> HIDE DEF grown, existing
<1>11. queued \in P
  <2>1. /\ queued.db = grown /\ queued.into = [p \in Persons |-> p]
        /\ queued \in [db : Databases, into : [Persons -> Persons], ok : BOOLEAN]
    BY <1>9 DEF MergeStart, Good
  <2>2. \A v \in views : v.id \in Persons /\ queued.into[v.id] = v.id
    BY <2>1 DEF PersonViews
  <2> HIDE DEF queued, views
  <2> QED BY <1>9, <1>10, <2>1, <2>2 DEF Progress
<1> HIDE DEF queued
<1>12. first \in P
  <2> DEFINE queue == proven \cap scan.pending
             pardoned == scan.pending
  <2>1. \A pr \in queue : \A p \in pr : \E v \in views : v.id = p
    BY <1>7
  <2>2. queued \in Progress(views, d, pardoned)
    BY <1>11
  <2> HIDE DEF queue, pardoned
  <2>3. MergeAll(views, queued, queue) \in Progress(views, d, pardoned)
    BY <2>1, <2>2, MergeAllProgress
  <2> QED BY <2>3 DEF queue, pardoned
<1> HIDE DEF first
<1>13. MergeAll(views, first, proven \ existing) \in P
  <2> DEFINE queue == proven \ existing
             pardoned == scan.pending
  <2>1. \A pr \in queue : \A p \in pr : \E v \in views : v.id = p
    BY <1>7
  <2>2. first \in Progress(views, d, pardoned)
    BY <1>12
  <2> HIDE DEF queue, pardoned
  <2>3. MergeAll(views, first, queue) \in Progress(views, d, pardoned)
    BY <2>1, <2>2, MergeAllProgress
  <2> QED BY <2>3 DEF queue, pardoned
<1> QED BY <1>1, <1>2, <1>13 DEF Progress

----------------------------------------------------------------------------
(* Types.                                                                  *)
LEMMA TypeInit == Init => TypeOK
<1> SUFFICES ASSUME Init PROVE TypeOK
  OBVIOUS
<1> DEFINE n == Len(Initially)
           known == {Initially[k] : k \in 1..n}
<1>1. /\ n \in Nat /\ Initially \in [1..n -> Idents]
      /\ \A j, k \in 1..n : Initially[j] = Initially[k] => j = k
  BY IdentsAssumption DEF IsInjective
<1>2. n = Cardinality(known) /\ n <= MaxPersons
      /\ Cardinality(Idents \ known) = Cardinality(Idents) - n
  <2>1. IsFiniteSet(1..n) /\ Cardinality(1..n) = n
    BY <1>1, FS_Interval
  <2>2. Initially \in Bijection(1..n, known)
    BY <1>1 DEF Bijection, Injection, Surjection, IsInjective
  <2>3. IsFiniteSet(known) /\ Cardinality(known) = n
    BY <2>1, <2>2, FS_Bijection DEF ExistsBijection
  <2>4. known \subseteq Idents
    BY <1>1
  <2> HIDE DEF known, n
  <2>5. Cardinality(known) <= Cardinality(Idents) /\ Cardinality(Idents) \in Nat
    BY <2>4, IdentsAssumption, FS_Subset, FS_CardinalityType
  <2>6. Idents \cap known = known
    BY <2>4
  <2>7. Cardinality(Idents \ known) = Cardinality(Idents) - n
    BY <2>3, <2>6, IdentsAssumption, FS_Difference
  <2>8. n <= MaxPersons
    BY <1>1, <2>3, <2>5, SuggestionsBounds
  <2> QED BY <2>3, <2>7, <2>8
<1>3. /\ db.owner = [i \in Idents |->
                        Max({k \in DOMAIN Initially : Initially[k] = i} \cup {0})]
      /\ db.last = n /\ db.pending = {} /\ db.dismissed = {} /\ db.filtered = {}
      /\ db.display = [p \in Persons |-> IF p <= n THEN DefaultName(Initially[p]) ELSE None]
  BY DEF Init
<1>4. \A k \in 1..n : db.owner[Initially[k]] = k
  <2> SUFFICES ASSUME NEW k \in 1..n PROVE db.owner[Initially[k]] = k
    OBVIOUS
  <2>1. {j \in DOMAIN Initially : Initially[j] = Initially[k]} \cup {0} = {k, 0}
    BY <1>1
  <2>2. Max({k, 0}) = k
    BY <1>1 DEF Max
  <2>3. Initially[k] \in Idents
    BY <1>1
  <2> HIDE DEF n
  <2> QED BY <1>3, <2>1, <2>2, <2>3
<1>5. \A i \in Idents \ known : db.owner[i] = 0
  <2> SUFFICES ASSUME NEW i \in Idents \ known PROVE db.owner[i] = 0
    OBVIOUS
  <2>1. {j \in DOMAIN Initially : Initially[j] = i} \cup {0} = {0}
    BY <1>1
  <2>2. Max({0}) = 0
    BY DEF Max
  <2> QED BY <1>3, <2>1, <2>2
<1>6. \A i \in Idents : db.owner[i] \in 0..n
  BY <1>1, <1>4, <1>5
<1>7. Live(db) = 1..n
  <2>1. \A k \in 1..n : k # 0 /\ Initially[k] \in Idents
    BY <1>1
  <2>2. \A k \in 0..n : k # 0 => k \in 1..n
    BY <1>1
  <2> HIDE DEF n, known
  <2>3. 1..n \subseteq Live(db)
    BY <1>4, <2>1 DEF Live
  <2>4. Live(db) \subseteq 1..n
    BY <1>6, <2>2 DEF Live
  <2> QED BY <2>3, <2>4
<1>8. Unseen(db) = Idents \ known
  <2>1. \A k \in 1..n : k # 0
    BY <1>1
  <2>2. \A i \in known : db.owner[i] # 0
    BY <1>4, <2>1
  <2> QED BY <1>5, <2>2 DEF Unseen
<1>9. \A i \in Idents : DefaultName(i) \in Names /\ DefaultName(i) # None
  BY IdentsAssumption, TextsAssumption DEF DefaultName
<1>10. db \in Databases
  <2>1. db.owner \in [Idents -> 0..MaxPersons]
    <3>1. \A k \in 0..n : k \in 0..MaxPersons
      BY <1>1, <1>2, Numbers
    <3> HIDE DEF n
    <3> QED BY <1>3, <1>6, <3>1
  <2>2. db.last \in 0..MaxPersons
    BY <1>1, <1>2, <1>3, Numbers
  <2>3. db.display \in [Persons -> Names \cup {None}]
    <3>1. \A p \in Persons : p <= n => p \in 1..n
      BY <1>1, Numbers DEF Persons
    <3>2. \A p \in Persons : p <= n => DefaultName(Initially[p]) \in Names
      BY <1>1, <1>9, <3>1
    <3> HIDE DEF n
    <3> QED BY <1>3, <3>2
  <2>4. db = [owner |-> db.owner, last |-> db.last, display |-> db.display,
              pending |-> db.pending, dismissed |-> db.dismissed, filtered |-> db.filtered]
    BY DEF Init
  <2> QED BY <1>3, <2>1, <2>2, <2>3, <2>4 DEF Databases
<1>11. Consistent(db)
  <2>1. \A i \in Idents : db.owner[i] <= db.last
    BY <1>1, <1>3, <1>6
  <2>2. db.last + Cardinality(Unseen(db)) <= MaxPersons
    <3>1. Cardinality(Idents) \in Nat
      BY IdentsAssumption, FS_CardinalityType
    <3> HIDE DEF n, known
    <3> QED BY <1>1, <1>2, <1>3, <1>8, <3>1, SuggestionsBounds
  <2>3. {p \in Persons : db.display[p] # None} = Live(db)
    <3>1. \A p \in Persons : p <= n <=> p \in 1..n
      BY <1>1, Numbers DEF Persons
    <3>2. 1..n \subseteq Persons
      BY <1>1, <1>2, Numbers DEF Persons
    <3>3. \A p \in 1..n : DefaultName(Initially[p]) # None
      BY <1>1, <1>9
    <3> HIDE DEF n
    <3> QED BY <1>3, <1>7, <3>1, <3>2, <3>3
  <2> QED BY <1>3, <2>1, <2>2, <2>3 DEF Consistent
<1>12. registered \in [Emails -> Accounts \cup {None}]
  <2>1. \A login : AccountOf(login) \in Accounts \cup {None}
    BY DEF AccountOf
  <2> QED BY <2>1 DEF Init
<1>13. /\ scan \in [on : BOOLEAN, views : SUBSET PersonViews,
                    relevant : SUBSET Persons, pending : SUBSET Pairs]
       /\ OnePerPerson(scan.views) /\ ask \in [on : BOOLEAN, emails : SUBSET Emails]
  BY DEF Init, NoScan, NoAsk, OnePerPerson
<1>14. membersOnly \in BOOLEAN /\ checked \subseteq Emails /\ edits \in 0..MaxEdits
  <2>1. edits = 0 /\ membersOnly \in BOOLEAN /\ checked \subseteq Emails
    BY DEF Init
  <2>2. 0 \in 0..MaxEdits
    BY Numbers
  <2> QED BY <2>1, <2>2
<1> QED BY <1>10, <1>11, <1>12, <1>13, <1>14 DEF TypeOK

(* What a step may make of the tables, and what it must leave of what has  *)
(* been decided.                                                           *)
Respects(d, d0, pardoned) ==
    /\ \A pr \in d0.dismissed \ d.dismissed :
          \/ \E i \in Idents : d0.owner[i] # 0 /\ d.owner[i] # d0.owner[i]
                               /\ {d0.owner[i], d.owner[i]} \cap pr # {}
          \/ pr \in pardoned
    /\ \A i \in Idents : d0.owner[i] \in d0.filtered =>
          d.owner[i] \in d.filtered \/ d.owner[i] > d0.last

LEMMA FollowingRespects ==
    ASSUME NEW d0, Good(d0), NEW d, NEW pardoned, Follows(d, d0, pardoned)
    PROVE  Respects(d, d0, pardoned)
<1>1. ASSUME NEW pr \in d0.dismissed \ d.dismissed, pr \notin pardoned
      PROVE  \E i \in Idents : d0.owner[i] # 0 /\ d.owner[i] # d0.owner[i]
                               /\ {d0.owner[i], d.owner[i]} \cap pr # {}
  <2>1. PICK p \in pr : p \notin Live(d) \/ Absorbed(d, d0, p)
    BY <1>1 DEF Follows
  <2>2. CASE Absorbed(d, d0, p)
    <3>1. PICK i \in Idents : d0.owner[i] \notin {0, p} /\ d.owner[i] = p
      BY <2>2 DEF Absorbed
    <3>2. d0.owner[i] # 0 /\ d.owner[i] # d0.owner[i]
      BY <3>1
    <3>3. p \in {d0.owner[i], d.owner[i]} \cap pr
      BY <3>1
    <3> QED BY <3>2, <3>3
  <2>3. CASE p \notin Live(d)
    <3>1. p \in Live(d0)
      BY DEF Good, Consistent
    <3>2. PICK i \in Idents : d0.owner[i] = p /\ p # 0
      BY <3>1 DEF Live
    <3>3. d.owner[i] # p
      BY <2>3, <3>2 DEF Live
    <3>4. p \in {d0.owner[i], d.owner[i]} \cap pr
      BY <3>2
    <3> QED BY <3>2, <3>3, <3>4
  <2> QED BY <2>1, <2>2, <2>3
<1>2. \A i \in Idents : d0.owner[i] \in d0.filtered => d.owner[i] \in d.filtered
  BY DEF Follows
<1> QED BY <1>1, <1>2 DEF Respects

LEMMA OneMergeKeeps ==
    ASSUME NEW target \in Live(db), NEW source \in Live(db), target # source, Good(db),
           NEW pardoned
    PROVE  /\ Good(Merged(db, target, source))
           /\ Follows(Merged(db, target, source), db, pardoned)
<1>1. PICK i \in Idents : db.owner[i] = source /\ source # 0
  BY DEF Live
<1> DEFINE m == Merged(db, target, source)
<1>2. Good(m) /\ Absorbs(m, db, target, source)
  BY MergedGood
<1>3. Follows(db, db, pardoned)
  BY FollowsItself
<1> HIDE DEF m
<1>4. Follows(m, db, pardoned)
  BY <1>1, <1>2, <1>3, MergeFollows
<1> QED BY <1>2, <1>4 DEF m

(* The manage page.                                                        *)
ManageStep == AcceptSuggestion \/ DismissSuggestion \/ ManualMerge \/ Unmerge
              \/ Rename \/ ListPerson

LEMMA ManageKeeps ==
    ASSUME Good(db), ManageStep, NEW pardoned
    PROVE  Good(db') /\ Respects(db', db, pardoned)
<1>0. db \in Databases /\ Consistent(db)
  BY DEF Good
<1>1. CASE AcceptSuggestion
  <2>1. PICK pr \in db.pending \cup db.dismissed, keep \in Persons :
           keep \in pr /\ db' = Merged(db, keep, CHOOSE p \in pr : p # keep)
    BY <1>1 DEF AcceptSuggestion, ByHand
  <2> DEFINE other == CHOOSE p \in pr : p # keep
  <2>2. pr \in Pairs /\ pr \subseteq Live(db)
    BY <1>0 DEF Databases, Consistent
  <2>3. other \in pr /\ other # keep
    <3>1. \E p \in pr : p # keep
      BY <2>2, PairsPair
    <3> QED BY <3>1
  <2> HIDE DEF other
  <2>4. Good(Merged(db, keep, other)) /\ Follows(Merged(db, keep, other), db, pardoned)
    BY <2>1, <2>2, <2>3, OneMergeKeeps
  <2>5. db' = Merged(db, keep, other)
    BY <2>1 DEF other
  <2> QED BY <2>4, <2>5, FollowingRespects
<1>2. CASE DismissSuggestion
  <2>1. PICK pr \in db.pending :
           db' = [db EXCEPT !.pending = @ \ {pr}, !.dismissed = @ \cup {pr}]
    BY <1>2 DEF DismissSuggestion, ByHand
  <2>2. /\ db'.owner = db.owner /\ db'.last = db.last /\ db'.display = db.display
        /\ db'.filtered = db.filtered /\ db'.pending = db.pending \ {pr}
        /\ db'.dismissed = db.dismissed \cup {pr}
    BY <1>0, <2>1 DEF Databases
  <2>3. db' \in Databases
    <3> DEFINE pending == db.pending \ {pr}
               dismissed == db.dismissed \cup {pr}
    <3>1. pending \in SUBSET Pairs /\ dismissed \in SUBSET Pairs
      BY <1>0 DEF Databases
    <3>2. db' = [db EXCEPT !.pending = pending, !.dismissed = dismissed]
      BY <2>1
    <3> HIDE DEF pending, dismissed
    <3> QED BY <1>0, <3>1, <3>2 DEF Databases
  <2>4. Live(db') = Live(db) /\ Unseen(db') = Unseen(db)
    BY <2>2 DEF Live, Unseen
  <2>5. Consistent(db')
    <3>1. db'.pending \cap db'.dismissed = {}
      BY <1>0, <2>2 DEF Consistent
    <3>2. \A p \in db'.pending \cup db'.dismissed : p \subseteq Live(db')
      BY <1>0, <2>2, <2>4 DEF Consistent
    <3> QED BY <1>0, <2>2, <2>4, <3>1, <3>2 DEF Consistent
  <2>6. Respects(db', db, pardoned)
    BY <2>2 DEF Respects
  <2> QED BY <2>3, <2>5, <2>6 DEF Good
<1>3. CASE ManualMerge
  <2>1. PICK target \in Live(db), source \in Live(db) :
           target # source /\ db' = Merged(db, target, source)
    BY <1>3 DEF ManualMerge, ByHand
  <2>2. Good(Merged(db, target, source)) /\ Follows(Merged(db, target, source), db, pardoned)
    BY <2>1, OneMergeKeeps
  <2> QED BY <2>1, <2>2, FollowingRespects
<1>4. CASE Unmerge
  <2>1. PICK i \in Idents :
           /\ db.owner[i] # 0 /\ Cardinality(Identities(db, db.owner[i])) > 1
           /\ db.last + Cardinality(Unseen(db)) < MaxPersons
           /\ db' = WithOwnPerson(db, i)
    BY <1>4 DEF Unmerge, ByHand
  <2>2. \E j \in Idents : j # i /\ db.owner[j] = db.owner[i]
    <3> SUFFICES ASSUME \A j \in Idents : db.owner[j] = db.owner[i] => j = i PROVE FALSE
      OBVIOUS
    <3>1. Identities(db, db.owner[i]) = {i}
      BY DEF Identities
    <3>2. Cardinality(Identities(db, db.owner[i])) = 1
      BY <3>1, FS_Singleton
    <3> QED BY <2>1, <3>2
  <2>3. db.last + 1 + Cardinality(Unseen(db) \ {i}) <= MaxPersons
    <3>1. Unseen(db) \ {i} = Unseen(db)
      BY <2>1 DEF Unseen
    <3>2. IsFiniteSet(Unseen(db))
      BY IdentsAssumption, FS_Subset DEF Unseen
    <3>3. Cardinality(Unseen(db)) \in Nat /\ db.last \in Nat
      BY <1>0, <3>2, FS_CardinalityType, Numbers DEF Databases
    <3>4. db.last + Cardinality(Unseen(db)) < MaxPersons
      BY <2>1
    <3> QED BY <3>1, <3>3, <3>4, Numbers
  <2>4. /\ Good(db') /\ db'.owner = [db.owner EXCEPT ![i] = db.last + 1]
        /\ db'.dismissed = db.dismissed /\ db'.filtered = db.filtered
    BY <2>1, <2>2, <2>3, OwnPersonGood
  <2>5. \A j \in Idents : db'.owner[j] = IF j = i THEN db.last + 1 ELSE db.owner[j]
    BY <1>0, <2>4 DEF Databases
  <2>6. db.last + 1 > db.last
    BY <1>0, Numbers DEF Databases
  <2>7. Respects(db', db, pardoned)
    BY <2>4, <2>5, <2>6 DEF Respects
  <2> QED BY <2>4, <2>7
<1>5. CASE Rename
  <2>1. PICK p \in Live(db), n \in NewNames : db' = [db EXCEPT !.display[p] = n]
    BY <1>5 DEF Rename, ByHand
  <2>2. p \in Persons /\ n \in Names /\ n # None
    BY <1>0, LivePersons, TextsAssumption
  <2> DEFINE display == [db.display EXCEPT ![p] = n]
  <2>3. /\ db'.owner = db.owner /\ db'.last = db.last /\ db'.display = display
        /\ db'.filtered = db.filtered /\ db'.pending = db.pending
        /\ db'.dismissed = db.dismissed
    BY <1>0, <2>1 DEF Databases
  <2>4. display \in [Persons -> Names \cup {None}] /\ db.display \in [Persons -> Names \cup {None}]
    BY <1>0, <2>2 DEF Databases
  <2>5. \A q \in Persons : display[q] = IF q = p THEN n ELSE db.display[q]
    BY <2>4
  <2>6. db' = [db EXCEPT !.display = display]
    BY <2>1
  <2> HIDE DEF display
  <2>7. db' \in Databases
    BY <1>0, <2>4, <2>6 DEF Databases
  <2>8. Live(db') = Live(db) /\ Unseen(db') = Unseen(db)
    BY <2>3 DEF Live, Unseen
  <2>9. {q \in Persons : db'.display[q] # None} = Live(db')
    BY <1>0, <2>2, <2>3, <2>5, <2>8 DEF Consistent
  <2>10. Consistent(db')
    BY <1>0, <2>3, <2>8, <2>9 DEF Consistent
  <2>11. Respects(db', db, pardoned)
    BY <2>3 DEF Respects
  <2> QED BY <2>7, <2>10, <2>11 DEF Good
<1>6. CASE ListPerson
  <2>1. PICK p \in Live(db) \ db.filtered : db' = [db EXCEPT !.filtered = @ \cup {p}]
    BY <1>6 DEF ListPerson, ByHand
  <2>2. /\ db'.owner = db.owner /\ db'.last = db.last /\ db'.display = db.display
        /\ db'.filtered = db.filtered \cup {p} /\ db'.pending = db.pending
        /\ db'.dismissed = db.dismissed
    BY <1>0, <2>1 DEF Databases
  <2>3. db' \in Databases
    <3> DEFINE filtered == db.filtered \cup {p}
    <3>1. filtered \in SUBSET Persons
      BY <1>0, LivePersons DEF Databases
    <3>2. db' = [db EXCEPT !.filtered = filtered]
      BY <2>1
    <3> HIDE DEF filtered
    <3> QED BY <1>0, <3>1, <3>2 DEF Databases
  <2>4. Live(db') = Live(db) /\ Unseen(db') = Unseen(db)
    BY <2>2 DEF Live, Unseen
  <2>5. Consistent(db')
    BY <1>0, <2>2, <2>4 DEF Consistent
  <2>6. Respects(db', db, pardoned)
    BY <2>2 DEF Respects
  <2> QED BY <2>3, <2>5, <2>6 DEF Good
<1> QED BY <1>1, <1>2, <1>3, <1>4, <1>5, <1>6 DEF ManageStep

(* Every step.                                                             *)
LEMMA TablesKeep ==
    ASSUME TypeOK, [Next]_vars
    PROVE  Good(db') /\ Respects(db', db, IF scan.on THEN scan.pending ELSE {})
<1> DEFINE pardoned == IF scan.on THEN scan.pending ELSE {}
<1> SUFFICES Good(db') /\ Respects(db', db, pardoned)
  OBVIOUS
<1>0. Good(db)
  BY DEF TypeOK, Good
<1>1. ASSUME NEW i \in Idents, Appear(i) PROVE Good(db') /\ Respects(db', db, pardoned)
  <2>1. db' = WithOwnPerson(db, i) /\ db.owner[i] = 0
    BY <1>1 DEF Appear, Unseen
  <2> HIDE DEF pardoned
  <2>2. Good(WithOwnPerson(db, i))
    BY <1>0, <2>1, RoomForUnseen, OwnPersonGood
  <2>3. Follows(WithOwnPerson(db, i), db, pardoned)
    BY <1>0, <2>1, FollowsItself, OwnPersonFollows
  <2> QED BY <1>0, <2>1, <2>2, <2>3, FollowingRespects
<1>2. CASE ScanEnds
  <2>1. scan.on /\ db' = IF Scanned(db).ok THEN Scanned(db).db ELSE db
    BY <1>2 DEF ScanEnds
  <2>2. pardoned = scan.pending
    BY <2>1
  <2> HIDE DEF pardoned
  <2>3. CASE Scanned(db).ok
    <3>1. scan.views \in SUBSET PersonViews /\ OnePerPerson(scan.views)
      BY DEF TypeOK
    <3>2. Good(Scanned(db).db) /\ Follows(Scanned(db).db, db, pardoned)
      BY <1>0, <2>2, <2>3, <3>1, ScannedKeeps
    <3> QED BY <1>0, <2>1, <2>3, <3>2, FollowingRespects
  <2>4. CASE ~Scanned(db).ok
    <3>1. Follows(db, db, pardoned)
      BY <1>0, FollowsItself
    <3> QED BY <1>0, <2>1, <2>4, <3>1, FollowingRespects
  <2> QED BY <2>3, <2>4
<1>3. CASE AttributionEnds
  <2> DEFINE resolved == {e \in ask.emails : registered[e] # None}
  <2>1. db' = AttributeAll(db, resolved)
    BY <1>3 DEF AttributionEnds
  <2>2. resolved \in SUBSET Emails /\ \A e \in resolved : registered[e] \in Accounts
    BY DEF TypeOK
  <2> HIDE DEF pardoned, resolved
  <2>3. AttributeAll(db, resolved) \in Attributed(db, pardoned)
    BY <1>0, <2>2, AttributeAllKeeps
  <2>4. Good(db') /\ Follows(db', db, pardoned)
    BY <2>1, <2>3 DEF Attributed
  <2> QED BY <1>0, <2>4, FollowingRespects
<1>4. CASE ManageStep
  <2> HIDE DEF pardoned
  <2> QED BY <1>0, <1>4, ManageKeeps
<1>5. CASE UNCHANGED db
  <2> HIDE DEF pardoned
  <2>1. Follows(db, db, pardoned)
    BY <1>0, FollowsItself
  <2> QED BY <1>0, <1>5, <2>1, FollowingRespects
<1>6. \/ \E i \in Idents : Appear(i)
      \/ ScanEnds \/ AttributionEnds \/ ManageStep
      \/ UNCHANGED db
  BY DEF Next, vars, ScanReads, AttributionAsks, SessionLost, Recheck, Register,
    ToggleMembersOnly, ManageStep
<1> QED BY <1>1, <1>2, <1>3, <1>4, <1>5, <1>6

LEMMA ReadsTyped ==
    ASSUME TypeOK
    PROVE  /\ ScanReads => /\ scan' \in [on : BOOLEAN, views : SUBSET PersonViews,
                                         relevant : SUBSET Persons, pending : SUBSET Pairs]
                           /\ OnePerPerson(scan'.views)
           /\ AttributionAsks => ask' \in [on : BOOLEAN, emails : SUBSET Emails]
<1>1. Good(db) /\ db \in Databases
  BY DEF TypeOK, Good
<1>2. ASSUME ScanReads
      PROVE  /\ scan' \in [on : BOOLEAN, views : SUBSET PersonViews,
                           relevant : SUBSET Persons, pending : SUBSET Pairs]
             /\ OnePerPerson(scan'.views)
  <2>1. scan' = [on |-> TRUE, views |-> Views(db), relevant |-> Relevant(db),
                 pending |-> db.pending]
    BY <1>2 DEF ScanReads
  <2>2. Views(db) \in SUBSET PersonViews /\ OnePerPerson(Views(db))
    BY <1>1, ViewsTyped
  <2>3. Relevant(db) \in SUBSET Persons
    <3>1. Live(db) \subseteq Persons
      BY <1>1, LivePersons
    <3> QED BY <3>1 DEF Relevant, Visible, MemberPersons
  <2>4. db.pending \in SUBSET Pairs
    BY <1>1 DEF Databases
  <2> QED BY <2>1, <2>2, <2>3, <2>4
<1>3. ASSUME AttributionAsks PROVE ask' \in [on : BOOLEAN, emails : SUBSET Emails]
  <2>1. ask' = [on |-> TRUE, emails |-> Lookups(db)]
    BY <1>3 DEF AttributionAsks
  <2>2. UnlinkedEmails(db) \subseteq Emails
    BY IdentsAssumption DEF UnlinkedEmails
  <2>3. Lookups(db) \in SUBSET Emails
    BY <2>2 DEF Lookups
  <2> QED BY <2>1, <2>3
<1> QED BY <1>2, <1>3

LEMMA TypeStep == TypeOK /\ [Next]_vars => TypeOK'
<1> SUFFICES ASSUME TypeOK, [Next]_vars PROVE TypeOK'
  OBVIOUS
<1>1. db' \in Databases /\ Consistent(db')
  BY TablesKeep DEF Good
<1>2. /\ scan' \in [on : BOOLEAN, views : SUBSET PersonViews,
                    relevant : SUBSET Persons, pending : SUBSET Pairs]
      /\ OnePerPerson(scan'.views)
  <2>1. CASE ScanReads
    BY <2>1, ReadsTyped
  <2>2. CASE scan' = NoScan
    BY <2>2 DEF NoScan, OnePerPerson
  <2>3. CASE scan' = scan
    BY <2>3 DEF TypeOK
  <2>4. ScanReads \/ scan' = NoScan \/ scan' = scan
    BY DEF Next, vars, Appear, ScanEnds, AttributionAsks, AttributionEnds, SessionLost,
      Recheck, Register, AcceptSuggestion, DismissSuggestion, ManualMerge, Unmerge, Rename,
      ListPerson, ByHand, ToggleMembersOnly
  <2> QED BY <2>1, <2>2, <2>3, <2>4
<1>3. ask' \in [on : BOOLEAN, emails : SUBSET Emails]
  <2>1. CASE AttributionAsks
    BY <2>1, ReadsTyped
  <2>2. CASE ask' = NoAsk
    BY <2>2 DEF NoAsk
  <2>3. CASE ask' = ask
    BY <2>3 DEF TypeOK
  <2>4. AttributionAsks \/ ask' = NoAsk \/ ask' = ask
    BY DEF Next, vars, Appear, ScanReads, ScanEnds, AttributionEnds, SessionLost,
      Recheck, Register, AcceptSuggestion, DismissSuggestion, ManualMerge, Unmerge, Rename,
      ListPerson, ByHand, ToggleMembersOnly
  <2> QED BY <2>1, <2>2, <2>3, <2>4
<1>4. edits' \in 0..MaxEdits
  <2>1. edits \in 0..MaxEdits
    BY DEF TypeOK
  <2>2. edits' = edits \/ Edit
    BY DEF Next, vars, Appear, ScanReads, ScanEnds, AttributionAsks, AttributionEnds,
      SessionLost, Recheck, Register, AcceptSuggestion, DismissSuggestion, ManualMerge,
      Unmerge, Rename, ListPerson, ByHand, ToggleMembersOnly
  <2>3. Edit => edits' \in 0..MaxEdits
    BY <2>1, Numbers DEF Edit
  <2> QED BY <2>1, <2>2, <2>3
<1>5. membersOnly' \in BOOLEAN
  <2>1. membersOnly' = membersOnly \/ membersOnly' = ~membersOnly
    BY DEF Next, vars, Appear, ScanReads, ScanEnds, AttributionAsks, AttributionEnds,
      SessionLost, Recheck, Register, AcceptSuggestion, DismissSuggestion, ManualMerge,
      Unmerge, Rename, ListPerson, ByHand, ToggleMembersOnly
  <2> QED BY <2>1 DEF TypeOK
<1>6. checked' \subseteq Emails
  <2>1. checked' \subseteq checked \cup ask.emails
    BY DEF Next, vars, Appear, ScanReads, ScanEnds, AttributionAsks, AttributionEnds,
      SessionLost, Recheck, Register, AcceptSuggestion, DismissSuggestion, ManualMerge,
      Unmerge, Rename, ListPerson, ByHand, ToggleMembersOnly
  <2> QED BY <2>1 DEF TypeOK
<1>7. registered' \in [Emails -> Accounts \cup {None}]
  <2>1. registered' = registered
        \/ \E e \in Emails, i \in Accounts : registered' = [registered EXCEPT ![e] = i]
    BY DEF Next, vars, Appear, ScanReads, ScanEnds, AttributionAsks, AttributionEnds,
      SessionLost, Recheck, Register, AcceptSuggestion, DismissSuggestion, ManualMerge,
      Unmerge, Rename, ListPerson, ByHand, ToggleMembersOnly
  <2> QED BY <2>1 DEF TypeOK
<1> QED BY <1>1, <1>2, <1>3, <1>4, <1>5, <1>6, <1>7 DEF TypeOK

(* The types of the tables, views and sessions, and the consistency of the *)
(* tables: owners, suggestions and lists name persons who exist, a pair is *)
(* never both pending and dismissed, and there is an id for every identity *)
(* still to come.  merge_persons keeps it although it rewrites every table. *)
THEOREM TypeCorrect == Spec => []TypeOK
<1>1. Init /\ [][Next]_vars => []TypeOK
  BY TypeInit, TypeStep, PTL
<1> QED BY <1>1, PTL DEF Spec

(* What somebody has decided outlives the merges it is not about, however   *)
(* many follow one another in a scan or in an attribution.                 *)
THEOREM DecisionsAreKept == Spec => DecisionsKept
<1>1. TypeOK /\ [Next]_vars =>
         [\A pr \in db.dismissed \ db'.dismissed :
             \/ \E i \in Idents : db.owner[i] # 0 /\ db'.owner[i] # db.owner[i]
                                  /\ {db.owner[i], db'.owner[i]} \cap pr # {}
             \/ scan.on /\ pr \in scan.pending]_vars
  <2> SUFFICES ASSUME TypeOK, [Next]_vars,
                      NEW pr \in db.dismissed \ db'.dismissed
               PROVE  \/ \E i \in Idents : db.owner[i] # 0 /\ db'.owner[i] # db.owner[i]
                                           /\ {db.owner[i], db'.owner[i]} \cap pr # {}
                      \/ scan.on /\ pr \in scan.pending
    OBVIOUS
  <2> QED BY TablesKeep DEF Respects
<1>2. TypeOK /\ [Next]_vars =>
         [\A i \in Idents : db.owner[i] \in db.filtered =>
             db'.owner[i] \in db'.filtered \/ db'.owner[i] > db.last]_vars
  BY TablesKeep DEF Respects
<1> QED BY <1>1, <1>2, TypeCorrect, PTL DEF Spec, DecisionsKept, DismissalsKept, ListedStayListed
=============================================================================
