---------------------------- MODULE ResearchProofs ----------------------------
(* Proofs about Research and the queries of Statistics, for any identities, *)
(* repositories, orgs, facts and scopes.                                   *)
EXTENDS Research, FiniteSetTheorems, WellFoundedInduction, TLAPS

(* Induction up to a bound, on the set of the numbers it holds for.        *)
LEMMA UpTo ==
    ASSUME NEW n \in Nat, NEW S, 0 \in S, \A k \in S : k \in Nat /\ k < n => k + 1 \in S
    PROVE  0..n \subseteq S
<1> DEFINE T == {k \in 0..n : k \notin S}
           F == {0..k : k \in T}
           R == StrictSubsetOrdering(Nat)
<1> SUFFICES ASSUME T # {} PROVE FALSE
  OBVIOUS
<1>1. F \subseteq FiniteSubsetsOf(Nat)
  <2>1. \A k \in T : 0..k \in SUBSET Nat /\ IsFiniteSet(0..k)
    BY FS_Interval
  <2> QED BY <2>1 DEF FiniteSubsetsOf
<1>2. \E x \in F : \A y \in F : ~ (<<y, x>> \in R)
  <2>1. IsWellFoundedOn(R, FiniteSubsetsOf(Nat)) /\ F # {}
    BY FS_StrictSubsetOrderingWellFounded
  <2> HIDE DEF F, R
  <2> QED BY <1>1, <2>1, WFMin
<1>3. PICK k \in T : \A j \in T : ~ (<<0..j, 0..k>> \in R)
  BY <1>2
<1>4. k \in Nat /\ k # 0 /\ k <= n
  OBVIOUS
<1>5. k - 1 \in 0..n /\ k - 1 \in Nat /\ k - 1 < n /\ (k - 1) + 1 = k
  BY <1>4
<1>6. k - 1 \notin T
  <2>1. 0..(k - 1) \subseteq 0..k /\ 0..(k - 1) # 0..k
    BY <1>4, <1>5
  <2>2. 0..(k - 1) \in SUBSET Nat /\ 0..k \in SUBSET Nat
    BY <1>4, <1>5
  <2> HIDE DEF T
  <2> QED BY <1>3, <2>1, <2>2 DEF StrictSubsetOrdering
<1>7. k - 1 \in S
  BY <1>5, <1>6
<1> QED BY <1>5, <1>7

(* Induction over the subsets of a finite set, on the set of those for     *)
(* which something holds.                                                  *)
LEMMA OverSubsets ==
    ASSUME NEW S, IsFiniteSet(S), NEW T, {} \in T,
           \A A \in T : \A x \in S \ A : A \subseteq S => A \cup {x} \in T
    PROVE  S \in T
<1> DEFINE K == {k \in Nat : \A A \in SUBSET S : Cardinality(A) = k => A \in T}
<1>1. 0 \in K
  <2>1. \A A \in SUBSET S : Cardinality(A) = 0 => A = {}
    BY FS_EmptySet, FS_Subset
  <2> QED BY <2>1
<1>2. ASSUME NEW k \in K PROVE k + 1 \in K
  <2> SUFFICES ASSUME NEW A \in SUBSET S, Cardinality(A) = k + 1 PROVE A \in T
    OBVIOUS
  <2>1. IsFiniteSet(A) /\ k \in Nat
    BY FS_Subset
  <2>2. A # {}
    BY <2>1, FS_EmptySet
  <2>3. PICK x \in A : TRUE
    BY <2>2
  <2>4. Cardinality(A \ {x}) = k
    <3>1. Cardinality(A \ {x}) = Cardinality(A) - 1
      BY <2>1, FS_RemoveElement
    <3> QED BY <2>1, <3>1
  <2>5. A \ {x} \in T /\ A \ {x} \subseteq S /\ x \in S \ (A \ {x})
    BY <2>4
  <2> HIDE DEF K
  <2>6. (A \ {x}) \cup {x} \in T
    BY <2>5
  <2>7. (A \ {x}) \cup {x} = A
    OBVIOUS
  <2> QED BY <2>6, <2>7
<1>3. Cardinality(S) \in Nat
  BY FS_CardinalityType
<1>4. 0..Cardinality(S) \subseteq K
  <2>1. \A k \in K : k + 1 \in K
    BY <1>2
  <2> HIDE DEF K
  <2> QED BY <1>1, <1>3, <2>1, UpTo
<1>5. Cardinality(S) \in K
  BY <1>3, <1>4
<1> QED BY <1>5

----------------------------------------------------------------------------
(* Sums.                                                                   *)

(* The fold that adds up the values of f, on every subset of its domain.   *)
Adds(g, f, S) ==
    g = [s \in SUBSET S |-> IF s = {} THEN 0
                            ELSE f[CHOOSE x \in s : TRUE] + g[s \ {CHOOSE x \in s : TRUE}]]

(* The fold exists: sums of ever larger subsets.                           *)
LEMMA AddsExists ==
    ASSUME NEW S, IsFiniteSet(S), NEW f \in [S -> Int]
    PROVE  \E g : Adds(g, f, S)
<1> DEFINE E(k) == {s \in SUBSET S : Cardinality(s) <= k}
           Eq(g, k) == \A s \in E(k) : g[s] = IF s = {} THEN 0
                           ELSE f[CHOOSE x \in s : TRUE] + g[s \ {CHOOSE x \in s : TRUE}]
           K == {k \in Nat : \E g : Eq(g, k)}
           n == Cardinality(S)
<1>1. 0 \in K
  <2> DEFINE g == [s \in SUBSET S |-> 0]
  <2>1. \A s \in SUBSET S : Cardinality(s) <= 0 => s = {}
    <3> SUFFICES ASSUME NEW s \in SUBSET S, Cardinality(s) <= 0 PROVE s = {}
      OBVIOUS
    <3>1. IsFiniteSet(s) /\ Cardinality(s) \in Nat
      BY FS_Subset, FS_CardinalityType
    <3> QED BY <3>1, FS_EmptySet
  <2>2. Eq(g, 0)
    BY <2>1
  <2> HIDE DEF g
  <2> QED BY <2>2
<1>2. ASSUME NEW k \in K PROVE k + 1 \in K
  <2>1. PICK g : Eq(g, k)
    OBVIOUS
  <2> DEFINE h == [s \in SUBSET S |-> IF s = {} THEN 0
                     ELSE f[CHOOSE x \in s : TRUE] + g[s \ {CHOOSE x \in s : TRUE}]]
  <2>2. ASSUME NEW s \in E(k) PROVE h[s] = g[s]
    BY <2>1
  <2>3. ASSUME NEW s \in E(k + 1), s # {}
        PROVE  s \ {CHOOSE x \in s : TRUE} \in E(k)
    <3> DEFINE x == CHOOSE x \in s : TRUE
    <3>1. x \in s
      BY <2>3
    <3>2. IsFiniteSet(s) /\ Cardinality(s) \in Nat /\ k \in Nat
      BY FS_Subset, FS_CardinalityType
    <3>3. Cardinality(s \ {x}) = Cardinality(s) - 1
      BY <3>1, <3>2, FS_RemoveElement
    <3> QED BY <3>2, <3>3
  <2>4. Eq(h, k + 1)
    <3> SUFFICES ASSUME NEW s \in E(k + 1)
                 PROVE  h[s] = IF s = {} THEN 0
                           ELSE f[CHOOSE x \in s : TRUE] + h[s \ {CHOOSE x \in s : TRUE}]
      OBVIOUS
    <3>1. CASE s = {}
      BY <3>1
    <3>2. CASE s # {}
      <4>1. h[s \ {CHOOSE x \in s : TRUE}] = g[s \ {CHOOSE x \in s : TRUE}]
        BY <2>2, <2>3, <3>2
      <4>2. h[s] = f[CHOOSE x \in s : TRUE] + g[s \ {CHOOSE x \in s : TRUE}]
        BY <3>2
      <4> QED BY <3>2, <4>1, <4>2
    <3> QED BY <3>1, <3>2
  <2> HIDE DEF h, Eq
  <2> QED BY <2>4
<1>3. n \in Nat
  BY FS_CardinalityType
<1>4. n \in K
  <2>1. \A k \in K : k + 1 \in K
    BY <1>2
  <2> HIDE DEF K, n
  <2>2. 0..n \subseteq K
    BY <1>1, <1>3, <2>1, UpTo
  <2> QED BY <1>3, <2>2
<1>5. PICK g : Eq(g, n)
  BY <1>4
<1>6. \A s \in SUBSET S : s \in E(n)
  BY FS_Subset
<1> DEFINE h == [s \in SUBSET S |-> g[s]]
<1>7. Adds(h, f, S)
  <2>1. ASSUME NEW s \in SUBSET S
        PROVE  h[s] = IF s = {} THEN 0
                      ELSE f[CHOOSE x \in s : TRUE] + h[s \ {CHOOSE x \in s : TRUE}]
    <3>1. s \ {CHOOSE x \in s : TRUE} \in SUBSET S
      OBVIOUS
    <3>2. g[s] = IF s = {} THEN 0
                 ELSE f[CHOOSE x \in s : TRUE] + g[s \ {CHOOSE x \in s : TRUE}]
      BY <1>5, <1>6
    <3> QED BY <3>1, <3>2
  <2>2. h = [s \in SUBSET S |-> h[s]]
    OBVIOUS
  <2> HIDE DEF h
  <2> QED BY <2>1, <2>2 DEF Adds
<1> QED BY <1>7

LEMMA SumAdds ==
    ASSUME NEW S, NEW f, DOMAIN f = S
    PROVE  SumOver(f) = (CHOOSE g : Adds(g, f, S))[S]
BY DEF SumOver, MapThenSumSet, MapThenFoldSet, Adds

(* A function on a part of its domain.                                     *)
On(f, A) == [x \in A |-> f[x]]

LEMMA OnPart ==
    ASSUME NEW S, NEW V, NEW f \in [S -> V], NEW A \in SUBSET S
    PROVE  /\ On(f, A) \in [A -> V] /\ DOMAIN On(f, A) = A
           /\ \A x \in A : On(f, A)[x] = f[x]
           /\ On(f, S) = f
BY DEF On

(* Of a sum: nothing adds up to zero, and any element may be set aside.    *)
LEMMA SumEmpty ==
    ASSUME NEW f, DOMAIN f = {}
    PROVE  SumOver(f) = 0
<1> DEFINE none == {}
           h == [x \in none |-> 0]
<1>1. h \in [none -> Int] /\ IsFiniteSet(none)
  BY FS_EmptySet
<1>2. PICK g : Adds(g, f, none)
  <2> DEFINE k == [s \in SUBSET none |-> 0]
  <2>1. Adds(k, f, none)
    BY DEF Adds
  <2> HIDE DEF k
  <2> QED BY <2>1
<1>3. Adds(CHOOSE k : Adds(k, f, none), f, none)
  BY <1>2
<1> DEFINE c == CHOOSE k : Adds(k, f, none)
<1>4. SumOver(f) = c[none]
  BY SumAdds
<1>5. c = [s \in SUBSET none |-> IF s = {} THEN 0
                            ELSE f[CHOOSE x \in s : TRUE] + c[s \ {CHOOSE x \in s : TRUE}]]
  BY <1>3 DEF Adds
<1> HIDE DEF c
<1> QED BY <1>4, <1>5

(* The fold does not look outside the set.                                 *)
LEMMA AddsAgree ==
    ASSUME NEW S, IsFiniteSet(S), NEW f \in [S -> Int], NEW R, R \subseteq S,
           NEW e \in [R -> Int], \A x \in R : e[x] = f[x],
           NEW g, Adds(g, f, S), NEW h, Adds(h, e, R)
    PROVE  \A s \in SUBSET R : h[s] = g[s] /\ h[s] \in Int
<1> DEFINE K == {k \in Nat : \A s \in SUBSET R : Cardinality(s) = k => h[s] = g[s] /\ h[s] \in Int}
<1>0. /\ \A s \in SUBSET R : h[s] = IF s = {} THEN 0
             ELSE e[CHOOSE x \in s : TRUE] + h[s \ {CHOOSE x \in s : TRUE}]
      /\ \A s \in SUBSET S : g[s] = IF s = {} THEN 0
             ELSE f[CHOOSE x \in s : TRUE] + g[s \ {CHOOSE x \in s : TRUE}]
  BY DEF Adds
<1>f. \A s \in SUBSET R : IsFiniteSet(s) /\ Cardinality(s) \in Nat
  BY FS_Subset, FS_CardinalityType
<1>1. 0 \in K
  <2>1. \A s \in SUBSET R : Cardinality(s) = 0 => s = {}
    BY <1>f, FS_EmptySet
  <2> DEFINE none == {}
  <2>2. none \in SUBSET R /\ none \in SUBSET S
    OBVIOUS
  <2>3. h[none] = 0 /\ g[none] = 0
    BY <1>0, <2>2
  <2>4. \A s \in SUBSET R : Cardinality(s) = 0 => h[s] = 0 /\ g[s] = 0
    BY <2>1, <2>3
  <2> QED BY <2>4
<1>2. ASSUME NEW k \in K PROVE k + 1 \in K
  <2> SUFFICES ASSUME NEW s \in SUBSET R, Cardinality(s) = k + 1
               PROVE  h[s] = g[s] /\ h[s] \in Int
    OBVIOUS
  <2>0. Cardinality(s) # 0
    OBVIOUS
  <2>1. s # {}
    BY <2>0, FS_EmptySet
  <2> DEFINE x == CHOOSE x \in s : TRUE
  <2>2. x \in s /\ x \in R /\ x \in S
    BY <2>1
  <2>3. Cardinality(s \ {x}) = k
    <3>1. Cardinality(s \ {x}) = Cardinality(s) - 1
      BY <1>f, <2>2, FS_RemoveElement
    <3> QED BY <3>1
  <2>4. h[s \ {x}] = g[s \ {x}] /\ h[s \ {x}] \in Int
    BY <2>3
  <2>5. h[s] = e[x] + h[s \ {x}] /\ g[s] = f[x] + g[s \ {x}]
    BY <1>0, <2>1
  <2>6. e[x] = f[x] /\ e[x] \in Int
    BY <2>2
  <2> HIDE DEF x
  <2> QED BY <2>4, <2>5, <2>6
<1>3. ASSUME NEW s \in SUBSET R PROVE h[s] = g[s] /\ h[s] \in Int
  <2>1. \A k \in K : k + 1 \in K
    BY <1>2
  <2> DEFINE n == Cardinality(s)
  <2>2. n \in Nat
    BY <1>f
  <2> HIDE DEF K, n
  <2>3. 0..n \subseteq K
    BY <1>1, <2>1, <2>2, UpTo
  <2>4. n \in K
    BY <2>2, <2>3
  <2> QED BY <2>4 DEF K, n
<1> QED BY <1>3

(* The sum over a part of S, by the fold over S.                           *)
LEMMA SumByFold ==
    ASSUME NEW S, IsFiniteSet(S), NEW f \in [S -> Int], NEW g, Adds(g, f, S),
           NEW R \in SUBSET S
    PROVE  SumOver(On(f, R)) = g[R] /\ g[R] \in Int
<1> DEFINE e == On(f, R)
<1>1. e \in [R -> Int] /\ DOMAIN e = R /\ \A x \in R : e[x] = f[x]
  BY DEF On
<1>2. IsFiniteSet(R)
  BY FS_Subset
<1> HIDE DEF e
<1> DEFINE h == CHOOSE k : Adds(k, e, R)
<1>3. Adds(h, e, R)
  BY <1>1, <1>2, AddsExists
<1>4. SumOver(e) = h[R]
  BY <1>1, SumAdds
<1> HIDE DEF h
<1>5. h[R] = g[R] /\ h[R] \in Int
  BY <1>1, <1>3, AddsAgree
<1> QED BY <1>4, <1>5 DEF e

(* Setting one element aside.  The fold takes the elements in an order of  *)
(* its own; addition does not mind.                                        *)
LEMMA SumRemove ==
    ASSUME NEW S, IsFiniteSet(S), NEW f \in [S -> Int], NEW R \in SUBSET S, NEW a \in R
    PROVE  SumOver(On(f, R)) = f[a] + SumOver(On(f, R \ {a}))
<1>1. PICK g : Adds(g, f, S)
  BY AddsExists
<1>2. \A Q \in SUBSET S : SumOver(On(f, Q)) = g[Q] /\ g[Q] \in Int
  BY <1>1, SumByFold
<1>3. \A s \in SUBSET S : g[s] = IF s = {} THEN 0
             ELSE f[CHOOSE x \in s : TRUE] + g[s \ {CHOOSE x \in s : TRUE}]
  BY <1>1 DEF Adds
<1> DEFINE K == {k \in Nat : \A s \in SUBSET S : \A b \in s :
                    Cardinality(s) = k + 1 => g[s] = f[b] + g[s \ {b}]}
<1>f. \A s \in SUBSET S : IsFiniteSet(s) /\ Cardinality(s) \in Nat
  BY FS_Subset, FS_CardinalityType
<1>c. ASSUME NEW s \in SUBSET S, NEW b \in s
      PROVE  Cardinality(s \ {b}) = Cardinality(s) - 1
  BY <1>f, FS_RemoveElement
<1>4. ASSUME NEW k \in Nat, \A j \in K : j + 1 # k => j \in Nat,
             k = 0 \/ k - 1 \in K
      PROVE  k \in K
  <2> SUFFICES ASSUME NEW s \in SUBSET S, NEW b \in s, Cardinality(s) = k + 1
               PROVE  g[s] = f[b] + g[s \ {b}]
    OBVIOUS
  <2> DEFINE c == CHOOSE x \in s : TRUE
  <2>1. c \in s /\ s # {}
    OBVIOUS
  <2>2. g[s] = f[c] + g[s \ {c}]
    BY <1>3, <2>1
  <2> HIDE DEF c
  <2>3. CASE b = c
    BY <2>2, <2>3
  <2>4. CASE b # c
    <3>1. b \in s \ {c} /\ c \in s \ {b} /\ s \ {c} \in SUBSET S /\ s \ {b} \in SUBSET S
      BY <2>1, <2>4
    <3>2. Cardinality(s \ {c}) = k /\ Cardinality(s \ {b}) = k
      <4>1. Cardinality(s \ {c}) = Cardinality(s) - 1 /\ Cardinality(s \ {b}) = Cardinality(s) - 1
        BY <1>c, <2>1
      <4> QED BY <4>1
    <3>3. k # 0
      BY <1>f, <3>1, <3>2, FS_EmptySet
    <3>4. k - 1 \in K /\ k - 1 \in Nat /\ (k - 1) + 1 = k
      <4> HIDE DEF K
      <4> QED BY <1>4, <3>3
    <3>5. g[s \ {c}] = f[b] + g[(s \ {c}) \ {b}] /\ g[s \ {b}] = f[c] + g[(s \ {b}) \ {c}]
      BY <3>1, <3>2, <3>4
    <3>6. (s \ {c}) \ {b} = (s \ {b}) \ {c} /\ (s \ {b}) \ {c} \in SUBSET S
      OBVIOUS
    <3>7. f[b] \in Int /\ f[c] \in Int /\ g[(s \ {b}) \ {c}] \in Int
      BY <1>2, <2>1, <3>6
    <3>8. g[s] = f[c] + (f[b] + g[(s \ {b}) \ {c}])
      BY <2>2, <3>5, <3>6
    <3>9. g[s \ {b}] = f[c] + g[(s \ {b}) \ {c}]
      BY <3>5
    <3> DEFINE z == g[(s \ {b}) \ {c}]
               y == g[s \ {b}]
    <3>10. z \in Int /\ f[b] \in Int /\ f[c] \in Int /\ g[s] = f[c] + (f[b] + z) /\ y = f[c] + z
      BY <3>7, <3>8, <3>9
    <3> HIDE DEF K, z, y
    <3>11. g[s] = f[b] + y
      BY <3>10
    <3> QED BY <3>11 DEF y
  <2> QED BY <2>3, <2>4
<1>5. 0 \in K
  BY <1>4
<1>6. ASSUME NEW k \in K PROVE k + 1 \in K
  <2>1. k \in Nat /\ k + 1 \in Nat /\ (k + 1) - 1 = k
    OBVIOUS
  <2>2. \A j \in K : j \in Nat
    OBVIOUS
  <2> HIDE DEF K
  <2> QED BY <1>4, <2>1, <2>2
<1>7. Cardinality(R) \in Nat /\ Cardinality(R) # 0
  BY <1>f, FS_EmptySet
<1> DEFINE n == Cardinality(R) - 1
<1>8. n \in Nat /\ Cardinality(R) = n + 1
  BY <1>7
<1>9. n \in K
  <2>1. \A k \in K : k + 1 \in K
    BY <1>6
  <2> HIDE DEF K, n
  <2>2. 0..n \subseteq K
    BY <1>5, <1>8, <2>1, UpTo
  <2> QED BY <1>8, <2>2
<1>10. g[R] = f[a] + g[R \ {a}]
  BY <1>8, <1>9
<1> QED BY <1>2, <1>10

(* One more element adds its own value, the step of inductions over sums.  *)
LEMMA SumStep ==
    ASSUME NEW S, IsFiniteSet(S), NEW f \in [S -> Int], NEW A \in SUBSET S, NEW a \in S \ A
    PROVE  /\ SumOver(On(f, A \cup {a})) = f[a] + SumOver(On(f, A))
           /\ SumOver(On(f, A)) \in Int
<1>1. A \cup {a} \in SUBSET S /\ (A \cup {a}) \ {a} = A
  OBVIOUS
<1>2. SumOver(On(f, A \cup {a})) = f[a] + SumOver(On(f, (A \cup {a}) \ {a}))
  <2> DEFINE R == A \cup {a}
  <2>1. R \in SUBSET S /\ a \in R
    BY <1>1
  <2> HIDE DEF R
  <2>2. SumOver(On(f, R)) = f[a] + SumOver(On(f, R \ {a}))
    BY <2>1, SumRemove
  <2> QED BY <2>2 DEF R
<1>3. SumOver(On(f, (A \cup {a}) \ {a})) = SumOver(On(f, A))
  BY <1>1
<1>4. PICK g : Adds(g, f, S)
  BY AddsExists
<1>5. SumOver(On(f, A)) \in Int
  BY <1>4, SumByFold
<1> QED BY <1>2, <1>3, <1>5

LEMMA SumInt ==
    ASSUME NEW S, IsFiniteSet(S), NEW f \in [S -> Int]
    PROVE  SumOver(f) \in Int
<1>1. PICK g : Adds(g, f, S)
  BY AddsExists
<1>2. SumOver(On(f, S)) \in Int
  BY <1>1, SumByFold
<1>3. f = On(f, S)
  BY OnPart
<1> QED BY <1>2, <1>3

LEMMA SumNat ==
    ASSUME NEW S, IsFiniteSet(S), NEW f \in [S -> Nat]
    PROVE  SumOver(f) \in Nat
<1> DEFINE T == {A \in SUBSET S : SumOver(On(f, A)) \in Nat}
<1>1. {} \in T
  <2> DEFINE none == {}
  <2>1. DOMAIN On(f, none) = {}
    BY DEF On
  <2>2. SumOver(On(f, none)) = 0
    BY <2>1, SumEmpty
  <2> QED BY <2>2
<1>2. ASSUME NEW A \in T, NEW a \in S \ A PROVE A \cup {a} \in T
  <2>1. f \in [S -> Int] /\ f[a] \in Nat
    OBVIOUS
  <2>2. SumOver(On(f, A \cup {a})) = f[a] + SumOver(On(f, A))
    BY <2>1, SumStep
  <2>3. SumOver(On(f, A \cup {a})) \in Nat
    BY <2>1, <2>2
  <2> QED BY <2>3
<1>3. S \in T
  <2> HIDE DEF T
  <2> QED BY <1>1, <1>2, OverSubsets
<1>4. f = On(f, S)
  BY DEF On
<1> QED BY <1>3, <1>4

(* The sum over two sets that share nothing.                               *)
LEMMA SumSplit ==
    ASSUME NEW S, IsFiniteSet(S), NEW f \in [S -> Int],
           NEW A \in SUBSET S, NEW B \in SUBSET S, A \cap B = {}
    PROVE  SumOver(On(f, A \cup B))
             = SumOver(On(f, A)) + SumOver(On(f, B))
<1> DEFINE T == {Q \in SUBSET B : SumOver(On(f, A \cup Q))
                   = SumOver(On(f, A)) + SumOver(On(f, Q))}
<1>f. IsFiniteSet(B) /\ IsFiniteSet(A)
  BY FS_Subset
<1>0. SumOver(On(f, A)) \in Int
  BY <1>f, SumInt, OnPart
<1>1. {} \in T
  <2> DEFINE none == {}
  <2>1. DOMAIN On(f, none) = {}
    BY DEF On
  <2>2. SumOver(On(f, none)) = 0
    BY <2>1, SumEmpty
  <2>3. A \cup none = A
    OBVIOUS
  <2>4. SumOver(On(f, A \cup none)) = SumOver(On(f, A))
    BY <2>3
  <2>5. none \in T
    BY <1>0, <2>2, <2>4
  <2> QED BY <2>5
<1>2. ASSUME NEW Q \in T, NEW a \in B \ Q PROVE Q \cup {a} \in T
  <2>1. A \cup Q \in SUBSET S /\ a \in S \ (A \cup Q) /\ Q \in SUBSET S /\ a \in S \ Q
    OBVIOUS
  <2> DEFINE AQ == A \cup Q
  <2>2. /\ SumOver(On(f, AQ \cup {a})) = f[a] + SumOver(On(f, AQ))
        /\ SumOver(On(f, AQ)) \in Int
    <3> HIDE DEF AQ
    <3>1. AQ \in SUBSET S /\ a \in S \ AQ
      BY <2>1 DEF AQ
    <3> QED BY <3>1, SumStep
  <2>3. /\ SumOver(On(f, Q \cup {a})) = f[a] + SumOver(On(f, Q))
        /\ SumOver(On(f, Q)) \in Int
    BY <2>1, SumStep
  <2>4. AQ \cup {a} = A \cup (Q \cup {a})
    OBVIOUS
  <2>5. SumOver(On(f, A \cup (Q \cup {a}))) = f[a] + SumOver(On(f, A \cup Q))
    BY <2>2, <2>4
  <2>6. SumOver(On(f, A \cup Q))
          = SumOver(On(f, A)) + SumOver(On(f, Q))
    OBVIOUS
  <2>7. f[a] \in Int /\ Q \cup {a} \in SUBSET B
    BY <2>1
  <2>8. SumOver(On(f, A \cup (Q \cup {a})))
          = SumOver(On(f, A)) + SumOver(On(f, Q \cup {a}))
    <3> DEFINE s1 == SumOver(On(f, A \cup (Q \cup {a})))
               s2 == SumOver(On(f, A \cup Q))
               s3 == SumOver(On(f, A))
               s4 == SumOver(On(f, Q))
               s5 == SumOver(On(f, Q \cup {a}))
    <3>1. s1 = f[a] + s2 /\ s2 = s3 + s4 /\ s5 = f[a] + s4 /\ s3 \in Int /\ s4 \in Int
      BY <1>0, <2>3, <2>5, <2>6
    <3> HIDE DEF s1, s2, s3, s4, s5, T
    <3>2. s1 = s3 + s5
      BY <2>7, <3>1
    <3> QED BY <3>2 DEF s1, s3, s5
  <2> QED BY <2>7, <2>8
<1>3. B \in T
  <2> HIDE DEF T
  <2> QED BY <1>f, <1>1, <1>2, OverSubsets
<1> QED BY <1>3

LEMMA SumZero ==
    ASSUME NEW S, IsFiniteSet(S), NEW f \in [S -> Int], \A x \in S : f[x] = 0
    PROVE  SumOver(f) = 0
<1> DEFINE T == {A \in SUBSET S : SumOver(On(f, A)) = 0}
<1>1. {} \in T
  <2> DEFINE none == {}
  <2>1. DOMAIN On(f, none) = {}
    BY DEF On
  <2>2. SumOver(On(f, none)) = 0
    BY <2>1, SumEmpty
  <2> QED BY <2>2
<1>2. ASSUME NEW A \in T, NEW a \in S \ A PROVE A \cup {a} \in T
  <2>1. SumOver(On(f, A \cup {a})) = f[a] + SumOver(On(f, A))
    BY SumStep
  <2>2. SumOver(On(f, A \cup {a})) = 0
    BY <2>1
  <2> QED BY <2>2
<1>3. S \in T
  <2> HIDE DEF T
  <2> QED BY <1>1, <1>2, OverSubsets
<1> QED BY <1>3, OnPart

(* Summands that are zero may be left out.                                 *)
LEMMA SumOfPart ==
    ASSUME NEW S, IsFiniteSet(S), NEW f \in [S -> Int],
           NEW A \in SUBSET S, \A x \in S \ A : f[x] = 0
    PROVE  SumOver(On(f, A)) = SumOver(f)
<1> DEFINE B == S \ A
           e == On(f, B)
<1>1. IsFiniteSet(B) /\ IsFiniteSet(A)
  BY FS_Subset
<1>2. SumOver(e) = 0
  <2>1. B \in SUBSET S /\ \A x \in B : f[x] = 0
    OBVIOUS
  <2> HIDE DEF B
  <2>2. e \in [B -> Int] /\ \A x \in B : e[x] = 0
    BY <2>1, OnPart
  <2> HIDE DEF e
  <2> QED BY <1>1, <2>2, SumZero
<1>3. A \cup B = S /\ A \cap B = {} /\ B \in SUBSET S
  OBVIOUS
<1>4. SumOver(On(f, A)) \in Int
  BY <1>1, SumInt, OnPart
<1>5. SumOver(On(f, A \cup B))
        = SumOver(On(f, A)) + SumOver(On(f, B))
  <2> HIDE DEF B
  <2> QED BY <1>3, SumSplit
<1>6. f = On(f, A \cup B)
  BY <1>3, OnPart
<1> HIDE DEF B
<1> QED BY <1>2, <1>4, <1>5, <1>6

(* A sum group by group.                                                   *)
LEMMA SumGroups ==
    ASSUME NEW S, IsFiniteSet(S), NEW f \in [S -> Int], NEW K, IsFiniteSet(K),
           NEW key, \A x \in S : key[x] \in K,
           NEW g \in [K -> Int], \A k \in K : g[k] = SumOver(On(f, {x \in S : key[x] = k}))
    PROVE  SumOver(g) = SumOver(f)
<1> DEFINE In(k) == {x \in S : key[x] = k}
           Of(A) == {x \in S : key[x] \in A}
           T == {A \in SUBSET K : SumOver(On(g, A)) = SumOver(On(f, Of(A)))}
<1>1. {} \in T
  <2> DEFINE none == {}
             e == On(g, none)
             h == On(f, Of(none))
  <2>1. DOMAIN e = {} /\ DOMAIN h = {}
    BY DEF On
  <2>2. SumOver(e) = 0 /\ SumOver(h) = 0
    <3> HIDE DEF e, h
    <3> QED BY <2>1, SumEmpty
  <2>3. none \in T
    BY <2>2
  <2> QED BY <2>3
<1>2. ASSUME NEW A \in T, NEW a \in K \ A PROVE A \cup {a} \in T
  <2>1. SumOver(On(g, A \cup {a})) = g[a] + SumOver(On(g, A))
    <3>1. A \in SUBSET K
      OBVIOUS
    <3> HIDE DEF T
    <3> QED BY <3>1, SumStep
  <2>2. Of(A \cup {a}) = In(a) \cup Of(A) /\ In(a) \cap Of(A) = {}
        /\ In(a) \in SUBSET S /\ Of(A) \in SUBSET S
    OBVIOUS
  <2>3. SumOver(On(f, In(a) \cup Of(A)))
          = SumOver(On(f, In(a))) + SumOver(On(f, Of(A)))
    <3> HIDE DEF In, Of
    <3> QED BY <2>2, SumSplit
  <2>4. g[a] = SumOver(On(f, In(a)))
    OBVIOUS
  <2>5. SumOver(On(f, Of(A \cup {a}))) = SumOver(On(f, In(a) \cup Of(A)))
    <3> HIDE DEF In
    <3> QED BY <2>2
  <2>6. SumOver(On(g, A)) = SumOver(On(f, Of(A)))
    OBVIOUS
  <2> HIDE DEF In, Of
  <2> QED BY <2>1, <2>3, <2>4, <2>5, <2>6
<1>3. K \in T
  <2> HIDE DEF T
  <2> QED BY <1>1, <1>2, OverSubsets
<1>4. Of(K) = S
  OBVIOUS
<1>5. SumOver(On(g, K)) = SumOver(On(f, Of(K)))
  BY <1>3
<1>6. On(g, K) = g /\ On(f, S) = f
  BY OnPart
<1> HIDE DEF Of
<1> QED BY <1>4, <1>5, <1>6

(* Counting is adding ones.                                                *)
LEMMA SumOnes ==
    ASSUME NEW S, IsFiniteSet(S), NEW f \in [S -> Int], \A x \in S : f[x] = 1
    PROVE  SumOver(f) = Cardinality(S)
<1> DEFINE T == {A \in SUBSET S : SumOver(On(f, A)) = Cardinality(A)}
<1>1. {} \in T
  <2> DEFINE none == {}
  <2>1. DOMAIN On(f, none) = {}
    BY DEF On
  <2>2. SumOver(On(f, none)) = 0 /\ Cardinality(none) = 0
    BY <2>1, SumEmpty, FS_EmptySet
  <2> QED BY <2>2
<1>2. ASSUME NEW A \in T, NEW a \in S \ A PROVE A \cup {a} \in T
  <2>1. SumOver(On(f, A \cup {a})) = f[a] + SumOver(On(f, A)) /\ SumOver(On(f, A)) \in Int
    BY SumStep
  <2>2. IsFiniteSet(A)
    BY FS_Subset
  <2>3. Cardinality(A \cup {a}) = Cardinality(A) + 1
    BY <2>2, FS_AddElement
  <2>4. f[a] = 1 /\ SumOver(On(f, A)) = Cardinality(A)
    OBVIOUS
  <2>5. SumOver(On(f, A \cup {a})) = Cardinality(A \cup {a})
    BY <2>1, <2>3, <2>4
  <2> QED BY <2>5
<1>3. S \in T
  <2> HIDE DEF T
  <2> QED BY <1>1, <1>2, OverSubsets
<1> QED BY <1>3, OnPart

(* A sum of differences, or of sums, is the difference, or the sum.        *)
LEMMA SumPlus ==
    ASSUME NEW S, IsFiniteSet(S), NEW f \in [S -> Int], NEW g \in [S -> Int],
           NEW h \in [S -> Int], \A x \in S : h[x] = f[x] + g[x]
    PROVE  SumOver(h) = SumOver(f) + SumOver(g)
<1> DEFINE T == {A \in SUBSET S : SumOver(On(h, A)) = SumOver(On(f, A)) + SumOver(On(g, A))}
<1>1. {} \in T
  <2> DEFINE none == {}
  <2>1. DOMAIN On(f, none) = {} /\ DOMAIN On(g, none) = {} /\ DOMAIN On(h, none) = {}
    BY DEF On
  <2>2. SumOver(On(f, none)) = 0 /\ SumOver(On(g, none)) = 0 /\ SumOver(On(h, none)) = 0
    BY <2>1, SumEmpty
  <2> QED BY <2>2
<1>2. ASSUME NEW A \in T, NEW a \in S \ A PROVE A \cup {a} \in T
  <2> DEFINE f1 == SumOver(On(f, A))
             g1 == SumOver(On(g, A))
             h1 == SumOver(On(h, A))
             f2 == SumOver(On(f, A \cup {a}))
             g2 == SumOver(On(g, A \cup {a}))
             h2 == SumOver(On(h, A \cup {a}))
  <2>1. f2 = f[a] + f1 /\ g2 = g[a] + g1 /\ h2 = h[a] + h1 /\ f1 \in Int /\ g1 \in Int
    BY SumStep
  <2>2. h1 = f1 + g1 /\ h[a] = f[a] + g[a] /\ f[a] \in Int /\ g[a] \in Int
    OBVIOUS
  <2>3. h2 = f2 + g2
    <3> HIDE DEF f1, g1, h1, f2, g2, h2, T
    <3> QED BY <2>1, <2>2
  <2> QED BY <2>3
<1>3. S \in T
  <2> HIDE DEF T
  <2> QED BY <1>1, <1>2, OverSubsets
<1> QED BY <1>3, OnPart

(* A smaller summand everywhere makes for a smaller sum.                   *)
LEMMA SumAtMost ==
    ASSUME NEW S, IsFiniteSet(S), NEW f \in [S -> Int], NEW g \in [S -> Int],
           \A x \in S : f[x] <= g[x]
    PROVE  SumOver(f) <= SumOver(g)
<1> DEFINE h == [x \in S |-> g[x] - f[x]]
<1>1. h \in [S -> Nat] /\ h \in [S -> Int] /\ \A x \in S : g[x] = f[x] + h[x]
  OBVIOUS
<1> HIDE DEF h
<1>2. SumOver(g) = SumOver(f) + SumOver(h)
  BY <1>1, SumPlus
<1>3. SumOver(h) \in Nat /\ SumOver(f) \in Int
  BY <1>1, SumNat, SumInt
<1> QED BY <1>2, <1>3

(* Only nothing adds up to nothing.                                        *)
LEMMA SumPositive ==
    ASSUME NEW S, IsFiniteSet(S), NEW f \in [S -> Nat], SumOver(f) = 0
    PROVE  \A x \in S : f[x] = 0
<1> SUFFICES ASSUME NEW a \in S PROVE f[a] = 0
  OBVIOUS
<1>1. f \in [S -> Int] /\ f[a] \in Nat
  OBVIOUS
<1>2. SumOver(On(f, S)) = f[a] + SumOver(On(f, S \ {a})) /\ On(f, S) = f
  BY <1>1, SumRemove, OnPart
<1>3. SumOver(On(f, S \ {a})) \in Nat
  <2>1. On(f, S \ {a}) \in [S \ {a} -> Nat] /\ IsFiniteSet(S \ {a})
    BY FS_Subset, OnPart
  <2> QED BY <2>1, SumNat
<1> QED BY <1>1, <1>2, <1>3

----------------------------------------------------------------------------
(* Rollups.                                                                *)

LEMMA ImageFinite ==
    ASSUME NEW S, IsFiniteSet(S), NEW g
    PROVE  IsFiniteSet({g[x] : x \in S})
<1> DEFINE T == {g[x] : x \in S}
           h == [x \in S |-> g[x]]
<1>1. h \in Surjection(S, T)
  BY DEF Surjection
<1> HIDE DEF h, T
<1>2. IsFiniteSet(T)
  BY <1>1, FS_Surjection
<1> QED BY <1>2 DEF T

RowType == [person : Persons, repo : Repos, day : Int, n : [Metrics -> Nat]]
Facts == {F \in SUBSET FactPool : IsFiniteSet(F)}
Owners == [Identities -> Persons]

LEMMA DeltasTyped ==
    ASSUME NEW f \in FactPool
    PROVE  IsFiniteSet(Deltas(f)) /\ Deltas(f) \subseteq Int \X Metrics \X Nat
<1>0. /\ f.kind \in {"commit", "pull", "review"} /\ f.day \in Int
      /\ f.kind = "commit" => f.size \in Nat /\ f.churned \in Nat
      /\ f.kind = "pull" => f.merged \in Int \cup {Never}
  BY FactPoolAssumption
<1>1. CASE f.kind = "commit"
  <2> DEFINE a == <<f.day, "commits", 1>>
             b == <<f.day, "additions", f.size>>
             c == <<f.day, "churn", f.churned>>
             d == <<f.day, "significance", f.size>>
  <2>1. Deltas(f) = {a, b, c, d}
    BY <1>1 DEF Deltas
  <2>2. a \in Int \X Metrics \X Nat /\ b \in Int \X Metrics \X Nat
        /\ c \in Int \X Metrics \X Nat /\ d \in Int \X Metrics \X Nat
    BY <1>0, <1>1 DEF Metrics
  <2> HIDE DEF a, b, c, d
  <2>3. IsFiniteSet({a, b, c, d})
    <3>1. IsFiniteSet({a} \cup {b}) /\ IsFiniteSet({c} \cup {d})
      BY FS_Singleton, FS_Union
    <3>2. IsFiniteSet(({a} \cup {b}) \cup ({c} \cup {d}))
      BY <3>1, FS_Union
    <3>3. ({a} \cup {b}) \cup ({c} \cup {d}) = {a, b, c, d}
      OBVIOUS
    <3> QED BY <3>2, <3>3
  <2> QED BY <2>1, <2>2, <2>3
<1>2. CASE f.kind = "pull"
  <2> DEFINE a == <<f.day, "prs_opened", 1>>
             b == <<f.merged, "prs_merged", 1>>
             B == IF f.merged = Never THEN {} ELSE {b}
  <2>1. Deltas(f) = {a} \cup B
    BY <1>2 DEF Deltas
  <2>2. a \in Int \X Metrics \X Nat /\ (f.merged # Never => b \in Int \X Metrics \X Nat)
    BY <1>0, <1>2 DEF Metrics
  <2>3. IsFiniteSet({a}) /\ IsFiniteSet(B)
    BY FS_Singleton, FS_EmptySet
  <2>4. IsFiniteSet({a} \cup B)
    <3> HIDE DEF B
    <3> QED BY <2>3, FS_Union
  <2>5. {a} \cup B \subseteq Int \X Metrics \X Nat
    <3> HIDE DEF a, b
    <3> QED BY <2>2
  <2> QED BY <2>1, <2>4, <2>5
<1>3. CASE f.kind = "review"
  <2>1. Deltas(f) = {<<f.day, "reviews", 1>>}
    BY <1>3 DEF Deltas
  <2>2. IsFiniteSet({<<f.day, "reviews", 1>>})
    BY FS_Singleton
  <2> QED BY <1>0, <2>1, <2>2 DEF Metrics
<1> QED BY <1>0, <1>1, <1>2, <1>3

LEMMA EntriesTyped ==
    ASSUME NEW F \in Facts
    PROVE  /\ IsFiniteSet(Entries(F))
           /\ \A e \in Entries(F) :
                 /\ e = <<e[1], e[2]>> /\ e[1] \in F /\ e[1] \in FactPool /\ e[2] \in Deltas(e[1])
                 /\ e[2] \in Int \X Metrics \X Nat
                 /\ e[2][1] \in Int /\ e[2][2] \in Metrics /\ e[2][3] \in Nat
<1> DEFINE g == [f \in F |-> {f} \X Deltas(f)]
           U == {{f} \X Deltas(f) : f \in F}
<1>1. IsFiniteSet(U)
  <2>1. IsFiniteSet({g[f] : f \in F})
    <3> HIDE DEF g
    <3>1. IsFiniteSet(F)
      BY DEF Facts
    <3> QED BY <3>1, ImageFinite
  <2>2. {g[f] : f \in F} = U
    OBVIOUS
  <2> QED BY <2>1, <2>2
<1>2. \A A \in U : IsFiniteSet(A)
  <2> SUFFICES ASSUME NEW f \in F PROVE IsFiniteSet({f} \X Deltas(f))
    OBVIOUS
  <2>1. IsFiniteSet({f}) /\ IsFiniteSet(Deltas(f))
    BY FS_Singleton, DeltasTyped DEF Facts
  <2> QED BY <2>1, FS_Product
<1>3. IsFiniteSet(UNION U)
  <2> HIDE DEF U
  <2> QED BY <1>1, <1>2, FS_UNION
<1>4. IsFiniteSet(Entries(F))
  BY <1>3 DEF Entries
<1>5. ASSUME NEW e \in Entries(F)
      PROVE  /\ e = <<e[1], e[2]>> /\ e[1] \in F /\ e[1] \in FactPool /\ e[2] \in Deltas(e[1])
             /\ e[2] \in Int \X Metrics \X Nat
             /\ e[2][1] \in Int /\ e[2][2] \in Metrics /\ e[2][3] \in Nat
  <2>1. PICK f \in F : e \in {f} \X Deltas(f)
    BY DEF Entries
  <2>2. e = <<e[1], e[2]>> /\ e[1] = f /\ e[2] \in Deltas(f)
    BY <2>1
  <2>3. f \in FactPool
    BY DEF Facts
  <2>4. e[2] \in Int \X Metrics \X Nat
    BY <2>2, <2>3, DeltasTyped
  <2>5. e[2][1] \in Int /\ e[2][2] \in Metrics /\ e[2][3] \in Nat
    BY <2>4
  <2> QED BY <2>2, <2>3, <2>4, <2>5
<1> QED BY <1>4, <1>5

LEMMA EntriesUnion ==
    ASSUME NEW A, NEW B
    PROVE  /\ Entries(A \cup B) = Entries(A) \cup Entries(B)
           /\ A \cap B = {} => Entries(A) \cap Entries(B) = {}
BY DEF Entries

(* What the entries of one row add up to.                                  *)
Values(F) == [e \in Entries(F) |-> e[2][3]]
Of(F, owner, k, m) == {e \in Entries(F) : RowKey(owner, e) = k /\ e[2][2] = m}
Amount(F, owner, k, m) == SumOver(On(Values(F), Of(F, owner, k, m)))
KeyOf(x) == [person |-> x.person, repo |-> x.repo, day |-> x.day]
Keys == [person : Persons, repo : Repos, day : Int]

LEMMA ValuesTyped ==
    ASSUME NEW F \in Facts
    PROVE  Values(F) \in [Entries(F) -> Nat] /\ Values(F) \in [Entries(F) -> Int]
<1>1. \A e \in Entries(F) : e[2][3] \in Nat
  BY EntriesTyped
<1> QED BY <1>1 DEF Values

LEMMA KeysTyped ==
    ASSUME NEW F \in Facts, NEW owner \in Owners, NEW e \in Entries(F)
    PROVE  /\ RowKey(owner, e) \in Keys
           /\ RowKey(owner, e).person = owner[e[1].by] /\ RowKey(owner, e).repo = e[1].repo
           /\ RowKey(owner, e).day = e[2][1]
<1>1. e[1].by \in Identities /\ e[1].repo \in Repos /\ e[2][1] \in Int
  BY EntriesTyped, FactPoolAssumption
<1> QED BY <1>1 DEF RowKey, Keys, Owners

LEMMA AmountNat ==
    ASSUME NEW F \in Facts, NEW owner, NEW k, NEW m
    PROVE  Amount(F, owner, k, m) \in Nat
<1>1. Of(F, owner, k, m) \in SUBSET Entries(F)
  BY DEF Of
<1>2. IsFiniteSet(Of(F, owner, k, m))
  BY <1>1, EntriesTyped, FS_Subset
<1>3. On(Values(F), Of(F, owner, k, m)) \in [Of(F, owner, k, m) -> Nat]
  BY <1>1, ValuesTyped, OnPart
<1> QED BY <1>2, <1>3, SumNat DEF Amount

(* A row is what its key's entries add up to.                              *)
LEMMA RowsAre ==
    ASSUME NEW F \in Facts, NEW owner \in Owners, NEW x
    PROVE  x \in MergeDeltas(F, owner) <=>
              /\ x \in RowType
              /\ \E e \in Entries(F) : RowKey(owner, e) = KeyOf(x)
              /\ \A m \in Metrics : x.n[m] = Amount(F, owner, KeyOf(x), m)
<1> DEFINE R(k) == Row(F, owner, k)
<1>1. ASSUME NEW k
      PROVE  R(k) = [person |-> k.person, repo |-> k.repo, day |-> k.day,
                     n |-> [m \in Metrics |-> Amount(F, owner, k, m)]]
  <2>1. ASSUME NEW m
        PROVE  SumOver([e \in {e \in Entries(F) : RowKey(owner, e) = k /\ e[2][2] = m} |-> e[2][3]])
                 = Amount(F, owner, k, m)
    <3>1. [e \in {e \in Entries(F) : RowKey(owner, e) = k /\ e[2][2] = m} |-> e[2][3]]
            = On(Values(F), Of(F, owner, k, m))
      BY DEF On, Values, Of
    <3> QED BY <3>1 DEF Amount
  <2> QED BY <2>1 DEF Row
<1>2. ASSUME NEW e \in Entries(F)
      PROVE  LET k == RowKey(owner, e) IN R(k) \in RowType /\ KeyOf(R(k)) = k
  <2>1. \A m \in Metrics : Amount(F, owner, RowKey(owner, e), m) \in Nat
    BY AmountNat
  <2>2. RowKey(owner, e) \in Keys
    BY KeysTyped
  <2> QED BY <1>1, <2>1, <2>2 DEF RowType, Keys, KeyOf
<1>3. ASSUME x \in MergeDeltas(F, owner)
      PROVE  /\ x \in RowType
             /\ \E e \in Entries(F) : RowKey(owner, e) = KeyOf(x)
             /\ \A m \in Metrics : x.n[m] = Amount(F, owner, KeyOf(x), m)
  <2>1. PICK e \in Entries(F) : x = R(RowKey(owner, e))
    BY <1>3 DEF MergeDeltas
  <2>2. x \in RowType /\ KeyOf(x) = RowKey(owner, e)
    <3> HIDE DEF R
    <3> QED BY <1>2, <2>1
  <2>3. \A m \in Metrics : x.n[m] = Amount(F, owner, RowKey(owner, e), m)
    BY <1>1, <2>1
  <2> QED BY <2>2, <2>3
<1>4. ASSUME x \in RowType, NEW e \in Entries(F), RowKey(owner, e) = KeyOf(x),
             \A m \in Metrics : x.n[m] = Amount(F, owner, KeyOf(x), m)
      PROVE  x \in MergeDeltas(F, owner)
  <2>1. x = [person |-> x.person, repo |-> x.repo, day |-> x.day, n |-> x.n]
        /\ x.n = [m \in Metrics |-> x.n[m]]
    BY <1>4 DEF RowType
  <2>2. x.n = [m \in Metrics |-> Amount(F, owner, KeyOf(x), m)]
    BY <1>4, <2>1
  <2>3. KeyOf(x).person = x.person /\ KeyOf(x).repo = x.repo /\ KeyOf(x).day = x.day
    BY DEF KeyOf
  <2>4. x = R(KeyOf(x))
    BY <1>1, <2>1, <2>2, <2>3
  <2> QED BY <1>4, <2>4 DEF MergeDeltas
<1> QED BY <1>3, <1>4

(* One row for each key.                                                   *)
LEMMA RowsDiffer ==
    ASSUME NEW F \in Facts, NEW owner \in Owners,
           NEW x \in MergeDeltas(F, owner), NEW y \in MergeDeltas(F, owner), KeyOf(x) = KeyOf(y)
    PROVE  x = y
<1>1. /\ x \in RowType /\ y \in RowType
      /\ \A m \in Metrics : x.n[m] = y.n[m]
  BY RowsAre
<1>2. x.n = y.n
  BY <1>1 DEF RowType
<1>3. x.person = y.person /\ x.repo = y.repo /\ x.day = y.day
  BY DEF KeyOf
<1> QED BY <1>1, <1>2, <1>3 DEF RowType

LEMMA RowsTyped ==
    ASSUME NEW F \in Facts, NEW owner \in Owners
    PROVE  MergeDeltas(F, owner) \subseteq RowType /\ IsFiniteSet(MergeDeltas(F, owner))
<1>1. MergeDeltas(F, owner) \subseteq RowType
  BY RowsAre
<1> DEFINE R == MergeDeltas(F, owner)
           g == [e \in Entries(F) |-> CHOOSE x \in R : KeyOf(x) = RowKey(owner, e)]
<1>2. IsFiniteSet({g[e] : e \in Entries(F)})
  <2> HIDE DEF g
  <2> QED BY EntriesTyped, ImageFinite
<1>3. ASSUME NEW x \in R PROVE x \in {g[e] : e \in Entries(F)}
  <2>1. PICK e \in Entries(F) : RowKey(owner, e) = KeyOf(x)
    BY RowsAre
  <2>2. g[e] \in R /\ KeyOf(g[e]) = KeyOf(x)
    BY <2>1
  <2>3. g[e] = x
    BY <2>2, RowsDiffer
  <2> QED BY <2>3
<1>4. IsFiniteSet(R)
  <2> HIDE DEF g, R
  <2>1. R \subseteq {g[e] : e \in Entries(F)}
    BY <1>3
  <2> QED BY <1>2, <2>1, FS_Subset
<1> QED BY <1>1, <1>4

LEMMA SumSingle ==
    ASSUME NEW f, NEW a, DOMAIN f = {a}, f \in [{a} -> Int]
    PROVE  SumOver(f) = f[a]
<1> DEFINE S == {a}
           none == {}
<1>1. IsFiniteSet(S) /\ none \in SUBSET S /\ a \in S \ none /\ f \in [S -> Int]
  BY FS_Singleton
<1>2. S = none \cup {a} /\ DOMAIN On(f, none) = {}
  BY DEF On
<1> HIDE DEF S, none
<1>3. SumOver(On(f, none \cup {a})) = f[a] + SumOver(On(f, none))
  BY <1>1, SumStep
<1>4. SumOver(On(f, none)) = 0 /\ On(f, S) = f
  BY <1>1, <1>2, SumEmpty, OnPart
<1>5. f[a] \in Int
  BY <1>1
<1> QED BY <1>2, <1>3, <1>4, <1>5

LEMMA RowExists ==
    ASSUME NEW F \in Facts, NEW owner \in Owners, NEW e \in Entries(F)
    PROVE  \E x \in MergeDeltas(F, owner) : KeyOf(x) = RowKey(owner, e)
<1>1. Row(F, owner, RowKey(owner, e)) \in MergeDeltas(F, owner)
  BY DEF MergeDeltas
<1>2. KeyOf(Row(F, owner, RowKey(owner, e))) = RowKey(owner, e)
  BY DEF KeyOf, Row, RowKey
<1> QED BY <1>1, <1>2

LEMMA AmountAdds ==
    ASSUME NEW A \in Facts, NEW B \in Facts, A \cap B = {}, NEW owner, NEW k, NEW m
    PROVE  Amount(A \cup B, owner, k, m) = Amount(A, owner, k, m) + Amount(B, owner, k, m)
<1> DEFINE F == A \cup B
           V == Values(F)
           P == Of(A, owner, k, m)
           Q == Of(B, owner, k, m)
<1>1. F \in Facts
  BY FS_Union DEF Facts
<1>2. /\ Entries(F) = Entries(A) \cup Entries(B) /\ Entries(A) \cap Entries(B) = {}
      /\ Of(F, owner, k, m) = P \cup Q
  BY EntriesUnion DEF Of
<1>3. P \in SUBSET Entries(F) /\ Q \in SUBSET Entries(F) /\ P \cap Q = {}
  BY <1>2 DEF Of
<1>4. On(V, P) = On(Values(A), P) /\ On(V, Q) = On(Values(B), Q)
  BY <1>2 DEF On, Values, Of
<1>5. SumOver(On(V, P \cup Q)) = SumOver(On(V, P)) + SumOver(On(V, Q))
  <2>1. IsFiniteSet(Entries(F)) /\ V \in [Entries(F) -> Int]
    BY <1>1, EntriesTyped, ValuesTyped
  <2> HIDE DEF P, Q, V, F
  <2> QED BY <1>3, <2>1, SumSplit
<1> QED BY <1>2, <1>4, <1>5 DEF Amount

LEMMA AmountNone ==
    ASSUME NEW F, NEW owner, NEW k, NEW m, \A e \in Entries(F) : RowKey(owner, e) # k
    PROVE  Amount(F, owner, k, m) = 0
<1>1. DOMAIN On(Values(F), Of(F, owner, k, m)) = {}
  BY DEF Of, On
<1> QED BY <1>1, SumEmpty DEF Amount

(* What a table has under one key.                                         *)
LEMMA KeySum ==
    ASSUME NEW F \in Facts, NEW owner \in Owners, NEW y, NEW m \in Metrics
    PROVE  Already(MergeDeltas(F, owner), y, m) = Amount(F, owner, KeyOf(y), m)
<1> DEFINE R == MergeDeltas(F, owner)
           T == {x \in R : SameKey(x, y)}
           f == [x \in T |-> x.n[m]]
<1>1. \A x \in R : SameKey(x, y) <=> KeyOf(x) = KeyOf(y)
  BY DEF SameKey, KeyOf
<1>2. ASSUME T = {} PROVE SumOver(f) = Amount(F, owner, KeyOf(y), m)
  <2>1. DOMAIN f = {}
    BY <1>2
  <2>2. SumOver(f) = 0
    <3> HIDE DEF f
    <3> QED BY <2>1, SumEmpty
  <2>3. \A e \in Entries(F) : RowKey(owner, e) # KeyOf(y)
    BY <1>1, <1>2, RowExists
  <2>4. Amount(F, owner, KeyOf(y), m) = 0
    BY <2>3, AmountNone
  <2> QED BY <2>2, <2>4
<1>3. ASSUME NEW a \in T PROVE SumOver(f) = Amount(F, owner, KeyOf(y), m)
  <2>1. a \in R /\ KeyOf(a) = KeyOf(y)
    BY <1>1
  <2>2. T = {a}
    <3>1. \A x \in T : x = a
      BY <1>1, <2>1, RowsDiffer
    <3> QED BY <3>1
  <2>3. a.n[m] = Amount(F, owner, KeyOf(y), m) /\ a.n[m] \in Int
    BY <2>1, RowsAre, AmountNat
  <2>4. f \in [{a} -> Int] /\ DOMAIN f = {a} /\ f[a] = a.n[m]
    BY <2>2, <2>3
  <2>5. SumOver(f) = f[a]
    <3> HIDE DEF f
    <3> QED BY <2>4, SumSingle
  <2> QED BY <2>3, <2>4, <2>5
<1> HIDE DEF f
<1>4. T # {} => SumOver(f) = Amount(F, owner, KeyOf(y), m)
  BY <1>3
<1>5. SumOver(f) = Amount(F, owner, KeyOf(y), m)
  BY <1>2, <1>4
<1> QED BY <1>5 DEF f, Already

(* An ingest adds the deltas of new facts to the rows that are there.      *)
LEMMA IngestRebuilds ==
    ASSUME NEW F \in Facts, NEW owner \in Owners, NEW G \in Facts, F \cap G = {}
    PROVE  ApplyDeltas(MergeDeltas(F, owner), MergeDeltas(G, owner))
             = MergeDeltas(F \cup G, owner)
<1> DEFINE old == MergeDeltas(F, owner)
           new == MergeDeltas(G, owner)
           all == MergeDeltas(F \cup G, owner)
           Sum(y) == [y EXCEPT !.n = [m \in Metrics |-> y.n[m] + Already(old, y, m)]]
<1>1. F \cup G \in Facts
  BY FS_Union DEF Facts
<1>2. Entries(F \cup G) = Entries(F) \cup Entries(G)
  BY EntriesUnion
<1>3. \A k, m : Amount(F \cup G, owner, k, m) = Amount(F, owner, k, m) + Amount(G, owner, k, m)
  <2> QED BY AmountAdds
<1>4. \A x, y : SameKey(x, y) <=> KeyOf(x) = KeyOf(y)
  BY DEF SameKey, KeyOf
<1>5. ASSUME NEW y \in new
      PROVE  /\ Sum(y) \in RowType /\ KeyOf(Sum(y)) = KeyOf(y)
             /\ \A m \in Metrics : Sum(y).n[m] = Amount(F \cup G, owner, KeyOf(y), m)
  <2>1. y \in RowType /\ \A m \in Metrics : y.n[m] = Amount(G, owner, KeyOf(y), m)
    BY <1>1, RowsAre
  <2>2. \A m \in Metrics : Already(old, y, m) = Amount(F, owner, KeyOf(y), m)
    BY KeySum
  <2>3. \A m \in Metrics : /\ Amount(F, owner, KeyOf(y), m) \in Nat
                           /\ Amount(G, owner, KeyOf(y), m) \in Nat
    BY <1>1, AmountNat
  <2>4. Sum(y) = [y EXCEPT !.n = [m \in Metrics |-> Amount(F \cup G, owner, KeyOf(y), m)]]
    <3>1. \A m \in Metrics : y.n[m] + Already(old, y, m) = Amount(F \cup G, owner, KeyOf(y), m)
      <4> SUFFICES ASSUME NEW m \in Metrics
                   PROVE  y.n[m] + Already(old, y, m) = Amount(F \cup G, owner, KeyOf(y), m)
        OBVIOUS
      <4>1. /\ Amount(F \cup G, owner, KeyOf(y), m)
                 = Amount(F, owner, KeyOf(y), m) + Amount(G, owner, KeyOf(y), m)
            /\ Already(old, y, m) = Amount(F, owner, KeyOf(y), m)
            /\ y.n[m] = Amount(G, owner, KeyOf(y), m)
        BY <1>3, <2>1, <2>2
      <4>2. Amount(F, owner, KeyOf(y), m) \in Nat /\ Amount(G, owner, KeyOf(y), m) \in Nat
        BY <2>3
      <4> QED BY <4>1, <4>2
    <3> HIDE DEF old
    <3> QED BY <3>1
  <2>5. \A m \in Metrics : Amount(F \cup G, owner, KeyOf(y), m) \in Nat
    BY <1>1, AmountNat
  <2> HIDE DEF Sum
  <2>6. Sum(y) \in RowType /\ KeyOf(Sum(y)) = KeyOf(y)
    BY <2>1, <2>4, <2>5 DEF RowType, KeyOf
  <2>7. \A m \in Metrics : Sum(y).n[m] = Amount(F \cup G, owner, KeyOf(y), m)
    BY <2>1, <2>4 DEF RowType
  <2> QED BY <2>6, <2>7
<1>6. ASSUME NEW x \in old, \A y \in new : ~SameKey(x, y) PROVE x \in all
  <2>1. /\ x \in RowType /\ \E e \in Entries(F) : RowKey(owner, e) = KeyOf(x)
        /\ \A m \in Metrics : x.n[m] = Amount(F, owner, KeyOf(x), m)
    BY RowsAre
  <2>2. \A e \in Entries(G) : RowKey(owner, e) # KeyOf(x)
    BY <1>1, <1>4, <1>6, RowExists
  <2>3. \A m : Amount(G, owner, KeyOf(x), m) = 0
    BY <2>2, AmountNone
  <2>4. ASSUME NEW m \in Metrics PROVE x.n[m] = Amount(F \cup G, owner, KeyOf(x), m)
    <3>1. /\ Amount(F \cup G, owner, KeyOf(x), m)
               = Amount(F, owner, KeyOf(x), m) + Amount(G, owner, KeyOf(x), m)
          /\ Amount(G, owner, KeyOf(x), m) = 0 /\ Amount(F, owner, KeyOf(x), m) \in Nat
      BY <1>3, <2>3, AmountNat
    <3> QED BY <2>1, <3>1
  <2>5. \E e \in Entries(F \cup G) : RowKey(owner, e) = KeyOf(x)
    BY <1>2, <2>1
  <2> QED BY <1>1, <2>1, <2>4, <2>5, RowsAre
<1>7. ASSUME NEW y \in new PROVE Sum(y) \in all
  <2>0. \E e \in Entries(G) : RowKey(owner, e) = KeyOf(y)
    BY RowsAre
  <2>1. \E e \in Entries(F \cup G) : RowKey(owner, e) = KeyOf(y)
    BY <1>2, <2>0
  <2> HIDE DEF Sum, new
  <2> QED BY <1>1, <1>5, <2>1, RowsAre
<1>8. ASSUME NEW z \in all
      PROVE  z \in {x \in old : \A y \in new : ~SameKey(x, y)} \/ \E y \in new : z = Sum(y)
  <2>1. /\ z \in RowType /\ \E e \in Entries(F) \cup Entries(G) : RowKey(owner, e) = KeyOf(z)
        /\ \A m \in Metrics : z.n[m] = Amount(F \cup G, owner, KeyOf(z), m)
    BY <1>1, <1>2, RowsAre
  <2>2. CASE \E y \in new : KeyOf(y) = KeyOf(z)
    <3>1. PICK y \in new : KeyOf(y) = KeyOf(z)
      BY <2>2
    <3>2. Sum(y) \in all /\ KeyOf(Sum(y)) = KeyOf(z)
      BY <1>5, <1>7, <3>1
    <3>3. z = Sum(y)
      <4> HIDE DEF Sum, new
      <4> QED BY <1>1, <3>2, RowsDiffer
    <3> QED BY <3>3
  <2>3. CASE \A y \in new : KeyOf(y) # KeyOf(z)
    <3>1. \A e \in Entries(G) : RowKey(owner, e) # KeyOf(z)
      BY <2>3, RowExists
    <3>2. \A m \in Metrics : z.n[m] = Amount(F, owner, KeyOf(z), m)
      <4> SUFFICES ASSUME NEW m \in Metrics PROVE z.n[m] = Amount(F, owner, KeyOf(z), m)
        OBVIOUS
      <4>1. /\ Amount(F \cup G, owner, KeyOf(z), m)
                 = Amount(F, owner, KeyOf(z), m) + Amount(G, owner, KeyOf(z), m)
            /\ Amount(G, owner, KeyOf(z), m) = 0 /\ Amount(F, owner, KeyOf(z), m) \in Nat
        BY <1>3, <3>1, AmountNone, AmountNat
      <4>2. z.n[m] = Amount(F \cup G, owner, KeyOf(z), m)
        BY <2>1
      <4> QED BY <4>1, <4>2
    <3>3. z \in old
      BY <2>1, <3>1, <3>2, RowsAre
    <3> QED BY <1>4, <2>3, <3>3
  <2> QED BY <2>2, <2>3
<1>9. ApplyDeltas(old, new) = {x \in old : \A y \in new : ~SameKey(x, y)} \cup {Sum(y) : y \in new}
  BY DEF ApplyDeltas
<1> HIDE DEF Sum, old, new
<1>10. ApplyDeltas(old, new) = all
  <2> HIDE DEF all
  <2> QED BY <1>6, <1>7, <1>8, <1>9
<1> QED BY <1>10 DEF old, new

(* The amount under a key depends on the facts of the key's person only.   *)
LEMMA AmountOfPersons ==
    ASSUME NEW F \in Facts, NEW o \in Owners, NEW G \in SUBSET F, NEW w \in Owners, NEW k,
           \A e \in Entries(F) : RowKey(o, e) = k <=> e \in Entries(G) /\ RowKey(w, e) = k
    PROVE  \A m : Amount(G, w, k, m) = Amount(F, o, k, m)
<1>1. Entries(G) \subseteq Entries(F)
  BY DEF Entries
<1>2. \A m : Of(G, w, k, m) = Of(F, o, k, m)
  BY <1>1 DEF Of
<1>3. \A m : On(Values(G), Of(G, w, k, m)) = On(Values(F), Of(F, o, k, m))
  BY <1>1, <1>2 DEF On, Values, Of
<1> QED BY <1>3 DEF Amount

(* Identities have moved from persons P to persons in Q, whose owner is w  *)
(* instead of o; kept are the rows of everybody else and G the facts of    *)
(* those in Q.                                                             *)
Moved(F, o, w, P, Q, kept, G) ==
    /\ F \in Facts /\ o \in Owners /\ w \in Owners /\ Q \subseteq P
    /\ \A i \in Identities : IF o[i] \in P THEN w[i] \in Q ELSE w[i] = o[i]
    /\ kept = {x \in MergeDeltas(F, o) : x.person \notin P}
    /\ G = {f \in F : w[f.by] \in Q}

(* The rows kept and the rebuilt ones are then all there are.              *)
LEMMA RecomputeRebuilds ==
    ASSUME NEW F, NEW o, NEW w, NEW P, NEW Q, NEW old, NEW G, Moved(F, o, w, P, Q, old, G)
    PROVE  old \cup MergeDeltas(G, w) = MergeDeltas(F, w)
<1> /\ F \in Facts /\ o \in Owners /\ w \in Owners /\ Q \subseteq P
    /\ \A i \in Identities : IF o[i] \in P THEN w[i] \in Q ELSE w[i] = o[i]
    /\ \A x : x \in old <=> x \in MergeDeltas(F, o) /\ x.person \notin P
    /\ \A f : f \in G <=> f \in F /\ w[f.by] \in Q
  BY DEF Moved
<1> DEFINE new == MergeDeltas(G, w)
<1>1. G \in Facts /\ G \in SUBSET F
  BY FS_Subset DEF Facts
<1>2. \A e \in Entries(F) : /\ e \in Entries(G) <=> w[e[1].by] \in Q
                            /\ e[1].by \in Identities
                            /\ RowKey(w, e).person = w[e[1].by] /\ RowKey(o, e).person = o[e[1].by]
  <2> SUFFICES ASSUME NEW e \in Entries(F)
               PROVE  /\ e \in Entries(G) <=> w[e[1].by] \in Q
                      /\ e[1].by \in Identities
                      /\ RowKey(w, e).person = w[e[1].by] /\ RowKey(o, e).person = o[e[1].by]
    OBVIOUS
  <2>1. e = <<e[1], e[2]>> /\ e[1] \in F /\ e[1] \in FactPool /\ e[2] \in Deltas(e[1])
    BY EntriesTyped
  <2>2. e \in Entries(G) <=> e[1] \in G
    BY <2>1 DEF Entries
  <2> QED BY <2>1, <2>2, FactPoolAssumption, KeysTyped
<1>3. ASSUME NEW e \in Entries(F), o[e[1].by] \notin P
      PROVE  RowKey(w, e) = RowKey(o, e)
  BY <1>2, <1>3 DEF RowKey
<1>4. ASSUME NEW k, k.person \notin P
      PROVE  \A m : Amount(F, w, k, m) = Amount(F, o, k, m)
  <2>1. ASSUME NEW e \in Entries(F)
        PROVE  RowKey(o, e) = k <=> e \in Entries(F) /\ RowKey(w, e) = k
    <3>1. CASE o[e[1].by] \in P
      <4>1. RowKey(o, e).person \in P /\ RowKey(w, e).person \in Q
        BY <1>2, <3>1
      <4> QED BY <1>4, <4>1
    <3>2. CASE o[e[1].by] \notin P
      BY <1>3, <3>2
    <3> QED BY <3>1, <3>2
  <2> QED BY <2>1, AmountOfPersons
<1>5. ASSUME NEW k, k.person \in Q
      PROVE  \A m : Amount(G, w, k, m) = Amount(F, w, k, m)
  <2>1. \A e \in Entries(F) : RowKey(w, e) = k <=> e \in Entries(G) /\ RowKey(w, e) = k
    BY <1>2, <1>5
  <2> QED BY <1>1, <2>1, AmountOfPersons
<1>6. ASSUME NEW x \in old PROVE x \in MergeDeltas(F, w)
  <2>1. /\ x \in RowType /\ x.person \notin P
        /\ \A m \in Metrics : x.n[m] = Amount(F, o, KeyOf(x), m)
    BY RowsAre
  <2>2. PICK e \in Entries(F) : RowKey(o, e) = KeyOf(x)
    BY RowsAre
  <2>3. KeyOf(x).person \notin P
    BY <2>1 DEF KeyOf
  <2>4. RowKey(w, e) = KeyOf(x)
    BY <1>2, <1>3, <2>2, <2>3
  <2> QED BY <1>4, <2>1, <2>3, <2>4, RowsAre
<1>7. ASSUME NEW x \in new PROVE x \in MergeDeltas(F, w)
  <2>1. /\ x \in RowType /\ \A m \in Metrics : x.n[m] = Amount(G, w, KeyOf(x), m)
    BY <1>1, RowsAre
  <2>2. PICK e \in Entries(G) : RowKey(w, e) = KeyOf(x)
    BY <1>1, RowsAre
  <2>3. e \in Entries(F)
    BY <1>1 DEF Entries
  <2>4. KeyOf(x).person \in Q
    BY <1>2, <2>2, <2>3
  <2> QED BY <1>5, <2>1, <2>2, <2>3, <2>4, RowsAre
<1>8. ASSUME NEW x \in MergeDeltas(F, w) PROVE x \in old \/ x \in new
  <2>1. /\ x \in RowType /\ \A m \in Metrics : x.n[m] = Amount(F, w, KeyOf(x), m)
    BY RowsAre
  <2>2. PICK e \in Entries(F) : RowKey(w, e) = KeyOf(x)
    BY RowsAre
  <2>3. KeyOf(x).person = x.person /\ x.person = w[e[1].by]
    <3>1. KeyOf(x).person = x.person
      BY DEF KeyOf
    <3> QED BY <1>2, <2>2, <3>1
  <2>4. CASE o[e[1].by] \in P
    <3>1. KeyOf(x).person \in Q /\ e \in Entries(G)
      BY <1>2, <2>3, <2>4
    <3>2. x \in new
      BY <1>1, <1>5, <2>1, <2>2, <3>1, RowsAre
    <3> QED BY <3>2
  <2>5. CASE o[e[1].by] \notin P
    <3>1. RowKey(o, e) = KeyOf(x) /\ KeyOf(x).person \notin P
      BY <1>2, <1>3, <2>2, <2>3, <2>5
    <3>2. x \in MergeDeltas(F, o)
      BY <1>4, <2>1, <3>1, RowsAre
    <3> QED BY <2>3, <3>1, <3>2
  <2> QED BY <2>4, <2>5
<1>9. old \cup new = MergeDeltas(F, w)
  <2> HIDE DEF new
  <2> QED BY <1>6, <1>7, <1>8
<1> QED BY <1>9

----------------------------------------------------------------------------
(* The database.                                                           *)

(* The tables have their columns' types, and the rollups are what a rebuild *)
(* would make of the base tables.                                          *)
Databases == [facts : Facts, owner : Owners, rows : SUBSET RowType, included : SUBSET Repos,
              mode : [Orgs -> {"all", "whitelist", "blacklist"}],
              listed : [Orgs -> SUBSET Persons],
              membersOnly : SUBSET Orgs, members : [Orgs -> SUBSET Identities]]
Sound(d) == d \in Databases /\ d.rows = MergeDeltas(d.facts, d.owner)

LEMMA InitSound == Init => Sound(db)
<1> SUFFICES ASSUME Init PROVE Sound(db)
  OBVIOUS
<1> DEFINE none == {}
<1>1. /\ db = [facts |-> none, owner |-> [i \in Identities |-> i], rows |-> none,
               included |-> Repos, mode |-> [o \in Orgs |-> "all"],
               listed |-> [o \in Orgs |-> none], membersOnly |-> none,
               members |-> [o \in Orgs |-> none]]
  BY DEF Init
<1>2. none \in Facts /\ none \in SUBSET RowType /\ none \in SUBSET Orgs
      /\ none \in SUBSET Persons /\ none \in SUBSET Identities
  BY FS_EmptySet DEF Facts
<1>3. MergeDeltas(none, [i \in Identities |-> i]) = none
  BY DEF MergeDeltas, Entries
<1>4. [i \in Identities |-> i] \in Owners
  BY DEF Owners, Persons
<1> HIDE DEF none
<1> QED BY <1>1, <1>2, <1>3, <1>4 DEF Sound, Databases

(* merge_persons and unmerge_identity rebuild the rows of the two persons. *)
LEMMA MergeSound ==
    ASSUME NEW d, Sound(d), NEW target \in Living(d), NEW source \in Living(d), target # source
    PROVE  Sound(Merged(d, target, source))
<1> DEFINE w == [i \in Identities |-> IF d.owner[i] = source THEN target ELSE d.owner[i]]
           l == [o \in Orgs |-> IF source \in d.listed[o]
                          THEN (d.listed[o] \ {source}) \cup {target} ELSE d.listed[o]]
           P == {source, target}
           Q == {target}
           kept == {x \in d.rows : x.person \notin P}
           moved == [d EXCEPT !.owner = w, !.listed = l, !.rows = kept]
           new == RecomputeForPersons(moved, Q)
<1>1. d \in Databases /\ d.facts \in Facts /\ d.owner \in Owners /\ d.listed \in [Orgs -> SUBSET Persons]
      /\ d.rows = MergeDeltas(d.facts, d.owner)
  BY DEF Sound, Databases
<1>2. target \in Persons /\ source \in Persons
  BY <1>1 DEF Living, Owners
<1>3. w \in Owners /\ l \in [Orgs -> SUBSET Persons]
  BY <1>1, <1>2 DEF Owners
<1>4. Merged(d, target, source) = [moved EXCEPT !.rows = new]
  BY DEF Merged
<1>5. Q \subseteq P /\ \A i \in Identities : IF d.owner[i] \in P THEN w[i] \in Q ELSE w[i] = d.owner[i]
  BY <1>1
<1>6. moved.rows = kept /\ moved.facts = d.facts /\ moved.owner = w
  BY <1>1 DEF Databases
<1>7. new = {x \in kept : x.person \notin Q} \cup MergeDeltas({f \in d.facts : w[f.by] \in Q}, w)
  <2> HIDE DEF moved, w, kept, Q
  <2> QED BY <1>6 DEF RecomputeForPersons
<1>8. {x \in kept : x.person \notin Q} = kept
  BY <1>5
<1>9. new = MergeDeltas(d.facts, w)
  <2>1. kept \cup MergeDeltas({f \in d.facts : w[f.by] \in Q}, w) = MergeDeltas(d.facts, w)
    <3> DEFINE F == d.facts
               o == d.owner
               G == {f \in F : w[f.by] \in Q}
    <3>1. kept = {x \in MergeDeltas(F, o) : x.person \notin P}
      BY <1>1
    <3>2. F \in Facts /\ o \in Owners /\ w \in Owners /\ Q \subseteq P
          /\ \A i \in Identities : IF o[i] \in P THEN w[i] \in Q ELSE w[i] = o[i]
      BY <1>1, <1>3, <1>5
    <3> HIDE DEF w, P, Q, F, o, kept, l, moved, new
    <3>3. G = {f \in F : w[f.by] \in Q}
      OBVIOUS
    <3> HIDE DEF G
    <3>4. Moved(F, o, w, P, Q, kept, G)
      BY <3>1, <3>2, <3>3 DEF Moved
    <3>5. kept \cup MergeDeltas(G, w) = MergeDeltas(F, w)
      BY <3>4, RecomputeRebuilds
    <3> QED BY <3>3, <3>5 DEF F
  <2> HIDE DEF new, kept, w, Q
  <2> QED BY <1>7, <1>8, <2>1
<1>10. MergeDeltas(d.facts, w) \in SUBSET RowType
  <2> HIDE DEF w
  <2> QED BY <1>1, <1>3, RowsTyped
<1>11. [moved EXCEPT !.rows = new] = [d EXCEPT !.owner = w, !.listed = l, !.rows = new]
  <2> HIDE DEF w, l, kept, new
  <2> QED BY <1>1 DEF Databases
<1> HIDE DEF w, l, new
<1> QED BY <1>1, <1>3, <1>4, <1>9, <1>10, <1>11 DEF Sound, Databases

LEMMA SplitSound ==
    ASSUME NEW d, Sound(d), NEW i \in Identities, NEW fresh \in Persons \ Living(d)
    PROVE  LET moved == [d EXCEPT !.owner[i] = fresh]
           IN  Sound([moved EXCEPT !.rows = RecomputeForPersons(moved, {d.owner[i], fresh})])
<1> DEFINE w == [d.owner EXCEPT ![i] = fresh]
           P == {d.owner[i], fresh}
           moved == [d EXCEPT !.owner[i] = fresh]
           new == RecomputeForPersons(moved, P)
<1>1. d \in Databases /\ d.facts \in Facts /\ d.owner \in Owners
      /\ d.rows = MergeDeltas(d.facts, d.owner)
  BY DEF Sound, Databases
<1>2. w \in Owners /\ \A j \in Identities : w[j] = IF j = i THEN fresh ELSE d.owner[j]
  BY <1>1 DEF Owners
<1>3. \A j \in Identities : IF d.owner[j] \in P THEN w[j] \in P ELSE w[j] = d.owner[j]
  <2> HIDE DEF w
  <2> QED BY <1>2
<1>4. moved.rows = d.rows /\ moved.facts = d.facts /\ moved.owner = w /\ moved = [d EXCEPT !.owner = w]
  BY <1>1 DEF Databases
<1>5. new = {x \in d.rows : x.person \notin P} \cup MergeDeltas({f \in d.facts : w[f.by] \in P}, w)
  <2> HIDE DEF moved, w, P
  <2> QED BY <1>4 DEF RecomputeForPersons
<1>6. new = MergeDeltas(d.facts, w)
  <2> DEFINE kept == {x \in d.rows : x.person \notin P}
  <2>1. kept \cup MergeDeltas({f \in d.facts : w[f.by] \in P}, w) = MergeDeltas(d.facts, w)
    <3> DEFINE F == d.facts
               o == d.owner
               G == {f \in F : w[f.by] \in P}
    <3>1. kept = {x \in MergeDeltas(F, o) : x.person \notin P}
      BY <1>1
    <3>2. F \in Facts /\ o \in Owners /\ w \in Owners /\ P \subseteq P
          /\ \A j \in Identities : IF o[j] \in P THEN w[j] \in P ELSE w[j] = o[j]
      BY <1>1, <1>2, <1>3
    <3> HIDE DEF w, P, F, o, kept
    <3>3. G = {f \in F : w[f.by] \in P}
      OBVIOUS
    <3> HIDE DEF G
    <3>4. Moved(F, o, w, P, P, kept, G)
      BY <3>1, <3>2, <3>3 DEF Moved
    <3>5. kept \cup MergeDeltas(G, w) = MergeDeltas(F, w)
      BY <3>4, RecomputeRebuilds
    <3> QED BY <3>3, <3>5 DEF F
  <2> HIDE DEF new, w, P
  <2> QED BY <1>5, <2>1
<1>7. MergeDeltas(d.facts, w) \in SUBSET RowType
  <2> HIDE DEF w
  <2> QED BY <1>1, <1>2, RowsTyped
<1>8. [moved EXCEPT !.rows = new] = [d EXCEPT !.owner = w, !.rows = new]
  <2> HIDE DEF w, new, moved
  <2> QED BY <1>1, <1>4 DEF Databases
<1>9. Sound([moved EXCEPT !.rows = new])
  <2> HIDE DEF w, new, moved
  <2> QED BY <1>1, <1>2, <1>6, <1>7, <1>8 DEF Sound, Databases
<1> QED BY <1>9

LEMMA StepSound == Sound(db) /\ [Next]_vars => Sound(db')
<1> SUFFICES ASSUME Sound(db), [Next]_vars PROVE Sound(db')
  OBVIOUS
<1>0. db \in Databases /\ db.facts \in Facts /\ db.owner \in Owners
      /\ db.rows = MergeDeltas(db.facts, db.owner)
  BY DEF Sound, Databases
<1>1. ASSUME NEW f \in FactPool, IngestFact(f) PROVE Sound(db')
  <2> DEFINE G == {f}
             F == db.facts \cup G
             new == ApplyDeltas(db.rows, MergeDeltas(G, db.owner))
  <2>1. db' = [db EXCEPT !.facts = F, !.rows = new]
    BY <1>1 DEF IngestFact
  <2>2. G \in Facts /\ F \in Facts /\ db.facts \cap G = {}
    BY <1>0, <1>1, FS_Singleton, FS_Union DEF Facts, IngestFact
  <2>3. new = MergeDeltas(F, db.owner)
    <3> HIDE DEF G
    <3> QED BY <1>0, <2>2, IngestRebuilds
  <2>4. MergeDeltas(F, db.owner) \in SUBSET RowType
    <3> HIDE DEF F
    <3> QED BY <1>0, <2>2, RowsTyped
  <2> HIDE DEF F, new, G
  <2> QED BY <1>0, <2>1, <2>2, <2>3, <2>4 DEF Sound, Databases
<1>2. CASE MergePersons
  BY <1>2, MergeSound DEF MergePersons, Edit
<1>3. CASE UnmergeIdentity
  <2>1. PICK i \in Identities, fresh \in Persons \ Living(db) :
           LET moved == [db EXCEPT !.owner[i] = fresh]
           IN  db' = [moved EXCEPT !.rows = RecomputeForPersons(moved, {db.owner[i], fresh})]
    BY <1>3 DEF UnmergeIdentity
  <2> QED BY <2>1, SplitSound
<1>4. CASE IncludeRepo
  <2>1. PICK r \in Repos : db' = [db EXCEPT !.included = IF r \in @ THEN @ \ {r} ELSE @ \cup {r}]
    BY <1>4 DEF IncludeRepo, Edit
  <2> DEFINE v == IF r \in db.included THEN db.included \ {r} ELSE db.included \cup {r}
  <2>2. v \in SUBSET Repos /\ db' = [db EXCEPT !.included = v]
    BY <1>0, <2>1 DEF Databases
  <2> HIDE DEF v
  <2> QED BY <1>0, <2>2 DEF Sound, Databases
<1>5. CASE PersonFilters
  <2>1. PICK o \in Orgs, mode \in {"all", "whitelist", "blacklist"}, people \in SUBSET Living(db) :
           db' = [db EXCEPT !.mode[o] = mode, !.listed[o] = people]
    BY <1>5 DEF PersonFilters, Edit
  <2> DEFINE v == [db.mode EXCEPT ![o] = mode]
             u == [db.listed EXCEPT ![o] = people]
  <2>2. people \in SUBSET Persons
    BY <1>0 DEF Living, Owners
  <2>3. /\ v \in [Orgs -> {"all", "whitelist", "blacklist"}] /\ u \in [Orgs -> SUBSET Persons]
        /\ db' = [db EXCEPT !.mode = v, !.listed = u]
    BY <1>0, <2>1, <2>2 DEF Databases
  <2> HIDE DEF v, u
  <2> QED BY <1>0, <2>3 DEF Sound, Databases
<1>6. CASE ToggleMembers
  <2>1. PICK o \in Orgs, linked \in SUBSET Identities :
           db' = IF o \in db.membersOnly THEN [db EXCEPT !.membersOnly = @ \ {o}]
                 ELSE [db EXCEPT !.membersOnly = @ \cup {o}, !.members[o] = linked]
    BY <1>6 DEF ToggleMembers, Edit
  <2> DEFINE v == IF o \in db.membersOnly THEN db.membersOnly \ {o} ELSE db.membersOnly \cup {o}
             u == IF o \in db.membersOnly THEN db.members ELSE [db.members EXCEPT ![o] = linked]
  <2>2. /\ v \in SUBSET Orgs /\ u \in [Orgs -> SUBSET Identities]
        /\ db' = [db EXCEPT !.membersOnly = v, !.members = u]
    BY <1>0, <2>1 DEF Databases
  <2> HIDE DEF v, u
  <2> QED BY <1>0, <2>2 DEF Sound, Databases
<1>7. CASE UNCHANGED vars
  BY <1>7 DEF vars
<1> QED BY <1>1, <1>2, <1>3, <1>4, <1>5, <1>6, <1>7 DEF Next

DbSound == Sound(db)

LEMMA AlwaysSound == Spec => []DbSound
<1>1. Init => DbSound
  BY InitSound DEF DbSound
<1>2. DbSound /\ [Next]_vars => DbSound'
  BY StepSound DEF DbSound
<1> QED BY <1>1, <1>2, PTL DEF Spec

----------------------------------------------------------------------------
(* The composer.                                                           *)

(* validate_block lets nothing pass that a handler would stumble over.     *)
LEMMA ValidPresumed ==
    ASSUME NEW op \in DOMAIN Ops, NEW form, Valid(BlockOf(op, form))
    PROVE  Presumed(BlockOf(op, form))
<1> DEFINE b == BlockOf(op, form)
<1>0. b.op = op
  <2> DEFINE v(slot) == CASE slot = "op" -> op
                          [] slot \in Ops[op] -> form[slot]
                          [] OTHER -> Unset(slot)
  <2>1. b = [slot \in Slots \cup {"op"} |-> v(slot)]
    BY DEF BlockOf
  <2>2. v("op") = op
    <3>1. Ops[op] \subseteq Slots /\ "op" \notin Slots
      BY DEF Ops, Slots, Pickers, Selects, Menus
    <3> QED BY <3>1
  <2> HIDE DEF v, b
  <2> QED BY <2>1, <2>2
<1>1. \A slot \in Slots : b[slot] = b[slot] /\ b.people = b["people"] /\ b.repos = b["repos"]
  OBVIOUS
<1> HIDE DEF b
<1>2. /\ "entity" \in Ops[op] => b.entity \in {"people", "repos"}
      /\ "category" \in Ops[op] => b.category \in Categories
      /\ \A slot \in Examined(b) :
          /\ slot \in Pickers => Cardinality(b[slot]) >= MinMulti(op, slot)
          /\ slot \in Selects => b[slot] # None
          /\ slot = "metric" => b.metric \in MetricChoices
  BY <1>0 DEF Valid, b
<1>3. Ops[op] \ {"entity", "people", "repos"} \subseteq Examined(b)
      /\ ("entity" \notin Ops[op] => Examined(b) = Ops[op])
      /\ ("entity" \in Ops[op] /\ "people" \in Ops[op] => b.entity \in Examined(b))
  BY <1>0 DEF Examined
<1>4. ASSUME NEW slot \in Examined(b), slot \in Pickers PROVE b[slot] # {}
  <2>1. MinMulti(op, slot) \in {1, 2}
    BY DEF MinMulti
  <2>2. Cardinality(b[slot]) >= 1 \/ Cardinality(b[slot]) >= 2
    BY <1>2, <1>4, <2>1
  <2>3. Cardinality({}) = 0
    BY FS_EmptySet
  <2> QED BY <2>2, <2>3
<1>5. Ops[op] \cap Selects # {} => \A slot \in Ops[op] \cap Selects : b[slot] # None
  BY <1>2, <1>3 DEF Selects
<1>6. op \in {"compare_people", "overlap_people"} => b.people # {}
  <2>1. op \in {"compare_people", "overlap_people"} => Ops[op] = {"people"}
    BY DEF Ops
  <2> QED BY <1>3, <1>4, <2>1 DEF Pickers
<1>7. op \in {"compare_repos", "overlap_repos"} => b.repos # {}
  <2>1. op \in {"compare_repos", "overlap_repos"} => Ops[op] = {"repos"}
    BY DEF Ops
  <2> QED BY <1>3, <1>4, <2>1 DEF Pickers
<1>8. op \in {"rank", "evolution", "volatility"} =>
         Ops[op] = {"entity", "people", "repos", "metric"}
  BY DEF Ops
<1>9. op \in {"rank", "evolution"} => Subjects(b) # {}
  <2> SUFFICES ASSUME op \in {"rank", "evolution"} PROVE Subjects(b) # {}
    OBVIOUS
  <2>1. b.entity \in Examined(b) /\ b.entity \in {"people", "repos"}
    BY <1>2, <1>3, <1>8
  <2>2. b.entity = "people" => b.people # {}
    BY <1>4, <2>1 DEF Pickers
  <2>3. b.entity = "repos" => b.repos # {}
    BY <1>4, <2>1 DEF Pickers
  <2> QED BY <2>1, <2>2, <2>3 DEF Subjects
<1>10. op \in {"rank", "evolution", "volatility"} => b.metric \in MetricChoices
  BY <1>2, <1>3, <1>8
<1>11. op = "spotlight" => b.category \in Categories
  <2>1. op = "spotlight" => "category" \in Ops[op]
    BY DEF Ops
  <2> QED BY <1>2, <2>1
<1>12. Presumed(b)
  BY <1>0, <1>2, <1>5, <1>6, <1>7, <1>9, <1>10, <1>11 DEF Presumed
<1> QED BY <1>12 DEF b

(* Whoever is counted somewhere is offered by the pickers.                 *)
LEMMA CountedOffered ==
    ASSUME NEW d, Sound(d), NEW q, NEW x \in Counted(d, q)
    PROVE  x.person \in RelevantPersons(d) /\ x.repo \in d.included
<1>1. /\ x \in d.rows /\ x.repo \in d.included /\ PersonAllowed(d, OrgOf[x.repo], x.person)
  BY DEF Counted, BaseRollup
<1>2. x.person \in VisiblePersons(d)
  BY <1>1 DEF VisiblePersons, PersonAllowed
<1>3. x.person \in {d.owner[i] : i \in Identities}
  <2>1. d.facts \in Facts /\ d.owner \in Owners /\ x \in MergeDeltas(d.facts, d.owner)
    BY <1>1 DEF Sound, Databases
  <2>2. PICK e \in Entries(d.facts) : RowKey(d.owner, e) = KeyOf(x)
    BY <2>1, RowsAre
  <2>3. x.person = d.owner[e[1].by] /\ e[1].by \in Identities
    <3>1. KeyOf(x).person = x.person
      BY DEF KeyOf
    <3>2. e[1] \in FactPool
      BY <2>1, EntriesTyped
    <3> QED BY <2>1, <2>2, <3>1, <3>2, KeysTyped, FactPoolAssumption
  <2> QED BY <2>3
<1> QED BY <1>1, <1>2, <1>3 DEF RelevantPersons

(* The invariant: of what the pickers offer, only blocks that compute are  *)
(* composed, and everyone who is counted can be picked.                    *)
THEOREM BlocksCompute == Spec => []ComposedBlocksCompute
<1>1. DbSound => ComposedBlocksCompute
  <2> SUFFICES ASSUME Sound(db) PROVE ComposedBlocksCompute
    BY DEF DbSound
  <2>1. \A op \in DOMAIN Ops : \A form \in Forms(op) :
          Valid(BlockOf(op, form)) => Presumed(BlockOf(op, form))
    BY ValidPresumed
  <2>2. ASSUME NEW s \in Scopes
        PROVE  /\ DOMAIN PersonLeaderboard(db, Query(s, {}, {})) \subseteq PickerOptions(db).people
               /\ DOMAIN RepoLeaderboard(db, Query(s, {}, {})) \subseteq PickerOptions(db).repos
    <3> DEFINE q == Query(s, {}, {})
    <3>1. /\ DOMAIN PersonLeaderboard(db, q) = {x.person : x \in Counted(db, q)}
          /\ DOMAIN RepoLeaderboard(db, q) = {x.repo : x \in Counted(db, q)}
      BY DEF PersonLeaderboard, RepoLeaderboard
    <3> HIDE DEF q
    <3>2. /\ DOMAIN PersonLeaderboard(db, q) \subseteq RelevantPersons(db)
          /\ DOMAIN RepoLeaderboard(db, q) \subseteq db.included
      BY <3>1, CountedOffered
    <3> QED BY <3>2 DEF PickerOptions, q
  <2> QED BY <2>1, <2>2 DEF ComposedBlocksCompute
<1> QED BY <1>1, AlwaysSound, PTL

----------------------------------------------------------------------------
(* What rows are worth.                                                    *)

Numbers(d, m) == [x \in d.rows |-> x.n[m]]
Worth(d, X, m) == SumOver(On(Numbers(d, m), X))
PersonRows(d, q, p) == {x \in Counted(d, q) : x.person = p}
RepoRows(d, q, r) == {x \in Counted(d, q) : x.repo = r}

LEMMA NumbersTyped ==
    ASSUME NEW d, Sound(d), NEW m \in Metrics
    PROVE  /\ IsFiniteSet(d.rows) /\ d.rows \subseteq RowType
           /\ Numbers(d, m) \in [d.rows -> Nat] /\ Numbers(d, m) \in [d.rows -> Int]
<1>1. IsFiniteSet(d.rows) /\ d.rows \subseteq RowType
  <2>1. d.rows = MergeDeltas(d.facts, d.owner) /\ d.facts \in Facts /\ d.owner \in Owners
    BY DEF Sound, Databases
  <2> QED BY <2>1, RowsTyped
<1>2. \A x \in d.rows : x.n[m] \in Nat
  BY <1>1 DEF RowType
<1> QED BY <1>1, <1>2 DEF Numbers

LEMMA WorthNat ==
    ASSUME NEW d, Sound(d), NEW m \in Metrics, NEW X \in SUBSET d.rows
    PROVE  Worth(d, X, m) \in Nat /\ (X = {} => Worth(d, X, m) = 0)
<1> DEFINE N == Numbers(d, m)
           f == On(N, X)
<1>1. IsFiniteSet(X) /\ f \in [X -> Nat] /\ DOMAIN f = X
  <2> DEFINE R == d.rows
  <2>1. IsFiniteSet(R) /\ N \in [R -> Nat] /\ X \in SUBSET R
    BY NumbersTyped
  <2> HIDE DEF N, R
  <2>2. IsFiniteSet(X)
    BY <2>1, FS_Subset
  <2>3. On(N, X) \in [X -> Nat] /\ DOMAIN On(N, X) = X
    BY <2>1, OnPart
  <2> QED BY <2>2, <2>3
<1> HIDE DEF f
<1>2. SumOver(f) \in Nat /\ (X = {} => SumOver(f) = 0)
  BY <1>1, SumNat, SumEmpty
<1> QED BY <1>2 DEF Worth, f, N

LEMMA WorthSplit ==
    ASSUME NEW d, Sound(d), NEW m \in Metrics,
           NEW A \in SUBSET d.rows, NEW B \in SUBSET d.rows, A \cap B = {}
    PROVE  Worth(d, A \cup B, m) = Worth(d, A, m) + Worth(d, B, m)
BY NumbersTyped, SumSplit DEF Worth

LEMMA SumOfWorth ==
    ASSUME NEW d, NEW X \in SUBSET d.rows
    PROVE  SumOf(X) = [m \in Metrics |-> Worth(d, X, m)]
<1>1. ASSUME NEW m \in Metrics PROVE [x \in X |-> x.n[m]] = On(Numbers(d, m), X)
  BY DEF On, Numbers
<1>2. \A m \in Metrics : SumOver([x \in X |-> x.n[m]]) = Worth(d, X, m)
  BY <1>1 DEF Worth
<1> QED BY <1>2 DEF SumOf

LEMMA CountedRows ==
    ASSUME NEW d, NEW q
    PROVE  Counted(d, q) \in SUBSET d.rows
BY DEF Counted, BaseRollup

(* A person's or a repository's line on a leaderboard, none being zeros.   *)
LEMMA PersonLine ==
    ASSUME NEW d, Sound(d), NEW q, NEW p
    PROVE  /\ p \in DOMAIN PersonLeaderboard(d, q) <=> PersonRows(d, q, p) # {}
           /\ p \in DOMAIN PersonLeaderboard(d, q) =>
                PersonLeaderboard(d, q)[p] = At(PersonLeaderboard(d, q), p, Zero)
           /\ At(PersonLeaderboard(d, q), p, Zero)
                = [m \in Metrics |-> Worth(d, PersonRows(d, q, p), m)]
<1> DEFINE board == PersonLeaderboard(d, q)
           X == PersonRows(d, q, p)
<1>1. X \in SUBSET d.rows
  BY CountedRows DEF PersonRows
<1>2. DOMAIN board = {x.person : x \in Counted(d, q)}
  BY DEF PersonLeaderboard
<1>3. p \in DOMAIN board <=> X # {}
  BY <1>2 DEF PersonRows
<1>4. p \in DOMAIN board => board[p] = SumOf(X)
  BY <1>2 DEF PersonLeaderboard, PersonRows
<1>5. SumOf(X) = [m \in Metrics |-> Worth(d, X, m)]
  <2> HIDE DEF X
  <2> QED BY <1>1, SumOfWorth
<1>6. X = {} => [m \in Metrics |-> Worth(d, X, m)] = Zero
  <2> HIDE DEF X
  <2> QED BY <1>1, WorthNat DEF Zero
<1> HIDE DEF board, X
<1>7. At(board, p, Zero) = [m \in Metrics |-> Worth(d, X, m)]
  BY <1>3, <1>4, <1>5, <1>6 DEF At
<1> QED BY <1>3, <1>4, <1>5, <1>7 DEF board, X

LEMMA RepoLine ==
    ASSUME NEW d, Sound(d), NEW q, NEW r
    PROVE  /\ r \in DOMAIN RepoLeaderboard(d, q) <=> RepoRows(d, q, r) # {}
           /\ r \in DOMAIN RepoLeaderboard(d, q) =>
                RepoLeaderboard(d, q)[r].n = At(RepoLeaderboard(d, q), r, [n |-> Zero]).n
           /\ At(RepoLeaderboard(d, q), r, [n |-> Zero]).n
                = [m \in Metrics |-> Worth(d, RepoRows(d, q, r), m)]
<1> DEFINE board == RepoLeaderboard(d, q)
           X == RepoRows(d, q, r)
<1>1. X \in SUBSET d.rows
  BY CountedRows DEF RepoRows
<1>2. DOMAIN board = {x.repo : x \in Counted(d, q)}
  BY DEF RepoLeaderboard
<1>3. r \in DOMAIN board <=> X # {}
  BY <1>2 DEF RepoRows
<1>4. r \in DOMAIN board => board[r].n = SumOf(X)
  BY <1>2 DEF RepoLeaderboard, RepoRows
<1>5. SumOf(X) = [m \in Metrics |-> Worth(d, X, m)]
  <2> HIDE DEF X
  <2> QED BY <1>1, SumOfWorth
<1>6. X = {} => [m \in Metrics |-> Worth(d, X, m)] = Zero
  <2> HIDE DEF X
  <2> QED BY <1>1, WorthNat DEF Zero
<1> HIDE DEF board, X
<1>7. At(board, r, [n |-> Zero]).n = [m \in Metrics |-> Worth(d, X, m)]
  BY <1>3, <1>4, <1>5, <1>6 DEF At
<1> QED BY <1>3, <1>4, <1>5, <1>7 DEF board, X

----------------------------------------------------------------------------
(* Periods.                                                                *)

LEMMA HalvesTyped ==
    ASSUME NEW s \in Scopes
    PROVE  /\ s.start \in Int /\ s.end \in Int /\ s.start <= s.end
           /\ \E mid \in Int : /\ s.start <= mid /\ mid <= s.end
                /\ Halves(s)[1].start = s.start /\ Halves(s)[1].end = mid
                /\ Halves(s)[2].start = mid /\ Halves(s)[2].end = s.end
                /\ Halves(s)[1].orgs = s.orgs /\ Halves(s)[2].orgs = s.orgs
<1>1. s.start \in Int /\ s.end \in Int /\ s.start <= s.end
      /\ s \in [orgs : SUBSET Orgs, start : Int, end : Int]
  BY ScopesAssumption
<1> DEFINE mid == s.start + ((s.end - s.start) \div 2)
<1>2. mid \in Int /\ s.start <= mid /\ mid <= s.end
  BY <1>1
<1>3. Halves(s) = <<[s EXCEPT !.end = mid], [s EXCEPT !.start = mid]>>
  BY DEF Halves
<1> HIDE DEF mid
<1> QED BY <1>1, <1>2, <1>3

(* What is counted in a period is counted in one of its halves.            *)
LEMMA CountedHalves ==
    ASSUME NEW d, Sound(d), NEW s \in Scopes, NEW P, NEW R
    PROVE  LET C(t) == Counted(d, Query(t, P, R))
           IN  /\ C(s) = C(Halves(s)[1]) \cup C(Halves(s)[2])
               /\ C(Halves(s)[1]) \cap C(Halves(s)[2]) = {}
<1> DEFINE C(t) == Counted(d, Query(t, P, R))
           In(t) == {x \in d.rows :
                       /\ x.repo \in d.included
                       /\ t.start <= x.day /\ x.day < t.end
                       /\ InScope(t.orgs, x.repo)
                       /\ R # {} => x.repo \in R
                       /\ P # {} => x.person \in P
                       /\ PersonAllowed(d, OrgOf[x.repo], x.person)}
<1>1. \A t : C(t) = In(t)
  BY DEF Counted, BaseRollup, Query
<1>2. PICK mid \in Int : /\ s.start <= mid /\ mid <= s.end
                /\ Halves(s)[1].start = s.start /\ Halves(s)[1].end = mid
                /\ Halves(s)[2].start = mid /\ Halves(s)[2].end = s.end
                /\ Halves(s)[1].orgs = s.orgs /\ Halves(s)[2].orgs = s.orgs
  BY HalvesTyped
<1>3. \A x \in d.rows : x.day \in Int
  <2>1. "commits" \in Metrics
    BY DEF Metrics
  <2> QED BY <2>1, NumbersTyped DEF RowType
<1>4. s.start \in Int /\ s.end \in Int
  BY HalvesTyped
<1>5. \A x \in d.rows : /\ s.start <= x.day /\ x.day < s.end <=>
                             (s.start <= x.day /\ x.day < mid) \/ (mid <= x.day /\ x.day < s.end)
                        /\ ~((s.start <= x.day /\ x.day < mid) /\ (mid <= x.day /\ x.day < s.end))
  BY <1>2, <1>3, <1>4
<1>6. /\ In(s) = In(Halves(s)[1]) \cup In(Halves(s)[2])
      /\ In(Halves(s)[1]) \cap In(Halves(s)[2]) = {}
  BY <1>2, <1>5
<1> HIDE DEF C, In
<1>7. /\ C(s) = C(Halves(s)[1]) \cup C(Halves(s)[2])
      /\ C(Halves(s)[1]) \cap C(Halves(s)[2]) = {}
  BY <1>1, <1>6
<1> QED BY <1>7 DEF C

(* A handoff's parts and the movers' parts are those of the whole period.  *)
LEMMA HandoffAddsUp ==
    ASSUME NEW d, Sound(d), NEW s \in Scopes, NEW r
    PROVE  LET board == PersonLeaderboard(d, Query(s, {}, {r}))
               shares == Handoff(d, s, [op |-> "handoff", repo |-> r])
           IN  /\ DOMAIN shares = DOMAIN board
               /\ \A p \in DOMAIN board :
                     shares[p][1][1] + shares[p][2][1] = board[p]["significance"]
<1> DEFINE m == "significance"
           q(t) == Query(t, {}, {r})
           C(t) == Counted(d, q(t))
           Rows(t, p) == PersonRows(d, q(t), p)
           Board(t) == PersonLeaderboard(d, q(t))
           h1 == Halves(s)[1]
           h2 == Halves(s)[2]
           shares == Handoff(d, s, [op |-> "handoff", repo |-> r])
<1>0. m \in Metrics
  BY DEF Metrics
<1>1. C(s) = C(h1) \cup C(h2) /\ C(h1) \cap C(h2) = {}
  BY CountedHalves
<1>2. \A p : /\ Rows(s, p) = Rows(h1, p) \cup Rows(h2, p) /\ Rows(h1, p) \cap Rows(h2, p) = {}
             /\ Rows(h1, p) \in SUBSET d.rows /\ Rows(h2, p) \in SUBSET d.rows
  <2>1. \A t, p : Rows(t, p) = {x \in C(t) : x.person = p}
    BY DEF PersonRows
  <2>2. C(h1) \in SUBSET d.rows /\ C(h2) \in SUBSET d.rows
    BY CountedRows
  <2> HIDE DEF C, Rows, h1, h2
  <2> QED BY <1>1, <2>1, <2>2
<1>3. \A t, p : /\ p \in DOMAIN Board(t) <=> Rows(t, p) # {}
                /\ p \in DOMAIN Board(t) => Board(t)[p] = At(Board(t), p, Zero)
                /\ At(Board(t), p, Zero)[m] = Worth(d, Rows(t, p), m)
  <2> SUFFICES ASSUME NEW t, NEW p
               PROVE  /\ p \in DOMAIN Board(t) <=> Rows(t, p) # {}
                      /\ p \in DOMAIN Board(t) => Board(t)[p] = At(Board(t), p, Zero)
                      /\ At(Board(t), p, Zero)[m] = Worth(d, Rows(t, p), m)
    OBVIOUS
  <2>1. At(Board(t), p, Zero) = [k \in Metrics |-> Worth(d, Rows(t, p), k)]
    <3> HIDE DEF q
    <3> QED BY PersonLine
  <2>2. /\ p \in DOMAIN Board(t) <=> Rows(t, p) # {}
        /\ p \in DOMAIN Board(t) => Board(t)[p] = At(Board(t), p, Zero)
    <3> HIDE DEF q
    <3> QED BY PersonLine
  <2> HIDE DEF Board, Rows, q, m
  <2> QED BY <1>0, <2>1, <2>2
<1>4. DOMAIN shares = DOMAIN Board(h1) \cup DOMAIN Board(h2)
      /\ \A p \in DOMAIN shares : /\ shares[p][1][1] = At(Board(h1), p, Zero)[m]
                                  /\ shares[p][2][1] = At(Board(h2), p, Zero)[m]
  BY DEF Handoff
<1>5. \A p : Worth(d, Rows(s, p), m) = Worth(d, Rows(h1, p), m) + Worth(d, Rows(h2, p), m)
  <2> HIDE DEF Rows, m, h1, h2
  <2> QED BY <1>0, <1>2, WorthSplit
<1>6. /\ DOMAIN shares = DOMAIN Board(s)
      /\ \A p \in DOMAIN Board(s) : shares[p][1][1] + shares[p][2][1] = Board(s)[p][m]
  <2> HIDE DEF shares, Board, Rows, h1, h2, m
  <2>1. \A p : p \in DOMAIN Board(s) <=> p \in DOMAIN Board(h1) \/ p \in DOMAIN Board(h2)
    BY <1>2, <1>3
  <2>2. DOMAIN shares = DOMAIN Board(s)
    <3>1. \A p : p \in DOMAIN shares <=> p \in DOMAIN Board(s)
      BY <1>4, <2>1
    <3> QED BY <3>1
  <2>3. ASSUME NEW p \in DOMAIN Board(s)
        PROVE  shares[p][1][1] + shares[p][2][1] = Board(s)[p][m]
    <3>1. /\ shares[p][1][1] = Worth(d, Rows(h1, p), m)
          /\ shares[p][2][1] = Worth(d, Rows(h2, p), m)
      BY <1>3, <1>4, <2>2
    <3>2. Board(s)[p][m] = Worth(d, Rows(s, p), m)
      BY <1>3
    <3> QED BY <1>5, <3>1, <3>2
  <2> QED BY <2>2, <2>3
<1> QED BY <1>6

LEMMA MoversAddUp ==
    ASSUME NEW d, Sound(d), NEW s \in Scopes, NEW r1 \in Repos, NEW r2 \in Repos, r1 # r2
    PROVE  LET moved == CorrelateRepos(d, s, [repo |-> r1, repo_b |-> r2])
               board == PersonLeaderboard(d, Query(s, {}, {r1, r2}))
           IN \A p \in moved.shared :
                 moved.parts[p][1][2] + moved.parts[p][2][2] = board[p]["significance"]
<1> DEFINE m == "significance"
           h(i) == Halves(s)[i]
           Line(t, p, r) == At(PersonLeaderboard(d, Query(t, {p}, {r})), p, Zero)[m]
           Rows(t, p, r) == PersonRows(d, Query(t, {p}, {r}), p)
           All(p) == PersonRows(d, Query(s, {}, {r1, r2}), p)
           moved == CorrelateRepos(d, s, [repo |-> r1, repo_b |-> r2])
           board == PersonLeaderboard(d, Query(s, {}, {r1, r2}))
<1>0. m \in Metrics
  BY DEF Metrics
<1> SUFFICES ASSUME NEW p \in moved.shared
             PROVE  moved.parts[p][1][2] + moved.parts[p][2][2] = board[p][m]
  OBVIOUS
<1>1. moved.shared = DOMAIN PersonLeaderboard(d, Query(s, {}, {r1}))
                       \cap DOMAIN PersonLeaderboard(d, Query(s, {}, {r2}))
  BY DEF CorrelateRepos
<1>2. /\ moved.parts[p][1][2] = Line(h(1), p, r1) + Line(h(1), p, r2)
      /\ moved.parts[p][2][2] = Line(h(2), p, r1) + Line(h(2), p, r2)
  <2>1. moved.parts = [x \in moved.shared |->
                        [i \in 1..2 |-> <<Line(h(i), x, r2), Line(h(i), x, r1) + Line(h(i), x, r2)>>]]
    BY DEF CorrelateRepos
  <2> HIDE DEF moved, Line, h
  <2> QED BY <2>1
<1>3. \A t, r : Line(t, p, r) = Worth(d, Rows(t, p, r), m)
  <2> SUFFICES ASSUME NEW t, NEW r PROVE Line(t, p, r) = Worth(d, Rows(t, p, r), m)
    OBVIOUS
  <2> DEFINE q == Query(t, {p}, {r})
  <2> HIDE DEF q
  <2>1. At(PersonLeaderboard(d, q), p, Zero) = [k \in Metrics |-> Worth(d, PersonRows(d, q, p), k)]
    BY PersonLine
  <2>2. At(PersonLeaderboard(d, q), p, Zero)[m] = Worth(d, PersonRows(d, q, p), m)
    BY <1>0, <2>1
  <2> QED BY <2>2 DEF q
<1>4. board[p][m] = Worth(d, All(p), m)
  <2> DEFINE q == Query(s, {}, {r1, r2})
             one == Query(s, {}, {r1})
  <2>1. PersonRows(d, one, p) # {}
    <3> HIDE DEF one
    <3>1. p \in DOMAIN PersonLeaderboard(d, one)
      BY <1>1 DEF one
    <3> QED BY <3>1, PersonLine
  <2>2. PersonRows(d, one, p) \subseteq PersonRows(d, q, p)
    BY DEF PersonRows, Counted, BaseRollup, Query
  <2> HIDE DEF q, one
  <2>3. p \in DOMAIN PersonLeaderboard(d, q)
    BY <2>1, <2>2, PersonLine
  <2>4. /\ PersonLeaderboard(d, q)[p] = At(PersonLeaderboard(d, q), p, Zero)
        /\ At(PersonLeaderboard(d, q), p, Zero) = [k \in Metrics |-> Worth(d, PersonRows(d, q, p), k)]
    BY <2>3, PersonLine
  <2>5. PersonLeaderboard(d, q)[p][m] = Worth(d, PersonRows(d, q, p), m)
    BY <1>0, <2>4
  <2> QED BY <2>5 DEF q
<1>5. /\ All(p) = (Rows(h(1), p, r1) \cup Rows(h(1), p, r2))
                    \cup (Rows(h(2), p, r1) \cup Rows(h(2), p, r2))
      /\ Rows(h(1), p, r1) \cap Rows(h(1), p, r2) = {}
      /\ Rows(h(2), p, r1) \cap Rows(h(2), p, r2) = {}
      /\ (Rows(h(1), p, r1) \cup Rows(h(1), p, r2))
            \cap (Rows(h(2), p, r1) \cup Rows(h(2), p, r2)) = {}
      /\ \A t, r : Rows(t, p, r) \in SUBSET d.rows
  <2> DEFINE C(t) == Counted(d, Query(t, {}, {r1, r2}))
  <2>1. C(s) = C(h(1)) \cup C(h(2)) /\ C(h(1)) \cap C(h(2)) = {}
    BY CountedHalves
  <2>2. All(p) = {x \in C(s) : x.person = p}
    BY DEF PersonRows
  <2>3. ASSUME NEW t, NEW r \in {r1, r2}
        PROVE  Rows(t, p, r) = {x \in C(t) : x.person = p /\ x.repo = r}
    BY <2>3 DEF PersonRows, Counted, BaseRollup, Query
  <2>4. ASSUME NEW t, NEW x \in C(t) PROVE x.repo \in {r1, r2}
    BY <2>4 DEF Counted, BaseRollup, Query
  <2>5. \A t, r : Rows(t, p, r) \in SUBSET d.rows
    BY CountedRows DEF PersonRows
  <2> HIDE DEF All, Rows, C, h
  <2>6. \A t : {x \in C(t) : x.person = p} = Rows(t, p, r1) \cup Rows(t, p, r2)
               /\ Rows(t, p, r1) \cap Rows(t, p, r2) = {}
    BY <2>3, <2>4
  <2>7. /\ All(p) = {x \in C(h(1)) : x.person = p} \cup {x \in C(h(2)) : x.person = p}
        /\ {x \in C(h(1)) : x.person = p} \cap {x \in C(h(2)) : x.person = p} = {}
    BY <2>1, <2>2
  <2> QED BY <2>5, <2>6, <2>7
<1> DEFINE a == Rows(h(1), p, r1)
           b == Rows(h(1), p, r2)
           c == Rows(h(2), p, r1)
           e == Rows(h(2), p, r2)
           A == a \cup b
           B == c \cup e
<1>6. /\ All(p) = A \cup B /\ A \cap B = {} /\ a \cap b = {} /\ c \cap e = {}
      /\ a \in SUBSET d.rows /\ b \in SUBSET d.rows /\ c \in SUBSET d.rows /\ e \in SUBSET d.rows
      /\ A \in SUBSET d.rows /\ B \in SUBSET d.rows
  BY <1>5
<1>7. /\ moved.parts[p][1][2] = Worth(d, a, m) + Worth(d, b, m)
      /\ moved.parts[p][2][2] = Worth(d, c, m) + Worth(d, e, m)
  BY <1>2, <1>3
<1> HIDE DEF a, b, c, e, m, moved, board, All
<1>8. Worth(d, A, m) = Worth(d, a, m) + Worth(d, b, m) /\ Worth(d, B, m) = Worth(d, c, m) + Worth(d, e, m)
  BY <1>0, <1>6, WorthSplit
<1> HIDE DEF A, B
<1>9. Worth(d, A \cup B, m) = Worth(d, A, m) + Worth(d, B, m)
  BY <1>0, <1>6, WorthSplit
<1> QED BY <1>4, <1>6, <1>7, <1>8, <1>9

(* The smallest and the largest of some days.                              *)
LEMMA MinMaxInt ==
    ASSUME NEW S, IsFiniteSet(S), S \subseteq Int, S # {}
    PROVE  Min(S) \in S /\ Max(S) \in S
<1> DEFINE Least(A) == A # {} => \E x \in A : \A y \in A : x <= y
           Largest(A) == A # {} => \E x \in A : \A y \in A : x >= y
           T == {A \in SUBSET S : Least(A) /\ Largest(A)}
<1>1. {} \in T
  OBVIOUS
<1>2. ASSUME NEW A \in T, NEW a \in S \ A PROVE A \cup {a} \in T
  <2>1. A \subseteq Int /\ a \in Int
    OBVIOUS
  <2>2. Least(A \cup {a})
    <3>1. CASE A = {}
      BY <2>1, <3>1
    <3>2. CASE A # {}
      <4>1. PICK x \in A : \A y \in A : x <= y
        BY <3>2
      <4>2. x \in Int
        BY <2>1
      <4>3. CASE a <= x
        BY <2>1, <4>1, <4>2, <4>3
      <4>4. CASE x <= a
        BY <2>1, <4>1, <4>2, <4>4
      <4> QED BY <2>1, <4>2, <4>3, <4>4
    <3> QED BY <3>1, <3>2
  <2>3. Largest(A \cup {a})
    <3>1. CASE A = {}
      BY <2>1, <3>1
    <3>2. CASE A # {}
      <4>1. PICK x \in A : \A y \in A : x >= y
        BY <3>2
      <4>2. x \in Int
        BY <2>1
      <4>3. CASE a >= x
        BY <2>1, <4>1, <4>2, <4>3
      <4>4. CASE x >= a
        BY <2>1, <4>1, <4>2, <4>4
      <4> QED BY <2>1, <4>2, <4>3, <4>4
    <3> QED BY <3>1, <3>2
  <2> QED BY <2>2, <2>3
<1>3. S \in T
  <2> HIDE DEF T
  <2> QED BY <1>1, <1>2, OverSubsets
<1> QED BY <1>3 DEF Min, Max

(* First and last days are days.                                           *)
LEMMA SpansTyped ==
    ASSUME NEW d, Sound(d), NEW orgs
    PROVE  \A p \in DOMAIN ActivitySpans(d, orgs) :
              ActivitySpans(d, orgs)[p].first \in Int /\ ActivitySpans(d, orgs)[p].last \in Int
<1> DEFINE counted == {x \in d.rows : /\ x.repo \in d.included
                                      /\ InScope(orgs, x.repo)
                                      /\ PersonAllowed(d, OrgOf[x.repo], x.person)}
           Days(p) == {x.day : x \in {y \in counted : y.person = p}}
           spans == ActivitySpans(d, orgs)
<1>1. spans = [p \in {x.person : x \in counted} |-> [first |-> Min(Days(p)), last |-> Max(Days(p))]]
  BY DEF ActivitySpans
<1>2. ASSUME NEW p, p \in {x.person : x \in counted}
      PROVE  Min(Days(p)) \in Int /\ Max(Days(p)) \in Int
  <2> DEFINE R == {y \in counted : y.person = p}
             g == [x \in R |-> x.day]
  <2>1. IsFiniteSet(d.rows) /\ d.rows \subseteq RowType
    <3>1. "commits" \in Metrics
      BY DEF Metrics
    <3> QED BY <3>1, NumbersTyped
  <2>2. IsFiniteSet(R)
    <3> DEFINE S == d.rows
    <3>1. R \in SUBSET S
      OBVIOUS
    <3> HIDE DEF R, S
    <3>2. IsFiniteSet(S)
      BY <2>1 DEF S
    <3> QED BY <3>1, <3>2, FS_Subset
  <2>3. Days(p) = {g[x] : x \in R}
    OBVIOUS
  <2>4. IsFiniteSet({g[x] : x \in R})
    <3> HIDE DEF g, R
    <3> QED BY <2>2, ImageFinite
  <2>5. Days(p) \subseteq Int
    BY <2>1 DEF RowType
  <2>6. Days(p) # {}
    BY <1>2
  <2> HIDE DEF Days, g, R
  <2> QED BY <2>3, <2>4, <2>5, <2>6, MinMaxInt
<1> HIDE DEF counted, Days, spans
<1>3. \A p \in DOMAIN spans : spans[p].first \in Int /\ spans[p].last \in Int
  BY <1>1, <1>2
<1> QED BY <1>3 DEF spans

LEMMA JoinOnce ==
    ASSUME NEW d, Sound(d), NEW s \in Scopes
    PROVE  LET cohort(h) == Cohort(d, s.orgs, Halves(s)[h].start, Halves(s)[h].end)
               whole == Cohort(d, s.orgs, s.start, s.end)
               Joined(h) == DOMAIN cohort(h).joiners
               Left(h) == DOMAIN cohort(h).leavers
           IN /\ Joined(1) \cup Joined(2) = DOMAIN whole.joiners
              /\ Joined(1) \cap Joined(2) = {} /\ Left(1) \cap Left(2) = {}
              /\ Joined(1) \cap Left(1) = {} /\ Joined(2) \cap Left(2) = {}
              /\ DOMAIN whole.leavers \subseteq DOMAIN ActivitySpans(d, s.orgs)
              /\ (DOMAIN whole.leavers \cap Left(1)) \cap DOMAIN whole.joiners = {}
<1> DEFINE spans == ActivitySpans(d, s.orgs)
           h1 == Halves(s)[1]
           h2 == Halves(s)[2]
           J(a, b) == Joiners(spans, a, b)
           L(a, b) == Leavers(spans, a, b)
           C(a, b) == Cohort(d, s.orgs, a, b)
<1>1. ASSUME NEW a, NEW b
      PROVE  DOMAIN C(a, b).joiners = J(a, b) /\ DOMAIN C(a, b).leavers = L(a, b)
  BY DEF Cohort
<1>2. PICK mid \in Int : /\ s.start <= mid /\ mid <= s.end
                /\ h1.start = s.start /\ h1.end = mid
                /\ h2.start = mid /\ h2.end = s.end
  BY HalvesTyped
<1>3. s.start \in Int /\ s.end \in Int /\ GraceDays \in Nat
  BY HalvesTyped, StatisticsAssumption
<1>4. \A p \in DOMAIN spans : spans[p].first \in Int /\ spans[p].last \in Int
  BY SpansTyped
<1>5. \A a, b, p : /\ p \in J(a, b) <=> p \in DOMAIN spans /\ a <= spans[p].first /\ spans[p].first < b
                   /\ p \in L(a, b) <=> /\ p \in DOMAIN spans
                                        /\ a <= spans[p].last /\ spans[p].last < b - GraceDays
                                        /\ p \notin J(a, b)
  BY DEF Joiners, Leavers
<1> HIDE DEF J, L, spans, h1, h2, C
<1>6. ASSUME NEW p \in DOMAIN spans
      PROVE  /\ p \in J(s.start, s.end) <=> p \in J(s.start, mid) \/ p \in J(mid, s.end)
             /\ ~(p \in J(s.start, mid) /\ p \in J(mid, s.end))
             /\ ~(p \in L(s.start, mid) /\ p \in L(mid, s.end))
  <2> DEFINE f == spans[p].first
             l == spans[p].last
             a == s.start
             b == s.end
             grace == GraceDays
  <2>1. f \in Int /\ l \in Int /\ a \in Int /\ b \in Int /\ mid \in Int /\ grace \in Nat
        /\ a <= mid /\ mid <= b
    BY <1>2, <1>3, <1>4
  <2>2. /\ p \in J(a, b) <=> a <= f /\ f < b
        /\ p \in J(a, mid) <=> a <= f /\ f < mid
        /\ p \in J(mid, b) <=> mid <= f /\ f < b
        /\ p \in L(a, mid) => l < mid - grace
        /\ p \in L(mid, b) => mid <= l
    BY <1>5
  <2> HIDE DEF f, l, a, b, grace
  <2>3. /\ p \in J(a, b) <=> p \in J(a, mid) \/ p \in J(mid, b)
        /\ ~(p \in J(a, mid) /\ p \in J(mid, b))
        /\ ~(p \in L(a, mid) /\ p \in L(mid, b))
    BY <2>1, <2>2
  <2> QED BY <2>3 DEF a, b
<1>7. \A a, b : J(a, b) \subseteq DOMAIN spans /\ L(a, b) \subseteq DOMAIN spans
                /\ J(a, b) \cap L(a, b) = {}
  BY <1>5
<1>8. /\ J(s.start, mid) \cup J(mid, s.end) = J(s.start, s.end)
      /\ J(s.start, mid) \cap J(mid, s.end) = {} /\ L(s.start, mid) \cap L(mid, s.end) = {}
  BY <1>6, <1>7
<1>9. /\ DOMAIN C(h1.start, h1.end).joiners = J(s.start, mid)
      /\ DOMAIN C(h1.start, h1.end).leavers = L(s.start, mid)
      /\ DOMAIN C(h2.start, h2.end).joiners = J(mid, s.end)
      /\ DOMAIN C(h2.start, h2.end).leavers = L(mid, s.end)
      /\ DOMAIN C(s.start, s.end).joiners = J(s.start, s.end)
      /\ DOMAIN C(s.start, s.end).leavers = L(s.start, s.end)
  BY <1>1, <1>2
<1>10. /\ DOMAIN C(h1.start, h1.end).joiners \cup DOMAIN C(h2.start, h2.end).joiners
              = DOMAIN C(s.start, s.end).joiners
       /\ DOMAIN C(h1.start, h1.end).joiners \cap DOMAIN C(h2.start, h2.end).joiners = {}
       /\ DOMAIN C(h1.start, h1.end).leavers \cap DOMAIN C(h2.start, h2.end).leavers = {}
       /\ DOMAIN C(h1.start, h1.end).joiners \cap DOMAIN C(h1.start, h1.end).leavers = {}
       /\ DOMAIN C(h2.start, h2.end).joiners \cap DOMAIN C(h2.start, h2.end).leavers = {}
       /\ DOMAIN C(s.start, s.end).leavers \subseteq DOMAIN spans
       /\ (DOMAIN C(s.start, s.end).leavers \cap DOMAIN C(h1.start, h1.end).leavers)
             \cap DOMAIN C(s.start, s.end).joiners = {}
  BY <1>7, <1>8, <1>9
<1> QED BY <1>10 DEF C, h1, h2, spans

(* The invariant: a period that is cut in two loses nobody's work at the   *)
(* cut and counts nothing on both sides of it.                             *)
THEOREM CutsLoseNothing == Spec => []PeriodsCompose
<1>1. DbSound => PeriodsCompose
  <2> SUFFICES ASSUME Sound(db) PROVE PeriodsCompose
    BY DEF DbSound
  <2>1. HalvesAddUp
    BY HandoffAddsUp, MoversAddUp DEF HalvesAddUp
  <2>2. EveryoneJoinsOnce
    BY JoinOnce DEF EveryoneJoinsOnce
  <2> QED BY <2>1, <2>2 DEF PeriodsCompose
<1> QED BY <1>1, AlwaysSound, PTL

----------------------------------------------------------------------------
(* Rows and the entries behind them.                                       *)

Behinds(d, X, m) ==
    {e \in Entries(d.facts) : e[2][2] = m /\ \E x \in X : KeyOf(x) = RowKey(d.owner, e)}

(* Rows are worth what the entries behind them are.                        *)
LEMMA WorthEntries ==
    ASSUME NEW d, Sound(d), NEW m \in Metrics, NEW X \in SUBSET d.rows
    PROVE  Worth(d, X, m) = SumOver(On(Values(d.facts), Behinds(d, X, m)))
<1> DEFINE F == d.facts
           o == d.owner
           V == Values(F)
           S == Behinds(d, X, m)
           f == On(V, S)
           key == [e \in S |-> CHOOSE x \in X : KeyOf(x) = RowKey(o, e)]
           g == On(Numbers(d, m), X)
<1>1. F \in Facts /\ o \in Owners /\ d.rows = MergeDeltas(F, o)
  BY DEF Sound, Databases
<1>2. S \subseteq Entries(F) /\ IsFiniteSet(S) /\ V \in [Entries(F) -> Int]
  <2>1. S \subseteq Entries(F)
    BY DEF Behinds
  <2> HIDE DEF S, F, V
  <2>2. IsFiniteSet(Entries(F)) /\ V \in [Entries(F) -> Int]
    BY <1>1, EntriesTyped, ValuesTyped DEF V
  <2> QED BY <2>1, <2>2, FS_Subset
<1>3. f \in [S -> Int] /\ \A A \in SUBSET S : On(f, A) = On(V, A)
  <2> HIDE DEF S, V
  <2> QED BY <1>2 DEF On
<1>4. IsFiniteSet(X) /\ g \in [X -> Int] /\ \A x \in X : g[x] = x.n[m]
  <2> DEFINE R == d.rows
             N == Numbers(d, m)
  <2>1. IsFiniteSet(R) /\ N \in [R -> Int] /\ X \in SUBSET R
    BY NumbersTyped
  <2>2. \A x \in R : N[x] = x.n[m]
    BY DEF Numbers
  <2> HIDE DEF R, N
  <2>3. IsFiniteSet(X)
    BY <2>1, FS_Subset
  <2>4. On(N, X) \in [X -> Int] /\ \A x \in X : On(N, X)[x] = x.n[m]
    BY <2>1, <2>2 DEF On
  <2> QED BY <2>3, <2>4 DEF N
<1>5. \A e \in S : key[e] \in X /\ KeyOf(key[e]) = RowKey(o, e)
  BY DEF Behinds
<1>6. ASSUME NEW x \in X
      PROVE  g[x] = SumOver(On(f, {e \in S : key[e] = x}))
  <2>1. x \in MergeDeltas(F, o)
    BY <1>1
  <2>2. x.n[m] = Amount(F, o, KeyOf(x), m)
    <3> HIDE DEF F, o
    <3> QED BY <1>1, <2>1, RowsAre
  <2>3. Of(F, o, KeyOf(x), m) = {e \in S : key[e] = x}
    <3>1. ASSUME NEW e \in Of(F, o, KeyOf(x), m) PROVE e \in S /\ key[e] = x
      <4>1. e \in Entries(F) /\ RowKey(o, e) = KeyOf(x) /\ e[2][2] = m
        BY DEF Of
      <4>2. e \in S
        BY <4>1 DEF Behinds
      <4>3. key[e] \in X /\ KeyOf(key[e]) = KeyOf(x)
        BY <1>5, <4>1, <4>2
      <4>4. key[e] \in MergeDeltas(F, o)
        BY <1>1, <4>3
      <4> HIDE DEF F, o, key, S
      <4> QED BY <1>1, <2>1, <4>2, <4>3, <4>4, RowsDiffer
    <3>2. ASSUME NEW e \in S, key[e] = x PROVE e \in Of(F, o, KeyOf(x), m)
      <4>1. RowKey(o, e) = KeyOf(x) /\ e \in Entries(F) /\ e[2][2] = m
        BY <1>5, <3>2 DEF Behinds
      <4> QED BY <4>1 DEF Of
    <3> HIDE DEF F, o, S, key
    <3> QED BY <3>1, <3>2
  <2>4. On(f, {e \in S : key[e] = x}) = On(V, {e \in S : key[e] = x})
    <3> HIDE DEF S, key, f, V
    <3> QED BY <1>3
  <2> HIDE DEF f, S, key, g
  <2> QED BY <1>4, <2>2, <2>3, <2>4 DEF Amount
<1>7. SumOver(g) = SumOver(f)
  <2> HIDE DEF S, f, key, g
  <2> QED BY <1>2, <1>3, <1>4, <1>5, <1>6, SumGroups
<1> QED BY <1>7 DEF Worth

(* The rows of some keys are worth the same in two databases with the same *)
(* facts when the same entries have these keys in both.                    *)
WithKeys(d, T) == {x \in d.rows : KeyOf(x) \in T}

LEMMA SameWorth ==
    ASSUME NEW d, Sound(d), NEW c, Sound(c), c.facts = d.facts, NEW T,
           \A e \in Entries(d.facts) : RowKey(d.owner, e) \in T <=> RowKey(c.owner, e) \in T
    PROVE  /\ \A m \in Metrics : Worth(d, WithKeys(d, T), m) = Worth(c, WithKeys(c, T), m)
           /\ WithKeys(d, T) = {} <=> WithKeys(c, T) = {}
<1>1. /\ d.facts \in Facts /\ d.owner \in Owners /\ d.rows = MergeDeltas(d.facts, d.owner)
      /\ c.owner \in Owners /\ c.rows = MergeDeltas(d.facts, c.owner)
  BY DEF Sound, Databases
<1>2. \A e \in Entries(d.facts) :
         /\ (\E x \in WithKeys(d, T) : KeyOf(x) = RowKey(d.owner, e)) <=> RowKey(d.owner, e) \in T
         /\ (\E x \in WithKeys(c, T) : KeyOf(x) = RowKey(c.owner, e)) <=> RowKey(c.owner, e) \in T
  BY <1>1, RowExists DEF WithKeys
<1>3. \A m : Behinds(d, WithKeys(d, T), m) = Behinds(c, WithKeys(c, T), m)
  BY <1>2 DEF Behinds
<1>4. ASSUME NEW m \in Metrics
      PROVE  Worth(d, WithKeys(d, T), m) = Worth(c, WithKeys(c, T), m)
  <2> DEFINE X == WithKeys(d, T)
             Y == WithKeys(c, T)
  <2>1. X \in SUBSET d.rows /\ Y \in SUBSET c.rows
    BY DEF WithKeys
  <2>2. Behinds(d, X, m) = Behinds(c, Y, m)
    BY <1>3
  <2> HIDE DEF X, Y
  <2>3. Worth(d, X, m) = SumOver(On(Values(d.facts), Behinds(d, X, m)))
    BY <2>1, WorthEntries
  <2>4. Worth(c, Y, m) = SumOver(On(Values(c.facts), Behinds(c, Y, m)))
    BY <2>1, WorthEntries
  <2>5. On(Values(d.facts), Behinds(d, X, m)) = On(Values(c.facts), Behinds(c, Y, m))
    BY <2>2
  <2> QED BY <2>3, <2>4, <2>5 DEF X, Y
<1>5. WithKeys(d, T) # {} <=> \E e \in Entries(d.facts) : RowKey(d.owner, e) \in T
  <2>1. \A x \in d.rows : \E e \in Entries(d.facts) : RowKey(d.owner, e) = KeyOf(x)
    BY <1>1, RowsAre
  <2> QED BY <1>2, <2>1 DEF WithKeys
<1>6. WithKeys(c, T) # {} <=> \E e \in Entries(d.facts) : RowKey(c.owner, e) \in T
  <2>1. \A x \in c.rows : \E e \in Entries(d.facts) : RowKey(c.owner, e) = KeyOf(x)
    BY <1>1, RowsAre
  <2> QED BY <1>2, <2>1 DEF WithKeys
<1> QED BY <1>4, <1>5, <1>6

(* The totals are those of all rows counted.                               *)
LEMMA TotalWorth ==
    ASSUME NEW d, Sound(d), NEW q
    PROVE  Totals(d, q).n = [m \in Metrics |-> Worth(d, Counted(d, q), m)]
<1> DEFINE X == Counted(d, q)
           board == PersonLeaderboard(d, q)
<1>1. Totals(d, q).n = [m \in Metrics |-> BoardSum(board, m)]
  BY DEF Totals
<1>2. X \in SUBSET d.rows
  BY CountedRows
<1>3. ASSUME NEW m \in Metrics PROVE BoardSum(board, m) = Worth(d, X, m)
  <2> DEFINE N == Numbers(d, m)
             f == On(N, X)
             R == d.rows
             K == DOMAIN board
             key == [x \in X |-> x.person]
             g == [p \in K |-> board[p][m]]
  <2>1. IsFiniteSet(X) /\ f \in [X -> Int] /\ \A A \in SUBSET X : On(f, A) = On(N, A)
    <3>1. IsFiniteSet(R) /\ N \in [R -> Int]
      BY NumbersTyped
    <3> HIDE DEF X, N, R
    <3>2. X \in SUBSET R
      BY <1>2 DEF R
    <3>3. IsFiniteSet(X)
      BY <3>1, <3>2, FS_Subset
    <3> QED BY <3>1, <3>2, <3>3 DEF On
  <2>2. K = {key[x] : x \in X}
    BY DEF PersonLeaderboard
  <2>3. IsFiniteSet(K)
    <3> HIDE DEF X, key, K
    <3> QED BY <2>1, <2>2, ImageFinite
  <2>4. \A x \in X : key[x] \in K
    <3> HIDE DEF X, key, K
    <3> QED BY <2>2
  <2>5. ASSUME NEW p \in K
        PROVE  g[p] = SumOver(On(f, {x \in X : key[x] = p})) /\ g[p] \in Int
    <3> DEFINE Y == {x \in X : key[x] = p}
    <3>1. Y = PersonRows(d, q, p) /\ Y \in SUBSET X
      BY DEF PersonRows
    <3>2. board[p] = [k \in Metrics |-> Worth(d, PersonRows(d, q, p), k)]
      BY PersonLine
    <3>3. g[p] = Worth(d, Y, m)
      <4> HIDE DEF board, Y
      <4> QED BY <3>1, <3>2
    <3>4. On(f, Y) = On(N, Y)
      <4> HIDE DEF Y, X, f, N
      <4> QED BY <2>1, <3>1
    <3>5. Worth(d, Y, m) = SumOver(On(f, Y))
      BY <3>4 DEF Worth
    <3>6. Worth(d, Y, m) \in Nat
      <4> HIDE DEF Y, X
      <4> QED BY <1>2, <3>1, WorthNat
    <3> QED BY <3>3, <3>5, <3>6
  <2>6. g \in [K -> Int]
    <3> HIDE DEF K, X, f, key
    <3> QED BY <2>5
  <2>7. SumOver(g) = SumOver(f)
    <3> HIDE DEF K, X, f, key, g
    <3> QED BY <2>1, <2>3, <2>4, <2>5, <2>6, SumGroups
  <2> QED BY <2>7 DEF BoardSum, Worth
<1> HIDE DEF X, board
<1>4. Totals(d, q).n = [m \in Metrics |-> Worth(d, X, m)]
  BY <1>1, <1>3
<1> QED BY <1>4 DEF X

----------------------------------------------------------------------------
(* Merges and splits.                                                      *)

(* Without filters a merge or a split moves numbers between the persons it *)
(* is about and changes nothing else.                                      *)
LEMMA NumbersMove ==
    ASSUME NEW d, Sound(d), NEW c, Sound(c), c.facts = d.facts, c.included = d.included,
           \A o \in Orgs : d.mode[o] = "all" /\ o \notin d.membersOnly,
           \A o \in Orgs : c.mode[o] = "all" /\ o \notin c.membersOnly,
           NEW s \in Scopes
    PROVE  LET q == Query(s, {}, {})
           IN /\ Totals(d, q).n = Totals(c, q).n
              /\ Timeseries(d, q) = Timeseries(c, q)
              /\ \A r \in Repos : At(RepoLeaderboard(d, q), r, [n |-> Zero]).n
                                    = At(RepoLeaderboard(c, q), r, [n |-> Zero]).n
              /\ \A p \in Persons :
                    (\A i \in Identities : d.owner[i] = p <=> c.owner[i] = p) =>
                       At(PersonLeaderboard(d, q), p, Zero) = At(PersonLeaderboard(c, q), p, Zero)
<1> DEFINE q == Query(s, {}, {})
           All == {k \in Keys : /\ k.repo \in d.included /\ InScope(s.orgs, k.repo)
                                /\ s.start <= k.day /\ k.day < s.end}
           Day(day) == {k \in All : k.day = day}
           Repo(r) == {k \in All : k.repo = r}
           Person(p) == {k \in All : k.person = p}
<1>1. /\ d.facts \in Facts /\ d.owner \in Owners /\ c.owner \in Owners
      /\ d.rows \subseteq RowType /\ c.rows \subseteq RowType
  <2>1. "commits" \in Metrics
    BY DEF Metrics
  <2> QED BY <2>1, NumbersTyped DEF Sound, Databases
<1>2. Counted(d, q) = WithKeys(d, All) /\ Counted(c, q) = WithKeys(c, All)
  <2>1. ASSUME NEW b, Sound(b), b.rows \subseteq RowType, b.included = d.included,
               \A o \in Orgs : b.mode[o] = "all" /\ o \notin b.membersOnly
        PROVE  Counted(b, q) = WithKeys(b, All)
    <3>1. \A x \in b.rows : /\ KeyOf(x) \in Keys /\ KeyOf(x).repo = x.repo /\ KeyOf(x).day = x.day
                            /\ x.repo \in Repos
      BY <2>1 DEF KeyOf, Keys, RowType
    <3>2. \A x \in b.rows : PersonAllowed(b, OrgOf[x.repo], x.person)
      <4>1. \A x \in b.rows : OrgOf[x.repo] \in Orgs
        BY <3>1, StatisticsAssumption
      <4> QED BY <2>1, <4>1 DEF PersonAllowed
    <3>3. BaseRollup(b, q) = {x \in b.rows : /\ x.repo \in b.included
                                             /\ s.start <= x.day /\ x.day < s.end
                                             /\ InScope(s.orgs, x.repo)}
      BY DEF BaseRollup, Query
    <3>4. Counted(b, q) = BaseRollup(b, q)
      BY <3>2, <3>3 DEF Counted
    <3>5. WithKeys(b, All) = {x \in b.rows : /\ x.repo \in b.included
                                             /\ s.start <= x.day /\ x.day < s.end
                                             /\ InScope(s.orgs, x.repo)}
      BY <2>1, <3>1 DEF WithKeys
    <3> QED BY <3>3, <3>4, <3>5
  <2> HIDE DEF q, All
  <2> QED BY <1>1, <2>1
<1>3. \A e \in Entries(d.facts) :
         /\ RowKey(d.owner, e) \in Keys /\ RowKey(c.owner, e) \in Keys
         /\ RowKey(d.owner, e).repo = RowKey(c.owner, e).repo
         /\ RowKey(d.owner, e).day = RowKey(c.owner, e).day
         /\ RowKey(d.owner, e).person = d.owner[e[1].by]
         /\ RowKey(c.owner, e).person = c.owner[e[1].by]
         /\ e[1].by \in Identities
  <2>1. \A e \in Entries(d.facts) : e[1].by \in Identities
    BY <1>1, EntriesTyped, FactPoolAssumption
  <2> QED BY <1>1, <2>1, KeysTyped
<1>4. \A e \in Entries(d.facts) : RowKey(d.owner, e) \in All <=> RowKey(c.owner, e) \in All
  BY <1>3
<1>5. ASSUME NEW T \in SUBSET All,
             \A e \in Entries(d.facts) : RowKey(d.owner, e) \in T <=> RowKey(c.owner, e) \in T
      PROVE  /\ \A m \in Metrics : Worth(d, WithKeys(d, T), m) = Worth(c, WithKeys(c, T), m)
             /\ WithKeys(d, T) = {} <=> WithKeys(c, T) = {}
  <2> HIDE DEF All
  <2> QED BY <1>5, SameWorth
<1>6. Totals(d, q).n = Totals(c, q).n
  <2> HIDE DEF All, q
  <2>1. \A m \in Metrics : Worth(d, WithKeys(d, All), m) = Worth(c, WithKeys(c, All), m)
    BY <1>4, <1>5
  <2>2. /\ Totals(d, q).n = [m \in Metrics |-> Worth(d, WithKeys(d, All), m)]
        /\ Totals(c, q).n = [m \in Metrics |-> Worth(c, WithKeys(c, All), m)]
    BY <1>2, TotalWorth
  <2>3. [m \in Metrics |-> Worth(d, WithKeys(d, All), m)]
          = [m \in Metrics |-> Worth(c, WithKeys(c, All), m)]
    BY <2>1
  <2> QED BY <2>2, <2>3
<1>7. ASSUME NEW r PROVE At(RepoLeaderboard(d, q), r, [n |-> Zero]).n
                           = At(RepoLeaderboard(c, q), r, [n |-> Zero]).n
  <2> DEFINE T == Repo(r)
  <2>1. T \in SUBSET All
    OBVIOUS
  <2>2. \A e \in Entries(d.facts) : RowKey(d.owner, e) \in T <=> RowKey(c.owner, e) \in T
    BY <1>3, <1>4
  <2>3. RepoRows(d, q, r) = WithKeys(d, T) /\ RepoRows(c, q, r) = WithKeys(c, T)
    <3> HIDE DEF q, All
    <3>1. \A x : KeyOf(x).repo = x.repo
      BY DEF KeyOf
    <3> QED BY <1>2, <3>1 DEF RepoRows, WithKeys
  <2> HIDE DEF q, All, T
  <2>4. \A m \in Metrics : Worth(d, WithKeys(d, T), m) = Worth(c, WithKeys(c, T), m)
    BY <1>5, <2>1, <2>2
  <2>5. [m \in Metrics |-> Worth(d, WithKeys(d, T), m)] = [m \in Metrics |-> Worth(c, WithKeys(c, T), m)]
    BY <2>4
  <2>6. /\ At(RepoLeaderboard(d, q), r, [n |-> Zero]).n = [m \in Metrics |-> Worth(d, RepoRows(d, q, r), m)]
        /\ At(RepoLeaderboard(c, q), r, [n |-> Zero]).n = [m \in Metrics |-> Worth(c, RepoRows(c, q, r), m)]
    BY RepoLine
  <2> QED BY <2>3, <2>5, <2>6
<1>8. ASSUME NEW p, \A i \in Identities : d.owner[i] = p <=> c.owner[i] = p
      PROVE  At(PersonLeaderboard(d, q), p, Zero) = At(PersonLeaderboard(c, q), p, Zero)
  <2> DEFINE T == Person(p)
  <2>1. T \in SUBSET All
    OBVIOUS
  <2>2. \A e \in Entries(d.facts) : RowKey(d.owner, e) \in T <=> RowKey(c.owner, e) \in T
    <3>1. \A e \in Entries(d.facts) : RowKey(d.owner, e).person = p <=> RowKey(c.owner, e).person = p
      BY <1>3, <1>8
    <3> HIDE DEF All
    <3> QED BY <1>4, <3>1
  <2>3. PersonRows(d, q, p) = WithKeys(d, T) /\ PersonRows(c, q, p) = WithKeys(c, T)
    <3> HIDE DEF q, All
    <3>1. \A x : KeyOf(x).person = x.person
      BY DEF KeyOf
    <3> QED BY <1>2, <3>1 DEF PersonRows, WithKeys
  <2> HIDE DEF q, All, T
  <2>4. \A m \in Metrics : Worth(d, WithKeys(d, T), m) = Worth(c, WithKeys(c, T), m)
    BY <1>5, <2>1, <2>2
  <2>5. [m \in Metrics |-> Worth(d, WithKeys(d, T), m)] = [m \in Metrics |-> Worth(c, WithKeys(c, T), m)]
    BY <2>4
  <2>6. /\ At(PersonLeaderboard(d, q), p, Zero) = [m \in Metrics |-> Worth(d, PersonRows(d, q, p), m)]
        /\ At(PersonLeaderboard(c, q), p, Zero) = [m \in Metrics |-> Worth(c, PersonRows(c, q, p), m)]
    BY PersonLine
  <2> QED BY <2>3, <2>5, <2>6
<1>9. Timeseries(d, q) = Timeseries(c, q)
  <2> DEFINE Rows(b, day) == {x \in Counted(b, q) : x.day = day}
  <2>1. ASSUME NEW day
        PROVE  /\ SumOf(Rows(d, day)) = SumOf(Rows(c, day))
               /\ Rows(d, day) = {} <=> Rows(c, day) = {}
    <3> DEFINE T == Day(day)
    <3>1. T \in SUBSET All
      OBVIOUS
    <3>2. \A e \in Entries(d.facts) : RowKey(d.owner, e) \in T <=> RowKey(c.owner, e) \in T
      BY <1>3, <1>4
    <3>3. Rows(d, day) = WithKeys(d, T) /\ Rows(c, day) = WithKeys(c, T)
      <4> HIDE DEF q, All
      <4>1. \A x : KeyOf(x).day = x.day
        BY DEF KeyOf
      <4> QED BY <1>2, <4>1 DEF WithKeys
    <3> HIDE DEF q, All, T, Rows
    <3>4. /\ \A m \in Metrics : Worth(d, WithKeys(d, T), m) = Worth(c, WithKeys(c, T), m)
          /\ WithKeys(d, T) = {} <=> WithKeys(c, T) = {}
      BY <1>5, <3>1, <3>2
    <3>5. WithKeys(d, T) \in SUBSET d.rows /\ WithKeys(c, T) \in SUBSET c.rows
      BY DEF WithKeys
    <3>6. SumOf(WithKeys(d, T)) = [m \in Metrics |-> Worth(d, WithKeys(d, T), m)]
          /\ SumOf(WithKeys(c, T)) = [m \in Metrics |-> Worth(c, WithKeys(c, T), m)]
      <4> DEFINE X == WithKeys(d, T)
                 Y == WithKeys(c, T)
      <4> HIDE DEF X, Y
      <4>1. X \in SUBSET d.rows /\ Y \in SUBSET c.rows
        BY <3>5 DEF X, Y
      <4>2. SumOf(X) = [m \in Metrics |-> Worth(d, X, m)] /\ SumOf(Y) = [m \in Metrics |-> Worth(c, Y, m)]
        BY <4>1, SumOfWorth
      <4> QED BY <4>2 DEF X, Y
    <3>7. [m \in Metrics |-> Worth(d, WithKeys(d, T), m)] = [m \in Metrics |-> Worth(c, WithKeys(c, T), m)]
      BY <3>4
    <3>8. SumOf(WithKeys(d, T)) = SumOf(WithKeys(c, T))
      BY <3>6, <3>7
    <3> QED BY <3>3, <3>4, <3>8
  <2>2. \A b : Timeseries(b, q) = [day \in {x.day : x \in Counted(b, q)} |-> SumOf(Rows(b, day))]
    BY DEF Timeseries
  <2>3. {x.day : x \in Counted(d, q)} = {x.day : x \in Counted(c, q)}
    <3> DEFINE D == Counted(d, q)
               C == Counted(c, q)
    <3>1. \A day : (\E x \in D : x.day = day) <=> (\E x \in C : x.day = day)
      BY <2>1
    <3> HIDE DEF D, C
    <3>2. {x.day : x \in D} = {x.day : x \in C}
      BY <3>1
    <3> QED BY <3>2 DEF D, C
  <2> HIDE DEF q, Rows
  <2> QED BY <2>1, <2>2, <2>3
<1> QED BY <1>6, <1>7, <1>8, <1>9

(* A step that gives an identity another owner is a merge or a split.      *)
LEMMA OwnersChange ==
    ASSUME Sound(db), [Next]_vars, db'.owner # db.owner
    PROVE  /\ db'.facts = db.facts /\ db'.included = db.included
           /\ db'.mode = db.mode /\ db'.membersOnly = db.membersOnly
<1>0. db \in Databases
  BY DEF Sound
<1>1. ASSUME NEW f \in FactPool, IngestFact(f) PROVE FALSE
  BY <1>0, <1>1 DEF IngestFact, Databases
<1>2. CASE MergePersons
  BY <1>0, <1>2 DEF MergePersons, Edit, Merged, Databases
<1>3. CASE UnmergeIdentity
  BY <1>0, <1>3 DEF UnmergeIdentity, Databases
<1>4. CASE IncludeRepo
  BY <1>0, <1>4 DEF IncludeRepo, Edit, Databases
<1>5. CASE PersonFilters
  BY <1>0, <1>5 DEF PersonFilters, Edit, Databases
<1>6. CASE ToggleMembers
  BY <1>0, <1>6 DEF ToggleMembers, Edit, Databases
<1>7. CASE UNCHANGED vars
  BY <1>7 DEF vars
<1> QED BY <1>1, <1>2, <1>3, <1>4, <1>5, <1>6, <1>7 DEF Next

(* The action property: a merge or a split moves numbers between the       *)
(* persons it is about and changes no total, no repository, no day and     *)
(* nobody else, as long as no filter tells these persons apart.            *)
THEOREM NumbersMoveOnly == Spec => MergesMoveNumbers
<1> DEFINE Moving ==
        db'.owner # db.owner =>
         LET moved == {p \in Persons : \E i \in Identities :
                          db.owner[i] # db'.owner[i] /\ p \in {db.owner[i], db'.owner[i]}}
         IN (\A o \in Orgs : db.mode[o] = "all" /\ o \notin db.membersOnly) =>
              \A s \in Scopes :
                 LET q == Query(s, {}, {})
                     before == PersonLeaderboard(db, q)
                     after == PersonLeaderboard(db', q)
                 IN /\ Totals(db, q).n = Totals(db', q).n
                    /\ Timeseries(db, q) = Timeseries(db', q)
                    /\ \A r \in Repos : At(RepoLeaderboard(db, q), r, [n |-> Zero]).n
                                      = At(RepoLeaderboard(db', q), r, [n |-> Zero]).n
                    /\ \A p \in Persons \ moved : At(before, p, Zero) = At(after, p, Zero)
<1>1. DbSound /\ [Next]_vars => [Moving]_vars
  <2> SUFFICES ASSUME Sound(db), [Next]_vars, db'.owner # db.owner,
                      \A o \in Orgs : db.mode[o] = "all" /\ o \notin db.membersOnly,
                      NEW s \in Scopes
               PROVE  LET moved == {p \in Persons : \E i \in Identities :
                                       db.owner[i] # db'.owner[i] /\ p \in {db.owner[i], db'.owner[i]}}
                          q == Query(s, {}, {})
                          before == PersonLeaderboard(db, q)
                          after == PersonLeaderboard(db', q)
                      IN /\ Totals(db, q).n = Totals(db', q).n
                         /\ Timeseries(db, q) = Timeseries(db', q)
                         /\ \A r \in Repos : At(RepoLeaderboard(db, q), r, [n |-> Zero]).n
                                           = At(RepoLeaderboard(db', q), r, [n |-> Zero]).n
                         /\ \A p \in Persons \ moved : At(before, p, Zero) = At(after, p, Zero)
    BY DEF DbSound
  <2> DEFINE d == db
             c == db'
             q == Query(s, {}, {})
  <2>1. Sound(c)
    BY StepSound
  <2>2. /\ c.facts = d.facts /\ c.included = d.included
        /\ \A o \in Orgs : d.mode[o] = "all" /\ o \notin d.membersOnly
        /\ \A o \in Orgs : c.mode[o] = "all" /\ o \notin c.membersOnly
    BY OwnersChange
  <2>3. \A p \in Persons : ~(\E i \in Identities : d.owner[i] # c.owner[i] /\ p \in {d.owner[i], c.owner[i]})
           => \A i \in Identities : d.owner[i] = p <=> c.owner[i] = p
    OBVIOUS
  <2>4. Sound(d)
    OBVIOUS
  <2> HIDE DEF d, c
  <2>5. /\ Totals(d, q).n = Totals(c, q).n
        /\ Timeseries(d, q) = Timeseries(c, q)
        /\ \A r \in Repos : At(RepoLeaderboard(d, q), r, [n |-> Zero]).n
                              = At(RepoLeaderboard(c, q), r, [n |-> Zero]).n
        /\ \A p \in Persons :
              (\A i \in Identities : d.owner[i] = p <=> c.owner[i] = p) =>
                 At(PersonLeaderboard(d, q), p, Zero) = At(PersonLeaderboard(c, q), p, Zero)
    BY <2>1, <2>2, <2>4, NumbersMove
  <2> HIDE DEF q
  <2> QED BY <2>3, <2>5 DEF d, c, q
<1>2. Spec => [][Moving]_vars
  <2> HIDE DEF Moving
  <2> QED BY <1>1, AlwaysSound, PTL DEF Spec
<1> QED BY <1>2 DEF MergesMoveNumbers

----------------------------------------------------------------------------
(* Parts and wholes.                                                       *)

(* Rows in groups are worth what they are worth together.                  *)
LEMMA GroupWorth ==
    ASSUME NEW d, Sound(d), NEW m \in Metrics, NEW X \in SUBSET d.rows, NEW K, IsFiniteSet(K),
           NEW key, \A x \in X : key[x] \in K,
           NEW g, DOMAIN g = K, g = [k \in K |-> g[k]],
           \A k \in K : g[k] = Worth(d, {x \in X : key[x] = k}, m)
    PROVE  SumOver(g) = Worth(d, X, m)
<1> DEFINE N == Numbers(d, m)
           R == d.rows
           f == On(N, X)
           G(k) == {x \in X : key[x] = k}
<1>1. IsFiniteSet(R) /\ N \in [R -> Int] /\ X \in SUBSET R
  BY NumbersTyped
<1>2. IsFiniteSet(X) /\ f \in [X -> Int] /\ \A A \in SUBSET X : On(f, A) = On(N, A)
  <2> HIDE DEF N, R
  <2>1. IsFiniteSet(X)
    BY <1>1, FS_Subset
  <2> QED BY <1>1, <2>1 DEF On
<1>3. ASSUME NEW k \in K PROVE g[k] = SumOver(On(f, G(k))) /\ g[k] \in Int
  <2>1. G(k) \in SUBSET X /\ G(k) \in SUBSET d.rows /\ g[k] = Worth(d, G(k), m)
    OBVIOUS
  <2> HIDE DEF G, f, N
  <2>2. On(f, G(k)) = On(N, G(k))
    BY <1>2, <2>1
  <2>3. Worth(d, G(k), m) \in Nat
    BY <2>1, WorthNat
  <2> QED BY <2>1, <2>2, <2>3 DEF Worth, N
<1>4. g \in [K -> Int]
  BY <1>3
<1>5. SumOver(g) = SumOver(f)
  <2> HIDE DEF f
  <2> QED BY <1>2, <1>3, <1>4, SumGroups
<1> QED BY <1>5 DEF Worth

(* As many as there are.                                                   *)
LEMMA OneToOne ==
    ASSUME NEW S, NEW T, IsFiniteSet(S), NEW f \in [S -> T],
           \A x \in S : \A y \in S : f[x] = f[y] => x = y,
           \A t \in T : \E x \in S : f[x] = t
    PROVE  Cardinality(S) = Cardinality(T)
<1>1. f \in Bijection(S, T)
  BY DEF Bijection, Injection, Surjection, IsInjective
<1>2. ExistsBijection(S, T)
  BY <1>1 DEF ExistsBijection
<1> QED BY <1>2, FS_Bijection

(* The metrics that count facts.                                           *)
Counts(kind, m) == \/ kind = "commit" /\ m = "commits"
                   \/ kind = "pull" /\ m = "prs_opened"
                   \/ kind = "review" /\ m = "reviews"

LEMMA CountDelta ==
    ASSUME NEW f \in FactPool, NEW kind, NEW m, Counts(kind, m)
    PROVE  \A x \in Deltas(f) : x[2] = m => f.kind = kind /\ x = <<f.day, m, 1>>
<1>1. f.kind \in {"commit", "pull", "review"}
  BY FactPoolAssumption
<1>2. CASE f.kind = "commit"
  <2>1. Deltas(f) = {<<f.day, "commits", 1>>, <<f.day, "additions", f.size>>,
                     <<f.day, "churn", f.churned>>, <<f.day, "significance", f.size>>}
    BY <1>2 DEF Deltas
  <2> QED BY <1>2, <2>1 DEF Counts
<1>3. CASE f.kind = "pull"
  <2> DEFINE b == <<f.merged, "prs_merged", 1>>
             B == IF f.merged = Never THEN {} ELSE {b}
  <2>1. Deltas(f) = {<<f.day, "prs_opened", 1>>} \cup B
    BY <1>3 DEF Deltas
  <2>2. \A x \in B : x[2] = "prs_merged"
    OBVIOUS
  <2> HIDE DEF B
  <2> QED BY <1>3, <2>1, <2>2 DEF Counts
<1>4. CASE f.kind = "review"
  <2>1. Deltas(f) = {<<f.day, "reviews", 1>>}
    BY <1>4 DEF Deltas
  <2> QED BY <1>4, <2>1 DEF Counts
<1> QED BY <1>1, <1>2, <1>3, <1>4

LEMMA CountedDelta ==
    ASSUME NEW f \in FactPool, NEW kind, NEW m, Counts(kind, m), f.kind = kind
    PROVE  <<f.day, m, 1>> \in Deltas(f)
<1>1. CASE f.kind = "commit"
  <2>1. Deltas(f) = {<<f.day, "commits", 1>>, <<f.day, "additions", f.size>>,
                     <<f.day, "churn", f.churned>>, <<f.day, "significance", f.size>>}
    BY <1>1 DEF Deltas
  <2> QED BY <1>1, <2>1 DEF Counts
<1>2. CASE f.kind = "pull"
  <2> DEFINE b == <<f.merged, "prs_merged", 1>>
             B == IF f.merged = Never THEN {} ELSE {b}
  <2>1. Deltas(f) = {<<f.day, "prs_opened", 1>>} \cup B
    BY <1>2 DEF Deltas
  <2> HIDE DEF B
  <2> QED BY <1>2, <2>1 DEF Counts
<1>3. CASE f.kind = "review"
  <2>1. Deltas(f) = {<<f.day, "reviews", 1>>}
    BY <1>3 DEF Deltas
  <2> QED BY <1>3, <2>1 DEF Counts
<1> QED BY <1>1, <1>2, <1>3 DEF Counts

(* A row of a kind's count counts the facts behind it.                     *)
FactKey(d, f) == [person |-> d.owner[f.by], repo |-> f.repo, day |-> f.day]

LEMMA FactCount ==
    ASSUME NEW d, Sound(d), NEW kind, NEW m \in Metrics, Counts(kind, m), NEW X \in SUBSET d.rows,
           NEW T, \A f : f \in T <=> /\ f \in d.facts /\ f.kind = kind
                                     /\ \E x \in X : KeyOf(x) = FactKey(d, f)
    PROVE  Worth(d, X, m) = Cardinality(T) /\ IsFiniteSet(T)
<1> DEFINE F == d.facts
           V == Values(F)
           S == Behinds(d, X, m)
           h == On(V, S)
           g == [e \in S |-> e[1]]
<1>1. F \in Facts /\ IsFiniteSet(F) /\ d.owner \in Owners
  BY DEF Sound, Databases, Facts
<1>2. IsFiniteSet(T)
  <2>1. T \in SUBSET F
    OBVIOUS
  <2> HIDE DEF F
  <2> QED BY <1>1, <2>1, FS_Subset
<1>3. S \subseteq Entries(F) /\ IsFiniteSet(S) /\ V \in [Entries(F) -> Int]
  <2>1. S \subseteq Entries(F)
    BY DEF Behinds
  <2> HIDE DEF S, F, V
  <2>2. IsFiniteSet(Entries(F)) /\ V \in [Entries(F) -> Int]
    BY <1>1, EntriesTyped, ValuesTyped DEF V
  <2> QED BY <2>1, <2>2, FS_Subset
<1>4. ASSUME NEW e \in S
      PROVE  /\ e[1] \in T /\ e = <<e[1], <<e[1].day, m, 1>>>>
  <2>1. e \in Entries(F) /\ e[2][2] = m /\ \E x \in X : KeyOf(x) = RowKey(d.owner, e)
    BY DEF Behinds
  <2>2. e = <<e[1], e[2]>> /\ e[1] \in F /\ e[1] \in FactPool /\ e[2] \in Deltas(e[1])
    <3> HIDE DEF F, S
    <3> QED BY <1>1, <2>1, EntriesTyped
  <2>3. e[1].kind = kind /\ e[2] = <<e[1].day, m, 1>>
    BY <2>1, <2>2, CountDelta
  <2>4. RowKey(d.owner, e) = FactKey(d, e[1])
    BY <2>3 DEF RowKey, FactKey
  <2> QED BY <2>1, <2>2, <2>3, <2>4
<1>5. ASSUME NEW f \in T
      PROVE  \E e \in S : e[1] = f
  <2> DEFINE e == <<f, <<f.day, m, 1>>>>
  <2>1. f \in F /\ f.kind = kind /\ f \in FactPool
    BY <1>1 DEF Facts
  <2>2. e \in Entries(F)
    <3>1. <<f.day, m, 1>> \in Deltas(f)
      BY <2>1, CountedDelta
    <3> QED BY <2>1, <3>1 DEF Entries
  <2>3. RowKey(d.owner, e) = FactKey(d, f)
    BY DEF RowKey, FactKey
  <2>4. e \in S
    BY <2>2, <2>3 DEF Behinds
  <2> QED BY <2>4
<1>6. Cardinality(S) = Cardinality(T)
  <2>1. g \in [S -> T] /\ \A e \in S : g[e] = e[1]
    <3> HIDE DEF S
    <3> QED BY <1>4
  <2>2. \A x \in S : \A y \in S : g[x] = g[y] => x = y
    <3> HIDE DEF S, g
    <3> QED BY <1>4, <2>1
  <2>3. \A t \in T : \E x \in S : g[x] = t
    <3> HIDE DEF S, g
    <3> QED BY <1>5, <2>1
  <2> HIDE DEF S, g
  <2> QED BY <1>3, <2>1, <2>2, <2>3, OneToOne
<1>7. h \in [S -> Int] /\ \A e \in S : h[e] = 1
  <2>1. h \in [S -> Int] /\ \A e \in S : h[e] = V[e]
    <3> HIDE DEF S, V
    <3> QED BY <1>3 DEF On
  <2>2. \A e \in S : V[e] = e[2][3]
    <3> HIDE DEF S
    <3> QED BY <1>3 DEF Values
  <2> HIDE DEF S, V, h
  <2>3. \A e \in S : e[2][3] = 1
    BY <1>4
  <2> QED BY <2>1, <2>2, <2>3
<1>8. SumOver(h) = Cardinality(S)
  <2> HIDE DEF S, h
  <2> QED BY <1>3, <1>7, SumOnes
<1>9. Worth(d, X, m) = SumOver(h)
  BY WorthEntries
<1> QED BY <1>2, <1>6, <1>8, <1>9

(* The drill-downs list what a person's line for a repository counts.      *)
LEMMA DrilledDown ==
    ASSUME NEW d, Sound(d), NEW s \in Scopes, NEW r \in Repos,
           NEW p \in DOMAIN PersonLeaderboard(d, Query(s, {}, {r}))
    PROVE  LET board == PersonLeaderboard(d, Query(s, {}, {r}))
           IN  /\ board[p]["commits"] = Cardinality(CommitRows(d, p, r, s))
               /\ board[p]["prs_opened"] = Cardinality(PrRows(d, p, r, s))
<1> DEFINE q == Query(s, {}, {r})
           board == PersonLeaderboard(d, q)
           X == PersonRows(d, q, p)
           T(kind) == Behind(d, kind, p, r, s)
<1>1. X # {} /\ X \in SUBSET d.rows
      /\ \A m \in Metrics : board[p][m] = Worth(d, X, m)
  <2>1. p \in DOMAIN board
    OBVIOUS
  <2> HIDE DEF q
  <2>2. X # {} /\ board[p] = [m \in Metrics |-> Worth(d, X, m)]
    BY <2>1, PersonLine
  <2>3. X \in SUBSET d.rows
    BY CountedRows DEF PersonRows
  <2> HIDE DEF board, X
  <2> QED BY <2>2, <2>3
<1>2. ASSUME NEW x \in d.rows
      PROVE  x \in X <=> x.person = p /\ x.repo = r /\ s.start <= x.day /\ x.day < s.end
  <2>1. PICK y \in X : TRUE
    BY <1>1
  <2>2. /\ y.person = p /\ y.repo = r /\ r \in d.included /\ InScope(s.orgs, r)
        /\ PersonAllowed(d, OrgOf[r], p)
    BY <2>1 DEF PersonRows, Counted, BaseRollup, Query
  <2> QED BY <2>2 DEF PersonRows, Counted, BaseRollup, Query
<1>3. ASSUME NEW f \in d.facts, NEW kind, NEW m, Counts(kind, m), f.kind = kind
      PROVE  (\E x \in X : KeyOf(x) = FactKey(d, f)) <=> f \in T(kind)
  <2>1. /\ d.facts \in Facts /\ d.owner \in Owners /\ d.rows = MergeDeltas(d.facts, d.owner)
        /\ f \in FactPool
    BY DEF Sound, Databases, Facts
  <2> DEFINE e == <<f, <<f.day, m, 1>>>>
  <2>2. e \in Entries(d.facts)
    <3>1. <<f.day, m, 1>> \in Deltas(f)
      BY <1>3, <2>1, CountedDelta
    <3> QED BY <3>1 DEF Entries
  <2>3. RowKey(d.owner, e) = FactKey(d, f)
    BY DEF RowKey, FactKey
  <2>4. \E x \in d.rows : KeyOf(x) = FactKey(d, f)
    <3> HIDE DEF e
    <3> QED BY <2>1, <2>2, <2>3, RowExists
  <2>5. \A x : KeyOf(x) = FactKey(d, f) =>
                 x.person = d.owner[f.by] /\ x.repo = f.repo /\ x.day = f.day
    BY DEF KeyOf, FactKey
  <2>6. f \in T(kind) <=> /\ f.repo = r /\ d.owner[f.by] = p
                          /\ s.start <= f.day /\ f.day < s.end
    BY <1>3 DEF Behind
  <2> HIDE DEF X, T
  <2> QED BY <1>1, <1>2, <2>4, <2>5, <2>6
<1>4. ASSUME NEW kind, NEW m \in Metrics, Counts(kind, m)
      PROVE  board[p][m] = Cardinality(T(kind))
  <2>1. \A f : f \in T(kind) => f \in d.facts /\ f.kind = kind
    BY DEF Behind
  <2>2. \A f : f \in T(kind) <=> /\ f \in d.facts /\ f.kind = kind
                                 /\ \E x \in X : KeyOf(x) = FactKey(d, f)
    <3> HIDE DEF X, T
    <3> QED BY <1>3, <1>4, <2>1
  <2> HIDE DEF X, T, board
  <2>3. Worth(d, X, m) = Cardinality(T(kind))
    BY <1>1, <1>4, <2>2, FactCount
  <2> QED BY <1>1, <2>3
<1>5. /\ board[p]["commits"] = Cardinality(T("commit"))
      /\ board[p]["prs_opened"] = Cardinality(T("pull"))
  <2>1. /\ Counts("commit", "commits") /\ Counts("pull", "prs_opened")
        /\ "commits" \in Metrics /\ "prs_opened" \in Metrics
    BY DEF Counts, Metrics
  <2> HIDE DEF board, T
  <2> QED BY <1>4, <2>1
<1> QED BY <1>5 DEF CommitRows, PrRows

----------------------------------------------------------------------------
(* Weeks and charts.                                                       *)

(* A day is in one week.                                                   *)
LEMMA WeekOfDay ==
    ASSUME NEW day \in Int
    PROVE  /\ WeekOf(day) \in Int /\ WeekOf(day) <= day /\ day < WeekOf(day) + DaysPerWeek
           /\ WeekOf(day) = DaysPerWeek * (day \div DaysPerWeek)
           /\ WeekOf(day) % DaysPerWeek = 0
<1>1. DaysPerWeek \in Nat /\ DaysPerWeek > 0
  BY StatisticsAssumption
<1>2. /\ day % DaysPerWeek \in Int /\ 0 <= day % DaysPerWeek /\ day % DaysPerWeek < DaysPerWeek
      /\ day \div DaysPerWeek \in Int
      /\ day = DaysPerWeek * (day \div DaysPerWeek) + (day % DaysPerWeek)
  BY <1>1
<1>3. WeekOf(day) = DaysPerWeek * (day \div DaysPerWeek)
  <2> DEFINE k == day \div DaysPerWeek
             r == day % DaysPerWeek
  <2>1. WeekOf(day) = day - r
    BY DEF WeekOf
  <2>2. r \in Int /\ k \in Int /\ day = DaysPerWeek * k + r
    BY <1>2
  <2> HIDE DEF k, r
  <2>3. DaysPerWeek * k \in Int
    BY <1>1, <2>2
  <2>4. WeekOf(day) = DaysPerWeek * k
    BY <2>1, <2>2, <2>3
  <2> QED BY <2>4 DEF k
<1>4. (DaysPerWeek * (day \div DaysPerWeek)) % DaysPerWeek = 0
  <2> DEFINE k == day \div DaysPerWeek
  <2>1. k \in Int
    BY <1>2
  <2> HIDE DEF k
  <2>2. (DaysPerWeek * k) % DaysPerWeek = 0
    BY <1>1, <2>1, SMTT(30)
  <2> QED BY <2>2 DEF k
<1> QED BY <1>1, <1>2, <1>3, <1>4 DEF WeekOf

LEMMA WeeksFollow ==
    ASSUME NEW a \in Int, NEW b \in Int, a <= b
    PROVE  WeekOf(a) <= WeekOf(b)
<1>1. DaysPerWeek \in Nat /\ DaysPerWeek > 0
  BY StatisticsAssumption
<1> DEFINE i == a \div DaysPerWeek
           j == b \div DaysPerWeek
<1>2. i \in Int /\ j \in Int
  BY <1>1
<1>3. /\ WeekOf(a) = DaysPerWeek * i /\ WeekOf(b) = DaysPerWeek * j
      /\ WeekOf(a) <= a /\ b < WeekOf(b) + DaysPerWeek
  BY WeekOfDay
<1> HIDE DEF i, j
<1>4. DaysPerWeek * i < DaysPerWeek * (j + 1)
  BY <1>1, <1>2, <1>3
<1>5. i < j + 1
  <2> SUFFICES ASSUME i >= j + 1 PROVE FALSE
    BY <1>2
  <2>1. DaysPerWeek * i >= DaysPerWeek * (j + 1)
    BY <1>1, <1>2
  <2> QED BY <1>1, <1>2, <1>4, <2>1
<1>6. DaysPerWeek * i <= DaysPerWeek * j
  BY <1>1, <1>2, <1>5
<1> QED BY <1>3, <1>6

LEMMA WeeksHold ==
    ASSUME NEW s \in Scopes
    PROVE  /\ IsFiniteSet(Weeks(s)) /\ Weeks(s) \subseteq Int
           /\ \A day \in Int : s.start <= day /\ day < s.end => WeekOf(day) \in Weeks(s)
<1>1. s.start \in Int /\ s.end \in Int
  BY HalvesTyped
<1>2. WeekOf(s.start) \in Int /\ s.end - 1 \in Int
  BY <1>1, WeekOfDay
<1>3. IsFiniteSet(WeekOf(s.start)..(s.end - 1))
  BY <1>2, FS_Interval
<1>4. Weeks(s) \subseteq WeekOf(s.start)..(s.end - 1)
  BY DEF Weeks
<1>5. IsFiniteSet(Weeks(s)) /\ Weeks(s) \subseteq Int
  <2> DEFINE W == Weeks(s)
             I == WeekOf(s.start)..(s.end - 1)
  <2>1. I \subseteq Int
    BY <1>2
  <2> HIDE DEF W, I
  <2>2. IsFiniteSet(W) /\ W \subseteq Int
    BY <1>3, <1>4, <2>1, FS_Subset DEF W, I
  <2> QED BY <2>2 DEF W
<1>6. ASSUME NEW day \in Int, s.start <= day, day < s.end
      PROVE  WeekOf(day) \in Weeks(s)
  <2>1. WeekOf(s.start) <= WeekOf(day)
    BY <1>1, <1>6, WeeksFollow
  <2>2. WeekOf(day) \in Int /\ WeekOf(day) <= day /\ WeekOf(day) % DaysPerWeek = 0
    BY WeekOfDay
  <2> DEFINE w == WeekOf(day)
             v == WeekOf(s.start)
  <2> HIDE DEF w, v
  <2>3. w \in v..(s.end - 1)
    BY <1>1, <1>2, <1>6, <2>1, <2>2 DEF w, v
  <2>4. w % DaysPerWeek = 0
    BY <2>2 DEF w
  <2> QED BY <2>3, <2>4 DEF w, v, Weeks
<1> QED BY <1>5, <1>6

(* A chart of some rows, week by week.                                     *)
WeekRows(X, w) == {x \in X : WeekOf(x.day) = w}
Chart(d, s, X, m) == [w \in Weeks(s) |-> Worth(d, WeekRows(X, w), m)]
InPeriod(s, X) == \A x \in X : x.day \in Int /\ s.start <= x.day /\ x.day < s.end

LEMMA ChartSum ==
    ASSUME NEW d, Sound(d), NEW s \in Scopes, NEW m \in Metrics, NEW X \in SUBSET d.rows,
           InPeriod(s, X)
    PROVE  SumOver(Chart(d, s, X, m)) = Worth(d, X, m)
<1> DEFINE K == Weeks(s)
           g == Chart(d, s, X, m)
           key == [x \in X |-> WeekOf(x.day)]
<1>1. IsFiniteSet(K) /\ \A x \in X : key[x] \in K
  BY WeeksHold DEF InPeriod
<1>2. \A w : WeekRows(X, w) = {x \in X : key[x] = w}
  BY DEF WeekRows
<1>3. DOMAIN g = K /\ g = [k \in K |-> g[k]]
  BY DEF Chart
<1>4. \A k \in K : g[k] = Worth(d, {x \in X : key[x] = k}, m)
  BY <1>2 DEF Chart
<1> HIDE DEF K, g, key
<1>5. SumOver(g) = Worth(d, X, m)
  BY <1>1, <1>3, <1>4, GroupWorth
<1> QED BY <1>5 DEF g

(* What a chart shows of an entity are the entity's rows.                  *)
LEMMA SeriesOf ==
    ASSUME NEW d, Sound(d), NEW s \in Scopes, NEW m \in Metrics, NEW X \in SUBSET d.rows,
           NEW weekly, NEW e, e \in DOMAIN weekly <=> X # {},
           e \in DOMAIN weekly => weekly[e] = [w \in {WeekOf(x.day) : x \in X} |->
                                                 SumOf(WeekRows(X, w))]
    PROVE  Series(weekly, e, s, m) = Chart(d, s, X, m)
<1> SUFFICES ASSUME NEW w \in Weeks(s)
             PROVE  At(At(weekly, e, <<>>), w, Zero)[m] = Worth(d, WeekRows(X, w), m)
  BY DEF Series, Chart
<1>1. WeekRows(X, w) \in SUBSET d.rows
  BY DEF WeekRows
<1>2. Zero[m] = 0
  BY DEF Zero
<1>3. CASE WeekRows(X, w) = {}
  <2>1. Worth(d, WeekRows(X, w), m) = 0
    BY <1>1, <1>3, WorthNat
  <2>2. w \notin {WeekOf(x.day) : x \in X}
    BY <1>3 DEF WeekRows
  <2>3. w \notin DOMAIN At(weekly, e, <<>>)
    BY <2>2 DEF At
  <2> QED BY <1>2, <2>1, <2>3 DEF At
<1>4. CASE WeekRows(X, w) # {}
  <2>1. w \in {WeekOf(x.day) : x \in X} /\ X # {}
    BY <1>4 DEF WeekRows
  <2>2. At(weekly, e, <<>>) = [v \in {WeekOf(x.day) : x \in X} |-> SumOf(WeekRows(X, v))]
    BY <2>1 DEF At
  <2>3. At(At(weekly, e, <<>>), w, Zero) = SumOf(WeekRows(X, w))
    BY <2>1, <2>2 DEF At
  <2>4. SumOf(WeekRows(X, w)) = [k \in Metrics |-> Worth(d, WeekRows(X, w), k)]
    BY <1>1, SumOfWorth
  <2> QED BY <2>3, <2>4
<1> QED BY <1>3, <1>4

LEMMA PersonChart ==
    ASSUME NEW d, Sound(d), NEW s \in Scopes, NEW m \in Metrics, NEW q, NEW p
    PROVE  Series(WeeklyByEntity(d, q, "person"), p, s, m) = Chart(d, s, PersonRows(d, q, p), m)
<1> DEFINE X == PersonRows(d, q, p)
           weekly == WeeklyByEntity(d, q, "person")
<1>1. X \in SUBSET d.rows
  BY CountedRows DEF PersonRows
<1>2. DOMAIN weekly = {x.person : x \in Counted(d, q)}
  BY DEF WeeklyByEntity
<1>3. p \in DOMAIN weekly <=> X # {}
  BY <1>2 DEF PersonRows
<1>4. p \in DOMAIN weekly => weekly[p] = [w \in {WeekOf(x.day) : x \in X} |-> SumOf(WeekRows(X, w))]
  BY <1>2 DEF WeeklyByEntity, PersonRows, WeekRows
<1> HIDE DEF X, weekly
<1>5. Series(weekly, p, s, m) = Chart(d, s, X, m)
  BY <1>1, <1>3, <1>4, SeriesOf
<1> QED BY <1>5 DEF X, weekly

LEMMA RepoChart ==
    ASSUME NEW d, Sound(d), NEW s \in Scopes, NEW m \in Metrics, NEW q, NEW r
    PROVE  Series(WeeklyByEntity(d, q, "repo"), r, s, m) = Chart(d, s, RepoRows(d, q, r), m)
<1> DEFINE X == RepoRows(d, q, r)
           weekly == WeeklyByEntity(d, q, "repo")
<1>1. X \in SUBSET d.rows
  BY CountedRows DEF RepoRows
<1>2. DOMAIN weekly = {x.repo : x \in Counted(d, q)}
  BY DEF WeeklyByEntity
<1>3. r \in DOMAIN weekly <=> X # {}
  BY <1>2 DEF RepoRows
<1>4. r \in DOMAIN weekly => weekly[r] = [w \in {WeekOf(x.day) : x \in X} |-> SumOf(WeekRows(X, w))]
  BY <1>2 DEF WeeklyByEntity, RepoRows, WeekRows
<1> HIDE DEF X, weekly
<1>5. Series(weekly, r, s, m) = Chart(d, s, X, m)
  BY <1>1, <1>3, <1>4, SeriesOf
<1> QED BY <1>5 DEF X, weekly

----------------------------------------------------------------------------
(* The rows in a scope, and of whom and of what.                           *)

All(d, s) == Counted(d, Query(s, {}, {}))
OfPerson(d, s, p) == {x \in All(d, s) : x.person = p}
OfRepo(d, s, r) == {x \in All(d, s) : x.repo = r}

LEMMA AllRows ==
    ASSUME NEW d, Sound(d), NEW s \in Scopes
    PROVE  /\ All(d, s) \in SUBSET d.rows /\ IsFiniteSet(All(d, s))
           /\ \A X \in SUBSET All(d, s) : InPeriod(s, X) /\ X \in SUBSET d.rows
           /\ \A x \in All(d, s) : x.person \in Persons /\ x.repo \in Repos /\ x.repo \in d.included
<1> DEFINE A == All(d, s)
           R == d.rows
<1>1. A \in SUBSET R
  BY CountedRows DEF All
<1>2. "commits" \in Metrics
  BY DEF Metrics
<1>3. IsFiniteSet(R) /\ R \subseteq RowType
  BY <1>2, NumbersTyped
<1>4. \A x \in A : s.start <= x.day /\ x.day < s.end /\ x.repo \in d.included
  BY DEF All, Counted, BaseRollup, Query
<1>5. \A x \in R : x.person \in Persons /\ x.repo \in Repos /\ x.day \in Int
  BY <1>3 DEF RowType
<1> HIDE DEF A, R
<1>6. IsFiniteSet(A)
  BY <1>1, <1>3, FS_Subset
<1>7. \A X \in SUBSET A : InPeriod(s, X)
  BY <1>1, <1>4, <1>5 DEF InPeriod
<1>8. \A X \in SUBSET A : X \in SUBSET R
  BY <1>1
<1> QED BY <1>1, <1>4, <1>5, <1>6, <1>7, <1>8 DEF A, R

LEMMA QueryRows ==
    ASSUME NEW d, NEW s, NEW P, NEW R
    PROVE  Counted(d, Query(s, P, R)) = {x \in All(d, s) : /\ P # {} => x.person \in P
                                                           /\ R # {} => x.repo \in R}
BY DEF All, Counted, BaseRollup, Query

(* Asked for everyone or everything by name, a query counts what it counts *)
(* unasked.                                                                *)
LEMMA EveryoneNamed ==
    ASSUME NEW d, Sound(d), NEW s \in Scopes
    PROVE  /\ \A P : \A p \in P : PersonRows(d, Query(s, P, {}), p) = OfPerson(d, s, p)
           /\ \A R : \A r \in R : RepoRows(d, Query(s, {}, R), r) = OfRepo(d, s, r)
           /\ \A p : PersonRows(d, Query(s, {}, {}), p) = OfPerson(d, s, p)
           /\ \A r : RepoRows(d, Query(s, {}, {}), r) = OfRepo(d, s, r)
<1>1. ASSUME NEW P, NEW p \in P PROVE PersonRows(d, Query(s, P, {}), p) = OfPerson(d, s, p)
  BY QueryRows DEF PersonRows, OfPerson
<1>2. ASSUME NEW R, NEW r \in R PROVE RepoRows(d, Query(s, {}, R), r) = OfRepo(d, s, r)
  BY QueryRows DEF RepoRows, OfRepo
<1>3. ASSUME NEW p PROVE PersonRows(d, Query(s, {}, {}), p) = OfPerson(d, s, p)
  BY DEF PersonRows, OfPerson, All
<1>4. ASSUME NEW r PROVE RepoRows(d, Query(s, {}, {}), r) = OfRepo(d, s, r)
  BY DEF RepoRows, OfRepo, All
<1> QED BY <1>1, <1>2, <1>3, <1>4

(* Persons, repositories and days have together what the scope has.        *)
LEMMA WholeOfPersons ==
    ASSUME NEW d, Sound(d), NEW s \in Scopes, NEW m \in Metrics, NEW g,
           DOMAIN g = Persons, g = [p \in Persons |-> g[p]],
           \A p \in Persons : g[p] = Worth(d, OfPerson(d, s, p), m)
    PROVE  SumOver(g) = Worth(d, All(d, s), m)
<1> DEFINE X == All(d, s)
           key == [x \in X |-> x.person]
           K == Persons
<1>1. X \in SUBSET d.rows /\ \A x \in X : key[x] \in K
  BY AllRows
<1>2. IsFiniteSet(K)
  BY StatisticsAssumption DEF Persons
<1>3. \A p \in K : g[p] = Worth(d, {x \in X : key[x] = p}, m)
  <2>1. \A p : OfPerson(d, s, p) = {x \in X : key[x] = p}
    BY DEF OfPerson
  <2> QED BY <2>1
<1>4. DOMAIN g = K /\ g = [k \in K |-> g[k]]
  OBVIOUS
<1> HIDE DEF X, key, K
<1>5. SumOver(g) = Worth(d, X, m)
  BY <1>1, <1>2, <1>3, <1>4, GroupWorth
<1> QED BY <1>5 DEF X

LEMMA WholeOfRepos ==
    ASSUME NEW d, Sound(d), NEW s \in Scopes, NEW m \in Metrics, NEW g,
           DOMAIN g = Repos, g = [r \in Repos |-> g[r]],
           \A r \in Repos : g[r] = Worth(d, OfRepo(d, s, r), m)
    PROVE  SumOver(g) = Worth(d, All(d, s), m)
<1> DEFINE X == All(d, s)
           key == [x \in X |-> x.repo]
<1>1. X \in SUBSET d.rows /\ \A x \in X : key[x] \in Repos
  BY AllRows
<1>2. IsFiniteSet(Repos)
  BY StatisticsAssumption
<1>3. \A r \in Repos : g[r] = Worth(d, {x \in X : key[x] = r}, m)
  <2>1. \A r : OfRepo(d, s, r) = {x \in X : key[x] = r}
    BY DEF OfRepo
  <2> QED BY <2>1
<1> HIDE DEF X, key
<1>5. SumOver(g) = Worth(d, X, m)
  BY <1>1, <1>2, <1>3, GroupWorth
<1> QED BY <1>5 DEF X

LEMMA WholeOfDays ==
    ASSUME NEW d, Sound(d), NEW s \in Scopes, NEW m \in Metrics
    PROVE  BoardSum(Timeseries(d, Query(s, {}, {})), m) = Worth(d, All(d, s), m)
<1> DEFINE X == All(d, s)
           series == Timeseries(d, Query(s, {}, {}))
           K == DOMAIN series
           key == [x \in X |-> x.day]
           g == [k \in K |-> series[k][m]]
<1>1. X \in SUBSET d.rows /\ IsFiniteSet(X)
  BY AllRows
<1>2. K = {key[x] : x \in X}
  BY DEF Timeseries, All
<1>3. IsFiniteSet(K) /\ \A x \in X : key[x] \in K
  <2> HIDE DEF X, key, K
  <2> QED BY <1>1, <1>2, ImageFinite
<1>4. ASSUME NEW k \in K
      PROVE  g[k] = Worth(d, {x \in X : key[x] = k}, m)
  <2> DEFINE Y == {x \in X : key[x] = k}
  <2>1. series[k] = SumOf(Y)
    BY DEF Timeseries, All
  <2>2. Y \in SUBSET d.rows
    BY <1>1
  <2> HIDE DEF Y, series
  <2>3. SumOf(Y) = [n \in Metrics |-> Worth(d, Y, n)]
    BY <2>2, SumOfWorth
  <2> QED BY <2>1, <2>3 DEF Y
<1>5. DOMAIN g = K /\ g = [k \in K |-> g[k]]
  OBVIOUS
<1>6. BoardSum(series, m) = SumOver(g)
  BY DEF BoardSum
<1> HIDE DEF X, key, K, g, series
<1>7. SumOver(g) = Worth(d, X, m)
  BY <1>1, <1>3, <1>4, <1>5, GroupWorth
<1> QED BY <1>6, <1>7 DEF X, series

(* The blocks over everyone and everything.                                *)
LEMMA OverAll ==
    ASSUME NEW op, NEW entity, NEW P, NEW R, NEW m
    PROVE  LET b == Over(op, entity, P, R, m)
           IN  /\ op \in {"rank", "evolution", "volatility"} =>
                    b.entity = entity /\ b.people = P /\ b.repos = R /\ b.metric = m
               /\ op \in {"review_graph", "compare_people"} => b.people = P
               /\ op = "compare_repos" => b.repos = R
               /\ op = "spotlight" => b.entity = entity /\ "category" \in DOMAIN b
               /\ DOMAIN b = Slots \cup {"op"}
<1> DEFINE b == Over(op, entity, P, R, m)
           form == [slot \in Slots |-> CASE slot = "entity" -> entity [] slot = "people" -> P
                                         [] slot = "repos" -> R [] slot = "metric" -> m
                                         [] OTHER -> Unset(slot)]
<1>1. b = BlockOf(op, form)
  BY DEF Over
<1>2. /\ {"entity", "people", "repos", "metric", "category"} \subseteq Slots
      /\ "op" \notin {"entity", "people", "repos", "metric"}
  BY DEF Slots, Pickers, Selects, Menus
<1>3. form["entity"] = entity /\ form["people"] = P /\ form["repos"] = R /\ form["metric"] = m
  BY <1>2
<1> HIDE DEF form
<1>4. \A slot \in Ops[op] \cap Slots : slot # "op" => b[slot] = form[slot]
  <2> SUFFICES ASSUME NEW slot \in Ops[op] \cap Slots, slot # "op" PROVE b[slot] = form[slot]
    OBVIOUS
  <2>1. slot \in Slots \cup {"op"} /\ slot \in Ops[op]
    OBVIOUS
  <2> QED BY <1>1, <2>1 DEF BlockOf
<1>5. DOMAIN b = Slots \cup {"op"}
  BY <1>1 DEF BlockOf
<1>6. op \in {"rank", "evolution", "volatility"} => Ops[op] = {"entity", "people", "repos", "metric"}
  BY DEF Ops
<1>7. op \in {"review_graph", "compare_people"} => Ops[op] = {"people"}
  BY DEF Ops
<1>8. op = "compare_repos" => Ops[op] = {"repos"}
  BY DEF Ops
<1>9. op = "spotlight" => Ops[op] = {"entity", "category"}
  BY DEF Ops
<1> HIDE DEF b
<1>10. op \in {"rank", "evolution", "volatility"} =>
         b["entity"] = entity /\ b["people"] = P /\ b["repos"] = R /\ b["metric"] = m
  BY <1>2, <1>3, <1>4, <1>6
<1>11. op \in {"review_graph", "compare_people"} => b["people"] = P
  BY <1>2, <1>3, <1>4, <1>7
<1>12. op = "compare_repos" => b["repos"] = R
  BY <1>2, <1>3, <1>4, <1>8
<1>13. op = "spotlight" => b["entity"] = entity /\ "category" \in DOMAIN b
  BY <1>2, <1>3, <1>4, <1>5, <1>9
<1> QED BY <1>5, <1>10, <1>11, <1>12, <1>13 DEF b

(* A person's and a repository's numbers and charts in the scope.          *)
LEMMA PersonNumbers ==
    ASSUME NEW d, Sound(d), NEW s \in Scopes, NEW m \in Metrics, NEW P, NEW p \in P
    PROVE  /\ At(PersonLeaderboard(d, Query(s, P, {})), p, Zero)[m] = Worth(d, OfPerson(d, s, p), m)
           /\ Series(WeeklyByEntity(d, Query(s, P, {}), "person"), p, s, m)
                = Chart(d, s, OfPerson(d, s, p), m)
           /\ SumOver(Chart(d, s, OfPerson(d, s, p), m)) = Worth(d, OfPerson(d, s, p), m)
<1> DEFINE q == Query(s, P, {})
           X == PersonRows(d, q, p)
<1>1. X = OfPerson(d, s, p)
  BY EveryoneNamed
<1>2. X \in SUBSET d.rows /\ InPeriod(s, X)
  <2>1. X \in SUBSET All(d, s)
    BY <1>1 DEF OfPerson
  <2> QED BY <2>1, AllRows
<1>3. At(PersonLeaderboard(d, q), p, Zero) = [n \in Metrics |-> Worth(d, X, n)]
  <2> HIDE DEF q
  <2> QED BY PersonLine
<1>4. Series(WeeklyByEntity(d, q, "person"), p, s, m) = Chart(d, s, X, m)
  <2> HIDE DEF q
  <2> QED BY PersonChart
<1> HIDE DEF X, q
<1>5. SumOver(Chart(d, s, X, m)) = Worth(d, X, m)
  BY <1>2, ChartSum
<1>6. At(PersonLeaderboard(d, q), p, Zero)[m] = Worth(d, X, m)
  BY <1>3
<1> QED BY <1>1, <1>4, <1>5, <1>6 DEF q

LEMMA RepoNumbers ==
    ASSUME NEW d, Sound(d), NEW s \in Scopes, NEW m \in Metrics, NEW R, NEW r \in R
    PROVE  /\ At(RepoLeaderboard(d, Query(s, {}, R)), r, [n |-> Zero]).n[m]
                = Worth(d, OfRepo(d, s, r), m)
           /\ Series(WeeklyByEntity(d, Query(s, {}, R), "repo"), r, s, m)
                = Chart(d, s, OfRepo(d, s, r), m)
           /\ SumOver(Chart(d, s, OfRepo(d, s, r), m)) = Worth(d, OfRepo(d, s, r), m)
<1> DEFINE q == Query(s, {}, R)
           X == RepoRows(d, q, r)
<1>1. X = OfRepo(d, s, r)
  BY EveryoneNamed
<1>2. X \in SUBSET d.rows /\ InPeriod(s, X)
  <2>1. X \in SUBSET All(d, s)
    BY <1>1 DEF OfRepo
  <2> QED BY <2>1, AllRows
<1>3. At(RepoLeaderboard(d, q), r, [n |-> Zero]).n = [n \in Metrics |-> Worth(d, X, n)]
  <2> HIDE DEF q
  <2> QED BY RepoLine
<1>4. Series(WeeklyByEntity(d, q, "repo"), r, s, m) = Chart(d, s, X, m)
  <2> HIDE DEF q
  <2> QED BY RepoChart
<1> HIDE DEF X, q
<1>5. SumOver(Chart(d, s, X, m)) = Worth(d, X, m)
  BY <1>2, ChartSum
<1>6. At(RepoLeaderboard(d, q), r, [n |-> Zero]).n[m] = Worth(d, X, m)
  BY <1>3
<1> QED BY <1>1, <1>4, <1>5, <1>6 DEF q

(* Rankings, charts, totals and days add up.                               *)
LEMMA ChartsSum ==
    ASSUME NEW d, Sound(d), NEW s \in Scopes, NEW m \in {"significance", "reviews"}
    PROVE  LET ranked == Rank(d, s, Over("rank", "people", Persons, {}, m))
               rankedRepos == Rank(d, s, Over("rank", "repos", {}, Repos, m))
               evolution == Evolution(d, s, Over("rank", "people", Persons, {}, m))
               evolutionR == Evolution(d, s, Over("rank", "repos", {}, Repos, m))
               totals == Totals(d, Query(s, {}, {}))
           IN  /\ \A p \in Persons : SumOver(evolution[p]) = ranked[p]
               /\ \A r \in Repos : SumOver(evolutionR[r]) = rankedRepos[r]
               /\ SumOver(ranked) = totals.n[m]
               /\ SumOver(rankedRepos) = totals.n[m]
               /\ BoardSum(Timeseries(d, Query(s, {}, {})), m) = totals.n[m]
<1> DEFINE b == Over("rank", "people", Persons, {}, m)
           c == Over("rank", "repos", {}, Repos, m)
           ranked == Rank(d, s, b)
           rankedRepos == Rank(d, s, c)
           evolution == Evolution(d, s, b)
           evolutionR == Evolution(d, s, c)
           totals == Totals(d, Query(s, {}, {}))
<1>0. m \in Metrics
  BY DEF Metrics
<1>1. b.entity = "people" /\ b.people = Persons /\ b.repos = {} /\ b.metric = m
  <2> DEFINE none == {}
             P == Persons
  <2> HIDE DEF none, P
  <2>1. LET x == Over("rank", "people", P, none, m)
        IN  x.entity = "people" /\ x.people = P /\ x.repos = none /\ x.metric = m
    BY OverAll
  <2> QED BY <2>1 DEF none, P
<1>2. c.entity = "repos" /\ c.people = {} /\ c.repos = Repos /\ c.metric = m
  <2> DEFINE none == {}
  <2> HIDE DEF none
  <2>1. LET x == Over("rank", "repos", none, Repos, m)
        IN  x.entity = "repos" /\ x.people = none /\ x.repos = Repos /\ x.metric = m
    BY OverAll
  <2> QED BY <2>1 DEF none
<1> HIDE DEF b, c
<1>3. ranked = [p \in Persons |-> At(PersonLeaderboard(d, Query(s, Persons, {})), p, Zero)[m]]
  BY <1>1 DEF Rank, Subjects
<1>4. evolution = [p \in Persons |->
                     Series(WeeklyByEntity(d, Query(s, Persons, {}), "person"), p, s, m)]
  BY <1>1 DEF Evolution, Subjects
<1>5. rankedRepos = [r \in Repos |-> At(RepoLeaderboard(d, Query(s, {}, Repos)), r, [n |-> Zero]).n[m]]
  BY <1>2 DEF Rank, Subjects
<1>6. evolutionR = [r \in Repos |->
                      Series(WeeklyByEntity(d, Query(s, {}, Repos), "repo"), r, s, m)]
  BY <1>2 DEF Evolution, Subjects
<1>7. totals.n[m] = Worth(d, All(d, s), m)
  <2> DEFINE q == Query(s, {}, {})
  <2> HIDE DEF q
  <2>1. Totals(d, q).n = [k \in Metrics |-> Worth(d, Counted(d, q), k)]
    BY TotalWorth
  <2>2. Totals(d, q).n[m] = Worth(d, Counted(d, q), m)
    BY <1>0, <2>1
  <2> QED BY <2>2 DEF q, All
<1>8. \A p \in Persons : /\ ranked[p] = Worth(d, OfPerson(d, s, p), m)
                         /\ SumOver(evolution[p]) = ranked[p]
  <2> SUFFICES ASSUME NEW p \in Persons
               PROVE  /\ ranked[p] = Worth(d, OfPerson(d, s, p), m)
                      /\ SumOver(evolution[p]) = ranked[p]
    OBVIOUS
  <2> DEFINE P == Persons
  <2>1. ranked[p] = At(PersonLeaderboard(d, Query(s, P, {})), p, Zero)[m]
    BY <1>3
  <2>2. evolution[p] = Series(WeeklyByEntity(d, Query(s, P, {}), "person"), p, s, m)
    BY <1>4
  <2> HIDE DEF P, ranked, evolution
  <2>3. /\ At(PersonLeaderboard(d, Query(s, P, {})), p, Zero)[m] = Worth(d, OfPerson(d, s, p), m)
        /\ Series(WeeklyByEntity(d, Query(s, P, {}), "person"), p, s, m)
             = Chart(d, s, OfPerson(d, s, p), m)
        /\ SumOver(Chart(d, s, OfPerson(d, s, p), m)) = Worth(d, OfPerson(d, s, p), m)
    BY <1>0, PersonNumbers DEF P
  <2> QED BY <2>1, <2>2, <2>3
<1>9. \A r \in Repos : /\ rankedRepos[r] = Worth(d, OfRepo(d, s, r), m)
                       /\ SumOver(evolutionR[r]) = rankedRepos[r]
  <2> SUFFICES ASSUME NEW r \in Repos
               PROVE  /\ rankedRepos[r] = Worth(d, OfRepo(d, s, r), m)
                      /\ SumOver(evolutionR[r]) = rankedRepos[r]
    OBVIOUS
  <2>1. rankedRepos[r] = At(RepoLeaderboard(d, Query(s, {}, Repos)), r, [n |-> Zero]).n[m]
    BY <1>5
  <2>2. evolutionR[r] = Series(WeeklyByEntity(d, Query(s, {}, Repos), "repo"), r, s, m)
    BY <1>6
  <2> HIDE DEF rankedRepos, evolutionR
  <2>3. /\ At(RepoLeaderboard(d, Query(s, {}, Repos)), r, [n |-> Zero]).n[m] = Worth(d, OfRepo(d, s, r), m)
        /\ Series(WeeklyByEntity(d, Query(s, {}, Repos), "repo"), r, s, m)
             = Chart(d, s, OfRepo(d, s, r), m)
        /\ SumOver(Chart(d, s, OfRepo(d, s, r), m)) = Worth(d, OfRepo(d, s, r), m)
    BY <1>0, RepoNumbers
  <2> QED BY <2>1, <2>2, <2>3
<1>10. /\ DOMAIN ranked = Persons /\ ranked = [p \in Persons |-> ranked[p]]
       /\ DOMAIN rankedRepos = Repos /\ rankedRepos = [r \in Repos |-> rankedRepos[r]]
  BY <1>3, <1>5
<1> HIDE DEF ranked, rankedRepos, evolution, evolutionR
<1>11. SumOver(ranked) = Worth(d, All(d, s), m)
  BY <1>0, <1>8, <1>10, WholeOfPersons
<1>12. SumOver(rankedRepos) = Worth(d, All(d, s), m)
  BY <1>0, <1>9, <1>10, WholeOfRepos
<1>13. BoardSum(Timeseries(d, Query(s, {}, {})), m) = Worth(d, All(d, s), m)
  BY <1>0, WholeOfDays
<1> QED BY <1>7, <1>8, <1>9, <1>11, <1>12, <1>13 DEF ranked, rankedRepos, evolution, evolutionR, b, c

(* What a person reviewed is what the graph shows of the person.           *)
LEMMA ReviewsSum ==
    ASSUME NEW d, Sound(d), NEW s \in Scopes, NEW p \in Persons,
           \A o \in Orgs : PersonAllowed(d, o, p)
    PROVE  At(PersonLeaderboard(d, Query(s, {}, {})), p, Zero)["reviews"]
             = SumOver([a \in Persons |->
                  IF a = p
                  THEN ReviewGraph(d, s, Over("review_graph", "", Persons, {}, "")).edges[<<p, p>>]
                  ELSE ReviewGraph(d, s, Over("review_graph", "", Persons, {}, "")).cells[<<p, a>>]])
<1> DEFINE m == "reviews"
           b == Over("review_graph", "", Persons, {}, "")
           graph == ReviewGraph(d, s, b)
           X == OfPerson(d, s, p)
           In(f) == /\ f.repo \in d.included /\ InScope(s.orgs, f.repo)
                    /\ s.start <= f.day /\ f.day < s.end
           T == {f \in d.facts : f.kind = "review" /\ In(f) /\ d.owner[f.by] = p}
           G(a) == {f \in T : d.owner[f.author] = a}
           g == [a \in Persons |-> IF a = p THEN graph.edges[<<p, p>>]
                                   ELSE graph.cells[<<p, a>>]]
<1>0. m \in Metrics /\ Counts("review", m)
  BY DEF Metrics, Counts
<1>1. /\ d.facts \in Facts /\ IsFiniteSet(d.facts) /\ d.owner \in Owners
      /\ d.rows = MergeDeltas(d.facts, d.owner) /\ \A f \in d.facts : f \in FactPool
  BY DEF Sound, Databases, Facts
<1>2. b.people = Persons
  <2> DEFINE none == {}
             blank == ""
             P == Persons
  <2> HIDE DEF none, blank, P
  <2>1. LET x == Over("review_graph", blank, P, none, blank)
        IN  "review_graph" \in {"review_graph", "compare_people"} => x.people = P
    BY OverAll
  <2>2. Over("review_graph", blank, P, none, blank).people = P
    BY <2>1
  <2> QED BY <2>2 DEF none, blank, P
<1>3. \A a \in Persons : g[a] = Cardinality(G(a))
  <2> SUFFICES ASSUME NEW a \in Persons PROVE g[a] = Cardinality(G(a))
    OBVIOUS
  <2> HIDE DEF b
  <2>1. <<p, a>> \in Persons \X Persons /\ <<p, a>>[1] = p /\ <<p, a>>[2] = a
    OBVIOUS
  <2>0. g[a] = ReviewPairs(d, s, b.people)[<<p, a>>]
    BY <1>2, <2>1 DEF ReviewGraph
  <2>2. g[a] = Cardinality({f \in d.facts :
          /\ f.kind = "review" /\ f.repo \in d.included
          /\ s.start <= f.day /\ f.day < s.end /\ InScope(s.orgs, f.repo)
          /\ d.owner[f.by] = <<p, a>>[1] /\ d.owner[f.author] = <<p, a>>[2]})
    BY <1>2, <2>0, <2>1 DEF ReviewPairs
  <2>3. {f \in d.facts :
          /\ f.kind = "review" /\ f.repo \in d.included
          /\ s.start <= f.day /\ f.day < s.end /\ InScope(s.orgs, f.repo)
          /\ d.owner[f.by] = <<p, a>>[1] /\ d.owner[f.author] = <<p, a>>[2]} = G(a)
    BY <2>1
  <2> QED BY <2>2, <2>3
<1>4. \A f \in d.facts : f.kind = "review" => d.owner[f.author] \in Persons
  BY <1>1, FactPoolAssumption DEF Owners, Persons
<1>5. X \in SUBSET d.rows
  <2>1. X \in SUBSET All(d, s)
    BY DEF OfPerson
  <2> QED BY <2>1, AllRows
<1>6. ASSUME NEW f \in d.facts, f.kind = "review"
      PROVE  (\E x \in X : KeyOf(x) = FactKey(d, f)) <=> f \in T
  <2> DEFINE e == <<f, <<f.day, m, 1>>>>
  <2>1. e \in Entries(d.facts)
    <3>1. <<f.day, m, 1>> \in Deltas(f)
      BY <1>0, <1>1, <1>6, CountedDelta
    <3> QED BY <3>1 DEF Entries
  <2>2. RowKey(d.owner, e) = FactKey(d, f)
    BY DEF RowKey, FactKey
  <2>3. PICK x \in d.rows : KeyOf(x) = FactKey(d, f)
    <3> HIDE DEF e
    <3> QED BY <1>1, <2>1, <2>2, RowExists
  <2>4. \A y : KeyOf(y) = FactKey(d, f) =>
                 y.person = d.owner[f.by] /\ y.repo = f.repo /\ y.day = f.day
    BY DEF KeyOf, FactKey
  <2>5. \A y : y \in X <=> /\ y \in d.rows /\ y.person = p /\ y.repo \in d.included
                           /\ s.start <= y.day /\ y.day < s.end /\ InScope(s.orgs, y.repo)
                           /\ PersonAllowed(d, OrgOf[y.repo], y.person)
    BY DEF OfPerson, All, Counted, BaseRollup, Query
  <2>6. OrgOf[f.repo] \in Orgs
    BY <1>1, FactPoolAssumption, StatisticsAssumption
  <2>7. f \in T => x \in X
    <3> HAVE f \in T
    <3>1. d.owner[f.by] = p /\ f.repo \in d.included /\ InScope(s.orgs, f.repo)
          /\ s.start <= f.day /\ f.day < s.end
      OBVIOUS
    <3> HIDE DEF X, T
    <3>2. x.person = p /\ x.repo = f.repo /\ x.day = f.day
      BY <2>3, <2>4, <3>1
    <3> QED BY <2>3, <2>5, <2>6, <3>1, <3>2
  <2>8. ASSUME NEW y \in X, KeyOf(y) = FactKey(d, f) PROVE f \in T
    <3>1. y.person = d.owner[f.by] /\ y.repo = f.repo /\ y.day = f.day
      BY <2>4, <2>8
    <3> HIDE DEF X
    <3> QED BY <1>6, <2>5, <2>8, <3>1
  <2> HIDE DEF X, T
  <2> QED BY <2>3, <2>7, <2>8
<1>7. Worth(d, X, m) = Cardinality(T) /\ IsFiniteSet(T)
  <2>1. \A f : f \in T => f \in d.facts /\ f.kind = "review"
    OBVIOUS
  <2>2. \A f : f \in T <=> /\ f \in d.facts /\ f.kind = "review"
                           /\ \E x \in X : KeyOf(x) = FactKey(d, f)
    <3> HIDE DEF X, T
    <3> QED BY <1>6, <2>1
  <2> HIDE DEF X, T, m
  <2> QED BY <1>0, <1>5, <2>2, FactCount
<1>8. SumOver(g) = Cardinality(T)
  <2> DEFINE ones == [f \in T |-> 1]
             key == [f \in T |-> d.owner[f.author]]
             K == Persons
  <2>1. ones \in [T -> Int] /\ (\A f \in T : key[f] \in K) /\ IsFiniteSet(K)
        /\ \A f \in T : ones[f] = 1
    BY <1>4, StatisticsAssumption DEF Persons
  <2>2. ASSUME NEW a \in K
        PROVE  g[a] \in Int /\ g[a] = SumOver(On(ones, {f \in T : key[f] = a}))
    <3> DEFINE S == {f \in T : key[f] = a}
    <3>1. S = G(a) /\ S \in SUBSET T
      OBVIOUS
    <3>2. g[a] = Cardinality(G(a))
      <4> HIDE DEF g, G
      <4> QED BY <1>3
    <3> HIDE DEF T, g, G, S, ones, key
    <3>3. IsFiniteSet(S)
      BY <1>7, <3>1, FS_Subset
    <3>4. On(ones, S) \in [S -> Int] /\ \A f \in S : On(ones, S)[f] = 1
      BY <2>1, <3>1 DEF On
    <3>5. SumOver(On(ones, S)) = Cardinality(S)
      <4> DEFINE h == On(ones, S)
      <4>1. h \in [S -> Int] /\ \A f \in S : h[f] = 1
        BY <3>4
      <4> HIDE DEF h
      <4>2. SumOver(h) = Cardinality(S)
        BY <3>3, <4>1, SumOnes
      <4> QED BY <4>2 DEF h
    <3>6. Cardinality(S) \in Nat
      BY <3>3, FS_CardinalityType
    <3> QED BY <3>1, <3>2, <3>5, <3>6 DEF S
  <2>3. DOMAIN g = K /\ g = [a \in K |-> g[a]]
    OBVIOUS
  <2> HIDE DEF T, g, ones, key, K
  <2>5. g \in [K -> Int]
    BY <2>2, <2>3
  <2>6. SumOver(g) = SumOver(ones)
    BY <1>7, <2>1, <2>2, <2>5, SumGroups
  <2>7. SumOver(ones) = Cardinality(T)
    BY <1>7, <2>1, SumOnes
  <2> QED BY <2>6, <2>7
<1>9. At(PersonLeaderboard(d, Query(s, {}, {})), p, Zero)[m] = Worth(d, X, m)
  <2> DEFINE q == Query(s, {}, {})
  <2>1. PersonRows(d, q, p) = X
    BY EveryoneNamed
  <2> HIDE DEF q, X, m
  <2>2. At(PersonLeaderboard(d, q), p, Zero) = [n \in Metrics |-> Worth(d, PersonRows(d, q, p), n)]
    BY PersonLine
  <2>3. At(PersonLeaderboard(d, q), p, Zero)[m] = Worth(d, X, m)
    BY <1>0, <2>1, <2>2
  <2> QED BY <2>3 DEF q
<1> QED BY <1>7, <1>8, <1>9

----------------------------------------------------------------------------
(* Standings.                                                              *)

(* A person's repositories have together what is counted of the person.    *)
LEMMA RepoSumWorth ==
    ASSUME NEW d, Sound(d), NEW q, NEW m \in Metrics
    PROVE  RepoSum(RepoLeaderboard(d, q), m) = Worth(d, Counted(d, q), m)
<1> DEFINE X == Counted(d, q)
           R == d.rows
           board == RepoLeaderboard(d, q)
           K == DOMAIN board
           key == [x \in X |-> x.repo]
           g == [r \in K |-> board[r].n[m]]
<1>1. X \in SUBSET R /\ IsFiniteSet(X)
  <2>1. X \in SUBSET R /\ IsFiniteSet(R)
    BY CountedRows, NumbersTyped
  <2> HIDE DEF X, R
  <2> QED BY <2>1, FS_Subset
<1>2. K = {key[x] : x \in X}
  BY DEF RepoLeaderboard
<1>3. IsFiniteSet(K) /\ \A x \in X : key[x] \in K
  <2> HIDE DEF X, key, K
  <2> QED BY <1>1, <1>2, ImageFinite
<1>4. ASSUME NEW k \in K
      PROVE  g[k] = Worth(d, {x \in X : key[x] = k}, m)
  <2> DEFINE Y == {x \in X : key[x] = k}
  <2>1. Y = RepoRows(d, q, k)
    BY DEF RepoRows
  <2>2. board[k].n = At(board, k, [n |-> Zero]).n
    BY RepoLine
  <2>3. At(board, k, [n |-> Zero]).n = [n \in Metrics |-> Worth(d, RepoRows(d, q, k), n)]
    BY RepoLine
  <2> HIDE DEF Y, board
  <2>4. board[k].n[m] = Worth(d, Y, m)
    BY <2>1, <2>2, <2>3
  <2> QED BY <2>4 DEF Y
<1>5. DOMAIN g = K /\ g = [k \in K |-> g[k]]
  OBVIOUS
<1>6. RepoSum(board, m) = SumOver(g)
  BY DEF RepoSum
<1> HIDE DEF X, key, K, g, board
<1>7. SumOver(g) = Worth(d, X, m)
  BY <1>1, <1>3, <1>4, <1>5, GroupWorth DEF R
<1> QED BY <1>6, <1>7 DEF X, board

(* Those below and the last place one may take make up the population.     *)
LEMMA Places ==
    ASSUME NEW S, IsFiniteSet(S), NEW f, \A o \in S : f[o] \in Int, NEW p \in S
    PROVE  Cardinality({o \in S : f[o] < f[p]})
             + Max((Cardinality({o \in S : f[o] > f[p]}) + 1)..Cardinality({o \in S : f[o] >= f[p]}))
             = Cardinality(S)
<1> DEFINE B == {o \in S : f[o] < f[p]}
           A == {o \in S : f[o] > f[p]}
           N == {o \in S : f[o] >= f[p]}
<1>1. /\ S = B \cup N /\ B \cap N = {} /\ A \subseteq N /\ p \in N /\ p \notin A
      /\ B \subseteq S /\ N \subseteq S
  OBVIOUS
<1> HIDE DEF B, A, N
<1>2. IsFiniteSet(B) /\ IsFiniteSet(N) /\ IsFiniteSet(A)
  <2>1. IsFiniteSet(B)
    BY <1>1, FS_Subset
  <2>2. IsFiniteSet(N)
    BY <1>1, FS_Subset
  <2> QED BY <1>1, <2>1, <2>2, FS_Subset
<1>3. Cardinality(B) \in Nat /\ Cardinality(N) \in Nat /\ Cardinality(A) \in Nat
  BY <1>2, FS_CardinalityType
<1>4. Cardinality(S) = Cardinality(B) + Cardinality(N)
  <2>1. Cardinality(B \cup N) = Cardinality(B) + Cardinality(N) - Cardinality(B \cap N)
    BY <1>2, FS_Union
  <2>2. Cardinality(B \cap N) = 0
    BY <1>1, FS_EmptySet
  <2> QED BY <1>1, <1>3, <2>1, <2>2
<1>5. Cardinality(A) + 1 <= Cardinality(N)
  <2>1. Cardinality(A \cup {p}) = Cardinality(A) + 1
    BY <1>1, <1>2, FS_AddElement
  <2>2. A \cup {p} \subseteq N
    BY <1>1
  <2>3. Cardinality(A \cup {p}) <= Cardinality(N)
    BY <1>2, <2>2, FS_Subset
  <2> QED BY <2>1, <2>3
<1>6. Max((Cardinality(A) + 1)..Cardinality(N)) = Cardinality(N)
  <2> DEFINE a == Cardinality(A) + 1
             n == Cardinality(N)
             I == a..n
  <2>1. a \in Int /\ n \in Int /\ a <= n
    BY <1>3, <1>5
  <2> HIDE DEF a, n
  <2>2. n \in I /\ \A y \in I : n >= y /\ y \in Int
    BY <2>1
  <2> HIDE DEF I
  <2>3. Max(I) \in I /\ \A y \in I : Max(I) >= y
    BY <2>2 DEF Max
  <2> DEFINE x == Max(I)
  <2>4. x \in Int /\ x >= n /\ n >= x
    BY <2>2, <2>3
  <2> HIDE DEF x
  <2>5. x = n
    BY <2>1, <2>4
  <2> QED BY <2>5 DEF x, I, a, n
<1> QED BY <1>3, <1>4, <1>6 DEF A, B, N

LEMMA Standing ==
    ASSUME NEW d, Sound(d), NEW s \in Scopes,
           NEW p \in DOMAIN PersonLeaderboard(d, Query(s, {}, {}))
    PROVE  LET impact == Spotlight(d, s, [Over("spotlight", "people", {}, {}, "")
                                            EXCEPT !.category = "impact"])
               page == PersonContext(d, p, s)
               versus == VersusScope(d, s, [BlockOf("versus_scope",
                             [slot \in Slots |-> Unset(slot)]) EXCEPT !.person = p])
           IN  /\ page.percentiles["significance"] + Max(page.ranks) = page.population
               /\ versus.ranks = page.ranks /\ versus.mine = page.metrics
               /\ impact.places[p] = page.ranks
               /\ page.share[1] = RepoSum(page.split, "significance")
<1> DEFINE m == "significance"
           q == Query(s, {}, {})
           board == PersonLeaderboard(d, q)
           ranks == RankBySignificance(board, p)
           page == PersonContext(d, p, s)
           b == [BlockOf("versus_scope", [slot \in Slots |-> Unset(slot)]) EXCEPT !.person = p]
           c == [Over("spotlight", "people", {}, {}, "") EXCEPT !.category = "impact"]
           versus == VersusScope(d, s, b)
           impact == Spotlight(d, s, c)
           D == DOMAIN board
<1>0. m \in Metrics /\ p \in D
  BY DEF Metrics
<1>1. \A o \in D : /\ board[o] = At(board, o, Zero) /\ board[o][m] = Worth(d, OfPerson(d, s, o), m)
                   /\ board[o][m] \in Int
  <2> SUFFICES ASSUME NEW o \in D
               PROVE  /\ board[o] = At(board, o, Zero)
                      /\ board[o][m] = Worth(d, OfPerson(d, s, o), m) /\ board[o][m] \in Int
    OBVIOUS
  <2>1. PersonRows(d, q, o) = OfPerson(d, s, o)
    BY EveryoneNamed
  <2>2. OfPerson(d, s, o) \in SUBSET All(d, s)
    BY DEF OfPerson
  <2>3. OfPerson(d, s, o) \in SUBSET d.rows
    BY <2>2, AllRows
  <2>4. /\ board[o] = At(board, o, Zero)
        /\ At(board, o, Zero) = [k \in Metrics |-> Worth(d, PersonRows(d, q, o), k)]
    <3> HIDE DEF q
    <3> QED BY PersonLine
  <2>5. Worth(d, OfPerson(d, s, o), m) \in Nat
    BY <1>0, <2>3, WorthNat
  <2> HIDE DEF board, m
  <2> QED BY <1>0, <2>1, <2>4, <2>5
<1>2. IsFiniteSet(D)
  <2> DEFINE X == All(d, s)
             key == [x \in X |-> x.person]
  <2>1. D = {key[x] : x \in X} /\ IsFiniteSet(X)
    BY AllRows DEF PersonLeaderboard, All
  <2> HIDE DEF X, D, key
  <2> QED BY <2>1, ImageFinite
<1>3. /\ page.percentiles[m] = Cardinality({o \in D : board[o][m] < board[p][m]})
      /\ page.ranks = ranks /\ page.population = Cardinality(D)
      /\ page.metrics = board[p] /\ page.share[1] = board[p][m]
      /\ page.split = RepoLeaderboard(d, Query(s, {p}, {}))
  <2>1. /\ page.percentiles = [k \in Metrics |-> Below(board, p, k)]
        /\ page.ranks = ranks /\ page.population = Cardinality(D)
        /\ page.metrics = board[p] /\ page.share = <<board[p][m], BoardSum(board, m)>>
        /\ page.split = RepoLeaderboard(d, Query(s, {p}, {}))
    BY <1>0 DEF PersonContext
  <2>2. page.percentiles[m] = Below(board, p, m)
    <3> HIDE DEF page, board
    <3> QED BY <1>0, <2>1
  <2> QED BY <2>1, <2>2 DEF Below
<1>4. page.percentiles[m] + Max(page.ranks) = page.population
  <2> DEFINE f == [o \in D |-> board[o][m]]
  <2>1. /\ page.percentiles[m] = Cardinality({o \in D : f[o] < f[p]})
        /\ ranks = (Cardinality({o \in D : f[o] > f[p]}) + 1)..Cardinality({o \in D : f[o] >= f[p]})
    BY <1>3 DEF RankBySignificance
  <2>2. \A o \in D : f[o] \in Int
    BY <1>1
  <2> HIDE DEF f, D, board, page
  <2> QED BY <1>0, <1>2, <1>3, <2>1, <2>2, Places
<1>5. versus.ranks = ranks /\ versus.mine = board[p]
  <2>1. b.person = p
    <3> DEFINE u == BlockOf("versus_scope", [slot \in Slots |-> Unset(slot)])
    <3>1. "person" \in DOMAIN u
      BY DEF BlockOf, Slots, Selects
    <3> HIDE DEF u
    <3>2. [u EXCEPT !.person = p].person = p
      BY <3>1
    <3> QED BY <3>2 DEF u
  <2> HIDE DEF b
  <2> QED BY <1>0, <2>1 DEF VersusScope, At
<1>6. impact.places[p] = ranks
  <2>1. c.entity = "people" /\ c.category = "impact"
    <3> DEFINE none == {}
               blank == ""
               u == Over("spotlight", "people", none, none, blank)
    <3> HIDE DEF none, blank
    <3>1. LET x == Over("spotlight", "people", none, none, blank)
          IN  "spotlight" = "spotlight" => x.entity = "people" /\ "category" \in DOMAIN x
      BY OverAll
    <3>2. u.entity = "people" /\ "category" \in DOMAIN u
      BY <3>1
    <3> HIDE DEF u
    <3>3. LET v == [u EXCEPT !.category = "impact"]
          IN  v.entity = "people" /\ v.category = "impact"
      BY <3>2
    <3> QED BY <3>3 DEF u, none, blank
  <2> DEFINE scores == [e \in D |-> <<board[e][m], 1>>]
             Less(x, y) == x[1] * y[2] < y[1] * x[2]
  <2> HIDE DEF c
  <2>2. impact.places = [e \in D |->
            (Cardinality({o \in D : Less(scores[e], scores[o])}) + 1)
              ..(Cardinality({o \in D : ~Less(scores[o], scores[e])}))]
    <3> DEFINE stat == IF c.entity = "people" THEN PersonLeaderboard(d, q)
                       ELSE LET repos == RepoLeaderboard(d, q)
                            IN [r \in DOMAIN repos |-> repos[r].n]
               weekly == WeeklyByEntity(d, q, IF c.entity = "people" THEN "person" ELSE "repo")
               chart == [e \in DOMAIN stat |-> Series(weekly, e, s, m)]
               qualified == {e \in DOMAIN stat :
                  /\ c.category = "quality" => stat[e]["additions"] >= QualityFloor
                  /\ c.category = "delivery" => stat[e]["prs_opened"] >= DeliveryFloor
                  /\ c.category = "consistency" => stat[e]["commits"] >= ConsistencyFloor}
               early == {w \in Weeks(s) : Cardinality({v \in Weeks(s) : v < w})
                                            < Cardinality(Weeks(s)) \div 2}
               Summed(e, weeks) == SumOver([w \in weeks |-> chart[e][w]])
               Score(e) ==
                  CASE c.category = "output" -> <<stat[e]["commits"], 1>>
                    [] c.category = "impact" -> <<stat[e][m], 1>>
                    [] c.category = "quality" -> <<stat[e]["churn"], stat[e]["additions"]>>
                    [] c.category = "delivery" -> <<stat[e]["prs_merged"], stat[e]["prs_opened"]>>
                    [] c.category = "collaboration" -> <<stat[e]["reviews"], 1>>
                    [] c.category = "consistency" ->
                          <<Cardinality({w \in Weeks(s) : chart[e][w] > 0}), Cardinality(Weeks(s))>>
                    [] c.category = "momentum" -> <<Summed(e, Weeks(s) \ early) - Summed(e, early), 1>>
               scored == [e \in qualified |-> Score(e)]
               Better(o, e) == IF c.category = "quality" THEN Less(scored[o], scored[e])
                               ELSE Less(scored[e], scored[o])
               places == [e \in qualified |->
                  (Cardinality({o \in qualified : Better(o, e)}) + 1)
                    ..(Cardinality({o \in qualified : ~Better(e, o)}))]
    <3>1. impact.places = places
      BY DEF Spotlight
    <3>2. stat = board
      BY <2>1
    <3>3. qualified = D
      BY <2>1, <3>2
    <3>4. \A e : Score(e) = <<board[e][m], 1>>
      BY <2>1, <3>2
    <3>5. scored = scores
      BY <3>3, <3>4
    <3> HIDE DEF scored, scores, qualified, D, Less
    <3>6. \A o, e : Better(o, e) <=> Less(scores[e], scores[o])
      BY <2>1, <3>5
    <3> QED BY <3>1, <3>3, <3>6
  <2>3. \A o, e \in D : Less(scores[o], scores[e]) <=> board[o][m] < board[e][m]
    <3> SUFFICES ASSUME NEW o \in D, NEW e \in D
                 PROVE  Less(scores[o], scores[e]) <=> board[o][m] < board[e][m]
      OBVIOUS
    <3>1. /\ scores[o][1] = board[o][m] /\ scores[o][2] = 1
          /\ scores[e][1] = board[e][m] /\ scores[e][2] = 1
      OBVIOUS
    <3>2. board[o][m] \in Int /\ board[e][m] \in Int
      BY <1>1
    <3> HIDE DEF scores, board, D, m
    <3> QED BY <3>1, <3>2
  <2> HIDE DEF scores, Less
  <2>4. /\ {o \in D : Less(scores[p], scores[o])} = {o \in D : board[o][m] > board[p][m]}
        /\ {o \in D : ~Less(scores[o], scores[p])} = {o \in D : board[o][m] >= board[p][m]}
    <3> HIDE DEF board, D, m
    <3>1. \A o \in D : /\ Less(scores[p], scores[o]) <=> board[o][m] > board[p][m]
                       /\ ~Less(scores[o], scores[p]) <=> board[o][m] >= board[p][m]
      BY <1>0, <1>1, <2>3
    <3> QED BY <3>1
  <2>5. impact.places[p] = (Cardinality({o \in D : Less(scores[p], scores[o])}) + 1)
                             ..(Cardinality({o \in D : ~Less(scores[o], scores[p])}))
    <3> HIDE DEF impact, D
    <3> QED BY <1>0, <2>2
  <2> QED BY <2>4, <2>5 DEF RankBySignificance
<1>7. page.share[1] = RepoSum(page.split, m)
  <2>1. Counted(d, Query(s, {p}, {})) = OfPerson(d, s, p)
    BY QueryRows DEF OfPerson
  <2> DEFINE one == Query(s, {p}, {})
  <2> HIDE DEF one, page, board, D, m
  <2>2. RepoSum(RepoLeaderboard(d, one), m) = Worth(d, Counted(d, one), m)
    BY <1>0, RepoSumWorth
  <2> QED BY <1>0, <1>1, <1>3, <2>1, <2>2 DEF one
<1> QED BY <1>3, <1>4, <1>5, <1>6, <1>7

----------------------------------------------------------------------------
(* Pairs and groups.                                                       *)

LEMMA WorthGrows ==
    ASSUME NEW d, Sound(d), NEW m \in Metrics, NEW A \in SUBSET d.rows, NEW B \in SUBSET d.rows,
           A \subseteq B
    PROVE  Worth(d, A, m) <= Worth(d, B, m)
<1> DEFINE C == B \ A
<1>1. C \in SUBSET d.rows /\ A \cap C = {} /\ B = A \cup C
  OBVIOUS
<1> HIDE DEF C
<1>2. Worth(d, A \cup C, m) = Worth(d, A, m) + Worth(d, C, m)
  BY <1>1, WorthSplit
<1>3. Worth(d, A, m) \in Nat /\ Worth(d, C, m) \in Nat
  BY <1>1, WorthNat
<1> QED BY <1>1, <1>2, <1>3

(* A row is there because somebody did something.                          *)
LEMMA RowsCount ==
    ASSUME NEW d, Sound(d), NEW x \in d.rows
    PROVE  \E m \in Metrics : x.n[m] # 0
<1> DEFINE F == d.facts
           o == d.owner
<1>1. F \in Facts /\ o \in Owners /\ d.rows = MergeDeltas(F, o)
  BY DEF Sound, Databases
<1>2. PICK e \in Entries(F) : RowKey(o, e) = KeyOf(x)
  <2> HIDE DEF F, o
  <2> QED BY <1>1, RowsAre
<1>3. e = <<e[1], e[2]>> /\ e[1] \in F /\ e[1] \in FactPool /\ e[2] \in Deltas(e[1])
  <2> HIDE DEF F
  <2> QED BY <1>1, <1>2, EntriesTyped
<1>4. PICK u \in Entries(F) : RowKey(o, u) = KeyOf(x) /\ u[2][2] \in Metrics /\ u[2][3] = 1
  <2> DEFINE f == e[1]
             Same(delta) == delta \in Deltas(f) /\ delta[1] = e[2][1]
                            /\ delta[2] \in Metrics /\ delta[3] = 1
  <2>1. f.kind \in {"commit", "pull", "review"}
    BY <1>3, FactPoolAssumption
  <2>2. \E delta : Same(delta)
    <3>1. CASE f.kind = "commit"
      <4>1. Deltas(f) = {<<f.day, "commits", 1>>, <<f.day, "additions", f.size>>,
                         <<f.day, "churn", f.churned>>, <<f.day, "significance", f.size>>}
        BY <3>1 DEF Deltas
      <4>2. e[2][1] = f.day /\ <<f.day, "commits", 1>> \in Deltas(f)
        BY <1>3, <4>1
      <4>3. Same(<<f.day, "commits", 1>>)
        BY <4>2 DEF Metrics
      <4> QED BY <4>3
    <3>2. CASE f.kind = "pull"
      <4> DEFINE b == <<f.merged, "prs_merged", 1>>
                 B == IF f.merged = Never THEN {} ELSE {b}
      <4>1. Deltas(f) = {<<f.day, "prs_opened", 1>>} \cup B
        BY <3>2 DEF Deltas
      <4>2. \A delta \in B : delta[2] = "prs_merged" /\ delta[3] = 1
        OBVIOUS
      <4> HIDE DEF B
      <4>3. e[2][2] \in Metrics /\ e[2][3] = 1
        BY <1>3, <4>1, <4>2 DEF Metrics
      <4>4. Same(e[2])
        BY <1>3, <4>3
      <4> QED BY <4>4
    <3>3. CASE f.kind = "review"
      <4>1. Deltas(f) = {<<f.day, "reviews", 1>>}
        BY <3>3 DEF Deltas
      <4>2. e[2][2] \in Metrics /\ e[2][3] = 1
        BY <1>3, <4>1 DEF Metrics
      <4>3. Same(e[2])
        BY <1>3, <4>2
      <4> QED BY <4>3
    <3> QED BY <2>1, <3>1, <3>2, <3>3
  <2>3. PICK delta : Same(delta)
    BY <2>2
  <2> DEFINE u == <<f, delta>>
  <2>4. u \in Entries(F)
    BY <1>3, <2>3 DEF Entries
  <2>5. RowKey(o, u) = RowKey(o, e)
    BY <2>3 DEF RowKey
  <2>6. u[2] = delta
    OBVIOUS
  <2>7. u[2][2] \in Metrics /\ u[2][3] = 1
    BY <2>3, <2>6
  <2> HIDE DEF u
  <2> QED BY <1>2, <2>4, <2>5, <2>7
<1> DEFINE m == u[2][2]
           V == Values(F)
           S == Of(F, o, KeyOf(x), m)
           h == On(V, S)
<1>5. x.n[m] = Amount(F, o, KeyOf(x), m)
  <2> HIDE DEF F, o
  <2> QED BY <1>1, <1>4, RowsAre
<1>6. u \in S
  BY <1>4 DEF Of
<1>7. S \subseteq Entries(F) /\ IsFiniteSet(S) /\ h \in [S -> Nat] /\ h[u] = 1
  <2>1. S \subseteq Entries(F)
    BY DEF Of
  <2>2. h[u] = V[u] /\ V[u] = 1
    <3>1. h[u] = V[u]
      <4> HIDE DEF S, V
      <4> QED BY <1>6 DEF On
    <3>2. V[u] = u[2][3]
      BY <1>4 DEF Values
    <3> QED BY <1>4, <3>1, <3>2
  <2> HIDE DEF S, F, V
  <2>3. IsFiniteSet(Entries(F)) /\ V \in [Entries(F) -> Nat]
    BY <1>1, EntriesTyped, ValuesTyped DEF V
  <2> QED BY <2>1, <2>2, <2>3, FS_Subset DEF On
<1>8. SumOver(h) # 0
  <2> HIDE DEF S, h
  <2>1. SumOver(h) = 0 => \A y \in S : h[y] = 0
    BY <1>7, SumPositive
  <2> QED BY <1>6, <1>7, <2>1
<1>9. Amount(F, o, KeyOf(x), m) = SumOver(h)
  BY DEF Amount
<1> QED BY <1>4, <1>5, <1>8, <1>9

(* Rows are worth nothing only when there are none.                        *)
LEMMA WorthNothing ==
    ASSUME NEW d, Sound(d), NEW X \in SUBSET d.rows,
           \A m \in Metrics : Worth(d, X, m) = 0
    PROVE  X = {}
<1> SUFFICES ASSUME NEW x \in X PROVE FALSE
  OBVIOUS
<1>1. x \in d.rows
  OBVIOUS
<1>2. PICK m \in Metrics : x.n[m] # 0
  BY <1>1, RowsCount
<1> DEFINE N == Numbers(d, m)
           R == d.rows
           h == On(N, X)
<1>3. IsFiniteSet(R) /\ N \in [R -> Nat] /\ X \in SUBSET R /\ N[x] = x.n[m]
  <2>1. N[x] = x.n[m]
    BY DEF Numbers
  <2> QED BY <2>1, NumbersTyped
<1>4. IsFiniteSet(X) /\ h \in [X -> Nat] /\ h[x] = x.n[m]
  <2> HIDE DEF N, R
  <2>1. IsFiniteSet(X)
    BY <1>3, FS_Subset
  <2> QED BY <1>3, <2>1 DEF On
<1>5. SumOver(h) = 0
  BY DEF Worth
<1> HIDE DEF h
<1>6. \A y \in X : h[y] = 0
  BY <1>4, <1>5, SumPositive
<1> QED BY <1>2, <1>4, <1>6

(* A person's rows for a repository, in the numbers of the pair.           *)
OfPair(d, s, p, r) == {x \in All(d, s) : x.person = p /\ x.repo = r}

LEMMA PairNumbers ==
    ASSUME NEW d, Sound(d), NEW s \in Scopes, NEW p, NEW r
    PROVE  LET q == Query(s, {p}, {r})
               mine == At(PersonLeaderboard(d, q), p, Zero)
               X == OfPair(d, s, p, r)
           IN  /\ Counted(d, q) = X /\ X \in SUBSET All(d, s)
               /\ mine = [m \in Metrics |-> Worth(d, X, m)]
               /\ (X = {}) <=> (mine = Zero)
               /\ Series(WeeklyByEntity(d, q, "person"), p, s, "significance")
                    = Chart(d, s, X, "significance")
               /\ SumOver(Chart(d, s, X, "significance")) = mine["significance"]
<1> DEFINE q == Query(s, {p}, {r})
           mine == At(PersonLeaderboard(d, q), p, Zero)
           X == OfPair(d, s, p, r)
           m == "significance"
<1>0. m \in Metrics
  BY DEF Metrics
<1>1. Counted(d, q) = X /\ X \in SUBSET All(d, s)
  BY QueryRows DEF OfPair
<1>2. X \in SUBSET d.rows /\ InPeriod(s, X)
  <2> HIDE DEF X
  <2> QED BY <1>1, AllRows
<1>3. PersonRows(d, q, p) = X
  BY <1>1 DEF PersonRows, OfPair
<1>4. mine = [k \in Metrics |-> Worth(d, X, k)]
  <2> HIDE DEF q, X
  <2> QED BY <1>3, PersonLine
<1>5. (X = {}) <=> (mine = Zero)
  <2> HIDE DEF X, mine
  <2>1. X = {} => \A k \in Metrics : Worth(d, X, k) = 0
    BY <1>2, WorthNat
  <2>2. X = {} => mine = Zero
    BY <1>4, <2>1 DEF Zero
  <2>3. mine = Zero => \A k \in Metrics : Worth(d, X, k) = 0
    BY <1>4 DEF Zero
  <2>4. mine = Zero => X = {}
    BY <1>2, <2>3, WorthNothing
  <2> QED BY <2>2, <2>4
<1>6. Series(WeeklyByEntity(d, q, "person"), p, s, m) = Chart(d, s, X, m)
  <2> HIDE DEF q, X, m
  <2> QED BY <1>0, <1>3, PersonChart
<1>7. SumOver(Chart(d, s, X, m)) = mine[m]
  <2> HIDE DEF X, m, mine
  <2>1. SumOver(Chart(d, s, X, m)) = Worth(d, X, m)
    BY <1>0, <1>2, ChartSum
  <2> QED BY <1>0, <1>4, <2>1
<1> QED BY <1>1, <1>4, <1>5, <1>6, <1>7

(* What a person did in a repository, beside the person and the repository.*)
LEMMA PersonInRepo ==
    ASSUME NEW d, Sound(d), NEW s \in Scopes, NEW p \in Persons, NEW r \in Repos
    PROVE  LET pair == CorrelatePersonRepo(d, s, [person |-> p, repo |-> r])
           IN  /\ pair.focus = Chart(d, s, OfPerson(d, s, p), "significance")
               /\ pair.presence = Chart(d, s, OfRepo(d, s, r), "significance")
               /\ \A w \in Weeks(s) : /\ pair.both[w] <= pair.presence[w]
                                      /\ pair.both[w] <= pair.focus[w]
               /\ SumOver(pair.both) = pair.mine["significance"]
               /\ (pair.span = {}) <=> (pair.mine = Zero)
<1> DEFINE m == "significance"
           q == Query(s, {p}, {r})
           X == OfPair(d, s, p, r)
           P == {p}
           Q == {r}
           pair == CorrelatePersonRepo(d, s, [person |-> p, repo |-> r])
           days == DOMAIN Timeseries(d, q)
           mine == At(PersonLeaderboard(d, q), p, Zero)
<1>0. m \in Metrics /\ p \in P /\ r \in Q
  BY DEF Metrics
<1>1. /\ pair.both = Series(WeeklyByEntity(d, q, "person"), p, s, m)
      /\ pair.presence = Series(WeeklyByEntity(d, Query(s, {}, Q), "repo"), r, s, m)
      /\ pair.focus = Series(WeeklyByEntity(d, Query(s, P, {}), "person"), p, s, m)
      /\ pair.span = IF days = {} THEN {} ELSE {<<Min(days), Max(days)>>}
      /\ pair.mine = mine
  BY DEF CorrelatePersonRepo
<1>2. /\ Counted(d, q) = X /\ X \in SUBSET All(d, s)
      /\ (X = {}) <=> (mine = Zero)
      /\ Series(WeeklyByEntity(d, q, "person"), p, s, m) = Chart(d, s, X, m)
      /\ SumOver(Chart(d, s, X, m)) = mine[m]
  <2>1. LET q0 == Query(s, {p}, {r})
            mine0 == At(PersonLeaderboard(d, q0), p, Zero)
            X0 == OfPair(d, s, p, r)
        IN  /\ Counted(d, q0) = X0 /\ X0 \in SUBSET All(d, s)
            /\ mine0 = [k \in Metrics |-> Worth(d, X0, k)]
            /\ (X0 = {}) <=> (mine0 = Zero)
            /\ Series(WeeklyByEntity(d, q0, "person"), p, s, "significance")
                 = Chart(d, s, X0, "significance")
            /\ SumOver(Chart(d, s, X0, "significance")) = mine0["significance"]
    BY PairNumbers
  <2> QED BY <2>1
<1>3. pair.focus = Chart(d, s, OfPerson(d, s, p), m)
  <2> HIDE DEF P, pair, m
  <2> QED BY <1>0, <1>1, PersonNumbers
<1>4. pair.presence = Chart(d, s, OfRepo(d, s, r), m)
  <2> HIDE DEF Q, pair, m
  <2> QED BY <1>0, <1>1, RepoNumbers
<1>5. ASSUME NEW w \in Weeks(s)
      PROVE  pair.both[w] <= pair.presence[w] /\ pair.both[w] <= pair.focus[w]
  <2> DEFINE A == WeekRows(X, w)
             B == WeekRows(OfPerson(d, s, p), w)
             C == WeekRows(OfRepo(d, s, r), w)
  <2>1. A \subseteq B /\ A \subseteq C /\ B \in SUBSET All(d, s) /\ C \in SUBSET All(d, s)
    BY DEF WeekRows, OfPair, OfPerson, OfRepo
  <2>2. pair.both[w] = Worth(d, A, m) /\ pair.focus[w] = Worth(d, B, m)
        /\ pair.presence[w] = Worth(d, C, m)
    <3> HIDE DEF pair, X
    <3> QED BY <1>1, <1>2, <1>3, <1>4 DEF Chart
  <2> HIDE DEF A, B, C, m, pair
  <2>3. A \in SUBSET d.rows /\ B \in SUBSET d.rows /\ C \in SUBSET d.rows
    BY <2>1, AllRows
  <2>4. Worth(d, A, m) <= Worth(d, B, m)
    BY <1>0, <2>1, <2>3, WorthGrows
  <2>5. Worth(d, A, m) <= Worth(d, C, m)
    BY <1>0, <2>1, <2>3, WorthGrows
  <2> QED BY <2>2, <2>4, <2>5
<1>6. SumOver(pair.both) = pair.mine[m]
  BY <1>1, <1>2
<1>7. (pair.span = {}) <=> (pair.mine = Zero)
  <2>1. days = {x.day : x \in Counted(d, q)}
    BY DEF Timeseries
  <2> HIDE DEF days, X, pair, mine, q
  <2>2. days = {} <=> X = {}
    BY <1>2, <2>1
  <2> QED BY <1>1, <1>2, <2>2
<1> QED BY <1>3, <1>4, <1>5, <1>6, <1>7

(* A group's numbers and chart are those of its people.                    *)
OfGroup(d, s, ids) == {x \in All(d, s) : x.person \in ids}

ChartsTogether(d, s, ids, m) ==
    [w \in Weeks(s) |-> SumOver([p \in ids |-> Chart(d, s, OfPerson(d, s, p), m)[w]])]

LEMMA GroupChart ==
    ASSUME NEW d, Sound(d), NEW s \in Scopes, NEW m \in Metrics, NEW ids \in SUBSET Persons
    PROVE  ChartsTogether(d, s, ids, m) = Chart(d, s, OfGroup(d, s, ids), m)
<1> DEFINE X == OfGroup(d, s, ids)
<1> SUFFICES ASSUME NEW w \in Weeks(s)
             PROVE  SumOver([p \in ids |-> Chart(d, s, OfPerson(d, s, p), m)[w]])
                      = Worth(d, WeekRows(X, w), m)
  BY DEF Chart, ChartsTogether
<1> DEFINE Y == WeekRows(X, w)
           g == [p \in ids |-> Chart(d, s, OfPerson(d, s, p), m)[w]]
           key == [x \in Y |-> x.person]
<1>1. Y \in SUBSET d.rows /\ \A x \in Y : key[x] \in ids
  <2>1. Y \in SUBSET All(d, s) /\ \A x \in Y : key[x] \in ids
    BY DEF WeekRows, OfGroup
  <2> HIDE DEF Y, key
  <2> QED BY <2>1, AllRows
<1>2. IsFiniteSet(ids)
  BY StatisticsAssumption, FS_Subset DEF Persons
<1>3. ASSUME NEW p \in ids PROVE g[p] = Worth(d, {x \in Y : key[x] = p}, m)
  <2>1. {x \in Y : key[x] = p} = WeekRows(OfPerson(d, s, p), w)
    BY DEF WeekRows, OfGroup, OfPerson
  <2>2. g[p] = Worth(d, WeekRows(OfPerson(d, s, p), w), m)
    BY DEF Chart
  <2> QED BY <2>1, <2>2
<1>4. DOMAIN g = ids /\ g = [p \in ids |-> g[p]]
  OBVIOUS
<1> HIDE DEF Y, g, key
<1>5. SumOver(g) = Worth(d, Y, m)
  BY <1>1, <1>2, <1>3, <1>4, GroupWorth
<1> QED BY <1>5 DEF g, Y

IsGroup(b, i, ids) == /\ ids # {} /\ ids \subseteq Persons
                      /\ ids = IF i = 1 THEN b.people ELSE b.people_b

LEMMA GroupNumbers ==
    ASSUME NEW d, Sound(d), NEW s \in Scopes, NEW b, NEW i \in 1..2, NEW ids, IsGroup(b, i, ids)
    PROVE  LET group == CompareGroups(d, s, b)[i]
           IN  /\ group.n["significance"] = Worth(d, OfGroup(d, s, ids), "significance")
               /\ SumOver(group.chart) = group.n["significance"]
<1> DEFINE m == "significance"
           X == OfGroup(d, s, ids)
           group == CompareGroups(d, s, b)[i]
           both == b.people \cup b.people_b
           weekly == WeeklyByEntity(d, Query(s, both, {}), "person")
           q == Query(s, ids, {})
           board == PersonLeaderboard(d, q)
           line(p) == Series(weekly, p, s, m)
<1>0. /\ m \in Metrics /\ ids # {} /\ ids \subseteq Persons
      /\ ids = IF i = 1 THEN b.people ELSE b.people_b
  BY DEF Metrics, IsGroup
<1>1. /\ group.n = [k \in Metrics |-> BoardSum(board, k)]
      /\ group.chart = [w \in Weeks(s) |-> SumOver([p \in ids |-> line(p)[w]])]
  <2> DEFINE G(some) == [n |-> [k \in Metrics |-> BoardSum(PersonLeaderboard(d, Query(s, some, {})), k)],
                         chart |-> [w \in Weeks(s) |-> SumOver([p \in some |-> line(p)[w]])]]
  <2>1. CompareGroups(d, s, b) = <<G(b.people), G(b.people_b)>>
    BY DEF CompareGroups
  <2>2. group = G(ids)
    <3> HIDE DEF G
    <3> QED BY <1>0, <2>1
  <2> QED BY <2>2
<1>2. Counted(d, q) = X /\ X \in SUBSET All(d, s)
  BY <1>0, QueryRows DEF OfGroup
<1>3. X \in SUBSET d.rows /\ InPeriod(s, X)
  <2> HIDE DEF X
  <2> QED BY <1>2, AllRows
<1>4. group.n[m] = Worth(d, X, m)
  <2> HIDE DEF q, X, m, group
  <2>1. Totals(d, q).n = [k \in Metrics |-> BoardSum(board, k)]
    BY DEF Totals
  <2>2. Totals(d, q).n = [k \in Metrics |-> Worth(d, Counted(d, q), k)]
    BY TotalWorth
  <2> HIDE DEF board
  <2> QED BY <1>0, <1>1, <1>2, <2>1, <2>2
<1>5. \A p \in ids : line(p) = Chart(d, s, OfPerson(d, s, p), m)
  <2> SUFFICES ASSUME NEW p \in ids PROVE line(p) = Chart(d, s, OfPerson(d, s, p), m)
    OBVIOUS
  <2>1. p \in both
    BY <1>0
  <2> HIDE DEF both, m
  <2> QED BY <1>0, <2>1, PersonNumbers
<1>6. group.chart = Chart(d, s, X, m)
  <2>1. group.chart = ChartsTogether(d, s, ids, m)
    <3> HIDE DEF line, group
    <3>1. \A w : [p \in ids |-> line(p)[w]] = [p \in ids |-> Chart(d, s, OfPerson(d, s, p), m)[w]]
      BY <1>5
    <3> QED BY <1>1, <3>1 DEF ChartsTogether
  <2> HIDE DEF m
  <2>2. ChartsTogether(d, s, ids, m) = Chart(d, s, OfGroup(d, s, ids), m)
    BY <1>0, GroupChart
  <2> QED BY <2>1, <2>2
<1>7. SumOver(Chart(d, s, X, m)) = Worth(d, X, m)
  <2> HIDE DEF X, m
  <2> QED BY <1>0, <1>3, ChartSum
<1> QED BY <1>4, <1>6, <1>7

(* Two persons together.                                                   *)
LEMMA TwoPersons ==
    ASSUME NEW d, Sound(d), NEW s \in Scopes, NEW p \in Persons, NEW q \in Persons, p # q
    PROVE  LET pair == CorrelatePeople(d, s, [person |-> p, person_b |-> q])
               groups == CompareGroups(d, s, [people |-> {p, q}, people_b |-> Persons])
           IN  /\ pair.shared = OverlapPeople(d, s, [people |-> {p, q}])
               /\ pair.both \subseteq Weeks(s) \cup {WeekOf(s.start)}
               /\ \A g \in 1..2 : SumOver(groups[g].chart) = groups[g].n["significance"]
               /\ groups[1].n["significance"] = Worth(d, OfPerson(d, s, p), "significance")
                                                 + Worth(d, OfPerson(d, s, q), "significance")
<1> DEFINE m == "significance"
           pair == CorrelatePeople(d, s, [person |-> p, person_b |-> q])
           b == [people |-> {p, q}, people_b |-> Persons]
           groups == CompareGroups(d, s, b)
           two == {p, q}
<1>0. m \in Metrics
  BY DEF Metrics
<1>1. pair.shared = OverlapPeople(d, s, [people |-> {p, q}])
  <2> DEFINE Split(x) == RepoLeaderboard(d, Query(s, {x}, {}))
  <2>1. pair.shared = DOMAIN Split(p) \cap DOMAIN Split(q)
    BY DEF CorrelatePeople
  <2>2. OverlapPeople(d, s, [people |-> {p, q}])
          = {r \in Repos : r \in DOMAIN Split(p) /\ r \in DOMAIN Split(q)}
    BY DEF OverlapPeople
  <2>3. DOMAIN Split(p) \subseteq Repos
    <3>1. DOMAIN Split(p) = {x.repo : x \in Counted(d, Query(s, {p}, {}))}
      BY DEF RepoLeaderboard
    <3>2. Counted(d, Query(s, {p}, {})) \subseteq All(d, s)
      BY QueryRows
    <3>3. \A x \in All(d, s) : x.repo \in Repos
      BY AllRows
    <3> HIDE DEF Split
    <3> QED BY <3>1, <3>2, <3>3
  <2> HIDE DEF Split, pair
  <2> QED BY <2>1, <2>2, <2>3
<1>2. pair.both \subseteq Weeks(s)
  <2> DEFINE weekly == WeeklyByEntity(d, Query(s, {p, q}, {}), "person")
             Active(x) == {w \in DOMAIN At(weekly, x, <<>>) : \E k \in Metrics : weekly[x][w][k] > 0}
             C == Counted(d, Query(s, {p, q}, {}))
  <2>1. pair.both = Active(p) \cap Active(q)
    BY DEF CorrelatePeople
  <2>2. /\ DOMAIN weekly = {x.person : x \in C}
        /\ p \in DOMAIN weekly => DOMAIN weekly[p] = {WeekOf(x.day) : x \in {y \in C : y.person = p}}
    BY DEF WeeklyByEntity
  <2>3. C \in SUBSET All(d, s)
    BY QueryRows
  <2>4. \A x \in C : WeekOf(x.day) \in Weeks(s)
    <3> HIDE DEF C
    <3>1. InPeriod(s, C)
      BY <2>3, AllRows
    <3> QED BY <3>1, WeeksHold DEF InPeriod
  <2>5. DOMAIN At(weekly, p, <<>>) \subseteq Weeks(s)
    <3> HIDE DEF weekly, C
    <3>1. CASE p \in DOMAIN weekly
      BY <2>2, <2>4, <3>1 DEF At
    <3>2. CASE p \notin DOMAIN weekly
      <4>1. DOMAIN At(weekly, p, <<>>) = {}
        BY <3>2 DEF At
      <4> QED BY <4>1
    <3> QED BY <3>1, <3>2
  <2> HIDE DEF weekly, pair
  <2> QED BY <2>1, <2>5
<1>3. /\ SumOver(groups[1].chart) = groups[1].n[m]
      /\ groups[1].n[m] = Worth(d, OfGroup(d, s, two), m)
  <2>1. IsGroup(b, 1, two)
    BY DEF IsGroup
  <2> HIDE DEF two, b
  <2>2. LET group == CompareGroups(d, s, b)[1]
        IN  /\ group.n["significance"] = Worth(d, OfGroup(d, s, two), "significance")
            /\ SumOver(group.chart) = group.n["significance"]
    BY <2>1, GroupNumbers
  <2> QED BY <2>2
<1>4. SumOver(groups[2].chart) = groups[2].n[m]
  <2> DEFINE P == Persons
  <2>1. IsGroup(b, 2, P)
    BY DEF IsGroup
  <2> HIDE DEF P, b
  <2>2. LET group == CompareGroups(d, s, b)[2]
        IN  /\ group.n["significance"] = Worth(d, OfGroup(d, s, P), "significance")
            /\ SumOver(group.chart) = group.n["significance"]
    BY <2>1, GroupNumbers
  <2> QED BY <2>2
<1>5. Worth(d, OfGroup(d, s, two), m) = Worth(d, OfPerson(d, s, p), m) + Worth(d, OfPerson(d, s, q), m)
  <2> DEFINE A == OfPerson(d, s, p)
             B == OfPerson(d, s, q)
  <2>1. OfGroup(d, s, two) = A \cup B /\ A \cap B = {} /\ A \in SUBSET All(d, s) /\ B \in SUBSET All(d, s)
    BY DEF OfGroup, OfPerson
  <2> HIDE DEF A, B, m
  <2>2. A \in SUBSET d.rows /\ B \in SUBSET d.rows
    BY <2>1, AllRows
  <2>3. Worth(d, A \cup B, m) = Worth(d, A, m) + Worth(d, B, m)
    BY <1>0, <2>1, <2>2, WorthSplit
  <2> QED BY <2>1, <2>3 DEF A, B
<1>6. \A g \in 1..2 : SumOver(groups[g].chart) = groups[g].n[m]
  <2> HIDE DEF groups
  <2> QED BY <1>3, <1>4
<1> QED BY <1>1, <1>2, <1>3, <1>5, <1>6

LEMMA TwoRepos ==
    ASSUME NEW d, Sound(d), NEW s \in Scopes, NEW r1 \in Repos, NEW r2 \in Repos
    PROVE  CorrelateRepos(d, s, [repo |-> r1, repo_b |-> r2]).shared
             = OverlapRepos(d, s, [repos |-> {r1, r2}])
<1> DEFINE Board(r) == PersonLeaderboard(d, Query(s, {}, {r}))
<1>1. CorrelateRepos(d, s, [repo |-> r1, repo_b |-> r2]).shared = DOMAIN Board(r1) \cap DOMAIN Board(r2)
  BY DEF CorrelateRepos
<1>2. OverlapRepos(d, s, [repos |-> {r1, r2}])
        = {p \in Persons : p \in DOMAIN Board(r1) /\ p \in DOMAIN Board(r2)}
  BY DEF OverlapRepos
<1>3. DOMAIN Board(r1) \subseteq Persons
  <2>1. DOMAIN Board(r1) = {x.person : x \in Counted(d, Query(s, {}, {r1}))}
    BY DEF PersonLeaderboard
  <2>2. Counted(d, Query(s, {}, {r1})) \subseteq All(d, s)
    BY QueryRows
  <2>3. \A x \in All(d, s) : x.person \in Persons
    BY AllRows
  <2> HIDE DEF Board
  <2> QED BY <2>1, <2>2, <2>3
<1> HIDE DEF Board
<1> QED BY <1>1, <1>2, <1>3

(* Blocks about one and about several, over everyone and everything.       *)
LEMMA ReadingNone ==
    ASSUME NEW series, SumOver(series) \in Nat
    PROVE  (Reading(series) = "no activity") <=> (SumOver(series) = 0)
<1> DEFINE sum == SumOver(series)
           spread == Cardinality(DOMAIN series) * SumOver([w \in DOMAIN series |-> series[w] * series[w]])
                       - sum * sum
           steady == 25 * spread < 9 * sum * sum
           bursty == 25 * spread > 36 * sum * sum
<1>1. Reading(series) = CASE sum = 0 -> "no activity"
                          [] sum > 0 /\ steady -> "steady"
                          [] sum > 0 /\ bursty -> "bursty"
                          [] OTHER -> "variable"
  BY DEF Reading
<1>2. sum \in Nat
  OBVIOUS
<1> HIDE DEF sum, steady, bursty
<1> DEFINE reading == Reading(series)
<1>3. ASSUME sum = 0 PROVE reading = "no activity"
  <2>1. ~(sum > 0)
    BY <1>3
  <2> HIDE DEF reading
  <2> QED BY <1>1, <1>3, <2>1 DEF reading
<1>4. ASSUME sum # 0 PROVE reading # "no activity"
  <2>0. sum > 0
    BY <1>2, <1>4
  <2>1. CASE steady /\ ~bursty
    BY <1>1, <1>4, <2>0, <2>1
  <2>2. CASE ~steady /\ bursty
    BY <1>1, <1>4, <2>0, <2>2
  <2>3. CASE ~steady /\ ~bursty
    BY <1>1, <1>4, <2>0, <2>3
  <2>4. CASE steady /\ bursty
    BY <1>1, <1>4, <2>0, <2>4
  <2> QED BY <2>1, <2>2, <2>3, <2>4
<1> QED BY <1>3, <1>4 DEF sum, reading

LEMMA PairsTogether ==
    ASSUME NEW d, Sound(d), NEW s \in Scopes
    PROVE  LET compared == ComparePeople(d, s, Over("compare_people", "", Persons, {}, ""))
               comparedR == CompareRepos(d, s, Over("compare_repos", "", {}, Repos, ""))
               reading == Volatility(d, s, Over("volatility", "people", Persons, {}, "significance"))
           IN  /\ \A p \in Persons :
                     /\ compared[p].chart = Chart(d, s, OfPerson(d, s, p), "significance")
                     /\ compared[p].n["significance"] = Worth(d, OfPerson(d, s, p), "significance")
                     /\ SumOver(compared[p].chart) = compared[p].n["significance"]
                     /\ (reading[p] = "no activity") <=> (compared[p].n["significance"] = 0)
               /\ \A r \in Repos :
                     comparedR[r].chart = Chart(d, s, OfRepo(d, s, r), "significance")
<1> DEFINE m == "significance"
           P == Persons
           b == Over("compare_people", "", Persons, {}, "")
           c == Over("compare_repos", "", {}, Repos, "")
           v == Over("volatility", "people", Persons, {}, "significance")
           compared == ComparePeople(d, s, b)
           comparedR == CompareRepos(d, s, c)
           reading == Volatility(d, s, v)
<1>0. m \in Metrics
  BY DEF Metrics
<1>1. /\ b.people = P /\ c.repos = Repos
      /\ v.entity = "people" /\ v.people = P /\ v.metric = m
  <2> DEFINE none == {}
             blank == ""
  <2> HIDE DEF none, blank, P
  <2>1. LET x == Over("compare_people", blank, P, none, blank)
        IN  "compare_people" \in {"review_graph", "compare_people"} => x.people = P
    BY OverAll
  <2>2. LET x == Over("compare_repos", blank, none, Repos, blank)
        IN  "compare_repos" = "compare_repos" => x.repos = Repos
    BY OverAll
  <2>3. LET x == Over("volatility", "people", P, none, "significance")
        IN  /\ x.entity = "people" /\ x.people = P /\ x.repos = none
            /\ x.metric = "significance"
    BY OverAll
  <2> QED BY <2>1, <2>2, <2>3 DEF none, blank, P
<1> HIDE DEF b, c, v
<1>2. compared = [p \in P |-> [n |-> At(PersonLeaderboard(d, Query(s, P, {})), p, Zero),
                               chart |-> Series(WeeklyByEntity(d, Query(s, P, {}), "person"), p, s, m)]]
  BY <1>1 DEF ComparePeople
<1>3. comparedR = [r \in Repos |->
            [n |-> At(RepoLeaderboard(d, Query(s, {}, Repos)), r, [n |-> Zero]).n,
             chart |-> Series(WeeklyByEntity(d, Query(s, {}, Repos), "repo"), r, s, m)]]
  BY <1>1 DEF CompareRepos
<1>4. reading = [p \in P |-> Reading(Series(WeeklyByEntity(d, Query(s, P, {}), "person"), p, s, m))]
  <2>1. Subjects(v) = P
    BY <1>1 DEF Subjects
  <2>2. Evolution(d, s, v) = [p \in P |-> Series(WeeklyByEntity(d, Query(s, P, {}), "person"), p, s, m)]
    BY <1>1, <2>1 DEF Evolution
  <2> QED BY <2>1, <2>2 DEF Volatility
<1>5. ASSUME NEW p \in P
      PROVE  /\ compared[p].chart = Chart(d, s, OfPerson(d, s, p), m)
             /\ compared[p].n[m] = Worth(d, OfPerson(d, s, p), m)
             /\ SumOver(compared[p].chart) = compared[p].n[m]
             /\ (reading[p] = "no activity") <=> (compared[p].n[m] = 0)
  <2> DEFINE X == OfPerson(d, s, p)
             series == Series(WeeklyByEntity(d, Query(s, P, {}), "person"), p, s, m)
  <2>1. compared[p].chart = series /\ reading[p] = Reading(series)
        /\ compared[p].n[m] = At(PersonLeaderboard(d, Query(s, P, {})), p, Zero)[m]
    BY <1>2, <1>4
  <2> HIDE DEF compared, reading, P, m
  <2>2. /\ At(PersonLeaderboard(d, Query(s, P, {})), p, Zero)[m] = Worth(d, OfPerson(d, s, p), m)
        /\ Series(WeeklyByEntity(d, Query(s, P, {}), "person"), p, s, m)
             = Chart(d, s, OfPerson(d, s, p), m)
        /\ SumOver(Chart(d, s, OfPerson(d, s, p), m)) = Worth(d, OfPerson(d, s, p), m)
    BY <1>0, PersonNumbers
  <2>3. Worth(d, X, m) \in Nat
    <3>1. X \in SUBSET All(d, s)
      BY DEF OfPerson
    <3> HIDE DEF X
    <3>2. X \in SUBSET d.rows
      BY <3>1, AllRows
    <3> QED BY <1>0, <3>2, WorthNat
  <2>4. SumOver(series) = Worth(d, X, m)
    BY <2>2
  <2> HIDE DEF series, X
  <2>5. (Reading(series) = "no activity") <=> (SumOver(series) = 0)
    BY <2>3, <2>4, ReadingNone
  <2>6. series = Chart(d, s, X, m)
    BY <2>2 DEF series, X
  <2> QED BY <2>1, <2>2, <2>4, <2>5, <2>6 DEF X
<1>6. ASSUME NEW r \in Repos PROVE comparedR[r].chart = Chart(d, s, OfRepo(d, s, r), m)
  <2>1. comparedR[r].chart = Series(WeeklyByEntity(d, Query(s, {}, Repos), "repo"), r, s, m)
    BY <1>3
  <2> HIDE DEF comparedR, m
  <2>2. Series(WeeklyByEntity(d, Query(s, {}, Repos), "repo"), r, s, m) = Chart(d, s, OfRepo(d, s, r), m)
    BY <1>0, RepoNumbers
  <2> QED BY <2>1, <2>2
<1> QED BY <1>5, <1>6 DEF b, c, v

----------------------------------------------------------------------------
(* Bands, others and bars.                                                 *)

(* Who is drawn and the others make up everybody.                          *)
LEMMA BandsAddUp ==
    ASSUME NEW D, IsFiniteSet(D), NEW f \in [D -> Int], NEW top \in SUBSET D
    PROVE  SumOver(On(f, top)) + SumOver(On(f, D \ top)) = SumOver(f)
<1> DEFINE rest == D \ top
<1>1. rest \in SUBSET D /\ top \cap rest = {} /\ top \cup rest = D
  OBVIOUS
<1>2. On(f, D) = f
  BY DEF On
<1> HIDE DEF rest
<1>3. SumOver(On(f, top \cup rest)) = SumOver(On(f, top)) + SumOver(On(f, rest))
  BY <1>1, SumSplit
<1> QED BY <1>1, <1>2, <1>3 DEF rest

(* The parts of a chart are what its rows are by some key.                 *)
LEMMA PartsOfChart ==
    ASSUME NEW d, Sound(d), NEW s \in Scopes, NEW m \in Metrics, NEW X \in SUBSET d.rows,
           NEW w \in Weeks(s), NEW K, IsFiniteSet(K), NEW key, \A x \in X : key[x] \in K,
           NEW f, DOMAIN f = K, f = [k \in K |-> f[k]],
           \A k \in K : f[k] = Worth(d, {x \in WeekRows(X, w) : key[x] = k}, m)
    PROVE  SumOver(f) = Chart(d, s, X, m)[w] /\ f \in [K -> Int]
<1> DEFINE Y == WeekRows(X, w)
<1>1. Y \in SUBSET d.rows /\ \A x \in Y : key[x] \in K
  BY DEF WeekRows
<1>2. Chart(d, s, X, m)[w] = Worth(d, Y, m)
  BY DEF Chart
<1> HIDE DEF Y
<1>3. \A k \in K : f[k] = Worth(d, {x \in Y : key[x] = k}, m)
  BY DEF Y
<1>4. SumOver(f) = Worth(d, Y, m)
  BY <1>1, <1>3, GroupWorth
<1>5. ASSUME NEW k \in K PROVE f[k] \in Int
  <2> DEFINE Z == {x \in Y : key[x] = k}
  <2>1. Z \in SUBSET d.rows /\ f[k] = Worth(d, Z, m)
    BY <1>1, <1>3
  <2> HIDE DEF Z
  <2>2. Worth(d, Z, m) \in Nat
    BY <2>1, WorthNat
  <2> QED BY <2>1, <2>2
<1> QED BY <1>2, <1>4, <1>5

(* A changed total is the sum of the changes.                              *)
LEMMA ChangesAddUp ==
    ASSUME NEW A, IsFiniteSet(A), NEW now \in [A -> Int],
           NEW B, IsFiniteSet(B), NEW before \in [B -> Int]
    PROVE  /\ SumOver(Change(now, before)) = SumOver(now) - SumOver(before)
           /\ DOMAIN Change(now, before) = A \cup B
           /\ Change(now, before) \in [A \cup B -> Int] /\ IsFiniteSet(A \cup B)
<1> DEFINE U == A \cup B
           f == [e \in U |-> IF e \in A THEN now[e] ELSE 0]
           g == [e \in U |-> IF e \in B THEN before[e] ELSE 0]
           h == Change(now, before)
<1>1. IsFiniteSet(U)
  BY FS_Union
<1>2. f \in [U -> Int] /\ g \in [U -> Int]
  OBVIOUS
<1>3. h = [e \in U |-> f[e] - g[e]]
  BY DEF Change
<1>4. h \in [U -> Int] /\ \A e \in U : f[e] = h[e] + g[e]
  <2> HIDE DEF f, g, h, U
  <2> QED BY <1>2, <1>3
<1>5. /\ A \in SUBSET U /\ On(f, A) = now /\ \A e \in U \ A : f[e] = 0
      /\ B \in SUBSET U /\ On(g, B) = before /\ \A e \in U \ B : g[e] = 0
  BY DEF On
<1> HIDE DEF f, g, h, U
<1>6. SumOver(f) = SumOver(h) + SumOver(g)
  BY <1>1, <1>2, <1>4, SumPlus
<1>7. SumOver(now) = SumOver(f)
  <2>1. SumOver(On(f, A)) = SumOver(f)
    BY <1>1, <1>2, <1>5, SumOfPart
  <2> QED BY <1>5, <2>1
<1>8. SumOver(before) = SumOver(g)
  <2>1. SumOver(On(g, B)) = SumOver(g)
    BY <1>1, <1>2, <1>5, SumOfPart
  <2> QED BY <1>5, <2>1
<1>9. SumOver(h) \in Int /\ SumOver(g) \in Int
  <2>1. SumOver(h) \in Int
    BY <1>1, <1>4, SumInt
  <2>2. SumOver(g) \in Int
    BY <1>1, <1>2, SumInt
  <2> QED BY <2>1, <2>2
<1>10. SumOver(h) = SumOver(now) - SumOver(before)
  BY <1>6, <1>7, <1>8, <1>9
<1> QED BY <1>1, <1>4, <1>10 DEF h, U

(* Somebody is the largest.                                                *)
LEMMA Largest ==
    ASSUME NEW S, IsFiniteSet(S), S # {}, NEW f, \A e \in S : f[e] \in Int
    PROVE  \E e \in S : \A o \in S : f[o] <= f[e]
<1> DEFINE T == {A \in SUBSET S : A = {} \/ \E e \in A : \A o \in A : f[o] <= f[e]}
<1>1. {} \in T
  OBVIOUS
<1>2. ASSUME NEW A \in T, NEW x \in S \ A, A \subseteq S PROVE A \cup {x} \in T
  <2>1. CASE A = {}
    <3>1. \A o \in A \cup {x} : f[o] <= f[x]
      BY <2>1
    <3> QED BY <3>1
  <2>2. CASE A # {}
    <3>1. PICK e \in A : \A o \in A : f[o] <= f[e]
      BY <2>2
    <3>2. f[e] \in Int /\ f[x] \in Int
      BY <1>2
    <3>3. CASE f[x] <= f[e]
      <4>1. \A o \in A \cup {x} : f[o] <= f[e]
        BY <3>1, <3>3
      <4> QED BY <4>1
    <3>4. CASE f[e] < f[x]
      <4>1. \A o \in A : f[o] <= f[x]
        BY <1>2, <3>1, <3>2, <3>4
      <4>2. \A o \in A \cup {x} : f[o] <= f[x]
        BY <3>2, <4>1
      <4> QED BY <4>2
    <3> QED BY <3>2, <3>3, <3>4
  <2> QED BY <2>1, <2>2
<1> HIDE DEF T
<1>3. S \in T
  BY <1>1, <1>2, OverSubsets
<1> QED BY <1>3 DEF T

(* Whoever changed gives a bar, or another who did.                        *)
LEMMA BarsAreDrawn ==
    ASSUME NEW D, IsFiniteSet(D), NEW changes \in [D -> Int],
           LET bars == Bars(changes, 1) IN bars.up \cup bars.down = {}
    PROVE  \A e \in D : changes[e] = 0
<1> DEFINE bars == Bars(changes, 1)
           gainers == {e \in D : changes[e] > 0}
           decliners == {e \in D : changes[e] < 0}
<1>1. /\ bars.up = {e \in gainers : Cardinality({o \in gainers : changes[o] > changes[e]}) < 1}
      /\ bars.down = {e \in decliners : Cardinality({o \in decliners : changes[o] < changes[e]}) < 1}
  BY DEF Bars
<1>2. IsFiniteSet(gainers) /\ IsFiniteSet(decliners)
  <2>1. IsFiniteSet(gainers)
    BY FS_Subset
  <2>2. IsFiniteSet(decliners)
    BY FS_Subset
  <2> QED BY <2>1, <2>2
<1>3. gainers = {}
  <2> SUFFICES ASSUME gainers # {} PROVE FALSE
    OBVIOUS
  <2>1. \A e \in gainers : changes[e] \in Int
    OBVIOUS
  <2>2. PICK e \in gainers : \A o \in gainers : changes[o] <= changes[e]
    <3> HIDE DEF gainers
    <3> QED BY <1>2, <2>1, Largest
  <2> DEFINE above == {o \in gainers : changes[o] > changes[e]}
  <2>3. above = {}
    <3> HIDE DEF gainers
    <3> QED BY <2>1, <2>2
  <2>4. Cardinality(above) = 0
    BY <2>3, FS_EmptySet
  <2>5. e \in bars.up
    <3> HIDE DEF bars, gainers
    <3> QED BY <1>1, <2>4
  <2> QED BY <2>5
<1>4. decliners = {}
  <2> SUFFICES ASSUME decliners # {} PROVE FALSE
    OBVIOUS
  <2> DEFINE f == [e \in D |-> -changes[e]]
  <2>1. \A e \in decliners : f[e] \in Int /\ f[e] = -changes[e] /\ changes[e] \in Int
    OBVIOUS
  <2>2. PICK e \in decliners : \A o \in decliners : f[o] <= f[e]
    <3> HIDE DEF decliners, f
    <3> QED BY <1>2, <2>1, Largest
  <2> DEFINE below == {o \in decliners : changes[o] < changes[e]}
  <2>3. below = {}
    <3> HIDE DEF decliners, f
    <3> QED BY <2>1, <2>2
  <2>4. Cardinality(below) = 0
    BY <2>3, FS_EmptySet
  <2>5. e \in bars.down
    <3> HIDE DEF bars, decliners
    <3> QED BY <1>1, <2>4
  <2> QED BY <2>5
<1> QED BY <1>3, <1>4

(* A composition's bands and its others are the subject's output.          *)
WholeOf(c, w) == SumOver([e \in DOMAIN c.bands |-> c.bands[e][w]]) + c.others[w]

LEMMA RepoComposition ==
    ASSUME NEW d, Sound(d), NEW s \in Scopes, NEW r \in Repos, NEW w \in Weeks(s)
    PROVE  WholeOf(Composition(d, s, [op |-> "composition_repo", repo |-> r]), w)
             = CompareRepos(d, s, [repos |-> {r}])[r].chart[w]
<1> DEFINE m == "significance"
           q == Query(s, {}, {r})
           R == {r}
           X == OfRepo(d, s, r)
           weekly == WeeklyByEntity(d, q, "person")
           D == DOMAIN weekly
           chart == [e \in D |-> Series(weekly, e, s, m)]
           c == Composition(d, s, [op |-> "composition_repo", repo |-> r])
           top == DOMAIN c.bands
           key == [x \in X |-> x.person]
           f == [e \in D |-> chart[e][w]]
<1>0. m \in Metrics
  BY DEF Metrics
<1>1. /\ c.bands = [e \in top |-> chart[e]] /\ top \in SUBSET D
      /\ c.others = [v \in Weeks(s) |-> SumOver([e \in D \ top |-> chart[e][v]])]
  <2> DEFINE Larger(o, e) == SumOver(chart[o]) > SumOver(chart[e])
             T == {e \in D : Cardinality({o \in D : Larger(o, e)}) < Bands}
  <2>1. /\ c.bands = [e \in T |-> chart[e]]
        /\ c.others = [v \in Weeks(s) |-> SumOver([e \in D \ T |-> chart[e][v]])]
    BY DEF Composition
  <2>2. T \in SUBSET D
    OBVIOUS
  <2> HIDE DEF T, chart, c, D
  <2> QED BY <2>1, <2>2
<1>2. Counted(d, q) = X
  BY QueryRows DEF OfRepo
<1>3. X \in SUBSET d.rows /\ IsFiniteSet(X)
  <2> DEFINE A == All(d, s)
  <2>1. X \in SUBSET A /\ IsFiniteSet(A) /\ A \in SUBSET d.rows
    BY AllRows DEF OfRepo
  <2> HIDE DEF X, A
  <2> QED BY <2>1, FS_Subset
<1>4. D = {key[x] : x \in X}
  BY <1>2 DEF WeeklyByEntity
<1>5. IsFiniteSet(D) /\ \A x \in X : key[x] \in D
  <2> HIDE DEF X, key, D
  <2> QED BY <1>3, <1>4, ImageFinite
<1>6. ASSUME NEW e \in D PROVE f[e] = Worth(d, {x \in WeekRows(X, w) : key[x] = e}, m)
  <2>1. chart[e] = Chart(d, s, PersonRows(d, q, e), m)
    <3>1. chart[e] = Series(weekly, e, s, m)
      OBVIOUS
    <3> HIDE DEF q, m, chart
    <3>2. Series(WeeklyByEntity(d, q, "person"), e, s, m) = Chart(d, s, PersonRows(d, q, e), m)
      BY <1>0, PersonChart
    <3> QED BY <3>1, <3>2
  <2>2. WeekRows(PersonRows(d, q, e), w) = {x \in WeekRows(X, w) : key[x] = e}
    BY <1>2 DEF WeekRows, PersonRows
  <2>3. f[e] = Chart(d, s, PersonRows(d, q, e), m)[w]
    <3> HIDE DEF chart, D
    <3> QED BY <2>1
  <2> HIDE DEF f, X, key, m, q, D
  <2> QED BY <2>2, <2>3 DEF Chart
<1>7. DOMAIN f = D /\ f = [e \in D |-> f[e]]
  OBVIOUS
<1>8. SumOver(f) = Chart(d, s, X, m)[w] /\ f \in [D -> Int]
  <2> HIDE DEF f, X, key, m, D
  <2> QED BY <1>0, <1>3, <1>5, <1>6, <1>7, PartsOfChart
<1>9. WholeOf(c, w) = SumOver(f)
  <2>1. /\ [e \in DOMAIN c.bands |-> c.bands[e][w]] = [e \in top |-> f[e]]
        /\ c.others[w] = SumOver([e \in D \ top |-> f[e]])
    <3>1. \A e \in D : chart[e][w] = f[e]
      OBVIOUS
    <3>2. /\ \A e \in top : c.bands[e] = chart[e] /\ e \in D
          /\ c.others[w] = SumOver([e \in D \ top |-> chart[e][w]])
      <4> DEFINE B == c.bands
                 O == c.others
      <4> HIDE DEF B, O, top, chart, D
      <4> QED BY <1>1 DEF B, O
    <3>3. [e \in D \ top |-> chart[e][w]] = [e \in D \ top |-> f[e]]
      BY <3>1
    <3>4. [e \in top |-> c.bands[e][w]] = [e \in top |-> f[e]]
      <4> HIDE DEF top, chart, D, f, c
      <4> QED BY <3>1, <3>2
    <3> HIDE DEF f, chart, c, D
    <3> QED BY <3>2, <3>3, <3>4
  <2> HIDE DEF f, D, top
  <2>2. SumOver(On(f, top)) + SumOver(On(f, D \ top)) = SumOver(f)
    BY <1>1, <1>5, <1>8, BandsAddUp
  <2>3. [e \in top |-> f[e]] = On(f, top) /\ [e \in D \ top |-> f[e]] = On(f, D \ top)
    BY DEF On
  <2> HIDE DEF c
  <2> QED BY <2>1, <2>2, <2>3 DEF WholeOf
<1>10. CompareRepos(d, s, [repos |-> {r}])[r].chart = Chart(d, s, X, m)
  <2>1. CompareRepos(d, s, [repos |-> {r}])[r].chart
          = Series(WeeklyByEntity(d, Query(s, {}, R), "repo"), r, s, m)
    BY DEF CompareRepos
  <2>2. r \in R
    OBVIOUS
  <2> HIDE DEF R, m
  <2>3. Series(WeeklyByEntity(d, Query(s, {}, R), "repo"), r, s, m) = Chart(d, s, OfRepo(d, s, r), m)
    BY <1>0, <2>2, RepoNumbers
  <2> QED BY <2>1, <2>3
<1> HIDE DEF c, f, X, m
<1> QED BY <1>8, <1>9, <1>10 DEF c

LEMMA PersonComposition ==
    ASSUME NEW d, Sound(d), NEW s \in Scopes, NEW p \in Persons, NEW w \in Weeks(s)
    PROVE  WholeOf(Composition(d, s, [op |-> "composition_person", person |-> p]), w)
             = ComparePeople(d, s, [people |-> {p}])[p].chart[w]
<1> DEFINE m == "significance"
           q == Query(s, {p}, {})
           P == {p}
           X == OfPerson(d, s, p)
           weekly == WeeklyByEntity(d, q, "repo")
           D == DOMAIN weekly
           chart == [e \in D |-> Series(weekly, e, s, m)]
           c == Composition(d, s, [op |-> "composition_person", person |-> p])
           top == DOMAIN c.bands
           key == [x \in X |-> x.repo]
           f == [e \in D |-> chart[e][w]]
<1>0. m \in Metrics
  BY DEF Metrics
<1>1. /\ c.bands = [e \in top |-> chart[e]] /\ top \in SUBSET D
      /\ c.others = [v \in Weeks(s) |-> SumOver([e \in D \ top |-> chart[e][v]])]
  <2> DEFINE Larger(o, e) == SumOver(chart[o]) > SumOver(chart[e])
             T == {e \in D : Cardinality({o \in D : Larger(o, e)}) < Bands}
  <2>1. /\ c.bands = [e \in T |-> chart[e]]
        /\ c.others = [v \in Weeks(s) |-> SumOver([e \in D \ T |-> chart[e][v]])]
    BY DEF Composition
  <2>2. T \in SUBSET D
    OBVIOUS
  <2> HIDE DEF T, chart, c, D
  <2> QED BY <2>1, <2>2
<1>2. Counted(d, q) = X
  BY QueryRows DEF OfPerson
<1>3. X \in SUBSET d.rows /\ IsFiniteSet(X)
  <2> DEFINE A == All(d, s)
  <2>1. X \in SUBSET A /\ IsFiniteSet(A) /\ A \in SUBSET d.rows
    BY AllRows DEF OfPerson
  <2> HIDE DEF X, A
  <2> QED BY <2>1, FS_Subset
<1>4. D = {key[x] : x \in X}
  BY <1>2 DEF WeeklyByEntity
<1>5. IsFiniteSet(D) /\ \A x \in X : key[x] \in D
  <2> HIDE DEF X, key, D
  <2> QED BY <1>3, <1>4, ImageFinite
<1>6. ASSUME NEW e \in D PROVE f[e] = Worth(d, {x \in WeekRows(X, w) : key[x] = e}, m)
  <2>1. chart[e] = Chart(d, s, RepoRows(d, q, e), m)
    <3>1. chart[e] = Series(weekly, e, s, m)
      OBVIOUS
    <3> HIDE DEF q, m, chart
    <3>2. Series(WeeklyByEntity(d, q, "repo"), e, s, m) = Chart(d, s, RepoRows(d, q, e), m)
      BY <1>0, RepoChart
    <3> QED BY <3>1, <3>2
  <2>2. WeekRows(RepoRows(d, q, e), w) = {x \in WeekRows(X, w) : key[x] = e}
    BY <1>2 DEF WeekRows, RepoRows
  <2>3. f[e] = Chart(d, s, RepoRows(d, q, e), m)[w]
    <3> HIDE DEF chart, D
    <3> QED BY <2>1
  <2> HIDE DEF f, X, key, m, q, D
  <2> QED BY <2>2, <2>3 DEF Chart
<1>7. DOMAIN f = D /\ f = [e \in D |-> f[e]]
  OBVIOUS
<1>8. SumOver(f) = Chart(d, s, X, m)[w] /\ f \in [D -> Int]
  <2> HIDE DEF f, X, key, m, D
  <2> QED BY <1>0, <1>3, <1>5, <1>6, <1>7, PartsOfChart
<1>9. WholeOf(c, w) = SumOver(f)
  <2>1. /\ [e \in DOMAIN c.bands |-> c.bands[e][w]] = [e \in top |-> f[e]]
        /\ c.others[w] = SumOver([e \in D \ top |-> f[e]])
    <3>1. \A e \in D : chart[e][w] = f[e]
      OBVIOUS
    <3>2. /\ \A e \in top : c.bands[e] = chart[e] /\ e \in D
          /\ c.others[w] = SumOver([e \in D \ top |-> chart[e][w]])
      <4> DEFINE B == c.bands
                 O == c.others
      <4> HIDE DEF B, O, top, chart, D
      <4> QED BY <1>1 DEF B, O
    <3>3. [e \in D \ top |-> chart[e][w]] = [e \in D \ top |-> f[e]]
      BY <3>1
    <3>4. [e \in top |-> c.bands[e][w]] = [e \in top |-> f[e]]
      <4> HIDE DEF top, chart, D, f, c
      <4> QED BY <3>1, <3>2
    <3> HIDE DEF f, chart, c, D
    <3> QED BY <3>2, <3>3, <3>4
  <2> HIDE DEF f, D, top
  <2>2. SumOver(On(f, top)) + SumOver(On(f, D \ top)) = SumOver(f)
    BY <1>1, <1>5, <1>8, BandsAddUp
  <2>3. [e \in top |-> f[e]] = On(f, top) /\ [e \in D \ top |-> f[e]] = On(f, D \ top)
    BY DEF On
  <2> HIDE DEF c
  <2> QED BY <2>1, <2>2, <2>3 DEF WholeOf
<1>10. ComparePeople(d, s, [people |-> {p}])[p].chart = Chart(d, s, X, m)
  <2>1. ComparePeople(d, s, [people |-> {p}])[p].chart
          = Series(WeeklyByEntity(d, Query(s, P, {}), "person"), p, s, m)
    BY DEF ComparePeople
  <2>2. p \in P
    OBVIOUS
  <2> HIDE DEF P, m
  <2>3. Series(WeeklyByEntity(d, Query(s, P, {}), "person"), p, s, m) = Chart(d, s, OfPerson(d, s, p), m)
    BY <1>0, <2>2, PersonNumbers
  <2> QED BY <2>1, <2>3
<1> HIDE DEF c, f, X, m
<1> QED BY <1>8, <1>9, <1>10 DEF c

(* The lines of a leaderboard add up to what is counted.                   *)
PersonLines(d, q) == [p \in DOMAIN PersonLeaderboard(d, q) |-> PersonLeaderboard(d, q)[p]["significance"]]
RepoLines(d, q) == [r \in DOMAIN RepoLeaderboard(d, q) |-> RepoLeaderboard(d, q)[r].n["significance"]]

LEMMA LinesAddUp ==
    ASSUME NEW d, Sound(d), NEW q
    PROVE  LET A == DOMAIN PersonLeaderboard(d, q)
               B == DOMAIN RepoLeaderboard(d, q)
               total == Totals(d, q).n["significance"]
           IN  /\ IsFiniteSet(A) /\ PersonLines(d, q) \in [A -> Int]
               /\ IsFiniteSet(B) /\ RepoLines(d, q) \in [B -> Int]
               /\ SumOver(PersonLines(d, q)) = total /\ SumOver(RepoLines(d, q)) = total
<1> DEFINE m == "significance"
           people == PersonLeaderboard(d, q)
           repos == RepoLeaderboard(d, q)
           A == DOMAIN people
           B == DOMAIN repos
           X == Counted(d, q)
           person == [x \in X |-> x.person]
           repo == [x \in X |-> x.repo]
<1>0. m \in Metrics
  BY DEF Metrics
<1>1. X \in SUBSET d.rows /\ IsFiniteSet(X)
  <2> DEFINE R == d.rows
  <2>1. X \in SUBSET R /\ IsFiniteSet(R)
    BY <1>0, CountedRows, NumbersTyped
  <2> HIDE DEF X, R
  <2>2. IsFiniteSet(X)
    BY <2>1, FS_Subset
  <2> QED BY <2>1, <2>2 DEF R
<1>2. A = {person[x] : x \in X} /\ B = {repo[x] : x \in X}
  BY DEF PersonLeaderboard, RepoLeaderboard
<1>3. IsFiniteSet(A) /\ IsFiniteSet(B)
  <2> HIDE DEF X, A, B, person, repo
  <2>1. IsFiniteSet(A)
    BY <1>1, <1>2, ImageFinite
  <2>2. IsFiniteSet(B)
    BY <1>1, <1>2, ImageFinite
  <2> QED BY <2>1, <2>2
<1>4. \A p \in A : people[p][m] \in Int
  <2> SUFFICES ASSUME NEW p \in A PROVE people[p][m] \in Int
    OBVIOUS
  <2> DEFINE Y == PersonRows(d, q, p)
  <2>1. people[p] = [k \in Metrics |-> Worth(d, Y, k)]
    BY PersonLine
  <2>2. Y \in SUBSET d.rows
    BY CountedRows DEF PersonRows
  <2> HIDE DEF people, Y, m
  <2>3. Worth(d, Y, m) \in Nat
    BY <1>0, <2>2, WorthNat
  <2> QED BY <1>0, <2>1, <2>3
<1>5. \A r \in B : repos[r].n[m] \in Int
  <2> SUFFICES ASSUME NEW r \in B PROVE repos[r].n[m] \in Int
    OBVIOUS
  <2> DEFINE Y == RepoRows(d, q, r)
  <2>1. repos[r].n = At(repos, r, [n |-> Zero]).n
    BY RepoLine
  <2>2. At(repos, r, [n |-> Zero]).n = [k \in Metrics |-> Worth(d, Y, k)]
    BY RepoLine
  <2>3. Y \in SUBSET d.rows
    BY CountedRows DEF RepoRows
  <2> HIDE DEF repos, Y, m
  <2>4. Worth(d, Y, m) \in Nat
    BY <1>0, <2>3, WorthNat
  <2> QED BY <1>0, <2>1, <2>2, <2>4
<1>6. Totals(d, q).n[m] = Worth(d, X, m) /\ Totals(d, q).n[m] = BoardSum(people, m)
  <2>1. Totals(d, q).n = [k \in Metrics |-> Worth(d, X, k)]
    BY TotalWorth
  <2>2. Totals(d, q).n = [k \in Metrics |-> BoardSum(people, k)]
    BY DEF Totals
  <2> HIDE DEF people, X, m
  <2>3. Totals(d, q).n[m] = Worth(d, X, m)
    BY <1>0, <2>1
  <2>4. Totals(d, q).n[m] = BoardSum(people, m)
    BY <1>0, <2>2
  <2> QED BY <2>3, <2>4
<1>7. SumOver(PersonLines(d, q)) = BoardSum(people, m)
  BY DEF PersonLines, BoardSum
<1>8. SumOver(RepoLines(d, q)) = Worth(d, X, m)
  <2>1. SumOver(RepoLines(d, q)) = RepoSum(repos, m)
    BY DEF RepoLines, RepoSum
  <2>2. RepoSum(repos, m) = Worth(d, X, m)
    <3> HIDE DEF m
    <3> QED BY <1>0, RepoSumWorth
  <2> QED BY <2>1, <2>2
<1>9. PersonLines(d, q) \in [A -> Int] /\ RepoLines(d, q) \in [B -> Int]
  <2>1. /\ PersonLines(d, q) = [p \in A |-> people[p][m]]
        /\ RepoLines(d, q) = [r \in B |-> repos[r].n[m]]
    BY DEF PersonLines, RepoLines
  <2> HIDE DEF A, B, people, repos, m
  <2> QED BY <1>4, <1>5, <2>1
<1> QED BY <1>3, <1>6, <1>7, <1>8, <1>9

(* The changes of people and of repositories add up to the same.           *)
LEMMA Performance ==
    ASSUME NEW d, Sound(d), NEW s
    PROVE  LET Significance(scope) == Totals(d, Query(scope, {}, {})).n["significance"]
               bars == Bars(PeoplePerformance(d, s), 1)
           IN  /\ SumOver(PeoplePerformance(d, s)) = Significance(s) - Significance(PreviousRange(s))
               /\ SumOver(RepoPerformance(d, s)) = SumOver(PeoplePerformance(d, s))
               /\ (bars.up \cup bars.down = {}) =>
                     \A p \in DOMAIN PeoplePerformance(d, s) : PeoplePerformance(d, s)[p] = 0
<1> DEFINE q == Query(s, {}, {})
           b == Query(PreviousRange(s), {}, {})
           A(x) == DOMAIN PersonLeaderboard(d, x)
           B(x) == DOMAIN RepoLeaderboard(d, x)
           total(x) == Totals(d, x).n["significance"]
           bars == Bars(PeoplePerformance(d, s), 1)
<1>1. /\ PeoplePerformance(d, s) = Change(PersonLines(d, q), PersonLines(d, b))
      /\ RepoPerformance(d, s) = Change(RepoLines(d, q), RepoLines(d, b))
  BY DEF PeoplePerformance, RepoPerformance, PersonLines, RepoLines
<1> HIDE DEF q, b
<1>2. \A x : /\ IsFiniteSet(A(x)) /\ PersonLines(d, x) \in [A(x) -> Int]
             /\ IsFiniteSet(B(x)) /\ RepoLines(d, x) \in [B(x) -> Int]
             /\ SumOver(PersonLines(d, x)) = total(x) /\ SumOver(RepoLines(d, x)) = total(x)
  BY LinesAddUp
<1> HIDE DEF A, B, total
<1>3. LET changes == Change(PersonLines(d, q), PersonLines(d, b))
          U == A(q) \cup A(b)
      IN  /\ SumOver(changes) = total(q) - total(b)
          /\ DOMAIN changes = U /\ changes \in [U -> Int] /\ IsFiniteSet(U)
  BY <1>2, ChangesAddUp
<1>4. SumOver(Change(RepoLines(d, q), RepoLines(d, b))) = total(q) - total(b)
  <2> DEFINE f == RepoLines(d, q)
             g == RepoLines(d, b)
             C == B(q)
             D == B(b)
  <2>1. /\ IsFiniteSet(C) /\ f \in [C -> Int] /\ IsFiniteSet(D) /\ g \in [D -> Int]
        /\ SumOver(f) = total(q) /\ SumOver(g) = total(b)
    BY <1>2
  <2> HIDE DEF f, g, C, D
  <2>2. /\ SumOver(Change(f, g)) = SumOver(f) - SumOver(g)
        /\ DOMAIN Change(f, g) = C \cup D
        /\ Change(f, g) \in [C \cup D -> Int] /\ IsFiniteSet(C \cup D)
    BY <2>1, ChangesAddUp
  <2> QED BY <2>1, <2>2 DEF f, g
<1>5. ASSUME bars.up \cup bars.down = {}
      PROVE  \A p \in DOMAIN PeoplePerformance(d, s) : PeoplePerformance(d, s)[p] = 0
  <2> DEFINE changes == PeoplePerformance(d, s)
             U == A(q) \cup A(b)
  <2>1. DOMAIN changes = U /\ changes \in [U -> Int] /\ IsFiniteSet(U)
    BY <1>1, <1>3
  <2>2. LET drawn == Bars(changes, 1) IN drawn.up \cup drawn.down = {}
    BY <1>5
  <2> HIDE DEF changes, U
  <2>3. \A e \in U : changes[e] = 0
    BY <2>1, <2>2, BarsAreDrawn
  <2> QED BY <2>1, <2>3 DEF changes
<1> QED BY <1>1, <1>3, <1>4, <1>5 DEF q, b, total

----------------------------------------------------------------------------
(* Every number can be traced.                                             *)

LEMMA TraceNow == Sound(db) => NumbersTrace
<1> SUFFICES ASSUME Sound(db) PROVE NumbersTrace
  OBVIOUS
<1>1. RowsAreRebuilt
  BY DEF Sound, RowsAreRebuilt
<1>2. DrilldownTraces
  BY DrilledDown DEF DrilldownTraces
<1>3. ChartsAddUp
  BY ChartsSum DEF ChartsAddUp
<1>4. ReviewsTrace
  BY ReviewsSum DEF ReviewsTrace
<1>5. StandingsAgree
  BY Standing DEF StandingsAgree
<1>6. PairsAgree
  <2> SUFFICES ASSUME NEW s \in Scopes
               PROVE
        LET compared == ComparePeople(db, s, Over("compare_people", "", Persons, {}, ""))
            comparedR == CompareRepos(db, s, Over("compare_repos", "", {}, Repos, ""))
            reading == Volatility(db, s, Over("volatility", "people", Persons, {}, "significance"))
        IN /\ \A p \in Persons :
                 /\ SumOver(compared[p].chart) = compared[p].n["significance"]
                 /\ (reading[p] = "no activity") <=> (compared[p].n["significance"] = 0)
                 /\ \A r \in Repos :
                       LET pair == CorrelatePersonRepo(db, s, [person |-> p, repo |-> r])
                       IN /\ pair.focus = compared[p].chart
                          /\ (s.orgs = {} \/ OrgOf[r] \in s.orgs) => pair.presence = comparedR[r].chart
                          /\ \A w \in Weeks(s) : /\ pair.both[w] <= pair.presence[w]
                                                 /\ pair.both[w] <= pair.focus[w]
                          /\ SumOver(pair.both) = pair.mine["significance"]
                          /\ (pair.span = {}) <=> (pair.mine = Zero)
           /\ \A p, q \in Persons : p # q =>
                 LET pair == CorrelatePeople(db, s, [person |-> p, person_b |-> q])
                     groups == CompareGroups(db, s, [people |-> {p, q}, people_b |-> Persons])
                 IN /\ pair.shared = OverlapPeople(db, s, [people |-> {p, q}])
                    /\ pair.both \subseteq Weeks(s) \cup {WeekOf(s.start)}
                    /\ \A g \in 1..2 :
                          SumOver(groups[g].chart) = groups[g].n["significance"]
                    /\ groups[1].n["significance"]
                         = compared[p].n["significance"] + compared[q].n["significance"]
           /\ \A r1, r2 \in Repos : r1 # r2 =>
                 CorrelateRepos(db, s, [repo |-> r1, repo_b |-> r2]).shared
                   = OverlapRepos(db, s, [repos |-> {r1, r2}])
    BY DEF PairsAgree
  <2> DEFINE m == "significance"
             compared == ComparePeople(db, s, Over("compare_people", "", Persons, {}, ""))
             comparedR == CompareRepos(db, s, Over("compare_repos", "", {}, Repos, ""))
             reading == Volatility(db, s, Over("volatility", "people", Persons, {}, "significance"))
  <2>1. /\ \A p \in Persons :
              /\ compared[p].chart = Chart(db, s, OfPerson(db, s, p), m)
              /\ compared[p].n[m] = Worth(db, OfPerson(db, s, p), m)
              /\ SumOver(compared[p].chart) = compared[p].n[m]
              /\ (reading[p] = "no activity") <=> (compared[p].n[m] = 0)
        /\ \A r \in Repos : comparedR[r].chart = Chart(db, s, OfRepo(db, s, r), m)
    BY PairsTogether
  <2> HIDE DEF compared, comparedR, reading
  <2>2. ASSUME NEW p \in Persons, NEW r \in Repos
        PROVE  LET pair == CorrelatePersonRepo(db, s, [person |-> p, repo |-> r])
               IN /\ pair.focus = compared[p].chart
                  /\ (s.orgs = {} \/ OrgOf[r] \in s.orgs) => pair.presence = comparedR[r].chart
                  /\ \A w \in Weeks(s) : /\ pair.both[w] <= pair.presence[w]
                                         /\ pair.both[w] <= pair.focus[w]
                  /\ SumOver(pair.both) = pair.mine[m]
                  /\ (pair.span = {}) <=> (pair.mine = Zero)
    <3> DEFINE pair == CorrelatePersonRepo(db, s, [person |-> p, repo |-> r])
    <3>1. /\ pair.focus = Chart(db, s, OfPerson(db, s, p), m)
          /\ pair.presence = Chart(db, s, OfRepo(db, s, r), m)
          /\ \A w \in Weeks(s) : /\ pair.both[w] <= pair.presence[w]
                                 /\ pair.both[w] <= pair.focus[w]
          /\ SumOver(pair.both) = pair.mine[m]
          /\ (pair.span = {}) <=> (pair.mine = Zero)
      BY PersonInRepo
    <3>2. /\ compared[p].chart = Chart(db, s, OfPerson(db, s, p), m)
          /\ comparedR[r].chart = Chart(db, s, OfRepo(db, s, r), m)
      BY <2>1
    <3> HIDE DEF pair
    <3>3. pair.focus = compared[p].chart /\ pair.presence = comparedR[r].chart
      BY <3>1, <3>2
    <3> QED BY <3>1, <3>3 DEF pair
  <2>3. ASSUME NEW p \in Persons, NEW q \in Persons, p # q
        PROVE  LET pair == CorrelatePeople(db, s, [person |-> p, person_b |-> q])
                   groups == CompareGroups(db, s, [people |-> {p, q}, people_b |-> Persons])
               IN /\ pair.shared = OverlapPeople(db, s, [people |-> {p, q}])
                  /\ pair.both \subseteq Weeks(s) \cup {WeekOf(s.start)}
                  /\ \A g \in 1..2 : SumOver(groups[g].chart) = groups[g].n[m]
                  /\ groups[1].n[m] = compared[p].n[m] + compared[q].n[m]
    <3> DEFINE pair == CorrelatePeople(db, s, [person |-> p, person_b |-> q])
               groups == CompareGroups(db, s, [people |-> {p, q}, people_b |-> Persons])
    <3>1. /\ pair.shared = OverlapPeople(db, s, [people |-> {p, q}])
          /\ pair.both \subseteq Weeks(s) \cup {WeekOf(s.start)}
          /\ \A g \in 1..2 : SumOver(groups[g].chart) = groups[g].n[m]
          /\ groups[1].n[m] = Worth(db, OfPerson(db, s, p), m) + Worth(db, OfPerson(db, s, q), m)
      BY <2>3, TwoPersons
    <3>2. /\ compared[p].n[m] = Worth(db, OfPerson(db, s, p), m)
          /\ compared[q].n[m] = Worth(db, OfPerson(db, s, q), m)
      BY <2>1
    <3> HIDE DEF pair, groups, m
    <3>3. groups[1].n[m] = compared[p].n[m] + compared[q].n[m]
      BY <3>1, <3>2
    <3> QED BY <3>1, <3>3 DEF pair, groups
  <2>4. ASSUME NEW r1 \in Repos, NEW r2 \in Repos
        PROVE  CorrelateRepos(db, s, [repo |-> r1, repo_b |-> r2]).shared
                 = OverlapRepos(db, s, [repos |-> {r1, r2}])
    BY TwoRepos
  <2> QED BY <2>1, <2>2, <2>3, <2>4 DEF compared, comparedR, reading
<1>7. PartsAddUp
  <2> SUFFICES ASSUME NEW s \in Scopes
               PROVE
        LET Whole(c, w) == SumOver([e \in DOMAIN c.bands |-> c.bands[e][w]]) + c.others[w]
            Significance(scope) == Totals(db, Query(scope, {}, {})).n["significance"]
        IN /\ \A r \in Repos :
                 LET c == Composition(db, s, [op |-> "composition_repo", repo |-> r])
                     chart == CompareRepos(db, s, [repos |-> {r}])[r].chart
                 IN \A w \in Weeks(s) : Whole(c, w) = chart[w]
           /\ \A p \in Persons :
                 LET c == Composition(db, s, [op |-> "composition_person", person |-> p])
                     chart == ComparePeople(db, s, [people |-> {p}])[p].chart
                 IN \A w \in Weeks(s) : Whole(c, w) = chart[w]
           /\ SumOver(PeoplePerformance(db, s)) = Significance(s) - Significance(PreviousRange(s))
           /\ SumOver(RepoPerformance(db, s)) = SumOver(PeoplePerformance(db, s))
           /\ LET bars == Bars(PeoplePerformance(db, s), 1)
              IN (bars.up \cup bars.down = {}) =>
                    \A p \in DOMAIN PeoplePerformance(db, s) : PeoplePerformance(db, s)[p] = 0
    BY DEF PartsAddUp
  <2>1. \A r \in Repos : \A w \in Weeks(s) :
           WholeOf(Composition(db, s, [op |-> "composition_repo", repo |-> r]), w)
             = CompareRepos(db, s, [repos |-> {r}])[r].chart[w]
    BY RepoComposition
  <2>2. \A p \in Persons : \A w \in Weeks(s) :
           WholeOf(Composition(db, s, [op |-> "composition_person", person |-> p]), w)
             = ComparePeople(db, s, [people |-> {p}])[p].chart[w]
    BY PersonComposition
  <2>3. LET Significance(scope) == Totals(db, Query(scope, {}, {})).n["significance"]
            bars == Bars(PeoplePerformance(db, s), 1)
        IN  /\ SumOver(PeoplePerformance(db, s)) = Significance(s) - Significance(PreviousRange(s))
            /\ SumOver(RepoPerformance(db, s)) = SumOver(PeoplePerformance(db, s))
            /\ (bars.up \cup bars.down = {}) =>
                  \A p \in DOMAIN PeoplePerformance(db, s) : PeoplePerformance(db, s)[p] = 0
    BY Performance
  <2> QED BY <2>1, <2>2, <2>3 DEF WholeOf
<1> QED BY <1>1, <1>2, <1>3, <1>4, <1>5, <1>6, <1>7 DEF NumbersTrace

(* After any ingests, merges, splits and filter edits every number that is *)
(* shown can be traced to the base tables, from one view to another and    *)
(* from the parts to the whole (services/stats.py, services/research.py).  *)
THEOREM NumbersTraced == Spec => []NumbersTrace
<1>1. DbSound => NumbersTrace
  BY TraceNow DEF DbSound
<1> QED BY <1>1, AlwaysSound, PTL
=============================================================================
