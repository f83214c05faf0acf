--------------------------- MODULE PrSyncProofs ---------------------------
(* Proofs about the listing and the storing of pull requests, for every     *)
(* number of them, of reviews and of logins, and for every size of page.    *)
EXTENDS PrSync, FiniteSetTheorems, WellFoundedInduction, TLAPS

Lists == {"graphql", "rest", "details", "last"}
Works == {"pull", "reviews"}

----------------------------------------------------------------------------
(* Facts and the logins behind them.                                        *)

LEMMA FactsHaveLogins ==
    /\ \A p \in Pulls, k \in States :
          <<p, k>> \in Facts /\ ItemOf(<<p, k>>) = p /\ By(<<p, k>>) = AuthorOf[p]
    /\ \A r \in Reviews :
          r \in Facts /\ r \notin PullFacts /\ ItemOf(r) = r /\ By(r) = AuthorOf[r]
    /\ \A x \in Items : AuthorOf[x] \in Logins
    /\ \A f \in Facts : By(f) \in Logins /\ ItemOf(f) \in Items
<1>1. ASSUME NEW p \in Pulls, NEW k \in States
      PROVE  <<p, k>> \in PullFacts /\ ItemOf(<<p, k>>) = p /\ By(<<p, k>>) = AuthorOf[p]
  BY DEF PullFacts, By, ItemOf
<1>2. ASSUME NEW r \in Reviews
      PROVE  r \notin PullFacts /\ ItemOf(r) = r /\ By(r) = AuthorOf[r]
  BY PullsAssumption DEF By, ItemOf
<1>3. \A x \in Items : AuthorOf[x] \in Logins
  BY DEF Logins, Items
<1>4. ASSUME NEW f \in Facts PROVE By(f) \in Logins /\ ItemOf(f) \in Items
  <2>1. CASE f \in Reviews
    BY <1>2, <1>3, <2>1 DEF Items
  <2>2. CASE f \in PullFacts
    <3>1. PICK p \in Pulls, k \in States : f = <<p, k>>
      BY <2>2 DEF PullFacts
    <3> QED BY <1>1, <1>3, <3>1 DEF Items
  <2> QED BY <2>1, <2>2 DEF Facts
<1> QED BY <1>1, <1>2, <1>3, <1>4 DEF Facts

LEMMA MaxOfTwo ==
    ASSUME NEW a \in Nat, NEW b \in Nat
    PROVE  Max({a, b}) \in {a, b} /\ Max({a, b}) >= a /\ Max({a, b}) >= b
<1>1. \E x \in {a, b} : \A y \in {a, b} : x >= y
  OBVIOUS
<1> QED BY <1>1 DEF Max

----------------------------------------------------------------------------
(* GitHub as a sync meets it, and what the sync holds of it.                *)

GitHubInv ==
    /\ \A p \in Pulls : gh[p].at <= clock /\ (gh[p].state = "none" <=> gh[p].at = 0)
    /\ \A r \in ghRevs : gh[PullOf[r]].state # "none"

(* What has been listed is newer than the watermark, and GitHub can only    *)
(* have gone on since.                                                      *)
GotInv ==
    \A i \in sync.got :
        /\ db.synced < i.at /\ i.at <= gh[i.number].at
        /\ \A r \in i.reviews : PullOf[r] = i.number

PhaseInv ==
    /\ db.next # 0
    /\ sync.since <= clock
    /\ sync.at \in Lists => sync.since = db.synced
    /\ sync.at \in Works =>
          /\ db.synced <= sync.since
          /\ Integrity(sync.work, sync.anon, (sync.work \cap Reviews) \cup sync.todo)
    /\ sync.at # "reviews" => sync.todo = {}
    /\ sync.at \notin {"details", "last"} => sync.batch = {}
    /\ sync.batch \subseteq sync.got
    /\ sync.todo \cap sync.work = {}
    /\ \A r \in sync.todo : db.synced < gh[PullOf[r]].at

TypeInv == TypeOK /\ GitHubInv /\ GotInv /\ PhaseInv

Databases == [facts : SUBSET Facts, anon : SUBSET Items, owner : [Logins -> Nat],
              next : Nat, synced : 0..MaxClock]

LEMMA RestingTypes ==
    /\ Resting.at = "idle" /\ Resting.since = 0 /\ Resting.before = Start
    /\ Resting.page = 0 /\ Resting.got = {} /\ Resting.batch = {} /\ Resting.moved = {}
    /\ Resting.todo = {} /\ Resting.work = {} /\ Resting.anon = {} /\ Resting.held = {}
    /\ Resting.affected = {} /\ Resting.committed = {} /\ Resting.robbed = {}
    /\ Start \in Nat \X Nat
    /\ Resting \in Syncs
BY PrSyncBounds DEF Resting, Start, Syncs

LEMMA TypeInit == Init => TypeInv
<1> SUFFICES ASSUME Init PROVE TypeInv
  OBVIOUS
<1> USE DEF Init
<1>1. TypeOK
  <2>1. gh \in [Pulls -> [state : Kinds, at : 0..MaxClock, tied : BOOLEAN]]
    BY PrSyncBounds DEF NoPull, Kinds
  <2>2. db \in Databases /\ db.facts = {}
    BY PrSyncBounds DEF Databases
  <2>3. Integrity(db.facts, db.anon, db.facts \cap Reviews)
    BY <2>2 DEF Integrity, States
  <2>4. clock \in 1..MaxClock /\ upsets \in 0..MaxUpsets /\ db.synced <= clock
    BY PrSyncBounds
  <2>5. rollup \subseteq Nat \X Facts /\ crowded \in BOOLEAN
    OBVIOUS
  <2>6. sync \in Syncs
    BY RestingTypes
  <2> QED BY <2>1, <2>2, <2>3, <2>4, <2>5, <2>6 DEF TypeOK, Databases
<1>2. GitHubInv
  BY PrSyncBounds DEF GitHubInv, NoPull
<1>3. GotInv /\ PhaseInv
  BY PrSyncBounds, RestingTypes DEF GotInv, PhaseInv, Lists, Works
<1> QED BY <1>1, <1>2, <1>3 DEF TypeInv

(* Somebody opens, reviews or merges a pull request.                        *)
Update(p) ==
    /\ \E k \in States : Updated(p, k)
    /\ ghRevs \subseteq ghRevs' /\ ghRevs' \subseteq Reviews
    /\ \A r \in ghRevs' \ ghRevs : PullOf[r] = p

LEMMA ChangesUpdate ==
    ASSUME TypeOK, NEW p \in Pulls, OpenPull(p) \/ MergePull(p)
    PROVE  Update(p)
BY DEF OpenPull, MergePull, Update, States, TypeOK

LEMMA ReviewUpdates ==
    ASSUME TypeOK, NEW r \in Reviews, SubmitReview(r)
    PROVE  PullOf[r] \in Pulls /\ Update(PullOf[r])
<1>1. PullOf[r] \in Pulls
  BY PullsAssumption
<1>2. gh[PullOf[r]].state \in States
  BY <1>1 DEF SubmitReview, TypeOK, Kinds
<1> QED BY <1>1, <1>2 DEF SubmitReview, Update, TypeOK

(* What the session and the summary have, which no listing touches.         *)
SummarySame ==
    /\ sync'.since = sync.since /\ sync'.todo = sync.todo /\ sync'.held = sync.held
    /\ sync'.affected = sync.affected /\ sync'.committed = sync.committed
    /\ sync'.robbed = sync.robbed
WorkSame == sync'.work = sync.work /\ sync'.anon = sync.anon
ListSame ==
    /\ sync'.before = sync.before /\ sync'.page = sync.page /\ sync'.got = sync.got
    /\ sync'.batch = sync.batch

(* What an update leaves as it was.                                         *)
LEMMA UpdateKeeps ==
    ASSUME TypeOK, NEW p \in Pulls, Update(p)
    PROVE  /\ UNCHANGED <<clock, gone, db, rollup, upsets, unread, lost>>
           /\ gh' \in [Pulls -> [state : Kinds, at : 0..MaxClock, tied : BOOLEAN]]
           /\ gh'[p].at = clock /\ gh'[p].state \in States /\ gh'[p].tied = SecondSeen
           /\ \A q \in Pulls \ {p} : gh'[q] = gh[q] /\ ReviewsOf(q)' = ReviewsOf(q)
           /\ ghRevs \subseteq ghRevs' /\ ghRevs' \subseteq Reviews
           /\ \A r \in ghRevs' \ ghRevs : PullOf[r] = p
           /\ sync'.at = sync.at /\ SummarySame /\ WorkSame /\ ListSame
           /\ sync'.moved = IF sync.at \in {"rest", "details"}
                            THEN sync.moved \cup {p} ELSE sync.moved
           /\ sync' \in Syncs /\ missed' = missed \ {p}
           /\ crowded' = (crowded \/ Cardinality(sync'.moved) >= RestPage)
<1>1. PICK k \in States : Updated(p, k)
  BY DEF Update
<1>2. clock \in 0..MaxClock /\ SecondSeen \in BOOLEAN
  BY PrSyncBounds DEF TypeOK, SecondSeen
<1>3. gh' = [gh EXCEPT ![p] = [state |-> k, at |-> clock, tied |-> SecondSeen]]
  BY <1>1 DEF Updated
<1>4. /\ gh' \in [Pulls -> [state : Kinds, at : 0..MaxClock, tied : BOOLEAN]]
      /\ gh'[p].at = clock /\ gh'[p].state \in States /\ gh'[p].tied = SecondSeen
      /\ \A q \in Pulls \ {p} : gh'[q] = gh[q]
  BY <1>2, <1>3 DEF TypeOK, Kinds
<1>5. /\ ghRevs \subseteq ghRevs' /\ ghRevs' \subseteq Reviews
      /\ \A r \in ghRevs' \ ghRevs : PullOf[r] = p
  BY DEF Update
<1>6. \A q \in Pulls \ {p} : ReviewsOf(q)' = ReviewsOf(q)
  BY <1>5 DEF ReviewsOf
<1>7. sync' = IF sync.at \in {"rest", "details"} THEN [sync EXCEPT !.moved = @ \cup {p}]
                                                 ELSE sync
  BY <1>1 DEF Updated
<1>8. /\ sync'.at = sync.at /\ SummarySame /\ WorkSame /\ ListSame
      /\ sync'.moved = IF sync.at \in {"rest", "details"}
                       THEN sync.moved \cup {p} ELSE sync.moved
      /\ sync' \in Syncs
  BY <1>7 DEF TypeOK, Syncs, SummarySame, WorkSame, ListSame
<1>9. /\ UNCHANGED <<clock, gone, db, rollup, upsets, unread, lost>> /\ missed' = missed \ {p}
      /\ crowded' = (crowded \/ Cardinality(sync'.moved) >= RestPage)
  BY <1>1 DEF Updated
<1> QED BY <1>4, <1>5, <1>6, <1>8, <1>9

----------------------------------------------------------------------------
(* The order of a listing.                                                  *)

LEMMA NewerOrders ==
    ASSUME NEW a \in Nat \X Nat, NEW b \in Nat \X Nat, NEW c \in Nat \X Nat
    PROVE  /\ ~Newer(a, a)
           /\ Newer(a, b) /\ Newer(b, c) => Newer(a, c)
           /\ Newer(a, b) \/ Newer(b, a) \/ a = b
           /\ Newer(a, b) => b[1] <= a[1]
BY DEF Newer

LEMMA PlacesDiffer ==
    ASSUME TypeOK, NEW p \in Pulls, NEW q \in Pulls
    PROVE  /\ Place(p) \in Nat \X Nat /\ Place(p)[1] = gh[p].at
           /\ Place(p) = Place(q) => p = q
           /\ p # q => Newer(Place(p), Place(q)) \/ Newer(Place(q), Place(p))
           /\ Newer(Place(p), Place(q)) => gh[q].at <= gh[p].at /\ ~Newer(Place(q), Place(p))
<1>1. gh[p].at \in Nat /\ gh[q].at \in Nat /\ p \in Nat /\ q \in Nat
  BY PullsAssumption DEF TypeOK
<1> QED BY <1>1 DEF Place, Newer

NewerThan(S, p) == {q \in S : Newer(Place(q), Place(p))}

LEMMA RankGrows ==
    ASSUME TypeOK, NEW S \in SUBSET Pulls, NEW p \in S, NEW q \in S
    PROVE  /\ IsFiniteSet(NewerThan(S, p)) /\ Rank(S, p) = Cardinality(NewerThan(S, p))
           /\ Rank(S, p) \in Nat
           /\ Newer(Place(p), Place(q)) => NewerThan(S, p) \subseteq NewerThan(S, q)
           /\ Newer(Place(p), Place(q)) <=> Rank(S, p) < Rank(S, q)
<1>1. ASSUME NEW x \in S
      PROVE  /\ IsFiniteSet(NewerThan(S, x)) /\ Rank(S, x) = Cardinality(NewerThan(S, x))
             /\ Rank(S, x) \in Nat
  <2>1. NewerThan(S, x) \in SUBSET Pulls
    BY DEF NewerThan
  <2>2. IsFiniteSet(NewerThan(S, x))
    BY <2>1, PullsAssumption, FS_Subset
  <2> QED BY <2>2, FS_CardinalityType DEF Rank, NewerThan
<1>2. ASSUME NEW x \in S, NEW y \in S, Newer(Place(x), Place(y))
      PROVE  NewerThan(S, x) \subseteq NewerThan(S, y) /\ Rank(S, x) < Rank(S, y)
  <2>1. NewerThan(S, x) \subseteq NewerThan(S, y)
    <3> SUFFICES ASSUME NEW z \in S, Newer(Place(z), Place(x))
                 PROVE  Newer(Place(z), Place(y))
      BY DEF NewerThan
    <3> QED BY <1>2, PlacesDiffer, NewerOrders
  <2>2. x \in NewerThan(S, y) /\ x \notin NewerThan(S, x)
    BY <1>2, PlacesDiffer, NewerOrders DEF NewerThan
  <2>3. Cardinality(NewerThan(S, x)) <= Cardinality(NewerThan(S, y))
    BY <1>1, <2>1, FS_Subset
  <2>4. Cardinality(NewerThan(S, x)) # Cardinality(NewerThan(S, y))
    BY <1>1, <2>1, <2>2, FS_Subset
  <2> QED BY <1>1, <2>1, <2>3, <2>4
<1>3. Newer(Place(p), Place(q)) <=> Rank(S, p) < Rank(S, q)
  <2>1. Newer(Place(p), Place(q)) => Rank(S, p) < Rank(S, q)
    BY <1>2
  <2>2. Newer(Place(q), Place(p)) => Rank(S, q) < Rank(S, p)
    BY <1>2
  <2>3. Rank(S, p) \in Nat /\ Rank(S, q) \in Nat
    BY <1>1
  <2>4. p = q \/ Newer(Place(p), Place(q)) \/ Newer(Place(q), Place(p))
    BY PlacesDiffer
  <2>5. p = q => ~(Rank(S, p) < Rank(S, q))
    BY <2>3
  <2>6. Rank(S, q) < Rank(S, p) => ~(Rank(S, p) < Rank(S, q))
    BY <2>3
  <2> QED BY <2>1, <2>2, <2>4, <2>5, <2>6
<1> QED BY <1>1, <1>2, <1>3

(* One of several pull requests is the newest, and one the oldest.          *)
LEMMA SomeNewest ==
    ASSUME TypeOK, NEW T \in SUBSET Pulls, T # {}
    PROVE  \E p \in T : \A q \in T \ {p} : Newer(Place(p), Place(q))
<1> DEFINE F == {NewerThan(T, p) : p \in T}
           R == StrictSubsetOrdering(Pulls)
<1>1. F \subseteq FiniteSubsetsOf(Pulls)
  <2>1. \A p \in T : NewerThan(T, p) \in SUBSET Pulls /\ IsFiniteSet(NewerThan(T, p))
    BY RankGrows DEF NewerThan
  <2> QED BY <2>1 DEF FiniteSubsetsOf
<1>2. \E x \in F : \A y \in F : ~ (<<y, x>> \in R)
  <2>1. IsWellFoundedOn(R, FiniteSubsetsOf(Pulls))
    BY FS_StrictSubsetOrderingWellFounded
  <2>2. F # {}
    OBVIOUS
  <2> HIDE DEF F, R
  <2> QED BY <1>1, <2>1, <2>2, WFMin
<1>3. PICK p \in T : \A q \in T : ~ (<<NewerThan(T, q), NewerThan(T, p)>> \in R)
  BY <1>2
<1>4. ASSUME NEW q \in T, Newer(Place(q), Place(p)) PROVE FALSE
  <2>1. /\ NewerThan(T, q) \subseteq NewerThan(T, p) /\ NewerThan(T, p) \in SUBSET Pulls
        /\ NewerThan(T, q) \in SUBSET Pulls
    BY <1>4, RankGrows DEF NewerThan
  <2>2. q \in NewerThan(T, p) /\ q \notin NewerThan(T, q)
    BY <1>4, PlacesDiffer, NewerOrders DEF NewerThan
  <2> QED BY <1>3, <2>1, <2>2 DEF StrictSubsetOrdering
<1> QED BY <1>4, PlacesDiffer

LEMMA SomeOldest ==
    ASSUME TypeOK, NEW T \in SUBSET Pulls, T # {}
    PROVE  \E p \in T : \A q \in T \ {p} : Newer(Place(q), Place(p))
<1> DEFINE Older(p) == {q \in T : Newer(Place(p), Place(q))}
           F == {Older(p) : p \in T}
           R == StrictSubsetOrdering(Pulls)
<1>1. F \subseteq FiniteSubsetsOf(Pulls)
  <2>1. \A p \in T : Older(p) \in SUBSET Pulls
    OBVIOUS
  <2>2. \A p \in T : IsFiniteSet(Older(p))
    BY <2>1, PullsAssumption, FS_Subset
  <2> QED BY <2>1, <2>2 DEF FiniteSubsetsOf
<1>2. \E x \in F : \A y \in F : ~ (<<y, x>> \in R)
  <2>1. IsWellFoundedOn(R, FiniteSubsetsOf(Pulls))
    BY FS_StrictSubsetOrderingWellFounded
  <2>2. F # {}
    OBVIOUS
  <2> HIDE DEF F, R
  <2> QED BY <1>1, <2>1, <2>2, WFMin
<1>3. PICK p \in T : \A q \in T : ~ (<<Older(q), Older(p)>> \in R)
  BY <1>2
<1>4. ASSUME NEW q \in T, Newer(Place(p), Place(q)) PROVE FALSE
  <2>1. Older(q) \subseteq Older(p) /\ Older(p) \in SUBSET Pulls /\ Older(q) \in SUBSET Pulls
    <3> SUFFICES ASSUME NEW z \in T, Newer(Place(q), Place(z))
                 PROVE  Newer(Place(p), Place(z))
      OBVIOUS
    <3> QED BY <1>4, PlacesDiffer, NewerOrders
  <2>2. q \in Older(p) /\ q \notin Older(q)
    BY <1>4, PlacesDiffer, NewerOrders
  <2> HIDE DEF Older
  <2> QED BY <1>3, <2>1, <2>2 DEF StrictSubsetOrdering
<1> QED BY <1>4, PlacesDiffer

(* The n pull requests of lowest rank are n, where there are more.          *)
LEMMA LowRanks ==
    ASSUME TypeOK, NEW S \in SUBSET Pulls, NEW k \in Nat
    PROVE  LET T == {x \in S : Rank(S, x) < k}
           IN  /\ IsFiniteSet(T) /\ Cardinality(T) \in Nat /\ Cardinality(T) <= k
               /\ (\E p \in S : k <= Rank(S, p)) => Cardinality(T) >= k
<1> DEFINE T == {x \in S : Rank(S, x) < k}
<1>1. IsFiniteSet(T) /\ Cardinality(T) \in Nat
  <2>1. T \in SUBSET Pulls
    OBVIOUS
  <2>2. IsFiniteSet(T)
    BY <2>1, PullsAssumption, FS_Subset
  <2> QED BY <2>2, FS_CardinalityType
<1>2. Cardinality(T) <= k
  <2>1. CASE T = {}
    <3>1. Cardinality(T) = 0
      BY <2>1, FS_EmptySet
    <3> QED BY <3>1
  <2>2. CASE T # {}
    <3>1. PICK x \in T : \A q \in T \ {x} : Newer(Place(q), Place(x))
      BY <2>2, SomeOldest
    <3>2. /\ IsFiniteSet(NewerThan(S, x)) /\ Rank(S, x) = Cardinality(NewerThan(S, x))
          /\ Rank(S, x) \in Nat /\ Rank(S, x) < k
      BY RankGrows
    <3>3. T \in SUBSET (NewerThan(S, x) \cup {x})
      BY <3>1 DEF NewerThan
    <3>4. /\ IsFiniteSet(NewerThan(S, x) \cup {x})
          /\ Cardinality(NewerThan(S, x) \cup {x}) \in {Rank(S, x), Rank(S, x) + 1}
      BY <3>2, FS_AddElement
    <3>5. Cardinality(T) <= Cardinality(NewerThan(S, x) \cup {x})
      BY <3>3, <3>4, FS_Subset
    <3> HIDE DEF T
    <3> QED BY <1>1, <3>2, <3>4, <3>5
  <2> QED BY <2>1, <2>2
<1>3. ASSUME NEW p \in S, k <= Rank(S, p) PROVE Cardinality(T) >= k
  <2> DEFINE H == {x \in S : k <= Rank(S, x)}
  <2>1. PICK x \in H : \A q \in H \ {x} : Newer(Place(x), Place(q))
    <3>1. H \in SUBSET Pulls /\ H # {}
      BY <1>3
    <3> HIDE DEF H
    <3> QED BY <3>1, SomeNewest
  <2>2. /\ Rank(S, x) = Cardinality(NewerThan(S, x)) /\ k <= Rank(S, x)
        /\ \A q \in S : Rank(S, q) \in Nat
    BY RankGrows
  <2>3. NewerThan(S, x) \in SUBSET T
    <3> SUFFICES ASSUME NEW q \in S, Newer(Place(q), Place(x)), k <= Rank(S, q) PROVE FALSE
      BY <2>2 DEF NewerThan
    <3>1. q \in H /\ q # x
      BY PlacesDiffer, NewerOrders
    <3>2. Newer(Place(x), Place(q))
      BY <2>1, <3>1
    <3> QED BY <3>2, PlacesDiffer
  <2>4. Cardinality(NewerThan(S, x)) <= Cardinality(T)
    BY <1>1, <2>3, FS_Subset
  <2>5. Rank(S, x) \in Nat
    BY <2>2
  <2> HIDE DEF T
  <2> QED BY <1>1, <2>2, <2>4, <2>5
<1> QED BY <1>1, <1>2, <1>3

(* A page of n by rank is full, where anything comes after it.              *)
LEMMA FullPage ==
    ASSUME TypeOK, NEW S \in SUBSET Pulls, NEW first \in Nat, NEW n \in Nat \ {0},
           NEW p \in S, first + n <= Rank(S, p)
    PROVE  ~(Cardinality({x \in S : Rank(S, x) \in first..(first + n - 1)}) < n)
<1> DEFINE A == {x \in S : Rank(S, x) < first + n}
           B == {x \in S : Rank(S, x) < first}
           page == {x \in S : Rank(S, x) \in first..(first + n - 1)}
<1>1. /\ IsFiniteSet(A) /\ Cardinality(A) \in Nat /\ Cardinality(A) >= first + n
      /\ IsFiniteSet(B) /\ Cardinality(B) \in Nat /\ Cardinality(B) <= first
  <2>1. first + n \in Nat
    OBVIOUS
  <2> QED BY <2>1, LowRanks
<1>2. \A x \in S : Rank(S, x) \in Nat
  BY RankGrows
<1>3. page = A \ B /\ A \cap B = B
  BY <1>2
<1>4. Cardinality(A \ B) = Cardinality(A) - Cardinality(A \cap B)
  BY <1>1, FS_Difference
<1> HIDE DEF A, B, page
<1>5. Cardinality(page) = Cardinality(A) - Cardinality(B)
  BY <1>3, <1>4
<1>6. ~(Cardinality(page) < n)
  BY <1>1, <1>5
<1> QED BY <1>6 DEF page

----------------------------------------------------------------------------
(* What the two ways of reading a page have in common.                      *)

GraphqlPull == {p \in After : Rank(After, p) < PrPage}
RestPull == LET first == sync.page * RestPage
            IN  {p \in Existing : Rank(Existing, p) \in first..(first + RestPage - 1)}

(* The infos of a page agree with GitHub, reviews included unless they are  *)
(* still to be read.                                                        *)
PageRead(page, new) ==
    /\ page \in SUBSET Existing
    /\ UNCHANGED <<clock, gh, ghRevs, gone, db, rollup, upsets, crowded, unread, missed, lost>>
    /\ sync' \in Syncs /\ SummarySame
    /\ sync.at \in {"graphql", "rest"} /\ sync'.got = sync.got \cup new
    /\ sync'.batch \subseteq new
    /\ \A i \in new : /\ i.number \in Taken(page) /\ i.page = sync.page
                      /\ i.at = gh[i.number].at /\ i.state = gh[i.number].state
                      /\ i.reviews \subseteq ReviewsOf(i.number)
                      /\ i \in sync'.batch \/ i.reviews = ReviewsOf(i.number)
    /\ \A p \in Taken(page) : \E i \in new : i.number = p

(* The listing is over.                                                     *)
Ended ==
    /\ sync.at \in Lists /\ sync'.at = "pull" /\ sync'.batch = sync.batch
    /\ sync'.work = db.facts /\ sync'.anon = db.anon

LEMMA ListedTypes ==
    ASSUME TypeOK, sync.at \in Lists, NEW got \in SUBSET Infos, sync' = Listed(got)
    PROVE  sync' \in Syncs /\ sync'.got = got /\ SummarySame /\ Ended
<1> DEFINE facts == db.facts
           anon == db.anon
           place == Start
           first == 0
           none == {}
<1>1. /\ facts \in SUBSET Facts /\ anon \in SUBSET Items
      /\ place \in Nat \X Nat /\ first \in Nat /\ none \in SUBSET Pulls
  BY RestingTypes DEF TypeOK
<1>2. sync \in Syncs
  BY DEF TypeOK
<1>3. sync' = [sync EXCEPT !.at = "pull", !.got = got, !.before = place, !.page = first,
                           !.moved = none, !.work = facts, !.anon = anon]
  BY DEF Listed
<1> HIDE DEF facts, anon, place, first, none
<1>4. sync' \in Syncs
  BY <1>1, <1>2, <1>3 DEF Syncs
<1>5. sync'.got = got /\ SummarySame /\ sync'.batch = sync.batch
  BY <1>2, <1>3 DEF Syncs, SummarySame
<1>6. sync'.at = "pull" /\ sync'.work = facts /\ sync'.anon = anon
  BY <1>2, <1>3 DEF Syncs
<1> QED BY <1>4, <1>5, <1>6 DEF Ended, facts, anon

LEMMA InfoFields ==
    ASSUME NEW p, NEW revs
    PROVE  /\ Info(p, revs).number = p /\ Info(p, revs).state = gh[p].state
           /\ Info(p, revs).at = gh[p].at /\ Info(p, revs).reviews = revs
           /\ Info(p, revs).page = sync.page
<1> DEFINE none == Nobodys({p} \cup revs)
<1>1. Info(p, revs) = [number |-> p, state |-> gh[p].state, at |-> gh[p].at,
                       reviews |-> revs, nobodys |-> none, page |-> sync.page]
  BY DEF Info
<1> HIDE DEF none
<1> QED BY <1>1

LEMMA InfoTypes ==
    ASSUME TypeOK, GitHubInv, NEW p \in Existing, NEW revs \in SUBSET ReviewsOf(p)
    PROVE  Info(p, revs) \in Infos
<1>1. p \in Pulls /\ gh[p].state # "none"
  BY DEF Existing
<1>2. gh[p].state \in States /\ gh[p].at \in 1..MaxClock
  BY <1>1, PrSyncBounds DEF TypeOK, GitHubInv, Kinds
<1>3. sync.page \in Nat /\ revs \in SUBSET Reviews
  BY DEF TypeOK, Syncs, ReviewsOf
<1> DEFINE none == Nobodys({p} \cup revs)
<1>4. none \in SUBSET Items
  BY <1>1, <1>3 DEF Nobodys, Items
<1>5. Info(p, revs) = [number |-> p, state |-> gh[p].state, at |-> gh[p].at,
                       reviews |-> revs, nobodys |-> none, page |-> sync.page]
  BY DEF Info
<1> HIDE DEF none
<1> QED BY <1>1, <1>2, <1>3, <1>4, <1>5 DEF Infos

(* The oldest of a page by GraphQL is ahead of all that is still to come.   *)
LEMMA GraphqlEnds ==
    ASSUME TypeOK, After # {}
    PROVE  /\ Oldest(GraphqlPull) \in GraphqlPull
           /\ \A p \in After \ GraphqlPull, q \in GraphqlPull : Newer(Place(q), Place(p))
<1>1. After \in SUBSET Pulls
  BY DEF After, Existing
<1>2. GraphqlPull # {}
  <2>1. PICK p \in After : \A q \in After \ {p} : Newer(Place(p), Place(q))
    BY <1>1, SomeNewest
  <2>2. NewerThan(After, p) = {}
    BY <1>1, <2>1, PlacesDiffer, NewerOrders DEF NewerThan
  <2>3. Rank(After, p) = 0
    BY <1>1, <2>2, RankGrows, FS_EmptySet
  <2> QED BY <2>3, PrSyncBounds DEF GraphqlPull
<1>3. GraphqlPull \in SUBSET Pulls
  BY <1>1 DEF GraphqlPull
<1>4. Oldest(GraphqlPull) \in GraphqlPull
  BY <1>2, <1>3, SomeOldest DEF Oldest
<1>5. ASSUME NEW p \in After \ GraphqlPull, NEW q \in GraphqlPull
      PROVE  Newer(Place(q), Place(p))
  <2>1. Rank(After, p) \in Nat /\ Rank(After, q) \in Nat
    BY <1>1, RankGrows DEF GraphqlPull
  <2>2. Rank(After, q) < Rank(After, p)
    BY <2>1, PrSyncBounds DEF GraphqlPull
  <2> QED BY <1>1, <2>2, RankGrows DEF GraphqlPull
<1> QED BY <1>4, <1>5

LEMMA GraphqlReads ==
    ASSUME TypeOK, GitHubInv, PhaseInv, GraphqlPage
    PROVE  /\ \E new : PageRead(GraphqlPull, new)
           /\ sync.at = "graphql" /\ sync'.batch = {}
           /\ \/ Ended /\ (GraphqlPull = After \/ Taken(GraphqlPull) # GraphqlPull)
              \/ /\ sync'.at = "graphql" /\ Taken(GraphqlPull) = GraphqlPull
                 /\ sync'.before = Place(Oldest(GraphqlPull)) /\ sync'.page = sync.page + 1
                 /\ Oldest(GraphqlPull) \in GraphqlPull
<1> DEFINE new == {Info(p, ReviewsOf(p)) : p \in Taken(GraphqlPull)}
           got == sync.got \cup new
           over == Over(GraphqlPull, GraphqlPull = After)
<1>1. GraphqlPull \in SUBSET Existing
  BY DEF GraphqlPull, After
<1>2. /\ sync.at = "graphql"
      /\ UNCHANGED <<clock, gh, ghRevs, gone, db, rollup, upsets, crowded, unread, missed, lost>>
      /\ sync' = IF over THEN Listed(got)
                 ELSE [sync EXCEPT !.got = got, !.before = Place(Oldest(GraphqlPull)), !.page = @ + 1]
  BY DEF GraphqlPage, GraphqlPull, github, ghosts
<1>3. got \in SUBSET Infos /\ sync \in Syncs
  BY <1>1, InfoTypes DEF TypeOK, Syncs, Taken
<1>4. /\ \A i \in new : /\ i.number \in Taken(GraphqlPull) /\ i.page = sync.page
                        /\ i.at = gh[i.number].at /\ i.state = gh[i.number].state
                        /\ i.reviews = ReviewsOf(i.number)
      /\ \A p \in Taken(GraphqlPull) : \E i \in new : i.number = p
  BY InfoFields
<1>5. sync.batch = {}
  BY <1>2 DEF PhaseInv
<1> HIDE DEF new
<1>6. CASE over
  <2>1. sync' \in Syncs /\ sync'.got = got /\ SummarySame /\ Ended
    BY <1>2, <1>3, <1>6, ListedTypes DEF Lists
  <2>2. sync'.batch = {}
    BY <1>5, <2>1 DEF Ended
  <2>3. PageRead(GraphqlPull, new)
    BY <1>1, <1>2, <1>4, <2>1, <2>2 DEF PageRead
  <2> QED BY <1>2, <1>6, <2>1, <2>2, <2>3 DEF Over
<1>7. CASE ~over
  <2>1. GraphqlPull # After /\ Taken(GraphqlPull) = GraphqlPull
    BY <1>7 DEF Over
  <2>2. After # {} /\ Oldest(GraphqlPull) \in GraphqlPull
    <3>1. After # {}
      BY <2>1 DEF GraphqlPull
    <3> QED BY <3>1, GraphqlEnds
  <2> DEFINE place == Place(Oldest(GraphqlPull))
             n == sync.page + 1
  <2>3. place \in Nat \X Nat /\ n \in Nat
    BY <1>1, <1>3, <2>2, PlacesDiffer DEF Existing, Syncs
  <2>4. sync' = [sync EXCEPT !.got = got, !.before = place, !.page = n]
    BY <1>2, <1>7
  <2> HIDE DEF place, n, got
  <2>5. /\ sync' \in Syncs /\ sync'.got = got /\ SummarySame /\ sync'.at = sync.at
        /\ sync'.batch = sync.batch /\ sync'.before = place /\ sync'.page = n
    BY <1>3, <2>3, <2>4 DEF Syncs, SummarySame
  <2>6. PageRead(GraphqlPull, new)
    BY <1>1, <1>2, <1>4, <1>5, <2>5 DEF PageRead, got
  <2> QED BY <1>2, <1>5, <2>1, <2>2, <2>5, <2>6 DEF place, n
<1> QED BY <1>6, <1>7

LEMMA RestReads ==
    ASSUME TypeOK, GitHubInv, PhaseInv, RestBatch
    PROVE  /\ \E new : PageRead(RestPull, new)
           /\ sync.at = "rest" /\ sync'.page = sync.page + 1 /\ sync'.moved = sync.moved
           /\ \/ /\ sync'.at = "last"
                 /\ Cardinality(RestPull) < RestPage \/ Taken(RestPull) # RestPull
              \/ /\ sync'.at = "details" /\ Taken(RestPull) = RestPull
                 /\ ~(Cardinality(RestPull) < RestPage)
<1> DEFINE new == {Info(p, {}) : p \in Taken(RestPull)}
           got == sync.got \cup new
           over == Over(RestPull, Cardinality(RestPull) < RestPage)
           at == IF over THEN "last" ELSE "details"
           n == sync.page + 1
<1>1. RestPull \in SUBSET Existing
  BY DEF RestPull
<1>2. /\ sync.at = "rest"
      /\ UNCHANGED <<clock, gh, ghRevs, gone, db, rollup, upsets, crowded, unread, missed, lost>>
      /\ sync' = [sync EXCEPT !.at = at, !.got = got, !.batch = new, !.page = n]
  BY DEF RestBatch, RestPull, github, ghosts
<1>3. new \in SUBSET Infos /\ sync \in Syncs
  BY <1>1, InfoTypes DEF TypeOK, Syncs, Taken
<1>4. /\ \A i \in new : /\ i.number \in Taken(RestPull) /\ i.page = sync.page
                        /\ i.at = gh[i.number].at /\ i.state = gh[i.number].state
                        /\ i.reviews = {}
      /\ \A p \in Taken(RestPull) : \E i \in new : i.number = p
  BY InfoFields
<1>5. at \in {"last", "details"} /\ n \in Nat
  BY <1>3 DEF Syncs
<1> HIDE DEF new, at, n
<1>6. /\ sync' \in Syncs /\ sync'.got = got /\ SummarySame /\ sync'.at = at
      /\ sync'.batch = new /\ sync'.page = n /\ sync'.moved = sync.moved
  BY <1>2, <1>3, <1>5 DEF Syncs, SummarySame
<1>7. PageRead(RestPull, new)
  BY <1>1, <1>2, <1>4, <1>6 DEF PageRead
<1>8. IF over THEN Cardinality(RestPull) < RestPage \/ Taken(RestPull) # RestPull
              ELSE Taken(RestPull) = RestPull /\ ~(Cardinality(RestPull) < RestPage)
  BY DEF Over
<1> QED BY <1>2, <1>6, <1>7, <1>8 DEF at, n

(* The reviews of a pull request are read, or not.                          *)
DetailRead(i, revs) ==
    /\ i \in sync.batch /\ sync.at \in {"details", "last"} /\ revs \subseteq ReviewsOf(i.number)
    /\ UNCHANGED <<clock, gh, ghRevs, gone, db, rollup, crowded, missed, lost>>
    /\ upsets' \in 0..MaxUpsets
    /\ unread \subseteq unread' /\ unread' \subseteq Reviews
    /\ ReviewsOf(i.number) \ unread' \subseteq revs
    /\ sync' \in Syncs /\ SummarySame /\ sync'.at = sync.at
    /\ sync'.page = sync.page /\ sync'.moved = sync.moved
    /\ sync'.batch = sync.batch \ {i}
    /\ sync'.got = (sync.got \ {i}) \cup {Detailed(i, revs)}
    /\ Detailed(i, revs).number = i.number /\ Detailed(i, revs).state = i.state
    /\ Detailed(i, revs).at = i.at /\ Detailed(i, revs).page = i.page
    /\ Detailed(i, revs).reviews = revs

LEMMA DetailReads ==
    ASSUME TypeOK, PhaseInv, RestReviewsAnswered \/ RestReviewsFail
    PROVE  \E i \in sync.batch : \E revs : DetailRead(i, revs)
<1>1. sync \in Syncs
  BY DEF TypeOK
<1>2. ASSUME NEW i \in sync.batch, NEW revs, RestDetail(i, revs), revs \subseteq ReviewsOf(i.number),
             upsets' \in 0..MaxUpsets, unread \subseteq unread', unread' \subseteq Reviews,
             ReviewsOf(i.number) \ unread' \subseteq revs
      PROVE  DetailRead(i, revs)
  <2> DEFINE new == Detailed(i, revs)
  <2>1. i \in Infos
    BY <1>1 DEF Syncs
  <2>2. revs \in SUBSET Reviews /\ Nobodys(revs) \in SUBSET Items
    BY <1>2 DEF ReviewsOf, Nobodys, FirstReviews, Items
  <2>3. /\ new \in Infos /\ new.number = i.number /\ new.state = i.state
        /\ new.at = i.at /\ new.page = i.page /\ new.reviews = revs
    BY <2>1, <2>2 DEF Infos, Detailed
  <2>4. /\ sync.at \in {"details", "last"}
        /\ UNCHANGED <<clock, gh, ghRevs, gone, db, rollup, crowded, missed, lost>>
        /\ sync' = [sync EXCEPT !.batch = @ \ {i}, !.got = (@ \ {i}) \cup {new}]
    BY <1>2 DEF RestDetail, github
  <2> HIDE DEF new
  <2>5. /\ sync' \in Syncs /\ SummarySame /\ sync'.at = sync.at
        /\ sync'.page = sync.page /\ sync'.moved = sync.moved
        /\ sync'.batch = sync.batch \ {i} /\ sync'.got = (sync.got \ {i}) \cup {new}
    BY <1>1, <2>3, <2>4 DEF Syncs, SummarySame
  <2> QED BY <1>2, <2>3, <2>4, <2>5 DEF DetailRead, new
<1>3. \A p : ReviewsOf(p) \subseteq Reviews
  BY DEF ReviewsOf, TypeOK
<1>4. CASE RestReviewsAnswered
  <2>1. PICK i \in sync.batch : RestDetail(i, ReviewsOf(i.number)) /\ UNCHANGED <<upsets, unread>>
    BY <1>4 DEF RestReviewsAnswered
  <2>2. DetailRead(i, ReviewsOf(i.number))
    BY <1>2, <2>1 DEF TypeOK
  <2> QED BY <2>2
<1>5. CASE RestReviewsFail
  <2>1. PICK i \in sync.batch :
           /\ upsets < MaxUpsets /\ upsets' = upsets + 1
           /\ RestDetail(i, {}) /\ unread' = unread \cup ReviewsOf(i.number)
    BY <1>5 DEF RestReviewsFail
  <2>2. upsets' \in 0..MaxUpsets
    BY <2>1, PrSyncBounds DEF TypeOK
  <2>3. DetailRead(i, {})
    BY <1>2, <1>3, <2>1, <2>2 DEF TypeOK
  <2> QED BY <2>3
<1> QED BY <1>4, <1>5

(* A page by REST is done, or a listing by GraphQL breaks off.              *)
LEMMA PagesEnd ==
    ASSUME TypeOK, PhaseInv, RestPageDone \/ GraphqlBreaksOff
    PROVE  /\ UNCHANGED <<clock, gh, ghRevs, gone, db, rollup, crowded, unread, lost>>
           /\ sync' \in Syncs /\ SummarySame /\ sync'.got = sync.got /\ sync.at \in Lists
           /\ sync'.batch = sync.batch /\ sync.batch = {}
           /\ upsets' \in 0..MaxUpsets
           /\ \/ /\ sync.at = "details" /\ sync'.at = "rest" /\ sync'.page = sync.page
                 /\ sync'.moved = sync.moved /\ missed' = missed
              \/ sync.at = "last" /\ Ended /\ missed' = missed
              \/ /\ sync.at = "graphql" /\ Ended
                 /\ missed' = missed \cup (IF sync.got = {} THEN {} ELSE Taken(After))
<1>1. sync \in Syncs /\ sync.got \in SUBSET Infos
  BY DEF TypeOK, Syncs
<1>2. CASE RestPageDone
  <2>1. /\ sync.at \in {"details", "last"} /\ sync.batch = {}
        /\ sync' = IF sync.at = "last" THEN Listed(sync.got) ELSE [sync EXCEPT !.at = "rest"]
        /\ UNCHANGED <<clock, gh, ghRevs, gone, db, rollup, upsets, crowded, unread, missed, lost>>
    BY <1>2 DEF RestPageDone, github, ghosts
  <2>2. upsets' \in 0..MaxUpsets
    BY <2>1 DEF TypeOK
  <2>3. CASE sync.at = "last"
    <3>1. sync' \in Syncs /\ sync'.got = sync.got /\ SummarySame /\ Ended
      BY <1>1, <2>1, <2>3, ListedTypes DEF Lists
    <3> QED BY <2>1, <2>2, <2>3, <3>1 DEF Ended
  <2>4. CASE sync.at = "details"
    <3>1. sync' = [sync EXCEPT !.at = "rest"]
      BY <2>1, <2>4
    <3>2. /\ sync' \in Syncs /\ SummarySame /\ sync'.got = sync.got /\ sync'.batch = sync.batch
          /\ sync'.at = "rest" /\ sync'.page = sync.page /\ sync'.moved = sync.moved
      BY <1>1, <3>1 DEF Syncs, SummarySame
    <3> QED BY <2>1, <2>2, <2>4, <3>2 DEF Lists
  <2> QED BY <2>1, <2>3, <2>4
<1>3. CASE GraphqlBreaksOff
  <2>1. /\ sync.at = "graphql" /\ upsets < MaxUpsets /\ upsets' = upsets + 1
        /\ sync' = Listed(sync.got)
        /\ missed' = missed \cup (IF sync.got = {} THEN {} ELSE Taken(After))
        /\ UNCHANGED <<clock, gh, ghRevs, gone, db, rollup, crowded, unread, lost>>
    BY <1>3 DEF GraphqlBreaksOff, github
  <2>2. upsets' \in 0..MaxUpsets
    BY <2>1, PrSyncBounds DEF TypeOK
  <2>3. sync' \in Syncs /\ sync'.got = sync.got /\ SummarySame /\ Ended
    BY <1>1, <2>1, ListedTypes DEF Lists
  <2>4. sync.batch = {}
    BY <2>1 DEF PhaseInv
  <2> QED BY <2>1, <2>2, <2>3, <2>4 DEF Ended
<1> QED BY <1>2, <1>3

----------------------------------------------------------------------------
(* What storing a pull request or a review does, with the login behind it   *)
(* or with none.                                                            *)

Changed == {l \in Logins : Stored(l)' # Stored(l)}

Unnamed ==
    /\ db' = db /\ sync'.held = sync.held /\ sync'.affected = sync.affected
    /\ sync'.committed = sync.committed
SavedFor(l) ==
    /\ db' \in Databases /\ db'.synced = db.synced /\ db'.next # 0 /\ db'.owner[l] # 0
    /\ \A k \in Logins : k # l \/ db.owner[k] # 0 => db'.owner[k] = db.owner[k]
    /\ \/ db'.facts = db.facts /\ db'.anon = db.anon
       \/ db'.facts = sync.work /\ db'.anon = sync.anon
    /\ sync'.held = sync.held \cup {l} /\ sync.affected \subseteq sync'.affected
    /\ l \notin sync.held => db'.owner[l] \in sync'.affected
    /\ sync'.committed = sync.committed \cup Changed /\ sync'.robbed = sync.robbed

LEMMA LoginSaves ==
    ASSUME TypeOK, db.next # 0, NEW l \in Logins
    PROVE  LET d == WithLogin(l)
           IN  /\ d \in Databases /\ d.synced = db.synced /\ d.next # 0 /\ d.owner[l] # 0
               /\ \A k \in Logins : k # l \/ db.owner[k] # 0 => d.owner[k] = db.owner[k]
               /\ \/ d.facts = db.facts /\ d.anon = db.anon
                  \/ d.facts = sync.work /\ d.anon = sync.anon
               /\ Persons(d, l) \in SUBSET SUBSET Nat
               /\ \A ids \in Persons(d, l) : l \in sync.held \/ d.owner[l] \in ids
<1> DEFINE d == WithLogin(l)
<1>1. db \in Databases /\ sync.work \in SUBSET Facts /\ sync.anon \in SUBSET Items
  BY DEF TypeOK, Syncs, Databases
<1>2. /\ d \in Databases /\ d.synced = db.synced /\ d.next # 0 /\ d.owner[l] # 0
      /\ \A k \in Logins : k # l \/ db.owner[k] # 0 => d.owner[k] = db.owner[k]
      /\ \/ d.facts = db.facts /\ d.anon = db.anon
         \/ d.facts = sync.work /\ d.anon = sync.anon
  <2>1. CASE db.owner[l] # 0
    BY <1>1, <2>1 DEF WithLogin, Databases
  <2>2. CASE db.owner[l] = 0
    <3> DEFINE work == sync.work
               anon == sync.anon
               n == db.next
               m == n + 1
    <3>1. d = [db EXCEPT !.facts = work, !.anon = anon, !.owner[l] = n, !.next = m]
      BY <2>2 DEF WithLogin
    <3>2. n \in Nat /\ n # 0 /\ m \in Nat /\ m # 0 /\ work \in SUBSET Facts /\ anon \in SUBSET Items
      BY <1>1 DEF Databases
    <3> HIDE DEF work, anon, n, m, d
    <3>3. /\ d \in Databases /\ d.synced = db.synced /\ d.next = m /\ d.facts = work
          /\ d.anon = anon /\ d.owner = [db.owner EXCEPT ![l] = n]
      BY <1>1, <3>1, <3>2 DEF Databases
    <3>4. d.owner[l] = n /\ \A k \in Logins : k # l => d.owner[k] = db.owner[k]
      BY <1>1, <3>3 DEF Databases
    <3> QED BY <2>2, <3>2, <3>3, <3>4 DEF work, anon
  <2> QED BY <2>1, <2>2
<1>3. d.owner[l] \in Nat
  BY <1>2 DEF Databases
<1> HIDE DEF d
<1>4. /\ Persons(d, l) \in SUBSET SUBSET Nat
      /\ \A ids \in Persons(d, l) : l \in sync.held \/ d.owner[l] \in ids
  BY <1>3 DEF Persons
<1> QED BY <1>2, <1>4 DEF d

(* What either of them does to the rest.                                    *)
Storing ==
    /\ UNCHANGED <<clock, gh, ghRevs, gone, rollup, upsets, crowded, unread, missed, lost>>
    /\ sync' \in Syncs /\ sync'.at = "reviews" /\ sync'.batch = sync.batch
StoredPull(info) ==
    /\ info \in sync.got /\ sync.at = "pull"
    /\ \A j \in sync.got \ {info} : Earlier(info, j)
    /\ Storing /\ sync'.got = sync.got \ {info}
    /\ sync'.work = PullRow(info.number, info.state)
    /\ sync'.todo = info.reviews \ sync.work
    /\ sync'.since = Max({sync.since, info.at})
    /\ \/ Unnamed /\ sync'.anon = sync.anon \cup {info.number}
          /\ sync'.robbed = sync.robbed \cup Uncredited(info.number)
       \/ SavedFor(AuthorOf[info.number]) /\ sync'.anon = sync.anon \ {info.number}
StoredReview(r) ==
    /\ r \in sync.todo /\ sync.at = "reviews"
    /\ Storing /\ sync'.got = sync.got
    /\ sync'.work = sync.work \cup {r} /\ sync'.todo = sync.todo \ {r}
    /\ sync'.since = sync.since
    /\ \/ Unnamed /\ sync'.anon = sync.anon \cup {r} /\ sync'.robbed = sync.robbed
       \/ SavedFor(AuthorOf[r]) /\ sync'.anon = sync.anon

LEMMA PullStored ==
    ASSUME TypeOK, db.next # 0, UpsertPull
    PROVE  \E info \in sync.got : StoredPull(info)
<1>1. sync \in Syncs
  BY DEF TypeOK
<1> DEFINE Names(info, l, d) ==
        IF info.number \in info.nobodys
        THEN /\ sync' = [Stepped(info) EXCEPT !.anon = @ \cup {info.number},
                            !.robbed = @ \cup Uncredited(info.number)]
             /\ db' = db
        ELSE /\ \E ids \in Persons(d, l) :
                  sync' = [Stepped(info) EXCEPT !.anon = @ \ {info.number},
                             !.held = @ \cup {l}, !.affected = @ \cup ids,
                             !.committed = @ \cup Committed(d)]
             /\ db' = d
<1>2. /\ sync.at = "pull"
      /\ UNCHANGED <<clock, gh, ghRevs, gone, rollup, upsets, crowded, unread, missed, lost>>
      /\ \E info \in sync.got : /\ \A j \in sync.got \ {info} : Earlier(info, j)
            /\ Names(info, AuthorOf[info.number], WithLogin(AuthorOf[info.number]))
  BY DEF UpsertPull, github, ghosts
<1>3. PICK info \in sync.got : /\ \A j \in sync.got \ {info} : Earlier(info, j)
         /\ Names(info, AuthorOf[info.number], WithLogin(AuthorOf[info.number]))
  BY <1>2
<1> DEFINE p == info.number
           l == AuthorOf[p]
           d == WithLogin(l)
           got == sync.got \ {info}
           work == PullRow(p, info.state)
           todo == info.reviews \ sync.work
           nobodys == info.nobodys
           since == Max({sync.since, info.at})
<1>4. info \in Infos
  BY <1>1 DEF Syncs
<1>5. p \in Pulls /\ p \in Items /\ l \in Logins
  BY <1>4, FactsHaveLogins DEF Infos, Items
<1>6. /\ got \in SUBSET Infos /\ work \in SUBSET Facts /\ todo \in SUBSET Reviews
      /\ nobodys \in SUBSET Items
  BY <1>1, <1>4, FactsHaveLogins DEF Syncs, Infos, PullRow
<1>7. since \in 0..MaxClock
  <2>1. sync.since \in 0..MaxClock /\ info.at \in 0..MaxClock
    BY <1>1, <1>4 DEF Syncs, Infos
  <2>2. since \in {sync.since, info.at}
    BY <2>1, MaxOfTwo
  <2> QED BY <2>1, <2>2
<1>8. Stepped(info) = [sync EXCEPT !.at = "reviews", !.got = got, !.todo = todo,
                          !.nobodys = nobodys, !.since = since, !.work = work]
  BY DEF Stepped
<1>9. Names(info, l, d)
  BY <1>3
<1>10. CASE p \in info.nobodys
  <2> DEFINE anon == sync.anon \cup {p}
             robbed == sync.robbed \cup Uncredited(p)
  <2>1. anon \in SUBSET Items /\ robbed \in SUBSET Logins
    BY <1>1, <1>5 DEF Syncs, Uncredited
  <2>2. db' = db /\ sync' = [Stepped(info) EXCEPT !.anon = @ \cup {p}, !.robbed = @ \cup Uncredited(p)]
    BY <1>9, <1>10
  <2>3. sync' = [sync EXCEPT !.at = "reviews", !.got = got, !.todo = todo, !.nobodys = nobodys,
                    !.since = since, !.work = work, !.anon = anon, !.robbed = robbed]
    <3> HIDE DEF got, todo, nobodys, since, work, p
    <3> QED BY <1>1, <1>8, <2>2 DEF Syncs
  <2> HIDE DEF got, todo, nobodys, since, work, anon, robbed, p
  <2>4. sync' \in Syncs
    BY <1>1, <1>6, <1>7, <2>1, <2>3 DEF Syncs
  <2>5. /\ sync'.at = "reviews" /\ sync'.got = got /\ sync'.todo = todo /\ sync'.since = since
        /\ sync'.work = work /\ sync'.anon = anon /\ sync'.robbed = robbed
        /\ sync'.batch = sync.batch /\ sync'.held = sync.held
        /\ sync'.affected = sync.affected /\ sync'.committed = sync.committed
    BY <1>1, <2>3 DEF Syncs
  <2> QED BY <1>2, <1>3, <2>2, <2>4, <2>5
          DEF StoredPull, Storing, Unnamed, got, todo, since, work, anon, robbed, p
<1>11. CASE p \notin info.nobodys
  <2>1. PICK ids \in Persons(d, l) :
           sync' = [Stepped(info) EXCEPT !.anon = @ \ {p}, !.held = @ \cup {l},
                      !.affected = @ \cup ids, !.committed = @ \cup Committed(d)]
    BY <1>9, <1>11
  <2>2. db' = d
    BY <1>9, <1>11
  <2> DEFINE anon == sync.anon \ {p}
             held == sync.held \cup {l}
             affected == sync.affected \cup ids
             committed == sync.committed \cup Changed
  <2>3. Committed(d) = Changed
    BY <2>2 DEF Committed, Changed, Stored
  <2>4. /\ d \in Databases /\ d.synced = db.synced /\ d.next # 0 /\ d.owner[l] # 0
        /\ \A k \in Logins : k # l \/ db.owner[k] # 0 => d.owner[k] = db.owner[k]
        /\ \/ d.facts = db.facts /\ d.anon = db.anon
           \/ d.facts = sync.work /\ d.anon = sync.anon
        /\ Persons(d, l) \in SUBSET SUBSET Nat
        /\ \A x \in Persons(d, l) : l \in sync.held \/ d.owner[l] \in x
    BY <1>5, LoginSaves
  <2>5. /\ anon \in SUBSET Items /\ held \in SUBSET Logins /\ affected \in SUBSET Nat
        /\ committed \in SUBSET Logins
    BY <1>1, <1>5, <2>1, <2>4 DEF Syncs, Changed
  <2>6. sync' = [sync EXCEPT !.at = "reviews", !.got = got, !.todo = todo, !.nobodys = nobodys,
                    !.since = since, !.work = work, !.anon = anon, !.held = held,
                    !.affected = affected, !.committed = committed]
    <3> HIDE DEF got, todo, nobodys, since, work, p, l, d
    <3> QED BY <1>1, <1>8, <2>1, <2>3 DEF Syncs
  <2> HIDE DEF got, todo, nobodys, since, work, anon, held, affected, committed, p, l, d
  <2>7. sync' \in Syncs
    BY <1>1, <1>6, <1>7, <2>5, <2>6 DEF Syncs
  <2>8. /\ sync'.at = "reviews" /\ sync'.got = got /\ sync'.todo = todo /\ sync'.since = since
        /\ sync'.work = work /\ sync'.anon = anon /\ sync'.robbed = sync.robbed
        /\ sync'.batch = sync.batch /\ sync'.held = held
        /\ sync'.affected = affected /\ sync'.committed = committed
    BY <1>1, <2>6 DEF Syncs
  <2>9. SavedFor(l)
    BY <2>1, <2>2, <2>4, <2>8 DEF SavedFor, held, affected, committed
  <2> QED BY <1>2, <1>3, <2>7, <2>8, <2>9
          DEF StoredPull, Storing, got, todo, since, work, anon, p, l
<1> QED BY <1>10, <1>11

LEMMA ReviewStored ==
    ASSUME TypeOK, db.next # 0, UpsertReview
    PROVE  \E r \in sync.todo : StoredReview(r)
<1>1. sync \in Syncs
  BY DEF TypeOK
<1> DEFINE Names(r, l, d) ==
        IF r \in sync.nobodys
        THEN sync' = [Reviewed(r) EXCEPT !.anon = @ \cup {r}] /\ db' = db
        ELSE /\ \E ids \in Persons(d, l) :
                  sync' = [Reviewed(r) EXCEPT !.held = @ \cup {l},
                             !.affected = @ \cup ids, !.committed = @ \cup Committed(d)]
             /\ db' = d
<1>2. /\ sync.at = "reviews"
      /\ UNCHANGED <<clock, gh, ghRevs, gone, rollup, upsets, crowded, unread, missed, lost>>
      /\ \E r \in sync.todo : Names(r, AuthorOf[r], WithLogin(AuthorOf[r]))
  BY DEF UpsertReview, github, ghosts
<1>3. PICK r \in sync.todo : Names(r, AuthorOf[r], WithLogin(AuthorOf[r]))
  BY <1>2
<1> DEFINE l == AuthorOf[r]
           d == WithLogin(l)
           work == sync.work \cup {r}
           todo == sync.todo \ {r}
<1>4. r \in Reviews /\ r \in Items /\ l \in Logins
  BY <1>1, FactsHaveLogins DEF Syncs, Items
<1>5. work \in SUBSET Facts /\ todo \in SUBSET Reviews
  BY <1>1, <1>4, FactsHaveLogins DEF Syncs
<1>6. Reviewed(r) = [sync EXCEPT !.work = work, !.todo = todo]
  BY DEF Reviewed
<1>7. Names(r, l, d)
  BY <1>3
<1>8. CASE r \in sync.nobodys
  <2> DEFINE anon == sync.anon \cup {r}
  <2>1. anon \in SUBSET Items
    BY <1>1, <1>4 DEF Syncs
  <2>2. db' = db /\ sync' = [Reviewed(r) EXCEPT !.anon = @ \cup {r}]
    BY <1>7, <1>8
  <2>3. sync' = [sync EXCEPT !.work = work, !.todo = todo, !.anon = anon]
    <3> HIDE DEF work, todo
    <3> QED BY <1>1, <1>6, <2>2 DEF Syncs
  <2> HIDE DEF work, todo, anon
  <2>4. /\ sync' \in Syncs /\ sync'.at = sync.at /\ sync'.got = sync.got
        /\ sync'.todo = todo /\ sync'.since = sync.since
        /\ sync'.work = work /\ sync'.anon = anon /\ sync'.robbed = sync.robbed
        /\ sync'.batch = sync.batch /\ sync'.held = sync.held
        /\ sync'.affected = sync.affected /\ sync'.committed = sync.committed
    BY <1>1, <1>5, <2>1, <2>3 DEF Syncs
  <2> QED BY <1>2, <2>2, <2>4 DEF StoredReview, Storing, Unnamed, work, todo, anon
<1>9. CASE r \notin sync.nobodys
  <2>1. PICK ids \in Persons(d, l) :
           sync' = [Reviewed(r) EXCEPT !.held = @ \cup {l}, !.affected = @ \cup ids,
                                       !.committed = @ \cup Committed(d)]
    BY <1>7, <1>9
  <2>2. db' = d
    BY <1>7, <1>9
  <2> DEFINE held == sync.held \cup {l}
             affected == sync.affected \cup ids
             committed == sync.committed \cup Changed
  <2>3. Committed(d) = Changed
    BY <2>2 DEF Committed, Changed, Stored
  <2>4. /\ d \in Databases /\ d.synced = db.synced /\ d.next # 0 /\ d.owner[l] # 0
        /\ \A k \in Logins : k # l \/ db.owner[k] # 0 => d.owner[k] = db.owner[k]
        /\ \/ d.facts = db.facts /\ d.anon = db.anon
           \/ d.facts = sync.work /\ d.anon = sync.anon
        /\ Persons(d, l) \in SUBSET SUBSET Nat
        /\ \A x \in Persons(d, l) : l \in sync.held \/ d.owner[l] \in x
    BY <1>4, LoginSaves
  <2>5. /\ held \in SUBSET Logins /\ affected \in SUBSET Nat /\ committed \in SUBSET Logins
    BY <1>1, <1>4, <2>1, <2>4 DEF Syncs, Changed
  <2>6. sync' = [sync EXCEPT !.work = work, !.todo = todo, !.held = held,
                    !.affected = affected, !.committed = committed]
    <3> HIDE DEF work, todo, l, d
    <3> QED BY <1>1, <1>6, <2>1, <2>3 DEF Syncs
  <2> HIDE DEF work, todo, held, affected, committed, l, d
  <2>7. /\ sync' \in Syncs /\ sync'.at = sync.at /\ sync'.got = sync.got
        /\ sync'.todo = todo /\ sync'.since = sync.since
        /\ sync'.work = work /\ sync'.anon = sync.anon /\ sync'.robbed = sync.robbed
        /\ sync'.batch = sync.batch /\ sync'.held = held
        /\ sync'.affected = affected /\ sync'.committed = committed
    BY <1>1, <1>5, <2>5, <2>6 DEF Syncs
  <2>8. SavedFor(l)
    BY <2>1, <2>2, <2>4, <2>7 DEF SavedFor, held, affected, committed
  <2> QED BY <1>2, <2>7, <2>8 DEF StoredReview, Storing, work, todo, l
<1> QED BY <1>8, <1>9

(* The watermark and the rest are committed.                                *)
CommittedPulls ==
    /\ sync.at = "pull" /\ sync.got = {}
    /\ db' \in Databases /\ db'.facts = sync.work /\ db'.anon = sync.anon
    /\ db'.owner = db.owner /\ db'.next = db.next
    /\ db'.synced = Max({db.synced, sync.since})
    /\ UNCHANGED <<clock, gh, ghRevs, gone, rollup, upsets, crowded, unread, missed, lost>>
    /\ sync' \in Syncs /\ sync'.at = "recompute" /\ sync'.got = {} /\ sync'.batch = sync.batch
    /\ sync'.since = sync.since /\ sync'.todo = sync.todo /\ sync'.work = sync.work
    /\ sync'.held = sync.held /\ sync'.affected = sync.affected
    /\ sync'.robbed = sync.robbed /\ sync'.committed = sync.committed \cup Changed

LEMMA PullsCommitted ==
    ASSUME TypeOK, CommitPulls
    PROVE  CommittedPulls
<1>1. sync \in Syncs /\ db \in Databases
  BY DEF TypeOK, Databases
<1> DEFINE synced == Watermark
           work == sync.work
           anon == sync.anon
           d == [db EXCEPT !.facts = work, !.anon = anon, !.synced = synced]
           committed == sync.committed \cup Changed
<1>2. /\ sync.at = "pull" /\ sync.got = {} /\ db' = d
      /\ UNCHANGED <<clock, gh, ghRevs, gone, rollup, upsets, crowded, unread, missed, lost>>
      /\ sync' = [sync EXCEPT !.at = "recompute", !.committed = @ \cup Committed(d)]
  BY DEF CommitPulls, github, ghosts
<1>3. synced \in 0..MaxClock
  <2>1. db.synced \in 0..MaxClock /\ sync.since \in 0..MaxClock
    BY <1>1 DEF Syncs, Databases
  <2>2. synced \in {db.synced, sync.since}
    BY <2>1, MaxOfTwo DEF Watermark
  <2> QED BY <2>1, <2>2
<1>4. committed \in SUBSET Logins /\ Committed(d) = Changed
  BY <1>1, <1>2 DEF Syncs, Changed, Committed, Stored
<1>5. work \in SUBSET Facts /\ anon \in SUBSET Items
  BY <1>1 DEF Syncs
<1>6. /\ db' \in Databases /\ db'.facts = work /\ db'.anon = anon
      /\ db'.owner = db.owner /\ db'.next = db.next /\ db'.synced = synced
  <2> HIDE DEF synced, work, anon
  <2> QED BY <1>1, <1>2, <1>3, <1>5 DEF Databases
<1>7. sync' = [sync EXCEPT !.at = "recompute", !.committed = committed]
  BY <1>2, <1>4 DEF Syncs
<1> HIDE DEF committed, synced, d
<1>8. /\ sync' \in Syncs /\ sync'.at = "recompute" /\ sync'.got = sync.got
      /\ sync'.batch = sync.batch /\ sync'.since = sync.since /\ sync'.todo = sync.todo
      /\ sync'.work = sync.work /\ sync'.held = sync.held /\ sync'.affected = sync.affected
      /\ sync'.robbed = sync.robbed /\ sync'.committed = committed
  BY <1>1, <1>4, <1>7 DEF Syncs
<1> QED BY <1>2, <1>6, <1>8 DEF CommittedPulls, committed, synced, Watermark

(* A listing begins, begins again by REST, or a sync ends.                  *)
Emptied(at, since) ==
    /\ sync'.at = at /\ sync'.since = since /\ sync' \in Syncs
    /\ sync'.before = Start /\ sync'.page = 0 /\ sync'.got = {} /\ sync'.batch = {}
    /\ sync'.todo = {} /\ sync'.moved = {} /\ sync'.work = {} /\ sync'.anon = {}
    /\ sync'.held = {} /\ sync'.affected = {} /\ sync'.committed = {} /\ sync'.robbed = {}
    /\ UNCHANGED <<clock, gh, ghRevs, gone, db, crowded, unread>>

LEMMA ListingBegins ==
    ASSUME TypeOK, PhaseInv, BeginListing \/ FallBackToRest
    PROVE  /\ sync.at \in {"idle"} \cup Lists
           /\ Emptied("graphql", db.synced) \/ Emptied("rest", db.synced)
           /\ UNCHANGED <<rollup, upsets, lost>>
           /\ missed' = missed \/ missed' = {p \in missed : gh[p].at <= db.synced}
<1>1. CASE BeginListing
  <2>1. sync' = [Resting EXCEPT !.at = "graphql", !.since = db.synced]
    BY <1>1 DEF BeginListing
  <2>2. db.synced \in 0..MaxClock
    BY DEF TypeOK
  <2>3. Emptied("graphql", db.synced)
    BY <1>1, <2>1, <2>2, RestingTypes DEF BeginListing, Emptied, Syncs, github
  <2> QED BY <1>1, <2>3 DEF BeginListing
<1>2. CASE FallBackToRest
  <2>1. sync' = [Resting EXCEPT !.at = "rest", !.since = sync.since]
    BY <1>2 DEF FallBackToRest
  <2>2. db.synced \in 0..MaxClock /\ sync.since = db.synced
    BY <1>2 DEF TypeOK, PhaseInv, FallBackToRest, Lists
  <2>3. Emptied("rest", db.synced)
    BY <1>2, <2>1, <2>2, RestingTypes DEF FallBackToRest, Emptied, Syncs, github, ghosts
  <2> QED BY <1>2, <2>3 DEF FallBackToRest, Lists, ghosts
<1> QED BY <1>1, <1>2

LEMMA SyncEnds ==
    ASSUME TypeOK, Recompute \/ SyncFails
    PROVE  Emptied("idle", 0) /\ UNCHANGED missed /\ upsets' \in 0..MaxUpsets
<1>1. sync' = Resting /\ UNCHANGED <<clock, gh, ghRevs, gone, db, crowded, unread, missed>>
  BY DEF Recompute, SyncFails, github, ghosts
<1>2. upsets' \in 0..MaxUpsets
  BY PrSyncBounds DEF Recompute, SyncFails, TypeOK
<1> QED BY <1>1, <1>2, RestingTypes DEF Emptied

LEMMA PhaseSteps ==
    ASSUME TypeOK, NextPull
    PROVE  /\ UNCHANGED <<clock, gh, ghRevs, gone, db, rollup, upsets, crowded, unread,
                          missed, lost>>
           /\ sync.at = "reviews" /\ sync.todo = {} /\ sync' \in Syncs /\ sync'.at = "pull"
           /\ sync'.got = sync.got /\ sync'.batch = sync.batch /\ SummarySame /\ WorkSame
<1> DEFINE none == {}
<1>1. /\ UNCHANGED <<clock, gh, ghRevs, gone, db, rollup, upsets, crowded, unread, missed, lost>>
      /\ sync.at = "reviews" /\ sync.todo = {}
      /\ sync' = [sync EXCEPT !.at = "pull", !.nobodys = none]
  BY DEF NextPull, github, ghosts
<1>2. sync \in Syncs /\ none \in SUBSET Items
  BY DEF TypeOK
<1> HIDE DEF none
<1> QED BY <1>1, <1>2 DEF Syncs, SummarySame, WorkSame

----------------------------------------------------------------------------
(* Identities move to a person, merged into or new.                         *)
Both(S, b) == {db.owner[l] : l \in S} \cup {b}
Rehomed(S, b) ==
    /\ S \in SUBSET Logins /\ b \in Nat \ {0} /\ \A l \in S : db.owner[l] # 0
    /\ db' \in Databases /\ db'.facts = db.facts /\ db'.anon = db.anon
    /\ db'.synced = db.synced /\ db'.next # 0
    /\ \A l \in Logins : db'.owner[l] = IF l \in S THEN b ELSE db.owner[l]
    /\ rollup' = Rebuilt(db', Both(S, b))
    /\ lost' = {l \in lost : db'.owner[l] \notin Both(S, b)}
    /\ UNCHANGED <<clock, gh, ghRevs, gone, crowded, unread, missed>>
    /\ upsets' \in 0..MaxUpsets
    /\ sync' \in Syncs /\ sync'.at = sync.at /\ sync'.since = sync.since /\ ListSame /\ WorkSame
    /\ sync'.moved = sync.moved /\ sync'.todo = sync.todo /\ sync'.held = sync.held
    /\ sync'.affected = sync.affected /\ sync'.committed = sync.committed
    /\ sync.robbed \subseteq sync'.robbed
    /\ sync.at \in Works => \A l \in S \cap sync.held : db.owner[l] = b \/ l \in sync'.robbed

LEMMA Rehomes ==
    ASSUME TypeOK, NEW S \in SUBSET Logins, NEW b \in Nat \ {0},
           \A l \in S : db.owner[l] # 0, Rehome(S, b)
    PROVE  Rehomed(S, b)
<1>1. sync \in Syncs /\ db \in Databases
  BY DEF TypeOK, Databases
<1> DEFINE owner == [l \in Logins |-> IF l \in S THEN b ELSE db.owner[l]]
           next == Max({db.next, b + 1})
           d == [db EXCEPT !.owner = owner, !.next = next]
           robbed == sync.robbed \cup {l \in S \cap sync.held : db.owner[l] # b}
<1>2. d = [db EXCEPT !.owner = [l \in Logins |-> IF l \in S THEN b ELSE @[l]],
                     !.next = Max({@, b + 1})]
  BY <1>1 DEF Databases
<1>3. /\ db' = d /\ rollup' = Rebuilt(d, Both(S, b))
      /\ lost' = {l \in lost : d.owner[l] \notin Both(S, b)}
      /\ sync' = IF sync.at \in {"pull", "reviews"} THEN [sync EXCEPT !.robbed = robbed] ELSE sync
      /\ upsets < MaxUpsets /\ upsets' = upsets + 1
      /\ UNCHANGED <<clock, gh, ghRevs, gone, crowded, unread, missed>>
  BY <1>1, <1>2 DEF Rehome, Both, github, ghosts, Syncs
<1>4. owner \in [Logins -> Nat]
  BY <1>1 DEF Databases
<1>5. next \in Nat /\ next # 0
  <2>1. db.next \in Nat /\ b + 1 \in Nat
    BY <1>1 DEF Databases
  <2> QED BY <2>1, MaxOfTwo
<1>6. \A l \in Logins : owner[l] = IF l \in S THEN b ELSE db.owner[l]
  OBVIOUS
<1> HIDE DEF owner, next
<1>7. /\ d \in Databases /\ d.facts = db.facts /\ d.anon = db.anon
      /\ d.synced = db.synced /\ d.next = next /\ d.owner = owner
  BY <1>1, <1>4, <1>5 DEF Databases
<1> HIDE DEF d
<1>8. robbed \in SUBSET Logins /\ sync.robbed \subseteq robbed
  BY <1>1 DEF Syncs
<1>9. \A l \in S \cap sync.held : db.owner[l] = b \/ l \in robbed
  OBVIOUS
<1> HIDE DEF robbed
<1>10. /\ sync' \in Syncs /\ sync'.at = sync.at /\ sync'.since = sync.since /\ ListSame /\ WorkSame
       /\ sync'.moved = sync.moved /\ sync'.todo = sync.todo /\ sync'.held = sync.held
       /\ sync'.affected = sync.affected /\ sync'.committed = sync.committed
       /\ sync.robbed \subseteq sync'.robbed
       /\ sync.at \in Works => sync'.robbed = robbed
  <2>1. CASE sync.at \in {"pull", "reviews"}
    <3>1. sync' = [sync EXCEPT !.robbed = robbed]
      BY <1>3, <2>1
    <3> QED BY <1>1, <1>8, <3>1 DEF Syncs, ListSame, WorkSame
  <2>2. CASE sync.at \notin {"pull", "reviews"}
    <3>1. sync' = sync
      BY <1>3, <2>2
    <3> QED BY <1>1, <2>2, <3>1 DEF ListSame, WorkSame, Works
  <2> QED BY <2>1, <2>2
<1>11. upsets' \in 0..MaxUpsets
  BY <1>3, PrSyncBounds DEF TypeOK
<1> QED BY <1>3, <1>5, <1>6, <1>7, <1>9, <1>10, <1>11 DEF Rehomed

LEMMA PersonsMove ==
    ASSUME TypeOK, PhaseInv, MergePersons \/ UnmergeIdentity
    PROVE  \E S, b : Rehomed(S, b)
<1>1. db \in Databases /\ db.next # 0
  BY DEF TypeOK, Databases, PhaseInv
<1>2. CASE MergePersons
  <2>1. PICK l \in Logins, b \in {db.owner[k] : k \in Logins} \cup {db.next} :
           /\ db.owner[l] # 0 /\ b # 0
           /\ Rehome({k \in Logins : db.owner[k] = db.owner[l]}, b)
    BY <1>2 DEF MergePersons
  <2>2. b \in Nat \ {0}
    BY <1>1, <2>1 DEF Databases
  <2> QED BY <2>1, <2>2, Rehomes
<1>3. CASE UnmergeIdentity
  <2>1. PICK l \in Logins : db.owner[l] # 0 /\ Rehome({l}, db.next)
    BY <1>3 DEF UnmergeIdentity
  <2>2. db.next \in Nat \ {0}
    BY <1>1 DEF Databases
  <2> QED BY <2>1, <2>2, Rehomes
<1> QED BY <1>2, <1>3

----------------------------------------------------------------------------
(* What the stored pull request or review has done to the integrity of what *)
(* the session is writing.                                                  *)
LEMMA PullIntegrity ==
    ASSUME TypeInv, NEW info \in sync.got, StoredPull(info)
    PROVE  /\ Integrity(sync.work, sync.anon, (sync.work \cap Reviews) \cup sync.todo)'
           /\ Integrity(db.facts, db.anon, db.facts \cap Reviews)'
<1>1. /\ sync.at = "pull" /\ sync.todo = {}
      /\ Integrity(sync.work, sync.anon, (sync.work \cap Reviews) \cup {})
      /\ Integrity(db.facts, db.anon, db.facts \cap Reviews)
  BY DEF TypeInv, PhaseInv, TypeOK, StoredPull, Works
<1>2. /\ info.number \in Pulls /\ info.state \in States
      /\ \A r \in info.reviews : PullOf[r] = info.number /\ r \in Reviews
      /\ sync.work \in SUBSET Facts /\ db.facts \in SUBSET Facts
  BY DEF TypeInv, TypeOK, Syncs, Infos, GotInv
<1>3. /\ sync'.work = (sync.work \ {<<info.number, k>> : k \in States})
                        \cup {<<info.number, info.state>>}
      /\ sync'.todo = info.reviews \ sync.work
  BY DEF StoredPull, PullRow
<1>4. ASSUME NEW p \in Pulls PROVE ~({<<p, k>> : k \in States} \subseteq sync'.work)
  <2>1. CASE p = info.number
    <3>1. PICK k \in States : k # info.state
      BY DEF States
    <3>2. <<p, k>> \notin sync'.work
      BY <1>3, <2>1, <3>1
    <3> QED BY <3>2
  <2>2. CASE p # info.number
    <3>1. PICK k \in States : <<p, k>> \notin sync.work
      BY <1>1 DEF Integrity
    <3> QED BY <1>3, <2>2, <3>1
  <2> QED BY <2>1, <2>2
<1>5. ASSUME NEW r \in (sync'.work \cap Reviews) \cup sync'.todo
      PROVE  \E k \in States : <<PullOf[r], k>> \in sync'.work
  <2>1. CASE PullOf[r] = info.number
    BY <1>2, <1>3, <2>1
  <2>2. CASE PullOf[r] # info.number
    <3>1. r \in Reviews /\ r # <<info.number, info.state>>
      BY <1>2, <1>3, <2>2, FactsHaveLogins DEF PullFacts
    <3>2. r \in sync.work \cap Reviews
      BY <1>2, <1>3, <2>2, <3>1
    <3>3. PICK k \in States : <<PullOf[r], k>> \in sync.work
      BY <1>1, <3>2 DEF Integrity
    <3> QED BY <1>3, <2>2, <3>3
  <2> QED BY <2>1, <2>2
<1>6. /\ \A f \in sync.work : ItemOf(f) \in sync.anon \/ db.owner[By(f)] # 0
      /\ \A f \in db.facts : ItemOf(f) \in db.anon \/ db.owner[By(f)] # 0
  BY <1>1 DEF Integrity
<1>7. \A l \in Logins : db.owner[l] # 0 => db'.owner[l] # 0
  BY DEF StoredPull, Unnamed, SavedFor
<1>8. ASSUME NEW f \in sync'.work PROVE ItemOf(f) \in sync'.anon \/ db'.owner[By(f)] # 0
  <2>1. CASE ItemOf(f) = info.number
    <3>1. By(f) = AuthorOf[info.number]
      BY <2>1 DEF By
    <3>2. info.number \in sync'.anon \/ db'.owner[AuthorOf[info.number]] # 0
      BY DEF StoredPull, SavedFor
    <3> QED BY <2>1, <3>1, <3>2
  <2>2. CASE ItemOf(f) # info.number
    <3>1. f \in sync.work /\ f \in Facts
      BY <1>2, <1>3, <2>2, FactsHaveLogins
    <3>2. By(f) \in Logins
      BY <3>1, FactsHaveLogins
    <3>3. ItemOf(f) \in sync.anon => ItemOf(f) \in sync'.anon
      BY <2>2 DEF StoredPull
    <3> QED BY <1>6, <1>7, <3>1, <3>2, <3>3
  <2> QED BY <2>1, <2>2
<1>9. Integrity(sync.work, sync.anon, (sync.work \cap Reviews) \cup sync.todo)'
  BY <1>4, <1>5, <1>8 DEF Integrity
<1>10. Integrity(db.facts, db.anon, db.facts \cap Reviews)'
  <2>1. ASSUME NEW facts \in SUBSET Facts, NEW anon, db'.facts = facts, db'.anon = anon,
               Integrity(facts, anon, facts \cap Reviews)
        PROVE  Integrity(db.facts, db.anon, db.facts \cap Reviews)'
    <3>1. \A f \in facts : ItemOf(f) \in anon \/ db'.owner[By(f)] # 0
      BY <1>7, <2>1, FactsHaveLogins DEF Integrity
    <3> QED BY <2>1, <3>1 DEF Integrity
  <2>2. \/ db'.facts = db.facts /\ db'.anon = db.anon
        \/ db'.facts = sync.work /\ db'.anon = sync.anon
    BY DEF StoredPull, Unnamed, SavedFor
  <2> QED BY <1>1, <1>2, <2>1, <2>2
<1> QED BY <1>9, <1>10

LEMMA ReviewIntegrity ==
    ASSUME TypeInv, NEW r \in sync.todo, StoredReview(r)
    PROVE  /\ Integrity(sync.work, sync.anon, (sync.work \cap Reviews) \cup sync.todo)'
           /\ Integrity(db.facts, db.anon, db.facts \cap Reviews)'
<1>1. /\ Integrity(sync.work, sync.anon, (sync.work \cap Reviews) \cup sync.todo)
      /\ Integrity(db.facts, db.anon, db.facts \cap Reviews) /\ r \in Reviews
      /\ sync.work \in SUBSET Facts /\ db.facts \in SUBSET Facts
  BY DEF TypeInv, PhaseInv, TypeOK, StoredReview, Works, Syncs
<1>2. sync'.work = sync.work \cup {r} /\ sync'.todo = sync.todo \ {r}
  BY DEF StoredReview
<1>3. ASSUME NEW p \in Pulls PROVE ~({<<p, k>> : k \in States} \subseteq sync'.work)
  <2>1. PICK k \in States : <<p, k>> \notin sync.work
    BY <1>1 DEF Integrity
  <2>2. <<p, k>> # r
    BY <1>1, FactsHaveLogins DEF PullFacts
  <2> QED BY <1>2, <2>1, <2>2
<1>4. ASSUME NEW q \in (sync'.work \cap Reviews) \cup sync'.todo
      PROVE  \E k \in States : <<PullOf[q], k>> \in sync'.work
  <2>1. q \in (sync.work \cap Reviews) \cup sync.todo
    BY <1>2
  <2> QED BY <1>1, <1>2, <2>1 DEF Integrity
<1>5. \A l \in Logins : db.owner[l] # 0 => db'.owner[l] # 0
  BY DEF StoredReview, Unnamed, SavedFor
<1>6. \A f \in sync'.work : ItemOf(f) \in sync'.anon \/ db'.owner[By(f)] # 0
  <2>1. ItemOf(r) \in sync'.anon \/ db'.owner[By(r)] # 0
    BY <1>1, FactsHaveLogins DEF StoredReview, SavedFor
  <2>2. sync.anon \subseteq sync'.anon
    BY DEF StoredReview
  <2> QED BY <1>1, <1>2, <1>5, <2>1, <2>2, FactsHaveLogins DEF Integrity
<1>7. Integrity(sync.work, sync.anon, (sync.work \cap Reviews) \cup sync.todo)'
  BY <1>3, <1>4, <1>6 DEF Integrity
<1>8. Integrity(db.facts, db.anon, db.facts \cap Reviews)'
  <2>1. ASSUME NEW facts \in SUBSET Facts, NEW anon, db'.facts = facts, db'.anon = anon,
               Integrity(facts, anon, facts \cap Reviews)
        PROVE  Integrity(db.facts, db.anon, db.facts \cap Reviews)'
    <3>1. \A f \in facts : ItemOf(f) \in anon \/ db'.owner[By(f)] # 0
      BY <1>5, <2>1, FactsHaveLogins DEF Integrity
    <3> QED BY <2>1, <3>1 DEF Integrity
  <2>2. Integrity(sync.work, sync.anon, sync.work \cap Reviews)
    BY <1>1 DEF Integrity
  <2>3. \/ db'.facts = db.facts /\ db'.anon = db.anon
        \/ db'.facts = sync.work /\ db'.anon = sync.anon
    BY DEF StoredReview, Unnamed, SavedFor
  <2> QED BY <1>1, <2>1, <2>2, <2>3
<1> QED BY <1>7, <1>8

----------------------------------------------------------------------------
LEMMA RebuiltTypes ==
    ASSUME NEW d \in Databases, NEW P, rollup \subseteq Nat \X Facts
    PROVE  Rebuilt(d, P) \subseteq Nat \X Facts
<1>1. \A f \in d.facts : f \in Facts /\ d.owner[By(f)] \in Nat
  BY FactsHaveLogins DEF Databases
<1> QED BY <1>1 DEF Rebuilt

LEMMA TypeInductive == ASSUME TypeInv, [Next]_vars PROVE TypeInv'
<1>0. TypeOK /\ GitHubInv /\ GotInv /\ PhaseInv
  BY DEF TypeInv
<1>t. /\ clock \in Nat /\ db.synced \in Nat /\ sync.since \in Nat
      /\ \A p \in Pulls : gh[p].at \in Nat
      /\ sync.got \in SUBSET Infos /\ sync.todo \in SUBSET Reviews
      /\ \A i \in Infos : i.at \in Nat /\ i.number \in Pulls /\ i.reviews \in SUBSET Reviews
      /\ \A r \in Reviews : PullOf[r] \in Pulls
      /\ db.synced <= clock /\ sync.since <= clock
  <2>1. /\ clock \in Nat /\ db.synced \in Nat /\ db.synced <= clock
        /\ \A p \in Pulls : gh[p].at \in Nat
    BY <1>0, PrSyncBounds DEF TypeOK
  <2>2. sync.since \in Nat /\ sync.got \in SUBSET Infos /\ sync.todo \in SUBSET Reviews
    BY <1>0, PrSyncBounds DEF TypeOK, Syncs
  <2>3. \A i \in Infos : i.at \in Nat /\ i.number \in Pulls /\ i.reviews \in SUBSET Reviews
    BY PrSyncBounds DEF Infos
  <2> QED BY <1>0, <2>1, <2>2, <2>3, PullsAssumption DEF PhaseInv
<1>1. ASSUME NEW p \in Pulls, Update(p) PROVE TypeInv'
  <2>1. /\ UNCHANGED <<clock, gone, db, rollup, upsets, unread, lost>>
        /\ gh' \in [Pulls -> [state : Kinds, at : 0..MaxClock, tied : BOOLEAN]]
        /\ gh'[p].at = clock /\ gh'[p].state \in States
        /\ \A q \in Pulls \ {p} : gh'[q] = gh[q]
        /\ ghRevs \subseteq ghRevs' /\ ghRevs' \subseteq Reviews
        /\ \A r \in ghRevs' \ ghRevs : PullOf[r] = p
        /\ sync'.at = sync.at /\ SummarySame /\ WorkSame /\ ListSame /\ sync' \in Syncs
    BY <1>0, <1>1, UpdateKeeps
  <2>2. crowded' \in BOOLEAN /\ missed' \subseteq Pulls
    BY <1>0, <1>1, UpdateKeeps DEF TypeOK
  <2>3. TypeOK'
    BY <1>0, <2>1, <2>2 DEF TypeOK, Integrity
  <2>4. \A q \in Pulls : gh[q].at <= gh'[q].at /\ gh'[q].at <= clock
    BY <1>0, <1>t, <2>1 DEF GitHubInv
  <2>5. GitHubInv'
    <3>1. clock # 0 /\ "none" \notin States
      BY <1>0 DEF TypeOK, States
    <3>2. \A q \in Pulls : gh'[q].state = "none" <=> gh'[q].at = 0
      BY <1>0, <2>1, <3>1 DEF GitHubInv
    <3>3. \A r \in ghRevs' : gh'[PullOf[r]].state # "none"
      BY <1>0, <1>t, <2>1, <3>1 DEF GitHubInv
    <3> QED BY <2>1, <2>4, <3>2, <3>3 DEF GitHubInv
  <2>6. GotInv'
    <3> SUFFICES ASSUME NEW i \in sync.got
                 PROVE  /\ db.synced < i.at /\ i.at <= gh'[i.number].at
                        /\ \A r \in i.reviews : PullOf[r] = i.number
      BY <2>1 DEF GotInv, ListSame
    <3>1. /\ db.synced < i.at /\ i.at <= gh[i.number].at
          /\ \A r \in i.reviews : PullOf[r] = i.number
      BY <1>0 DEF GotInv
    <3>2. /\ i.at \in Nat /\ i.number \in Pulls /\ gh[i.number].at \in Nat
          /\ gh'[i.number].at \in Nat /\ gh[i.number].at <= gh'[i.number].at
      BY <1>t, <2>1, <2>4
    <3>3. i.at <= gh'[i.number].at
      BY <3>1, <3>2
    <3> QED BY <3>1, <3>3
  <2>7. PhaseInv'
    <3>1. \A r \in sync.todo : db.synced < gh'[PullOf[r]].at
      <4> SUFFICES ASSUME NEW r \in sync.todo PROVE db.synced < gh'[PullOf[r]].at
        OBVIOUS
      <4>1. /\ db.synced < gh[PullOf[r]].at /\ PullOf[r] \in Pulls
            /\ gh[PullOf[r]].at \in Nat /\ gh'[PullOf[r]].at \in Nat
            /\ gh[PullOf[r]].at <= gh'[PullOf[r]].at
        BY <1>0, <1>t, <2>1, <2>4 DEF PhaseInv
      <4> QED BY <1>t, <4>1
    <3>2. UNCHANGED <<db, clock>>
      BY <2>1
    <3> QED BY <1>0, <2>1, <3>1, <3>2 DEF PhaseInv, Integrity, SummarySame, WorkSame, ListSame
  <2> QED BY <2>3, <2>5, <2>6, <2>7 DEF TypeInv
<1>2. CASE Tick
  <2>1. /\ clock' = clock + 1 /\ clock < MaxClock
        /\ UNCHANGED <<gh, ghRevs, gone, db, rollup, sync, upsets, crowded, unread, missed, lost>>
    BY <1>2 DEF Tick, ghosts
  <2>2. clock' \in 1..MaxClock /\ clock <= clock' /\ clock' \in Nat
    BY <1>0, <2>1, PrSyncBounds DEF TypeOK
  <2>3. db.synced <= clock' /\ sync.since <= clock'
    BY <1>t, <2>2
  <2>4. \A p \in Pulls : gh[p].at <= clock'
    <3> SUFFICES ASSUME NEW p \in Pulls PROVE gh[p].at <= clock'
      OBVIOUS
    <3>1. gh[p].at <= clock /\ gh[p].at \in Nat
      BY <1>0, <1>t DEF GitHubInv
    <3> QED BY <1>t, <2>2, <3>1
  <2>5. TypeOK'
    BY <1>0, <2>1, <2>2, <2>3 DEF TypeOK, Integrity
  <2>6. GitHubInv' /\ GotInv' /\ PhaseInv'
    BY <1>0, <2>1, <2>3, <2>4 DEF GitHubInv, GotInv, PhaseInv, Integrity
  <2> QED BY <2>5, <2>6 DEF TypeInv
<1>13. ASSUME NEW l \in Logins, CloseAccount(l) PROVE TypeInv'
  <2>1. /\ gone' = gone \cup {l} /\ upsets < MaxUpsets /\ upsets' = upsets + 1
        /\ UNCHANGED <<clock, gh, ghRevs, db, rollup, sync, crowded, unread, missed, lost>>
    BY <1>13 DEF CloseAccount, ghosts
  <2>2. TypeOK'
    BY <1>0, <2>1, PrSyncBounds DEF TypeOK, Integrity
  <2>3. GitHubInv' /\ GotInv' /\ PhaseInv'
    BY <1>0, <2>1 DEF GitHubInv, GotInv, PhaseInv, Integrity
  <2> QED BY <2>2, <2>3 DEF TypeInv
<1>3. ASSUME NEW page, NEW new, PageRead(page, new), sync'.at \in Lists \/ Ended,
             sync'.at \in {"details", "last"} \/ sync'.batch = {}
      PROVE  TypeInv'
  <2>1. /\ UNCHANGED <<clock, gh, ghRevs, gone, db, rollup, upsets, crowded, unread, missed, lost>>
        /\ sync.at \in Lists /\ page \in SUBSET Existing
        /\ sync' \in Syncs /\ sync'.got = sync.got \cup new /\ SummarySame
        /\ sync'.batch \subseteq new
        /\ \A i \in new : /\ i.number \in Taken(page) /\ i.at = gh[i.number].at
                          /\ i.reviews \subseteq ReviewsOf(i.number)
    BY <1>3 DEF PageRead, Lists
  <2>2. sync.since = db.synced /\ sync.todo = {}
    BY <1>0, <2>1 DEF PhaseInv, Lists
  <2>3. TypeOK'
    BY <1>0, <2>1 DEF TypeOK, Integrity
  <2>4. GitHubInv'
    BY <1>0, <2>1 DEF GitHubInv
  <2>5. GotInv'
    <3>1. ASSUME NEW i \in new
          PROVE  /\ db.synced < i.at /\ i.at <= gh[i.number].at
                 /\ \A r \in i.reviews : PullOf[r] = i.number
      <4>1. i.number \in Pulls /\ sync.since < i.at
        BY <2>1 DEF Taken, Existing
      <4>2. i.at \in Nat
        BY <1>t, <2>1, <4>1
      <4> QED BY <2>1, <2>2, <4>1, <4>2 DEF ReviewsOf
    <3> QED BY <1>0, <2>1, <3>1 DEF GotInv
  <2>6. PhaseInv'
    <3>1. sync'.since = db.synced /\ sync'.todo = {} /\ db' = db /\ clock' = clock
      BY <2>1, <2>2 DEF SummarySame
    <3>2. sync'.at \in Lists \cup {"pull"}
      BY <1>3 DEF Ended
    <3>3. sync'.batch \subseteq sync'.got
      BY <2>1
    <3>4. CASE sync'.at \in Lists
      BY <1>0, <1>3, <1>t, <3>1, <3>3, <3>4 DEF PhaseInv, Lists, Works
    <3>5. CASE sync'.at = "pull"
      <4>1. sync'.work = db.facts /\ sync'.anon = db.anon
        BY <1>3, <3>5 DEF Ended, Lists
      <4>2. Integrity(db.facts, db.anon, (db.facts \cap Reviews) \cup {})
        BY <1>0 DEF TypeOK, Integrity
      <4>3. Integrity(sync.work, sync.anon, (sync.work \cap Reviews) \cup sync.todo)'
        BY <3>1, <4>1, <4>2 DEF Integrity
      <4> QED BY <1>0, <1>3, <1>t, <3>1, <3>3, <3>5, <4>3 DEF PhaseInv, Lists
    <3> QED BY <3>2, <3>4, <3>5
  <2> QED BY <2>3, <2>4, <2>5, <2>6 DEF TypeInv
<1>14. ASSUME NEW i \in sync.batch, NEW revs, DetailRead(i, revs) PROVE TypeInv'
  <2> DEFINE new == Detailed(i, revs)
  <2>1. /\ UNCHANGED <<clock, gh, ghRevs, gone, db, rollup, crowded, missed, lost>>
        /\ upsets' \in 0..MaxUpsets /\ unread' \subseteq Reviews
        /\ sync' \in Syncs /\ SummarySame /\ sync'.at = sync.at /\ sync.at \in {"details", "last"}
        /\ sync'.batch = sync.batch \ {i} /\ sync'.got = (sync.got \ {i}) \cup {new}
        /\ new.number = i.number /\ new.at = i.at /\ new.reviews = revs
        /\ revs \subseteq ReviewsOf(i.number) /\ i \in sync.got
    BY <1>0, <1>14 DEF DetailRead, PhaseInv
  <2>2. TypeOK'
    BY <1>0, <2>1 DEF TypeOK, Integrity
  <2>3. GitHubInv'
    BY <1>0, <2>1 DEF GitHubInv
  <2> HIDE DEF new
  <2>4. GotInv'
    <3>1. /\ db.synced < new.at /\ new.at <= gh[new.number].at
          /\ \A r \in new.reviews : PullOf[r] = new.number
      BY <1>0, <2>1 DEF GotInv, ReviewsOf
    <3> QED BY <1>0, <2>1, <3>1 DEF GotInv
  <2>5. PhaseInv'
    <3>1. sync'.batch \subseteq sync'.got
      BY <1>0, <2>1 DEF PhaseInv
    <3>2. /\ sync'.since = db.synced /\ sync'.todo = {} /\ db' = db /\ clock' = clock
          /\ db.next # 0
      BY <1>0, <2>1 DEF SummarySame, PhaseInv, Lists
    <3>3. sync'.at \in {"details", "last"}
      BY <2>1
    <3> QED BY <1>t, <3>1, <3>2, <3>3 DEF PhaseInv, Works
  <2> QED BY <2>2, <2>3, <2>4, <2>5 DEF TypeInv
<1>15. CASE RestPageDone \/ GraphqlBreaksOff
  <2>1. /\ UNCHANGED <<clock, gh, ghRevs, gone, db, rollup, crowded, unread, lost>>
        /\ sync' \in Syncs /\ SummarySame /\ sync'.got = sync.got /\ sync.at \in Lists
        /\ sync'.batch = {} /\ upsets' \in 0..MaxUpsets
        /\ sync'.at = "rest" \/ Ended
        /\ missed' \subseteq missed \cup Taken(After)
    BY <1>0, <1>15, PagesEnd
  <2>2. missed' \subseteq Pulls
    BY <1>0, <2>1 DEF TypeOK, Taken, After, Existing
  <2>3. TypeOK'
    BY <1>0, <2>1, <2>2 DEF TypeOK, Integrity
  <2>4. GitHubInv' /\ GotInv'
    BY <1>0, <2>1 DEF GitHubInv, GotInv
  <2>5. sync.since = db.synced /\ sync.todo = {} /\ db.next # 0
    BY <1>0, <2>1 DEF PhaseInv, Lists
  <2>6. PhaseInv'
    <3>1. sync'.since = db.synced /\ sync'.todo = {} /\ db' = db /\ clock' = clock
      BY <2>1, <2>5 DEF SummarySame
    <3>2. CASE sync'.at = "rest"
      BY <1>t, <2>1, <2>5, <3>1, <3>2 DEF PhaseInv, Lists, Works
    <3>3. CASE Ended
      <4>1. sync'.work = db.facts /\ sync'.anon = db.anon /\ sync'.at = "pull"
        BY <3>3 DEF Ended
      <4>2. Integrity(db.facts, db.anon, (db.facts \cap Reviews) \cup {})
        BY <1>0 DEF TypeOK, Integrity
      <4>3. Integrity(sync.work, sync.anon, (sync.work \cap Reviews) \cup sync.todo)'
        BY <3>1, <4>1, <4>2 DEF Integrity
      <4> QED BY <1>t, <2>1, <2>5, <3>1, <4>1, <4>3 DEF PhaseInv, Lists
    <3> QED BY <2>1, <3>2, <3>3
  <2> QED BY <2>3, <2>4, <2>6 DEF TypeInv
<1>4. ASSUME NEW info \in sync.got, StoredPull(info) PROVE TypeInv'
  <2>1. /\ UNCHANGED <<clock, gh, ghRevs, gone, rollup, upsets, crowded, unread, missed, lost>>
        /\ db' \in Databases /\ db'.synced = db.synced /\ sync' \in Syncs
        /\ sync.at = "pull" /\ sync'.at = "reviews" /\ sync'.got = sync.got \ {info}
        /\ sync'.todo = info.reviews \ sync.work
        /\ sync'.since = Max({sync.since, info.at}) /\ sync'.batch = sync.batch
        /\ sync'.work = PullRow(info.number, info.state) /\ db'.next # 0
    <3>1. db' \in Databases /\ db'.synced = db.synced /\ db'.next # 0
      BY <1>0, <1>4 DEF StoredPull, Unnamed, SavedFor, TypeOK, Databases, PhaseInv
    <3> QED BY <1>4, <3>1 DEF StoredPull, Storing
  <2>2. /\ Integrity(sync.work, sync.anon, (sync.work \cap Reviews) \cup sync.todo)'
        /\ Integrity(db.facts, db.anon, db.facts \cap Reviews)'
    BY <1>4, PullIntegrity
  <2>3. TypeOK'
    BY <1>0, <2>1, <2>2 DEF TypeOK, Databases
  <2>4. GitHubInv' /\ GotInv'
    BY <1>0, <2>1 DEF GitHubInv, GotInv
  <2>5. /\ info.at \in Nat /\ info.at <= clock /\ db.synced < gh[info.number].at
        /\ \A r \in info.reviews : PullOf[r] = info.number
    <3>1. /\ info.at \in Nat /\ info.number \in Pulls /\ gh[info.number].at \in Nat
          /\ info.at <= gh[info.number].at /\ gh[info.number].at <= clock
          /\ db.synced < info.at
      BY <1>0, <1>t DEF GotInv, GitHubInv
    <3>2. info.at <= clock /\ db.synced < gh[info.number].at
      BY <1>t, <3>1
    <3> QED BY <1>0, <3>1, <3>2 DEF GotInv
  <2>6. sync'.since <= clock /\ db.synced <= sync'.since
    <3>1. /\ sync'.since \in {sync.since, info.at} /\ sync'.since >= sync.since
      BY <1>t, <2>1, <2>5, MaxOfTwo
    <3>2. db.synced <= sync.since
      BY <1>0, <2>1 DEF PhaseInv, Works
    <3> QED BY <1>t, <2>5, <3>1, <3>2
  <2>7. sync'.todo \cap sync'.work = {} /\ sync'.batch = {}
    <3>1. info.reviews \subseteq Reviews /\ info.number \in Pulls /\ info.state \in States
      BY <1>0 DEF TypeOK, Syncs, Infos
    <3>2. <<info.number, info.state>> \notin info.reviews
      BY <3>1, FactsHaveLogins DEF PullFacts
    <3>3. sync.batch = {}
      BY <1>0, <2>1 DEF PhaseInv
    <3> QED BY <2>1, <3>2, <3>3 DEF PullRow
  <2>8. PhaseInv'
    BY <2>1, <2>2, <2>5, <2>6, <2>7 DEF PhaseInv, Lists
  <2> QED BY <2>3, <2>4, <2>8 DEF TypeInv
<1>5. ASSUME NEW r \in sync.todo, StoredReview(r) PROVE TypeInv'
  <2>1. /\ UNCHANGED <<clock, gh, ghRevs, gone, rollup, upsets, crowded, unread, missed, lost>>
        /\ db' \in Databases /\ db'.synced = db.synced /\ sync' \in Syncs
        /\ sync.at = "reviews" /\ sync'.at = "reviews" /\ sync'.got = sync.got
        /\ sync'.todo = sync.todo \ {r} /\ sync'.since = sync.since
        /\ sync'.work = sync.work \cup {r} /\ sync'.batch = sync.batch /\ db'.next # 0
    <3>1. db' \in Databases /\ db'.synced = db.synced /\ db'.next # 0
      BY <1>0, <1>5 DEF StoredReview, Unnamed, SavedFor, TypeOK, Databases, PhaseInv
    <3> QED BY <1>5, <3>1 DEF StoredReview, Storing
  <2>2. /\ Integrity(sync.work, sync.anon, (sync.work \cap Reviews) \cup sync.todo)'
        /\ Integrity(db.facts, db.anon, db.facts \cap Reviews)'
    BY <1>5, ReviewIntegrity
  <2>3. TypeOK'
    BY <1>0, <2>1, <2>2 DEF TypeOK, Databases
  <2>4. GitHubInv' /\ GotInv'
    BY <1>0, <2>1 DEF GitHubInv, GotInv
  <2>5. PhaseInv'
    BY <1>0, <2>1, <2>2 DEF PhaseInv, Lists, Works
  <2> QED BY <2>3, <2>4, <2>5 DEF TypeInv
<1>6. CASE NextPull
  <2>1. /\ UNCHANGED <<clock, gh, ghRevs, gone, db, rollup, upsets, crowded, unread, missed, lost>>
        /\ sync.at = "reviews" /\ sync.todo = {} /\ sync' \in Syncs /\ sync'.at = "pull"
        /\ sync'.got = sync.got /\ sync'.batch = sync.batch /\ SummarySame /\ WorkSame
    BY <1>0, <1>6, PhaseSteps
  <2>2. TypeOK'
    BY <1>0, <2>1 DEF TypeOK, Integrity
  <2>3. GitHubInv' /\ GotInv' /\ PhaseInv'
    BY <1>0, <2>1 DEF GitHubInv, GotInv, PhaseInv, Integrity, Lists, Works,
          SummarySame, WorkSame
  <2> QED BY <2>2, <2>3 DEF TypeInv
<1>7. CASE CommitPulls
  <2>1. /\ sync.at = "pull" /\ UNCHANGED <<clock, gh, ghRevs, gone, rollup, upsets, crowded, unread, missed, lost>>
        /\ db' \in Databases /\ db'.facts = sync.work /\ db'.anon = sync.anon /\ db'.owner = db.owner /\ db'.next = db.next
        /\ db'.synced = Max({db.synced, sync.since})
        /\ sync' \in Syncs /\ sync'.at = "recompute" /\ sync'.got = {}
        /\ sync'.batch = sync.batch
        /\ sync'.since = sync.since /\ sync'.todo = sync.todo
    BY <1>0, <1>7, PullsCommitted DEF CommittedPulls
  <2>2. sync.todo = {} /\ Integrity(sync.work, sync.anon, (sync.work \cap Reviews) \cup sync.todo)
    BY <1>0, <2>1 DEF PhaseInv, Works
  <2>3. db'.synced <= clock
    <3>1. db'.synced \in {db.synced, sync.since}
      BY <1>t, <2>1, MaxOfTwo
    <3> QED BY <1>t, <3>1
  <2>4. Integrity(db.facts, db.anon, db.facts \cap Reviews)'
    BY <2>1, <2>2 DEF Integrity
  <2>5. TypeOK'
    BY <1>0, <2>1, <2>3, <2>4 DEF TypeOK, Databases
  <2>6. GitHubInv' /\ GotInv'
    BY <1>0, <2>1 DEF GitHubInv, GotInv
  <2>7. PhaseInv'
    BY <1>0, <1>t, <2>1, <2>2 DEF PhaseInv, Lists, Works
  <2> QED BY <2>5, <2>6, <2>7 DEF TypeInv
<1>8. ASSUME NEW at \in {"idle"} \cup Lists, NEW since \in {0, db.synced}, Emptied(at, since),
             at \in Lists => since = db.synced, rollup' \subseteq Nat \X Facts,
             upsets' \in 0..MaxUpsets, missed' \subseteq Pulls, lost' \subseteq Logins
      PROVE  TypeInv'
  <2>1. /\ UNCHANGED <<clock, gh, ghRevs, gone, db, crowded, unread>> /\ sync' \in Syncs
        /\ sync'.at = at /\ sync'.since = since /\ sync'.got = {} /\ sync'.todo = {}
        /\ sync'.batch = {}
    BY <1>8 DEF Emptied
  <2>2. TypeOK'
    BY <1>0, <1>8, <2>1 DEF TypeOK, Integrity
  <2>3. GitHubInv' /\ GotInv'
    BY <1>0, <2>1 DEF GitHubInv, GotInv
  <2>4. since <= clock /\ db.next # 0
    BY <1>0, <1>t DEF PhaseInv
  <2>5. PhaseInv'
    BY <1>8, <2>1, <2>4 DEF PhaseInv, Lists, Works
  <2> QED BY <2>2, <2>3, <2>5 DEF TypeInv
<1>9. CASE BeginListing \/ FallBackToRest
  <2>1. /\ Emptied("graphql", db.synced) \/ Emptied("rest", db.synced)
        /\ UNCHANGED <<rollup, upsets, lost>> /\ missed' \subseteq missed
    BY <1>0, <1>9, ListingBegins
  <2>2. /\ rollup' \subseteq Nat \X Facts /\ upsets' \in 0..MaxUpsets
        /\ missed' \subseteq Pulls /\ lost' \subseteq Logins
    BY <1>0, <2>1 DEF TypeOK
  <2> QED BY <1>8, <2>1, <2>2 DEF Lists
<1>10. CASE Recompute \/ SyncFails
  <2>1. Emptied("idle", 0) /\ UNCHANGED missed /\ upsets' \in 0..MaxUpsets
    BY <1>0, <1>10, SyncEnds
  <2>2. lost' \subseteq Logins /\ missed' \subseteq Pulls
    <3>1. /\ sync.committed \subseteq Logins /\ sync.robbed \subseteq Logins
          /\ lost \subseteq Logins /\ missed \subseteq Pulls
      BY <1>0 DEF TypeOK, Syncs
    <3> QED BY <1>10, <2>1, <3>1 DEF Recompute, SyncFails
  <2>3. rollup' \subseteq Nat \X Facts
    <3>1. rollup \subseteq Nat \X Facts /\ db \in Databases
      BY <1>0 DEF TypeOK, Databases
    <3>2. Rebuilt(db, sync.affected) \subseteq Nat \X Facts
      BY <3>1, RebuiltTypes
    <3> QED BY <1>10, <3>1, <3>2 DEF Recompute, SyncFails
  <2> QED BY <1>8, <2>1, <2>2, <2>3 DEF Lists
<1>16. ASSUME NEW S, NEW b, Rehomed(S, b) PROVE TypeInv'
  <2>1. /\ db' \in Databases /\ db'.facts = db.facts /\ db'.anon = db.anon
        /\ db'.synced = db.synced /\ db'.next # 0
        /\ rollup' = Rebuilt(db', Both(S, b)) /\ lost' \subseteq lost
        /\ UNCHANGED <<clock, gh, ghRevs, gone, crowded, unread, missed>>
        /\ upsets' \in 0..MaxUpsets
        /\ sync' \in Syncs /\ sync'.at = sync.at /\ sync'.since = sync.since /\ ListSame /\ WorkSame
        /\ sync'.todo = sync.todo
    BY <1>16 DEF Rehomed
  <2>2. \A l \in Logins : db.owner[l] # 0 => db'.owner[l] # 0
    BY <1>16 DEF Rehomed
  <2>3. rollup' \subseteq Nat \X Facts
    <3>1. rollup \subseteq Nat \X Facts
      BY <1>0 DEF TypeOK
    <3> QED BY <2>1, <3>1, RebuiltTypes
  <2>4. ASSUME NEW facts \in SUBSET Facts, NEW anon,
               \A f \in facts : ItemOf(f) \in anon \/ db.owner[By(f)] # 0
        PROVE  \A f \in facts : ItemOf(f) \in anon \/ db'.owner[By(f)] # 0
    BY <2>2, <2>4, FactsHaveLogins
  <2>5. Integrity(db.facts, db.anon, db.facts \cap Reviews)'
    <3>1. db.facts \in SUBSET Facts /\ Integrity(db.facts, db.anon, db.facts \cap Reviews)
      BY <1>0 DEF TypeOK
    <3>2. \A f \in db.facts : ItemOf(f) \in db.anon \/ db'.owner[By(f)] # 0
      BY <2>4, <3>1 DEF Integrity
    <3> QED BY <2>1, <3>1, <3>2 DEF Integrity
  <2>6. TypeOK'
    BY <1>0, <2>1, <2>3, <2>5 DEF TypeOK, Databases
  <2>7. GitHubInv' /\ GotInv'
    BY <1>0, <2>1 DEF GitHubInv, GotInv, ListSame
  <2>8. sync.at \in Works => Integrity(sync.work, sync.anon, (sync.work \cap Reviews) \cup sync.todo)'
    <3> SUFFICES ASSUME sync.at \in Works
                 PROVE  Integrity(sync.work, sync.anon, (sync.work \cap Reviews) \cup sync.todo)'
      OBVIOUS
    <3>1. /\ sync.work \in SUBSET Facts
          /\ Integrity(sync.work, sync.anon, (sync.work \cap Reviews) \cup sync.todo)
      BY <1>0 DEF TypeOK, Syncs, PhaseInv
    <3>2. /\ sync'.work = sync.work /\ sync'.anon = sync.anon
          /\ (sync'.work \cap Reviews) \cup sync'.todo = (sync.work \cap Reviews) \cup sync.todo
      BY <2>1 DEF WorkSame
    <3>3. \A f \in sync.work : ItemOf(f) \in sync.anon \/ db'.owner[By(f)] # 0
      BY <2>4, <3>1 DEF Integrity
    <3> QED BY <3>1, <3>2, <3>3 DEF Integrity
  <2>9. PhaseInv'
    BY <1>0, <2>1, <2>8 DEF PhaseInv, ListSame, WorkSame
  <2> QED BY <2>6, <2>7, <2>9 DEF TypeInv
<1>11. CASE UNCHANGED vars
  BY <1>0, <1>11
     DEF vars, TypeInv, TypeOK, GitHubInv, GotInv, PhaseInv, Integrity
<1>12. CASE Next
  <2>1. CASE GraphqlPage
    <3>1. PICK new : PageRead(GraphqlPull, new)
      BY <1>0, <2>1, GraphqlReads
    <3>2. sync'.batch = {}
      BY <1>0, <2>1, GraphqlReads
    <3>3. sync'.at \in Lists \/ Ended
      BY <1>0, <2>1, GraphqlReads DEF Lists
    <3> QED BY <1>3, <3>1, <3>2, <3>3
  <2>2. CASE RestBatch
    <3>1. PICK new : PageRead(RestPull, new)
      BY <1>0, <2>2, RestReads
    <3>2. sync'.at \in {"details", "last"}
      BY <1>0, <2>2, RestReads
    <3> QED BY <1>3, <3>1, <3>2 DEF Lists
  <2>3. CASE RestReviewsAnswered \/ RestReviewsFail
    BY <1>0, <1>14, <2>3, DetailReads
  <2>4. CASE UpsertPull
    BY <1>0, <1>4, <2>4, PullStored DEF PhaseInv
  <2>5. CASE UpsertReview
    BY <1>0, <1>5, <2>5, ReviewStored DEF PhaseInv
  <2>6. ASSUME NEW p \in Pulls, OpenPull(p) \/ MergePull(p) PROVE TypeInv'
    BY <1>0, <1>1, <2>6, ChangesUpdate
  <2>7. ASSUME NEW r \in Reviews, SubmitReview(r) PROVE TypeInv'
    BY <1>0, <1>1, <2>7, ReviewUpdates
  <2>8. CASE MergePersons \/ UnmergeIdentity
    BY <1>0, <1>16, <2>8, PersonsMove
  <2> QED BY <1>2, <1>6, <1>7, <1>9, <1>10, <1>12, <1>13, <1>15, <2>1, <2>2, <2>3, <2>4,
             <2>5, <2>6, <2>7, <2>8 DEF Next
<1> QED BY <1>11, <1>12

LEMMA TypesHold == Spec => []TypeInv
BY TypeInit, TypeInductive, PTL DEF Spec

(* Facts, identities, persons, rollups and the state of a sync keep their   *)
(* types, and what is committed, half-way or not, its referential           *)
(* integrity: of a pull request there is one row, a review never comes      *)
(* without its pull request, and a fact is without an identity only if its  *)
(* row was stored without an author (prsync.py: a null author).             *)
THEOREM TypeCorrect == Spec => []TypeOK
BY TypesHold, PTL DEF TypeInv

----------------------------------------------------------------------------
(* The rollups: rows are of the present person of an identity; what is      *)
(* stored and not credited is of logins whose recompute is due, or was lost *)
(* to them.                                                                 *)

Exact(l) == Credited(l) = {<<db.owner[l], f>> : f \in Stored(l)}
Present == \A x \in rollup : x[1] = db.owner[By(x[2])] /\ x[1] # 0

RollupInv ==
    /\ Present
    /\ \A l \in Logins \ lost : Exact(l) \/ l \in sync.committed
    /\ sync.at \in Works =>
         /\ \A l \in sync.held :
               db.owner[l] # 0 /\ (db.owner[l] \in sync.affected \/ l \in sync.robbed)
         /\ \A l \in Logins \ (sync.held \cup sync.robbed) :
               l \notin sync.committed /\ FactsOf(sync.work, sync.anon, l) = Stored(l)
    /\ sync.at = "recompute" =>
          \A l \in sync.committed :
             Exact(l) \/ db.owner[l] \in sync.affected \/ l \in sync.robbed
    /\ sync.at \in {"idle"} \cup Lists => sync.committed = {} /\ sync.held = {}

(* What recompute_for_persons leaves: the persons' identities have their    *)
(* facts, of the persons they are of by now, and the others keep theirs.    *)
LEMMA RebuildsExactly ==
    ASSUME TypeOK, Present, NEW P, db' \in Databases,
           db'.facts = db.facts, db'.anon = db.anon, rollup' = Rebuilt(db', P),
           \A l \in Logins : \/ db'.owner[l] = db.owner[l]
                             \/ db.owner[l] \in P /\ db'.owner[l] \in P /\ db'.owner[l] # 0
    PROVE  /\ Present'
           /\ \A l \in Logins : db'.owner[l] \in P => Exact(l)'
           /\ \A l \in Logins : db'.owner[l] \notin P => Credited(l)' = Credited(l)
           /\ \A l \in Logins : Stored(l)' = Stored(l)
           /\ \A l \in Logins : Exact(l) /\ db'.owner[l] = db.owner[l] => Exact(l)'
<1> DEFINE new == {<<db'.owner[By(f)], f>> : f \in {g \in db.facts :
                      ItemOf(g) \notin db.anon /\ db'.owner[By(g)] \in P}}
<1>1. rollup' = {x \in rollup : x[1] \notin P} \cup new
  BY DEF Rebuilt
<1>2. /\ \A f \in db.facts : By(f) \in Logins /\ (ItemOf(f) \in db.anon \/ db.owner[By(f)] # 0)
      /\ \A x \in rollup : By(x[2]) \in Logins
  BY FactsHaveLogins DEF TypeOK, Integrity
<1>3. ASSUME NEW x \in new
      PROVE  \E f \in db.facts : /\ x = <<db'.owner[By(f)], f>> /\ ItemOf(f) \notin db.anon
                                 /\ db'.owner[By(f)] \in P /\ db'.owner[By(f)] # 0
  <2>1. PICK f \in db.facts : /\ x = <<db'.owner[By(f)], f>> /\ ItemOf(f) \notin db.anon
                              /\ db'.owner[By(f)] \in P
    BY <1>3
  <2> QED BY <1>2, <2>1
<1>4. ASSUME NEW f \in db.facts, ItemOf(f) \notin db.anon, db'.owner[By(f)] \in P
      PROVE  <<db'.owner[By(f)], f>> \in new
  BY <1>4
<1> HIDE DEF new
<1>5. ASSUME NEW x \in rollup'
      PROVE  \/ x \in rollup /\ x[1] \notin P
             \/ \E f \in db.facts : /\ x = <<db'.owner[By(f)], f>> /\ ItemOf(f) \notin db.anon
                                    /\ db'.owner[By(f)] \in P /\ db'.owner[By(f)] # 0
  BY <1>1, <1>3
<1>6. Present'
  <2> SUFFICES ASSUME NEW x \in rollup' PROVE x[1] = db'.owner[By(x[2])] /\ x[1] # 0
    BY DEF Present
  <2>1. CASE x \in rollup /\ x[1] \notin P
    BY <1>2, <2>1 DEF Present
  <2>2. CASE \E f \in db.facts : /\ x = <<db'.owner[By(f)], f>> /\ ItemOf(f) \notin db.anon
                                 /\ db'.owner[By(f)] \in P /\ db'.owner[By(f)] # 0
    BY <2>2
  <2> QED BY <1>5, <2>1, <2>2
<1>7. \A l \in Logins : Stored(l)' = Stored(l)
  BY DEF Stored, FactsOf
<1>8. ASSUME NEW l \in Logins, db'.owner[l] \in P PROVE Exact(l)'
  <2> DEFINE exact == {<<db'.owner[l], f>> : f \in Stored(l)}
  <2>1. ASSUME NEW x \in rollup', By(x[2]) = l PROVE x \in exact
    <3>1. x \notin rollup \/ x[1] \in P
      BY <1>8, <2>1 DEF Present
    <3>2. PICK f \in db.facts : x = <<db'.owner[By(f)], f>> /\ ItemOf(f) \notin db.anon
      BY <1>5, <3>1
    <3>3. x[2] = f /\ By(f) = l
      BY <2>1, <3>2
    <3>4. f \in Stored(l)
      BY <3>2, <3>3 DEF Stored, FactsOf
    <3> QED BY <3>2, <3>3, <3>4
  <2>2. ASSUME NEW x \in exact PROVE x \in rollup' /\ By(x[2]) = l
    <3>1. PICK f \in Stored(l) : x = <<db'.owner[l], f>>
      BY <2>2
    <3>2. f \in db.facts /\ By(f) = l /\ ItemOf(f) \notin db.anon
      BY <3>1 DEF Stored, FactsOf
    <3>3. x \in new
      BY <1>4, <1>8, <3>1, <3>2
    <3> QED BY <1>1, <3>1, <3>2, <3>3
  <2> HIDE DEF exact
  <2>3. Credited(l)' = exact
    BY <2>1, <2>2 DEF Credited
  <2> QED BY <1>7, <2>3 DEF Exact, exact
<1>9. ASSUME NEW l \in Logins, db'.owner[l] \notin P PROVE Credited(l)' = Credited(l)
  <2>1. ASSUME NEW x \in rollup', By(x[2]) = l PROVE x \in rollup
    BY <1>5, <1>9, <2>1
  <2>2. ASSUME NEW x \in rollup, By(x[2]) = l PROVE x \in rollup'
    <3>1. x[1] = db.owner[l]
      BY <2>2 DEF Present
    <3>2. x[1] \notin P
      BY <1>9, <3>1
    <3> QED BY <1>1, <3>2
  <2> QED BY <2>1, <2>2 DEF Credited
<1>10. ASSUME NEW l \in Logins, Exact(l), db'.owner[l] = db.owner[l] PROVE Exact(l)'
  <2>1. CASE db'.owner[l] \in P
    BY <1>8, <2>1
  <2>2. CASE db'.owner[l] \notin P
    BY <1>7, <1>9, <1>10, <2>2 DEF Exact
  <2> QED BY <2>1, <2>2
<1> QED BY <1>6, <1>7, <1>8, <1>9, <1>10

(* A new identity has nothing yet.                                          *)
LEMMA SavingKeepsRollups ==
    ASSUME TypeInv, RollupInv, NEW l \in Logins, SavedFor(l), rollup' = rollup, lost' = lost,
           sync.at \in Works, sync'.at \in Works,
           \A m \in Logins \ {l} :
              FactsOf(sync.work, sync.anon, m)' = FactsOf(sync.work, sync.anon, m)
    PROVE  RollupInv'
<1>1. /\ \/ db'.facts = db.facts /\ db'.anon = db.anon
         \/ db'.facts = sync.work /\ db'.anon = sync.anon
      /\ \A k \in Logins : k # l \/ db.owner[k] # 0 => db'.owner[k] = db.owner[k]
      /\ db'.owner[l] # 0
      /\ sync'.held = sync.held \cup {l} /\ sync.affected \subseteq sync'.affected
      /\ l \notin sync.held => db'.owner[l] \in sync'.affected
      /\ sync'.committed = sync.committed \cup Changed /\ sync'.robbed = sync.robbed
  BY DEF SavedFor
<1>2. /\ sync.work \in SUBSET Facts /\ db.facts \in SUBSET Facts
      /\ \A f \in sync.work : ItemOf(f) \in sync.anon \/ db.owner[By(f)] # 0
      /\ \A f \in db.facts : ItemOf(f) \in db.anon \/ db.owner[By(f)] # 0
      /\ rollup \subseteq Nat \X Facts
  BY DEF TypeInv, TypeOK, PhaseInv, Syncs, Integrity
<1>3. Present'
  <2> SUFFICES ASSUME NEW x \in rollup PROVE x[1] = db'.owner[By(x[2])] /\ x[1] # 0
    BY DEF Present
  <2>1. By(x[2]) \in Logins
    BY <1>2, FactsHaveLogins
  <2> QED BY <1>1, <2>1 DEF RollupInv, Present
<1>4. ASSUME NEW m \in Logins, Stored(m)' = Stored(m), Exact(m) PROVE Exact(m)'
  <2>1. CASE db'.owner[m] = db.owner[m]
    BY <1>4, <2>1 DEF Exact, Credited
  <2>2. CASE db'.owner[m] # db.owner[m]
    <3>1. db.owner[m] = 0
      BY <1>1, <2>2
    <3>2. Stored(m) = {}
      BY <1>2, <3>1 DEF Stored, FactsOf
    <3> QED BY <1>4, <3>2 DEF Exact, Credited
  <2> QED BY <2>1, <2>2
<1>5. ASSUME NEW m \in Logins \ lost' PROVE Exact(m)' \/ m \in sync'.committed
  <2>1. Exact(m) \/ m \in sync.committed
    BY <1>5 DEF RollupInv
  <2>2. Stored(m)' = Stored(m) \/ m \in Changed
    BY DEF Changed
  <2> QED BY <1>1, <1>4, <2>1, <2>2
<1>6. ASSUME NEW m \in sync'.held
      PROVE  db'.owner[m] # 0 /\ (db'.owner[m] \in sync'.affected \/ m \in sync'.robbed)
  <2>1. CASE m \in sync.held
    <3>1. m \in Logins
      BY <2>1 DEF TypeInv, TypeOK, Syncs
    <3>2. db.owner[m] # 0 /\ (db.owner[m] \in sync.affected \/ m \in sync.robbed)
      BY <2>1 DEF RollupInv
    <3> QED BY <1>1, <3>1, <3>2
  <2>2. CASE m \notin sync.held
    BY <1>1, <1>6, <2>2
  <2> QED BY <2>1, <2>2
<1>7. ASSUME NEW m \in Logins \ (sync'.held \cup sync'.robbed)
      PROVE  m \notin sync'.committed /\ FactsOf(sync.work, sync.anon, m)' = Stored(m)'
  <2>1. m \in Logins \ (sync.held \cup sync.robbed) /\ m # l
    BY <1>1, <1>7
  <2>2. m \notin sync.committed /\ FactsOf(sync.work, sync.anon, m) = Stored(m)
    BY <2>1 DEF RollupInv
  <2>3. Stored(m)' = Stored(m)
    BY <1>1, <2>2 DEF Stored, FactsOf
  <2>4. FactsOf(sync.work, sync.anon, m)' = FactsOf(sync.work, sync.anon, m)
    BY <2>1
  <2> QED BY <1>1, <2>2, <2>3, <2>4 DEF Changed
<1> QED BY <1>3, <1>5, <1>6, <1>7 DEF RollupInv, Works, Lists

(* What is stored without an author concerns nobody, or who is robbed.      *)
LEMMA UnnamedKeepsRollups ==
    ASSUME RollupInv, Unnamed, rollup' = rollup, lost' = lost,
           sync.at \in Works, sync'.at \in Works, sync.robbed \subseteq sync'.robbed,
           \A m \in Logins \ sync'.robbed :
              FactsOf(sync.work, sync.anon, m)' = FactsOf(sync.work, sync.anon, m)
    PROVE  RollupInv'
<1>1. /\ db' = db /\ sync'.held = sync.held /\ sync'.affected = sync.affected
      /\ sync'.committed = sync.committed
  BY DEF Unnamed
<1>2. Present' /\ \A m \in Logins \ lost' : Exact(m)' \/ m \in sync'.committed
  BY <1>1 DEF RollupInv, Present, Exact, Credited, Stored, FactsOf
<1>3. ASSUME NEW m \in Logins \ (sync'.held \cup sync'.robbed)
      PROVE  m \notin sync'.committed /\ FactsOf(sync.work, sync.anon, m)' = Stored(m)'
  <2>1. m \in Logins \ (sync.held \cup sync.robbed) /\ m \in Logins \ sync'.robbed
    BY <1>1, <1>3
  <2>2. FactsOf(sync.work, sync.anon, m)' = FactsOf(sync.work, sync.anon, m)
    BY <2>1
  <2>3. Stored(m)' = Stored(m)
    BY <1>1 DEF Stored
  <2> QED BY <1>1, <2>1, <2>2, <2>3 DEF RollupInv
<1>4. \A m \in sync'.held :
         db'.owner[m] # 0 /\ (db'.owner[m] \in sync'.affected \/ m \in sync'.robbed)
  BY <1>1 DEF RollupInv
<1> QED BY <1>2, <1>3, <1>4 DEF RollupInv, Works, Lists

LEMMA RollupInit == Init => RollupInv
BY RestingTypes
   DEF Init, RollupInv, Present, Exact, Credited, Stored, FactsOf, Works, Lists

LEMMA RollupInductive == ASSUME TypeInv, RollupInv, [Next]_vars PROVE RollupInv'
<1>0. TypeOK /\ GitHubInv /\ PhaseInv
  BY DEF TypeInv
(* Where neither the database nor the rollups nor what the session and the  *)
(* summary have of them changes.                                            *)
<1>1. ASSUME UNCHANGED <<db, rollup, lost>>, SummarySame,
             sync'.at \in Works => sync.at \in Works /\ WorkSame,
             sync'.at = "recompute" => sync.at = "recompute",
             sync'.at \in {"idle"} \cup Lists => sync.at \in {"idle"} \cup Lists
      PROVE  RollupInv'
  <2>1. Present' /\ \A l \in Logins \ lost' : Exact(l)' \/ l \in sync'.committed
    BY <1>1 DEF RollupInv, Present, Exact, Credited, Stored, FactsOf, SummarySame
  <2>2. sync'.at \in Works =>
         /\ \A l \in sync'.held :
               db'.owner[l] # 0 /\ (db'.owner[l] \in sync'.affected \/ l \in sync'.robbed)
         /\ \A l \in Logins \ (sync'.held \cup sync'.robbed) :
               l \notin sync'.committed /\ FactsOf(sync.work, sync.anon, l)' = Stored(l)'
    BY <1>1 DEF RollupInv, Stored, FactsOf, SummarySame, WorkSame
  <2>3. sync'.at = "recompute" =>
          \A l \in sync'.committed :
             Exact(l)' \/ db'.owner[l] \in sync'.affected \/ l \in sync'.robbed
    BY <1>1 DEF RollupInv, Exact, Credited, Stored, FactsOf, SummarySame
  <2> QED BY <1>1, <2>1, <2>2, <2>3 DEF RollupInv, SummarySame
<1>2. ASSUME Ended, UNCHANGED <<db, rollup, lost>>, SummarySame PROVE RollupInv'
  <2>1. /\ sync'.at = "pull" /\ sync'.work = db.facts /\ sync'.anon = db.anon
        /\ sync.committed = {} /\ sync.held = {}
    BY <1>2 DEF Ended, RollupInv
  <2>2. Present' /\ \A l \in Logins \ lost' : Exact(l)' \/ l \in sync'.committed
    BY <1>2 DEF RollupInv, Present, Exact, Credited, Stored, FactsOf, SummarySame
  <2>3. \A l \in Logins : FactsOf(sync.work, sync.anon, l)' = Stored(l)'
    BY <1>2, <2>1 DEF Stored, FactsOf
  <2> QED BY <1>2, <2>1, <2>2, <2>3 DEF RollupInv, SummarySame, Works, Lists
<1>3. ASSUME NEW info \in sync.got, StoredPull(info) PROVE RollupInv'
  <2> DEFINE n == info.number
             l == AuthorOf[n]
  <2>1. n \in Pulls /\ info.state \in States /\ l \in Logins /\ sync.work \in SUBSET Facts
    BY <1>0, FactsHaveLogins DEF TypeOK, Syncs, Infos, Items
  <2>2. /\ sync.at \in Works /\ sync'.at \in Works /\ rollup' = rollup /\ lost' = lost
        /\ sync'.work = (sync.work \ {<<n, k>> : k \in States}) \cup {<<n, info.state>>}
    BY <1>3 DEF StoredPull, Storing, Works, PullRow
  <2>3. \A k \in States : By(<<n, k>>) = l /\ ItemOf(<<n, k>>) = n
    BY <2>1, FactsHaveLogins
  <2>4. CASE SavedFor(l) /\ sync'.anon = sync.anon \ {n}
    <3>1. ASSUME NEW m \in Logins \ {l}
          PROVE  FactsOf(sync.work, sync.anon, m)' = FactsOf(sync.work, sync.anon, m)
      <4>1. \A f \in Facts : By(f) = m => ItemOf(f) # n
        BY <3>1 DEF By
      <4> QED BY <2>1, <2>2, <2>3, <2>4, <3>1, <4>1 DEF FactsOf
    <3> QED BY <2>1, <2>2, <2>4, <3>1, SavingKeepsRollups
  <2>5. CASE /\ Unnamed /\ sync'.anon = sync.anon \cup {n}
             /\ sync'.robbed = sync.robbed \cup Uncredited(n)
    <3>1. ASSUME NEW m \in Logins \ sync'.robbed
          PROVE  FactsOf(sync.work, sync.anon, m)' = FactsOf(sync.work, sync.anon, m)
      <4>1. CASE m # l
        <5>1. \A f \in Facts : By(f) = m => ItemOf(f) # n
          BY <4>1 DEF By
        <5> QED BY <2>1, <2>2, <2>3, <2>5, <4>1, <5>1 DEF FactsOf
      <4>2. CASE m = l
        <5>1. n \in sync.anon \/ \A k \in States : <<n, k>> \notin sync.work
          BY <2>5, <3>1, <4>2 DEF Uncredited
        <5>2. ASSUME NEW f \in sync.work, ItemOf(f) = n, n \notin sync.anon PROVE FALSE
          <6>1. f \notin Reviews
            BY <2>1, <5>2, FactsHaveLogins, PullsAssumption
          <6>2. PICK p \in Pulls, k \in States : f = <<p, k>>
            BY <2>1, <6>1 DEF Facts, PullFacts
          <6>3. p = n
            BY <5>2, <6>2, FactsHaveLogins
          <6> QED BY <5>1, <5>2, <6>2, <6>3
        <5>3. \A f \in sync.work \ {<<n, k>> : k \in States} :
                 ItemOf(f) \notin sync.anon <=> ItemOf(f) \notin sync'.anon
          BY <2>5, <5>2
        <5>4. ASSUME NEW f, f \in FactsOf(sync.work, sync.anon, m)'
              PROVE  f \in FactsOf(sync.work, sync.anon, m)
          <6>1. f \in sync'.work /\ By(f) = m /\ ItemOf(f) \notin sync'.anon
            BY <5>4 DEF FactsOf
          <6>2. f # <<n, info.state>>
            BY <2>1, <2>3, <2>5, <6>1
          <6> QED BY <2>2, <2>5, <6>1, <6>2 DEF FactsOf
        <5>5. ASSUME NEW f, f \in FactsOf(sync.work, sync.anon, m)
              PROVE  f \in FactsOf(sync.work, sync.anon, m)'
          <6>1. f \in sync.work /\ By(f) = m /\ ItemOf(f) \notin sync.anon
            BY <5>5 DEF FactsOf
          <6>2. ItemOf(f) # n
            BY <5>2, <6>1
          <6> QED BY <2>2, <2>3, <2>5, <6>1, <6>2 DEF FactsOf
        <5> QED BY <5>4, <5>5
      <4> QED BY <4>1, <4>2
    <3>2. sync.robbed \subseteq sync'.robbed
      BY <2>5
    <3> QED BY <2>2, <2>5, <3>1, <3>2, UnnamedKeepsRollups
  <2> QED BY <1>3, <2>4, <2>5 DEF StoredPull
<1>4. ASSUME NEW r \in sync.todo, StoredReview(r) PROVE RollupInv'
  <2>1. /\ r \in Reviews /\ ItemOf(r) = r /\ By(r) = AuthorOf[r] /\ AuthorOf[r] \in Logins
        /\ r \notin sync.work
    BY <1>0, FactsHaveLogins DEF TypeOK, Syncs, PhaseInv, Items
  <2>2. /\ sync.at \in Works /\ sync'.at \in Works /\ rollup' = rollup /\ lost' = lost
        /\ sync'.work = sync.work \cup {r} /\ sync.work \in SUBSET Facts
    BY <1>0, <1>4 DEF StoredReview, Storing, Works, TypeOK, Syncs
  <2>3. CASE SavedFor(AuthorOf[r]) /\ sync'.anon = sync.anon
    <3>1. \A m \in Logins \ {AuthorOf[r]} :
             FactsOf(sync.work, sync.anon, m)' = FactsOf(sync.work, sync.anon, m)
      BY <2>1, <2>2, <2>3 DEF FactsOf
    <3> QED BY <2>1, <2>2, <2>3, <3>1, SavingKeepsRollups
  <2>4. CASE Unnamed /\ sync'.anon = sync.anon \cup {r} /\ sync'.robbed = sync.robbed
    <3>1. \A f \in sync.work : ItemOf(f) # r
      <4> SUFFICES ASSUME NEW f \in sync.work, ItemOf(f) = r PROVE FALSE
        OBVIOUS
      <4>1. CASE f \in Reviews
        BY <2>1, <4>1, FactsHaveLogins
      <4>2. CASE f \in PullFacts
        <5>1. PICK p \in Pulls, k \in States : f = <<p, k>>
          BY <4>2 DEF PullFacts
        <5>2. r \in Pulls
          BY <5>1, FactsHaveLogins
        <5> QED BY <2>1, <5>2, PullsAssumption
      <4> QED BY <2>2, <4>1, <4>2 DEF Facts
    <3>2. \A m \in Logins :
             FactsOf(sync.work, sync.anon, m)' = FactsOf(sync.work, sync.anon, m)
      BY <2>1, <2>2, <2>4, <3>1 DEF FactsOf
    <3> QED BY <2>2, <2>4, <3>2, UnnamedKeepsRollups
  <2> QED BY <1>4, <2>3, <2>4 DEF StoredReview
<1>5. CASE CommitPulls
  <2>1. CommittedPulls
    BY <1>0, <1>5, PullsCommitted
  <2>2. /\ db'.facts = sync.work /\ db'.anon = sync.anon /\ db'.owner = db.owner
        /\ sync.at \in Works /\ sync'.at = "recompute" /\ rollup' = rollup /\ lost' = lost
        /\ sync'.affected = sync.affected /\ sync'.robbed = sync.robbed
        /\ sync'.committed = sync.committed \cup Changed
    BY <2>1 DEF CommittedPulls, Works
  <2>3. Present' /\ \A l \in Logins : Credited(l)' = Credited(l)
    BY <2>2 DEF RollupInv, Present, Credited
  <2>4. ASSUME NEW l \in Logins \ lost' PROVE Exact(l)' \/ l \in sync'.committed
    <3>1. Exact(l) \/ l \in sync.committed
      BY <2>2, <2>4 DEF RollupInv
    <3>2. l \in Changed \/ Stored(l)' = Stored(l)
      BY DEF Changed
    <3> QED BY <2>2, <2>3, <3>1, <3>2 DEF Exact
  <2>5. ASSUME NEW l \in sync'.committed
        PROVE  Exact(l)' \/ db'.owner[l] \in sync'.affected \/ l \in sync'.robbed
    <3>1. l \in Logins
      BY <1>0, <2>2, <2>5 DEF TypeOK, Syncs, Changed
    <3>2. CASE l \in sync.held \cup sync.robbed
      BY <2>2, <3>2 DEF RollupInv
    <3>3. CASE l \notin sync.held \cup sync.robbed
      <4>1. l \notin sync.committed /\ FactsOf(sync.work, sync.anon, l) = Stored(l)
        BY <2>2, <3>1, <3>3 DEF RollupInv
      <4>2. Stored(l)' = Stored(l)
        BY <2>2, <4>1 DEF Stored, FactsOf
      <4> QED BY <2>2, <2>5, <4>1, <4>2 DEF Changed
    <3> QED BY <3>2, <3>3
  <2> QED BY <2>2, <2>3, <2>4, <2>5 DEF RollupInv, Works, Lists
<1>6. CASE BeginListing \/ FallBackToRest
  <2>1. /\ Emptied("graphql", db.synced) \/ Emptied("rest", db.synced)
        /\ UNCHANGED <<rollup, lost>> /\ sync.at \in {"idle"} \cup Lists
    BY <1>0, <1>6, ListingBegins
  <2>2. /\ UNCHANGED <<db, rollup, lost>> /\ sync'.at \in Lists
        /\ sync'.committed = {} /\ sync'.held = {} /\ sync.committed = {}
    BY <2>1 DEF Emptied, RollupInv, Lists
  <2>3. Present' /\ \A l \in Logins \ lost' : Exact(l)' \/ l \in sync'.committed
    BY <2>2 DEF RollupInv, Present, Exact, Credited, Stored, FactsOf
  <2> QED BY <2>2, <2>3 DEF RollupInv, Works, Lists
<1>7. CASE Recompute
  <2>1. Emptied("idle", 0)
    BY <1>0, <1>7, SyncEnds
  <2>2. /\ sync.at = "recompute" /\ rollup' = Rebuilt(db, sync.affected) /\ db' = db
        /\ lost' = {l \in lost \cup sync.robbed : db.owner[l] \notin sync.affected}
    BY <1>7 DEF Recompute
  <2>3. /\ Present'
        /\ \A l \in Logins : db'.owner[l] \in sync.affected => Exact(l)'
        /\ \A l \in Logins : Exact(l) /\ db'.owner[l] = db.owner[l] => Exact(l)'
    <3>1. db' \in Databases /\ Present
      BY <1>0, <2>2 DEF TypeOK, Databases, RollupInv
    <3> QED BY <1>0, <2>2, <3>1, RebuildsExactly
  <2>4. ASSUME NEW l \in Logins \ lost' PROVE Exact(l)'
    <3>1. CASE db.owner[l] \in sync.affected
      BY <2>2, <2>3, <3>1
    <3>2. CASE db.owner[l] \notin sync.affected
      <4>1. l \notin lost /\ l \notin sync.robbed
        BY <2>2, <2>4, <3>2
      <4>2. Exact(l)
        BY <2>2, <2>4, <3>2, <4>1 DEF RollupInv
      <4> QED BY <2>2, <2>3, <4>2
    <3> QED BY <3>1, <3>2
  <2> QED BY <2>1, <2>3, <2>4 DEF Emptied, RollupInv, Works, Lists
<1>8. CASE SyncFails
  <2>1. /\ Emptied("idle", 0) /\ lost' = lost \cup sync.committed
        /\ rollup' = rollup /\ db' = db
    BY <1>0, <1>8, SyncEnds DEF SyncFails
  <2>2. Present' /\ \A l \in Logins \ lost' : Exact(l)'
    BY <2>1 DEF RollupInv, Present, Exact, Credited, Stored, FactsOf
  <2> QED BY <2>1, <2>2 DEF Emptied, RollupInv, Works, Lists
<1>9. ASSUME NEW S, NEW b, Rehomed(S, b) PROVE RollupInv'
  <2>1. /\ db' \in Databases /\ db'.facts = db.facts /\ db'.anon = db.anon
        /\ rollup' = Rebuilt(db', Both(S, b)) /\ b # 0 /\ b \in Both(S, b)
        /\ \A l \in Logins : db'.owner[l] = IF l \in S THEN b ELSE db.owner[l]
        /\ lost' = {l \in lost : db'.owner[l] \notin Both(S, b)}
        /\ sync'.at = sync.at /\ WorkSame /\ sync'.held = sync.held
        /\ sync'.affected = sync.affected /\ sync'.committed = sync.committed
        /\ sync.robbed \subseteq sync'.robbed
        /\ \A l \in S : db.owner[l] \in Both(S, b)
        /\ sync.at \in Works => \A l \in S \cap sync.held : db.owner[l] = b \/ l \in sync'.robbed
    BY <1>9 DEF Rehomed, Both
  <2>2. /\ Present'
        /\ \A l \in Logins : db'.owner[l] \in Both(S, b) => Exact(l)'
        /\ \A l \in Logins : Stored(l)' = Stored(l)
        /\ \A l \in Logins : Exact(l) /\ db'.owner[l] = db.owner[l] => Exact(l)'
    <3> DEFINE P == Both(S, b)
    <3>1. \A l \in Logins : \/ db'.owner[l] = db.owner[l]
                            \/ db.owner[l] \in P /\ db'.owner[l] \in P /\ db'.owner[l] # 0
      BY <2>1
    <3> HIDE DEF P
    <3> QED BY <1>0, <2>1, <3>1, RebuildsExactly DEF P, RollupInv
  <2>3. \A l \in Logins : db'.owner[l] = db.owner[l] \/ Exact(l)'
    BY <2>1, <2>2
  <2>4. \A l \in Logins \ lost' : Exact(l)' \/ l \in sync'.committed
    BY <2>1, <2>2, <2>3 DEF RollupInv
  <2>5. sync'.at \in Works =>
         \A l \in sync'.held :
            db'.owner[l] # 0 /\ (db'.owner[l] \in sync'.affected \/ l \in sync'.robbed)
    <3> SUFFICES ASSUME sync.at \in Works, NEW l \in sync.held
                 PROVE  db'.owner[l] # 0 /\ (db'.owner[l] \in sync.affected \/ l \in sync'.robbed)
      BY <2>1
    <3>1. l \in Logins
      BY <1>0 DEF TypeOK, Syncs
    <3>2. db.owner[l] # 0 /\ (db.owner[l] \in sync.affected \/ l \in sync.robbed)
      BY DEF RollupInv
    <3> QED BY <2>1, <3>1, <3>2
  <2>6. sync'.at \in Works =>
         \A l \in Logins \ (sync'.held \cup sync'.robbed) :
            l \notin sync'.committed /\ FactsOf(sync.work, sync.anon, l)' = Stored(l)'
    BY <2>1, <2>2 DEF RollupInv, WorkSame, FactsOf
  <2>7. sync'.at = "recompute" =>
          \A l \in sync'.committed :
             Exact(l)' \/ db'.owner[l] \in sync'.affected \/ l \in sync'.robbed
    <3> SUFFICES ASSUME sync.at = "recompute", NEW l \in sync.committed
                 PROVE  Exact(l)' \/ db'.owner[l] \in sync.affected \/ l \in sync'.robbed
      BY <2>1
    <3>1. l \in Logins
      BY <1>0 DEF TypeOK, Syncs
    <3>2. Exact(l) \/ db.owner[l] \in sync.affected \/ l \in sync.robbed
      BY DEF RollupInv
    <3> QED BY <2>1, <2>2, <2>3, <3>1, <3>2
  <2>8. sync'.at \in {"idle"} \cup Lists => sync'.committed = {} /\ sync'.held = {}
    BY <2>1 DEF RollupInv
  <2> QED BY <2>2, <2>4, <2>5, <2>6, <2>7, <2>8 DEF RollupInv
<1>10. CASE Tick \/ (\E l \in Logins : CloseAccount(l)) \/ UNCHANGED vars
  <2>1. UNCHANGED <<db, rollup, lost, sync>>
    BY <1>10 DEF Tick, CloseAccount, vars
  <2> QED BY <1>1, <2>1 DEF SummarySame, WorkSame
<1>11. CASE Next
  <2>1. ASSUME NEW page, NEW new, PageRead(page, new), sync'.at \in Lists \/ Ended
        PROVE  RollupInv'
    <3>1. UNCHANGED <<db, rollup, lost>> /\ SummarySame /\ sync.at \in Lists
      BY <2>1 DEF PageRead, Lists
    <3> QED BY <1>1, <1>2, <2>1, <3>1 DEF Lists, Works
  <2>2. CASE GraphqlPage
    BY <1>0, <2>1, <2>2, GraphqlReads DEF Lists
  <2>3. CASE RestBatch
    BY <1>0, <2>1, <2>3, RestReads DEF Lists
  <2>4. CASE RestReviewsAnswered \/ RestReviewsFail
    <3>1. PICK i \in sync.batch : \E revs : DetailRead(i, revs)
      BY <1>0, <2>4, DetailReads
    <3>2. /\ UNCHANGED <<db, rollup, lost>> /\ SummarySame
          /\ sync.at \in Lists /\ sync'.at = sync.at
      BY <3>1 DEF DetailRead, Lists
    <3> QED BY <1>1, <3>2 DEF Lists, Works
  <2>5. CASE RestPageDone \/ GraphqlBreaksOff
    <3>1. /\ UNCHANGED <<db, rollup, lost>> /\ SummarySame /\ sync.at \in Lists
          /\ sync'.at = "rest" \/ Ended
      BY <1>0, <2>5, PagesEnd
    <3> QED BY <1>1, <1>2, <3>1 DEF Lists, Works
  <2>6. CASE UpsertPull
    BY <1>0, <1>3, <2>6, PullStored DEF PhaseInv
  <2>7. CASE UpsertReview
    BY <1>0, <1>4, <2>7, ReviewStored DEF PhaseInv
  <2>8. CASE NextPull
    <3>1. /\ UNCHANGED <<db, rollup, lost>> /\ SummarySame /\ WorkSame
          /\ sync.at = "reviews" /\ sync'.at = "pull"
      BY <1>0, <2>8, PhaseSteps
    <3> QED BY <1>1, <3>1 DEF Lists, Works
  <2>9. ASSUME NEW p \in Pulls, Update(p) PROVE RollupInv'
    <3>1. UNCHANGED <<db, rollup, lost>> /\ sync'.at = sync.at /\ SummarySame /\ WorkSame
      BY <1>0, <2>9, UpdateKeeps
    <3> QED BY <1>1, <3>1
  <2>10. ASSUME NEW p \in Pulls, OpenPull(p) \/ MergePull(p) PROVE RollupInv'
    BY <1>0, <2>9, <2>10, ChangesUpdate
  <2>11. ASSUME NEW r \in Reviews, SubmitReview(r) PROVE RollupInv'
    BY <1>0, <2>9, <2>11, ReviewUpdates
  <2>12. CASE MergePersons \/ UnmergeIdentity
    BY <1>0, <1>9, <2>12, PersonsMove
  <2> QED BY <1>5, <1>6, <1>7, <1>8, <1>10, <1>11, <2>2, <2>3, <2>4, <2>5, <2>6, <2>7,
             <2>8, <2>10, <2>11, <2>12 DEF Next
<1> QED BY <1>10, <1>11

(* At rest an identity's present person, and nobody else, is credited with  *)
(* exactly what is stored as the identity's, for every interleaving of      *)
(* syncs with merges and splits, but for the logins robbed of a recompute:  *)
(* by a sync that failed after a half-way commit, by a merge or split after *)
(* the person's id was noted, or by a row that has lost its author.         *)
THEOREM RollupsHold == Spec => []RollupsFollow
<1>1. RollupInv => RollupsFollow
  BY DEF RollupInv, RollupsFollow, Exact
<1> QED BY <1>1, TypeInit, TypeInductive, RollupInit, RollupInductive, PTL DEF Spec

----------------------------------------------------------------------------
(* The watermark.  What a sync has of a pull request agrees with GitHub, if *)
(* perhaps its reviews are still to be read ...                             *)

Current(i, p) ==
    /\ i.number = p /\ i.state = gh[p].state /\ i.at = gh[p].at
    /\ i \in sync.batch \/ ReviewsOf(p) \ unread \subseteq i.reviews
Kept(p, facts) ==
    /\ <<p, gh[p].state>> \in facts
    /\ ReviewsOf(p) \ unread \subseteq facts
Tracked == {p \in Existing \ missed : ~gh[p].tied}

(* ... and waits to be stored, with nothing older after it ...              *)
Awaited(p) == \E i \in sync.got :
    /\ Current(i, p)
    /\ \A j \in sync.got : j.number = p /\ i.page <= j.page => Current(j, p)
(* ... or is in the session already ...                                     *)
Done(p) ==
    /\ Kept(p, sync.work \cup sync.todo)
    /\ \A j \in sync.got : j.number = p => Current(j, p)
(* ... or has been updated since, after everything that was listed.         *)
Ahead(p) == \A i \in sync.got : i.at < gh[p].at

(* Of what the watermark has passed, everything is committed.               *)
Base == \A p \in Tracked : gh[p].at <= db.synced => Kept(p, db.facts)

(* By GraphQL, what is not listed yet lies behind the cursor.               *)
Graphql == sync.at = "graphql" =>
    /\ sync.before = Start \/ \E i \in sync.got : i.at = sync.before[1]
    /\ \A i \in sync.got : i.page < sync.page
    /\ \A p \in Tracked : gh[p].at > sync.since =>
          \/ Awaited(p)
          \/ Newer(sync.before, Place(p))
          \/ Ahead(p) /\ gh[p].at > sync.before[1]

(* By REST, it is on a later page, unless as many pull requests have moved  *)
(* to the front as a page holds ...                                         *)
Rest == sync.at \in {"rest", "details"} =>
    /\ Cardinality(sync.moved) < RestPage
    /\ \A i \in sync.got : i.page < sync.page
    /\ sync.page > 0 =>
          \A q \in Existing \ sync.moved : \E i \in sync.got : gh[q].at <= i.at
    /\ \A p \in Tracked : gh[p].at > sync.since =>
          \/ Awaited(p)
          \/ sync.page * RestPage <= Rank(Existing, p)
          \/ /\ Ahead(p) /\ sync.page > 0
             /\ {q \in Pulls : gh[q].at >= gh[p].at} \subseteq sync.moved

(* ... and with the last page, on none.                                     *)
Last == sync.at = "last" =>
    \A p \in Tracked : gh[p].at > sync.since => Awaited(p) \/ Ahead(p)

Work == sync.at \in Works =>
    \A p \in Tracked : Awaited(p) \/ Done(p) \/ (Ahead(p) /\ gh[p].at > sync.since)

WaterInv == crowded \/ (Base /\ Graphql /\ Rest /\ Last /\ Work)

(* Naturals everywhere.                                                     *)
LEMMA Numbers ==
    ASSUME TypeInv
    PROVE  /\ clock \in Nat /\ clock > 0 /\ db.synced \in Nat /\ sync.since \in Nat
           /\ sync.page \in Nat /\ sync.before \in Nat \X Nat
           /\ sync.before[1] \in Nat /\ sync.before[2] \in Nat
           /\ \A p \in Pulls : p \in Nat /\ gh[p].at \in Nat /\ gh[p].at <= clock
           /\ \A p \in Existing : p \in Pulls /\ gh[p].at > 0
           /\ sync.got \in SUBSET Infos /\ sync.todo \in SUBSET Reviews
           /\ sync.moved \in SUBSET Pulls /\ sync.work \in SUBSET Facts
           /\ \A i \in sync.got : /\ i.at \in Nat /\ i.number \in Pulls /\ i.page \in Nat
                                  /\ db.synced < i.at /\ i.at <= gh[i.number].at
                                  /\ i.at <= clock /\ i.reviews \in SUBSET Reviews
           /\ db.synced <= clock /\ sync.since <= clock
<1>1. TypeOK /\ GitHubInv /\ GotInv /\ PhaseInv
  BY DEF TypeInv
<1>2. /\ clock \in Nat /\ clock > 0 /\ db.synced \in Nat /\ db.synced <= clock
      /\ \A p \in Pulls : p \in Nat /\ gh[p].at \in Nat
  BY <1>1, PrSyncBounds, PullsAssumption DEF TypeOK
<1>3. \A p \in Pulls : gh[p].at <= clock /\ (gh[p].state # "none" => gh[p].at > 0)
  BY <1>1, <1>2 DEF GitHubInv
<1>4. sync \in Syncs
  BY <1>1 DEF TypeOK
<1>5. /\ sync.since \in Nat /\ sync.page \in Nat /\ sync.before \in Nat \X Nat
      /\ sync.before[1] \in Nat /\ sync.before[2] \in Nat
      /\ sync.got \in SUBSET Infos /\ sync.todo \in SUBSET Reviews
      /\ sync.moved \in SUBSET Pulls /\ sync.work \in SUBSET Facts
  BY <1>4, PrSyncBounds DEF Syncs
<1>6. ASSUME NEW i \in sync.got
      PROVE  /\ i.at \in Nat /\ i.number \in Pulls /\ i.page \in Nat
             /\ db.synced < i.at /\ i.at <= gh[i.number].at
             /\ i.at <= clock /\ i.reviews \in SUBSET Reviews
  <2>1. i \in Infos
    BY <1>5
  <2>2. /\ i.at \in Nat /\ i.number \in Pulls /\ i.page \in Nat /\ i.reviews \in SUBSET Reviews
    BY <2>1, PrSyncBounds DEF Infos
  <2>3. /\ db.synced < i.at /\ i.at <= gh[i.number].at /\ gh[i.number].at <= clock
        /\ gh[i.number].at \in Nat
    BY <1>1, <1>2, <1>3, <2>2 DEF GotInv
  <2> QED BY <1>2, <2>2, <2>3
<1>7. sync.since <= clock
  BY <1>1 DEF PhaseInv
<1> QED BY <1>2, <1>3, <1>5, <1>6, <1>7 DEF Existing

LEMMA WaterInit == Init => WaterInv
BY DEF Init, WaterInv, Base, Graphql, Rest, Last, Work, Works, Tracked, Existing, NoPull, Resting

(* Once the listing is over, of what is not newer than the watermark the    *)
(* session has everything.                                                  *)
LEMMA EndedDone ==
    ASSUME TypeInv, Base, Ended, UNCHANGED <<gh, ghRevs, db, unread>>, sync'.todo = {},
           GotInv', sync'.got \in SUBSET Infos,
           NEW p \in Tracked, gh[p].at <= sync.since
    PROVE  Done(p)'
<1>1. /\ sync.since = db.synced /\ p \in Pulls /\ sync'.work = db.facts
      /\ gh' = gh /\ ghRevs' = ghRevs /\ unread' = unread
  BY DEF TypeInv, PhaseInv, Tracked, Existing, Ended
<1>2. Kept(p, db.facts)
  BY <1>1 DEF Base
<1>3. Kept(p, sync.work \cup sync.todo)'
  BY <1>1, <1>2 DEF Kept, ReviewsOf
<1>4. ASSUME NEW j \in sync'.got, j.number = p PROVE FALSE
  <2>1. db'.synced < j.at /\ j.at <= gh'[p].at
    BY <1>4 DEF GotInv
  <2>2. j.at \in Nat /\ db.synced \in Nat /\ gh[p].at \in Nat
    <3>1. j.at \in Nat
      BY <1>4, PrSyncBounds DEF Infos
    <3> QED BY <1>1, <3>1, Numbers
  <2> QED BY <1>1, <2>1, <2>2
<1> QED BY <1>3, <1>4 DEF Done

(* A page: what it has of a pull request agrees with GitHub and is the last *)
(* that was listed of it; of any other, nothing has changed.                *)
LEMMA PageKeeps ==
    ASSUME TypeInv, TypeInv', NEW page, NEW new, PageRead(page, new),
           \A i \in sync.got : i.page < sync.page
    PROVE  /\ \A p \in Taken(page) : Awaited(p)'
           /\ \A p \in Pulls : Awaited(p) => Awaited(p)'
           /\ \A p \in Pulls :
                 Ahead(p) /\ (\A q \in page : gh[q].at < gh[p].at) => Ahead(p)'
           /\ Base => Base'
           /\ \A p \in Tracked : Base /\ Ended /\ gh[p].at <= sync.since => Done(p)'
           /\ Tracked' = Tracked /\ Existing' = Existing
           /\ \A i \in sync'.got : i.page <= sync.page
           /\ \A p \in Taken(page) : \E i \in sync'.got : i.at = gh[p].at
<1>1. /\ page \in SUBSET Existing /\ sync.at \in Lists /\ sync.batch = {}
      /\ gh' = gh /\ ghRevs' = ghRevs /\ db' = db /\ unread' = unread /\ missed' = missed
      /\ sync'.got = sync.got \cup new
  BY DEF PageRead, Lists, TypeInv, PhaseInv
<1>2. ASSUME NEW i \in new
      PROVE  /\ i.number \in Taken(page) /\ i.page = sync.page
             /\ i.at = gh[i.number].at /\ i.state = gh[i.number].state
             /\ i \in sync'.batch \/ i.reviews = ReviewsOf(i.number)
  BY DEF PageRead
<1>3. ASSUME NEW p \in Taken(page)
      PROVE  \E i \in new : i.number = p
  BY DEF PageRead
<1>4. \A p \in Pulls : ReviewsOf(p)' = ReviewsOf(p)
  BY <1>1 DEF ReviewsOf
<1>5. \A i, p : p \in Pulls /\ Current(i, p) => Current(i, p)'
  BY <1>1, <1>4 DEF Current
<1>6. ASSUME NEW i \in new, NEW p \in Pulls, i.number = p
      PROVE  Current(i, p)'
  BY <1>1, <1>2, <1>4, <1>6 DEF Current
<1>7. ASSUME NEW p \in Taken(page) PROVE Awaited(p)'
  <2>1. PICK i \in new : i.number = p
    BY <1>3, <1>7
  <2>p. p \in Pulls
    BY <1>1 DEF Taken, Existing
  <2>2. ASSUME NEW j \in sync'.got, j.number = p, i.page <= j.page PROVE Current(j, p)'
    <3>1. i.page = sync.page /\ sync.page \in Nat
      BY <1>2, <2>1, Numbers
    <3>2. CASE j \in sync.got
      <4>1. j.page < sync.page /\ j.page \in Nat
        BY <3>2, Numbers
      <4> QED BY <2>2, <3>1, <4>1
    <3>3. CASE j \in new
      BY <1>6, <2>2, <2>p, <3>3
    <3> QED BY <1>1, <3>2, <3>3
  <2>3. i \in sync'.got /\ Current(i, p)'
    BY <1>1, <1>6, <2>1, <2>p
  <2> QED BY <2>2, <2>3 DEF Awaited
<1>8. ASSUME NEW p \in Pulls, Awaited(p) PROVE Awaited(p)'
  <2>1. CASE p \in Taken(page)
    BY <1>7, <2>1
  <2>2. CASE p \notin Taken(page)
    <3>1. PICK i \in sync.got :
             /\ Current(i, p)
             /\ \A j \in sync.got : j.number = p /\ i.page <= j.page => Current(j, p)
      BY <1>8 DEF Awaited
    <3>2. ASSUME NEW j \in sync'.got, j.number = p, i.page <= j.page PROVE Current(j, p)'
      <4>1. j \in sync.got
        BY <1>1, <1>2, <2>2, <3>2
      <4> QED BY <1>5, <3>1, <3>2, <4>1
    <3>3. i \in sync'.got /\ Current(i, p)'
      BY <1>1, <1>5, <3>1
    <3> QED BY <3>2, <3>3 DEF Awaited
  <2> QED BY <2>1, <2>2
<1>9. ASSUME NEW p \in Pulls, Ahead(p), \A q \in page : gh[q].at < gh[p].at PROVE Ahead(p)'
  <2> SUFFICES ASSUME NEW i \in sync'.got PROVE i.at < gh[p].at
    BY <1>1 DEF Ahead
  <2>1. CASE i \in sync.got
    BY <1>9, <2>1 DEF Ahead
  <2>2. CASE i \in new
    BY <1>2, <1>9, <2>2 DEF Taken
  <2> QED BY <1>1, <2>1, <2>2
<1>10. Tracked' = Tracked /\ Existing' = Existing
  BY <1>1 DEF Tracked, Existing
<1>11. Base => Base'
  <2>1. \A p \in Tracked : p \in Pulls
    BY DEF Tracked, Existing
  <2> QED BY <1>1, <1>4, <1>10, <2>1 DEF Base, Kept
<1>12. ASSUME NEW p \in Tracked, Base, Ended, gh[p].at <= sync.since PROVE Done(p)'
  <2>1. UNCHANGED <<gh, ghRevs, db, unread>>
    BY DEF PageRead
  <2>2. sync'.todo = {} /\ GotInv' /\ sync'.got \in SUBSET Infos
    BY <1>1 DEF PageRead, SummarySame, TypeInv, PhaseInv, Lists, Syncs
  <2> QED BY <1>12, <2>1, <2>2, EndedDone
<1>13. \A i \in sync'.got : i.page <= sync.page
  <2> SUFFICES ASSUME NEW i \in sync'.got PROVE i.page <= sync.page
    OBVIOUS
  <2>1. sync.page \in Nat /\ \A j \in sync.got : j.page \in Nat
    BY Numbers
  <2>2. CASE i \in sync.got
    BY <2>1, <2>2
  <2>3. CASE i \in new
    BY <1>2, <2>1, <2>3
  <2> QED BY <1>1, <2>2, <2>3
<1>14. ASSUME NEW p \in Taken(page) PROVE \E i \in sync'.got : i.at = gh[p].at
  <2>1. PICK i \in new : i.number = p
    BY <1>3, <1>14
  <2> QED BY <1>1, <1>2, <2>1
<1> QED BY <1>7, <1>8, <1>9, <1>10, <1>11, <1>12, <1>13, <1>14

LEMMA GraphqlWater ==
    ASSUME TypeInv, TypeInv', GraphqlPage, Base, Graphql
    PROVE  Base' /\ Graphql' /\ Rest' /\ Last' /\ Work'
<1>0. TypeOK /\ GitHubInv /\ PhaseInv
  BY DEF TypeInv
<1>1. /\ \E new : PageRead(GraphqlPull, new)
      /\ sync.at = "graphql"
      /\ \/ Ended /\ (GraphqlPull = After \/ Taken(GraphqlPull) # GraphqlPull)
         \/ /\ sync'.at = "graphql" /\ Taken(GraphqlPull) = GraphqlPull
            /\ sync'.before = Place(Oldest(GraphqlPull)) /\ sync'.page = sync.page + 1
            /\ Oldest(GraphqlPull) \in GraphqlPull
  BY <1>0, GraphqlReads
<1>n. PICK new : PageRead(GraphqlPull, new)
  BY <1>1
<1>2. /\ gh' = gh /\ sync'.since = sync.since /\ \A p \in Pulls : Place(p)' = Place(p)
      /\ sync' \in Syncs
  BY <1>n DEF PageRead, Place, SummarySame
<1>3. \A i \in sync.got : i.page < sync.page
  BY <1>1 DEF Graphql
<1>4. /\ \A p \in Taken(GraphqlPull) : Awaited(p)'
      /\ \A p \in Pulls : Awaited(p) => Awaited(p)'
      /\ \A p \in Pulls :
            Ahead(p) /\ (\A q \in GraphqlPull : gh[q].at < gh[p].at) => Ahead(p)'
      /\ Base'
      /\ \A p \in Tracked : Ended /\ gh[p].at <= sync.since => Done(p)'
      /\ Tracked' = Tracked
      /\ \A i \in sync'.got : i.page <= sync.page
      /\ \A p \in Taken(GraphqlPull) : \E i \in sync'.got : i.at = gh[p].at
  BY <1>n, <1>3, PageKeeps
<1>5. /\ \A p \in Pulls : gh[p].at \in Nat /\ Place(p) \in Nat \X Nat /\ Place(p)[1] = gh[p].at
      /\ sync.before \in Nat \X Nat /\ sync.since \in Nat /\ sync.before[1] \in Nat
      /\ sync.page \in Nat
      /\ After \in SUBSET Pulls /\ GraphqlPull \in SUBSET After
      /\ Tracked \in SUBSET Pulls
  BY <1>0, Numbers, PlacesDiffer DEF After, GraphqlPull, Existing, Tracked
<1>6. ASSUME NEW p \in After \ GraphqlPull, NEW q \in GraphqlPull
      PROVE  Newer(Place(q), Place(p)) /\ gh[p].at <= gh[q].at
  BY <1>0, <1>5, GraphqlEnds, PlacesDiffer
<1>7. \A q \in GraphqlPull : gh[q].at <= sync.before[1]
  BY <1>5, NewerOrders DEF After
<1>8. ASSUME NEW p \in Tracked, gh[p].at > sync.since
      PROVE  \/ Awaited(p)'
             \/ p \in After \ GraphqlPull
             \/ Ahead(p)' /\ gh[p].at > sync.before[1]
  <2>1. CASE Awaited(p)
    BY <1>4, <1>5, <2>1
  <2>2. CASE Newer(sync.before, Place(p))
    <3>1. p \in After
      BY <2>2 DEF After, Tracked
    <3>2. p \in GraphqlPull => p \in Taken(GraphqlPull)
      BY <1>8 DEF Taken
    <3> QED BY <1>4, <3>1, <3>2
  <2>3. CASE Ahead(p) /\ gh[p].at > sync.before[1]
    <3>1. \A q \in GraphqlPull : gh[q].at < gh[p].at
      BY <1>5, <1>7, <2>3
    <3> QED BY <1>4, <1>5, <2>3, <3>1
  <2> QED BY <1>1, <1>8, <2>1, <2>2, <2>3 DEF Graphql
<1>9. CASE Ended
  <2>1. GraphqlPull = After \/ Taken(GraphqlPull) # GraphqlPull
    BY <1>1, <1>9 DEF Ended
  <2>2. ASSUME NEW p \in Tracked
        PROVE  Awaited(p)' \/ Done(p)' \/ (Ahead(p)' /\ gh'[p].at > sync'.since)
    <3>1. CASE gh[p].at <= sync.since
      BY <1>4, <1>9, <3>1
    <3>2. CASE gh[p].at > sync.since
      <4>1. ASSUME p \in After \ GraphqlPull PROVE FALSE
        <5>1. PICK q \in GraphqlPull : ~(gh[q].at > sync.since)
          BY <2>1, <4>1 DEF Taken
        <5>2. gh[p].at <= gh[q].at
          BY <1>6, <4>1
        <5> QED BY <1>5, <3>2, <5>1, <5>2
      <4> QED BY <1>2, <1>8, <3>2, <4>1
    <3> QED BY <1>5, <3>1, <3>2
  <2> QED BY <1>4, <1>9, <2>2 DEF Ended, Graphql, Rest, Last, Work
<1>10. CASE sync'.at = "graphql"
  <2>1. /\ Taken(GraphqlPull) = GraphqlPull /\ Oldest(GraphqlPull) \in GraphqlPull
        /\ sync'.before = Place(Oldest(GraphqlPull)) /\ sync'.page = sync.page + 1
    BY <1>1, <1>10 DEF Ended
  <2>2. \E i \in sync'.got : i.at = sync'.before[1]
    BY <1>4, <1>5, <2>1
  <2>3. \A i \in sync'.got : i.page < sync'.page
    <3> SUFFICES ASSUME NEW i \in sync'.got PROVE i.page < sync.page + 1
      BY <2>1
    <3>1. i.page \in Nat
      BY <1>2 DEF Syncs, Infos
    <3> QED BY <1>4, <1>5, <3>1
  <2>4. ASSUME NEW p \in Tracked, gh[p].at > sync.since
        PROVE  \/ Awaited(p)'
               \/ Newer(sync'.before, Place(p)')
               \/ Ahead(p)' /\ gh'[p].at > sync'.before[1]
    <3>1. CASE p \in After \ GraphqlPull
      BY <1>2, <1>5, <1>6, <2>1, <3>1
    <3>2. CASE Ahead(p)' /\ gh[p].at > sync.before[1]
      <4>1. sync'.before[1] <= sync.before[1] /\ sync'.before[1] \in Nat
        BY <1>5, <1>7, <2>1
      <4>2. gh'[p].at > sync'.before[1]
        BY <1>2, <1>5, <3>2, <4>1
      <4> QED BY <3>2, <4>2
    <3> QED BY <1>8, <2>4, <3>1, <3>2
  <2> QED BY <1>2, <1>4, <1>10, <2>2, <2>3, <2>4 DEF Graphql, Rest, Last, Work, Works
<1> QED BY <1>1, <1>9, <1>10

LEMMA RestWater ==
    ASSUME TypeInv, TypeInv', RestBatch, Base, Rest
    PROVE  Base' /\ Graphql' /\ Rest' /\ Last' /\ Work'
<1> DEFINE first == sync.page * RestPage
<1>0. TypeOK /\ GitHubInv /\ PhaseInv
  BY DEF TypeInv
<1>1. /\ \E new : PageRead(RestPull, new)
      /\ sync.at = "rest" /\ sync'.page = sync.page + 1 /\ sync'.moved = sync.moved
      /\ \/ /\ sync'.at = "last"
            /\ Cardinality(RestPull) < RestPage \/ Taken(RestPull) # RestPull
         \/ /\ sync'.at = "details" /\ Taken(RestPull) = RestPull
            /\ ~(Cardinality(RestPull) < RestPage)
  BY <1>0, RestReads
<1>n. PICK new : PageRead(RestPull, new)
  BY <1>1
<1>2. /\ gh' = gh /\ sync'.since = sync.since /\ sync'.moved = sync.moved
      /\ sync' \in Syncs /\ sync.got \subseteq sync'.got
  BY <1>1, <1>n DEF PageRead, SummarySame
<1>3. \A i \in sync.got : i.page < sync.page
  BY <1>1 DEF Rest
<1>4. /\ \A p \in Taken(RestPull) : Awaited(p)'
      /\ \A p \in Pulls : Awaited(p) => Awaited(p)'
      /\ \A p \in Pulls :
            Ahead(p) /\ (\A q \in RestPull : gh[q].at < gh[p].at) => Ahead(p)'
      /\ Base'
      /\ Tracked' = Tracked /\ Existing' = Existing
      /\ \A i \in sync'.got : i.page <= sync.page
      /\ \A p \in Taken(RestPull) : \E i \in sync'.got : i.at = gh[p].at
  BY <1>n, <1>3, PageKeeps
<1>5. /\ \A p \in Pulls : gh[p].at \in Nat
      /\ sync.since \in Nat /\ sync.page \in Nat
      /\ Existing \in SUBSET Pulls /\ RestPull \in SUBSET Existing
      /\ Tracked \in SUBSET Existing /\ sync.moved \in SUBSET Pulls
  BY <1>0, Numbers DEF RestPull, Existing, Tracked
<1>6. RestPage \in Nat /\ RestPage > 0 /\ first \in Nat /\ first + RestPage \in Nat
  BY <1>5, PrSyncBounds
<1>7. \A p \in Existing : Rank(Existing, p) \in Nat
  BY <1>0, <1>5, RankGrows
<1>8. /\ \A p \in RestPull : first <= Rank(Existing, p) /\ Rank(Existing, p) < first + RestPage
      /\ \A p \in Existing \ RestPull :
            first <= Rank(Existing, p) => first + RestPage <= Rank(Existing, p)
  BY <1>6, <1>7 DEF RestPull
<1>9. ASSUME NEW p \in Existing, NEW q \in RestPull, first + RestPage <= Rank(Existing, p)
      PROVE  gh[p].at <= gh[q].at
  <2>1. q \in Existing /\ p \in Pulls /\ q \in Pulls
    BY <1>5
  <2>2. Rank(Existing, q) < Rank(Existing, p)
    BY <1>6, <1>7, <1>8, <1>9, <2>1
  <2>3. Newer(Place(q), Place(p))
    BY <1>0, <1>5, <2>1, <2>2, RankGrows
  <2> QED BY <1>0, <2>1, <2>3, PlacesDiffer
(* As many have moved as would push a pull request of this page to it.      *)
<1>10. ASSUME NEW p \in Tracked, Ahead(p), sync.page > 0,
              {q \in Pulls : gh[q].at >= gh[p].at} \subseteq sync.moved
       PROVE  Ahead(p)'
  <2>1. ASSUME NEW q \in RestPull, ~(gh[q].at < gh[p].at) PROVE FALSE
    <3>1. q \in Existing /\ q \in Pulls /\ p \in Pulls
      BY <1>5
    <3>2. NewerThan(Existing, q) \subseteq sync.moved
      <4> SUFFICES ASSUME NEW x \in Existing, Newer(Place(x), Place(q)) PROVE x \in sync.moved
        BY DEF NewerThan
      <4>1. x \in Pulls /\ gh[q].at <= gh[x].at
        BY <1>0, <1>5, <3>1, PlacesDiffer
      <4>2. gh[x].at >= gh[p].at
        BY <1>5, <2>1, <3>1, <4>1
      <4> QED BY <1>10, <4>1, <4>2
    <3>3. IsFiniteSet(sync.moved)
      BY <1>5, PullsAssumption, FS_Subset
    <3>4. Cardinality(NewerThan(Existing, q)) <= Cardinality(sync.moved)
      BY <3>2, <3>3, FS_Subset
    <3>5. Rank(Existing, q) = Cardinality(NewerThan(Existing, q)) /\ Rank(Existing, q) \in Nat
      BY <1>0, <1>5, <3>1, RankGrows
    <3>6. Cardinality(sync.moved) < RestPage /\ Cardinality(sync.moved) \in Nat
      BY <1>1, <3>3, FS_CardinalityType DEF Rest
    <3>7. Rank(Existing, q) < RestPage
      BY <1>6, <3>4, <3>5, <3>6
    <3>8. RestPage <= first
      BY <1>5, <1>6, <1>10
    <3>9. first <= Rank(Existing, q)
      BY <1>8
    <3> HIDE DEF first
    <3> QED BY <1>6, <3>5, <3>7, <3>8, <3>9
  <2> QED BY <1>4, <1>5, <1>10, <2>1
<1>11. ASSUME NEW p \in Tracked, gh[p].at > sync.since
       PROVE  \/ Awaited(p)'
              \/ p \in Existing \ RestPull /\ first + RestPage <= Rank(Existing, p)
              \/ /\ Ahead(p)' /\ sync.page > 0
                 /\ {q \in Pulls : gh[q].at >= gh[p].at} \subseteq sync.moved
  <2>1. CASE Awaited(p)
    BY <1>4, <1>5, <2>1
  <2>2. CASE first <= Rank(Existing, p)
    <3>1. p \in RestPull => p \in Taken(RestPull)
      BY <1>11 DEF Taken
    <3> QED BY <1>4, <1>5, <1>8, <2>2, <3>1
  <2>3. CASE /\ Ahead(p) /\ sync.page > 0
             /\ {q \in Pulls : gh[q].at >= gh[p].at} \subseteq sync.moved
    BY <1>10, <2>3
  <2> QED BY <1>1, <1>11, <2>1, <2>2, <2>3 DEF Rest
<1>12. CASE sync'.at = "last"
  <2>1. Cardinality(RestPull) < RestPage \/ Taken(RestPull) # RestPull
    BY <1>1, <1>12
  <2>2. ASSUME NEW p \in Tracked, gh[p].at > sync.since PROVE Awaited(p)' \/ Ahead(p)'
    <3>1. ASSUME p \in Existing \ RestPull, first + RestPage <= Rank(Existing, p) PROVE FALSE
      <4>1. ~(Cardinality(RestPull) < RestPage)
        <5>1. p \in Existing
          BY <3>1
        <5>2. RestPull = {x \in Existing : Rank(Existing, x) \in first..(first + RestPage - 1)}
          BY DEF RestPull
        <5> HIDE DEF first
        <5> QED BY <1>0, <1>5, <1>6, <3>1, <5>1, <5>2, FullPage, PrSyncBounds
      <4>2. PICK q \in RestPull : ~(gh[q].at > sync.since)
        BY <2>1, <4>1 DEF Taken
      <4>3. gh[p].at <= gh[q].at /\ gh[p].at \in Nat /\ gh[q].at \in Nat
        BY <1>5, <1>9, <3>1
      <4> QED BY <1>5, <2>2, <4>2, <4>3
    <3> QED BY <1>11, <2>2, <3>1
  <2> QED BY <1>2, <1>4, <1>12, <2>2 DEF Graphql, Rest, Last, Work, Works
<1>13. CASE sync'.at = "details"
  <2>1. /\ Taken(RestPull) = RestPull /\ ~(Cardinality(RestPull) < RestPage)
        /\ sync'.page = sync.page + 1
    BY <1>1, <1>13
  <2>2. \A i \in sync'.got : i.page < sync'.page
    <3> SUFFICES ASSUME NEW i \in sync'.got PROVE i.page < sync.page + 1
      BY <2>1
    <3>1. i.page \in Nat
      BY <1>2 DEF Syncs, Infos
    <3> QED BY <1>4, <1>5, <3>1
  <2>3. ASSUME NEW q \in Existing \ sync.moved PROVE \E i \in sync'.got : gh[q].at <= i.at
    <3>1. CASE sync.page > 0
      <4>1. \E i \in sync.got : gh[q].at <= i.at
        BY <1>1, <3>1 DEF Rest
      <4> QED BY <1>2, <4>1
    <3>2. CASE q \in RestPull
      <4>1. \E i \in sync'.got : i.at = gh[q].at
        BY <1>4, <2>1, <3>2
      <4> QED BY <1>5, <4>1
    <3>3. CASE sync.page = 0 /\ q \notin RestPull
      <4>1. first = 0
        BY <1>6, <3>3
      <4>2. first + RestPage <= Rank(Existing, q)
        BY <1>7, <1>8, <3>3, <4>1
      <4>3. RestPull # {}
        BY <1>6, <2>1, FS_EmptySet
      <4>4. PICK x \in RestPull : TRUE
        BY <4>3
      <4>5. gh[q].at <= gh[x].at
        BY <1>9, <4>2
      <4> QED BY <1>4, <2>1, <4>5
    <3> QED BY <1>5, <3>1, <3>2, <3>3
  <2>4. (sync.page + 1) * RestPage = first + RestPage
    BY <1>5, <1>6
  <2>5. \A p \in Existing : Rank(Existing, p)' = Rank(Existing, p)
    BY <1>2, <1>4 DEF Rank, Place
  <2>6. ASSUME NEW p \in Tracked, gh[p].at > sync.since
        PROVE  \/ Awaited(p)'
               \/ sync'.page * RestPage <= Rank(Existing, p)'
               \/ /\ Ahead(p)' /\ sync'.page > 0
                  /\ {q \in Pulls : gh'[q].at >= gh'[p].at} \subseteq sync'.moved
    <3>1. first + RestPage <= Rank(Existing, p) => sync'.page * RestPage <= Rank(Existing, p)'
      BY <1>5, <2>1, <2>4, <2>5
    <3>2. sync'.page > 0
      BY <1>5, <2>1
    <3> QED BY <1>2, <1>11, <2>6, <3>1, <3>2
  <2>7. Cardinality(sync'.moved) < RestPage
    BY <1>1, <1>2 DEF Rest
  <2> HIDE DEF first
  <2> QED BY <1>2, <1>4, <1>13, <2>2, <2>3, <2>6, <2>7 DEF Graphql, Rest, Last, Work, Works
<1> QED BY <1>1, <1>12, <1>13

(* GitHub goes on: what is updated leaves the places of the others as they  *)
(* are, or moves them one back.                                             *)
LEMMA UpdateWater ==
    ASSUME TypeInv, NEW p \in Pulls, Update(p), WaterInv PROVE WaterInv'
<1> SUFFICES ASSUME ~crowded' PROVE Base' /\ Graphql' /\ Rest' /\ Last' /\ Work'
  BY DEF WaterInv
<1>0. TypeOK
  BY DEF TypeInv
<1>1. /\ UNCHANGED <<clock, db, unread>>
      /\ gh'[p].at = clock /\ gh'[p].state \in States /\ gh'[p].tied = SecondSeen
      /\ \A q \in Pulls \ {p} : gh'[q] = gh[q] /\ ReviewsOf(q)' = ReviewsOf(q)
      /\ sync'.at = sync.at /\ sync'.since = sync.since /\ sync'.before = sync.before
      /\ sync'.page = sync.page /\ sync'.got = sync.got /\ sync'.todo = sync.todo
      /\ sync'.work = sync.work /\ sync'.batch = sync.batch /\ missed' = missed \ {p}
      /\ sync'.moved = IF sync.at \in {"rest", "details"}
                       THEN sync.moved \cup {p} ELSE sync.moved
      /\ crowded' = (crowded \/ Cardinality(sync'.moved) >= RestPage)
  BY <1>0, UpdateKeeps DEF SummarySame, WorkSame, ListSame
<1>2. Base /\ Graphql /\ Rest /\ Last /\ Work
  BY <1>1 DEF WaterInv
<1>3. Existing' = Existing \cup {p} /\ Existing \in SUBSET Pulls
  BY <1>1 DEF Existing, States
<1>4. Tracked' \ {p} = Tracked \ {p} /\ Tracked \in SUBSET Pulls /\ Tracked' \in SUBSET Pulls
  BY <1>1, <1>3 DEF Tracked, Existing
<1>5. ASSUME NEW q \in Pulls \ {p}
      PROVE  /\ Awaited(q) => Awaited(q)'
             /\ Done(q) => Done(q)'
             /\ Ahead(q) => Ahead(q)'
             /\ Kept(q, db.facts) => Kept(q, db.facts)'
             /\ gh'[q].at = gh[q].at /\ Place(q)' = Place(q)
  <2>1. \A i : Current(i, q)' = Current(i, q)
    BY <1>1 DEF Current
  <2>2. gh'[q] = gh[q] /\ ReviewsOf(q)' = ReviewsOf(q)
    BY <1>1
  <2>3. Awaited(q) => Awaited(q)'
    BY <1>1, <2>1 DEF Awaited
  <2>4. Done(q) => Done(q)'
    BY <1>1, <2>1, <2>2 DEF Done, Kept
  <2> QED BY <1>1, <2>2, <2>3, <2>4 DEF Ahead, Kept, Place
<1>6. /\ clock \in Nat /\ db.synced \in Nat /\ sync.since \in Nat /\ sync.page \in Nat
      /\ db.synced <= clock /\ sync.since <= clock
      /\ \A q \in Pulls : q \in Nat /\ gh[q].at \in Nat /\ gh[q].at <= clock
      /\ \A q \in Existing : gh[q].at > 0
      /\ \A i \in sync.got : i.at \in Nat /\ i.at <= clock
      /\ sync.before \in Nat \X Nat /\ clock <= MaxClock /\ MaxClock \in Nat /\ clock > 0
  BY <1>0, Numbers, PrSyncBounds DEF TypeOK
<1>7. ASSUME p \in Tracked'
      PROVE  /\ Ahead(p)' /\ clock > db.synced /\ clock > sync.since
             /\ \A i \in sync.got : i.at < clock
  <2>1. ~SecondSeen
    BY <1>1, <1>7 DEF Tracked
  <2>2. /\ clock # db.synced /\ clock # sync.since /\ \A i \in sync.got : i.at # clock
    BY <2>1 DEF SecondSeen
  <2>3. /\ clock > db.synced /\ clock > sync.since /\ \A i \in sync.got : i.at < clock
    BY <1>6, <2>2
  <2> QED BY <1>1, <2>3 DEF Ahead
<1>8. Base'
  <2> SUFFICES ASSUME NEW q \in Tracked', gh'[q].at <= db'.synced
               PROVE  Kept(q, db.facts)'
    BY DEF Base
  <2>1. q # p
    BY <1>1, <1>6, <1>7
  <2> QED BY <1>1, <1>2, <1>4, <1>5, <2>1 DEF Base
<1>9. Graphql'
  <2> SUFFICES ASSUME sync.at = "graphql", NEW q \in Tracked', gh'[q].at > sync.since
               PROVE  \/ Awaited(q)'
                      \/ Newer(sync.before, Place(q)')
                      \/ Ahead(q)' /\ gh'[q].at > sync.before[1]
    BY <1>1, <1>2 DEF Graphql
  <2>1. CASE q # p
    <3>1. q \in Tracked /\ q \in Pulls \ {p}
      BY <1>4, <2>1
    <3>2. gh[q].at > sync.since
      BY <1>5, <3>1
    <3>3. \/ Awaited(q)
          \/ Newer(sync.before, Place(q))
          \/ Ahead(q) /\ gh[q].at > sync.before[1]
      BY <1>2, <3>1, <3>2 DEF Graphql
    <3> QED BY <1>5, <3>1, <3>3
  <2>2. CASE q = p
    <3>1. Place(q)' = <<clock, p>>
      BY <1>1, <2>2 DEF Place
    <3>2. sync.before = Start => Newer(sync.before, Place(q)')
      BY <1>6, <3>1 DEF Start, Newer
    <3>3. ASSUME NEW i \in sync.got, i.at = sync.before[1] PROVE gh'[q].at > sync.before[1]
      BY <1>1, <1>6, <1>7, <2>2, <3>3
    <3> QED BY <1>2, <1>7, <2>2, <3>2, <3>3 DEF Graphql
  <2> QED BY <2>1, <2>2
<1>10. Rest'
  <2> SUFFICES ASSUME sync.at \in {"rest", "details"} PROVE Rest'
    BY <1>1 DEF Rest
  <2>1. sync'.moved = sync.moved \cup {p} /\ ~(Cardinality(sync'.moved) >= RestPage)
    BY <1>1
  <2>2. Cardinality(sync'.moved) < RestPage
    <3>1. sync.moved \in SUBSET Pulls
      BY Numbers
    <3>2. sync'.moved \in SUBSET Pulls
      BY <2>1, <3>1
    <3>3. Cardinality(sync'.moved) \in Nat
      BY <3>2, PullsAssumption, FS_Subset, FS_CardinalityType
    <3> QED BY <2>1, <3>3, PrSyncBounds
  <2>3. \A i \in sync'.got : i.page < sync'.page
    BY <1>1, <1>2 DEF Rest
  <2>4. ASSUME sync.page > 0, NEW q \in Existing' \ sync'.moved
        PROVE  \E i \in sync'.got : gh'[q].at <= i.at
    <3>1. q \in Existing \ sync.moved /\ q \in Pulls \ {p}
      BY <1>3, <2>1, <2>4
    <3>2. \E i \in sync.got : gh[q].at <= i.at
      BY <1>2, <2>4, <3>1 DEF Rest
    <3> QED BY <1>1, <1>5, <3>1, <3>2
  <2>5. ASSUME NEW q \in Existing \ {p} PROVE Rank(Existing, q) <= Rank(Existing, q)'
    <3> DEFINE A == {x \in Existing : Newer(Place(x), Place(q))}
               B == {x \in Existing' : Newer(Place(x)', Place(q)')}
    <3>1. A \subseteq B
      <4> SUFFICES ASSUME NEW x \in Existing, Newer(Place(x), Place(q))
                   PROVE  Newer(Place(x)', Place(q)')
        BY <1>3
      <4>1. q \in Pulls \ {p} /\ x \in Pulls /\ Place(q)' = Place(q)
        BY <1>3, <1>5
      <4>2. CASE x # p
        BY <1>5, <4>1, <4>2
      <4>3. CASE x = p
        <5>1. Place(x)' = <<clock, p>> /\ Place(x) = <<gh[p].at, p>> /\ Place(q) = <<gh[q].at, q>>
          BY <1>1, <4>3 DEF Place
        <5> QED BY <1>6, <4>1, <5>1 DEF Newer
      <4> QED BY <4>2, <4>3
    <3>2. B \in SUBSET Pulls
      BY <1>3
    <3>3. IsFiniteSet(B)
      BY <3>2, PullsAssumption, FS_Subset
    <3> HIDE DEF A, B
    <3>4. Cardinality(A) <= Cardinality(B)
      BY <3>1, <3>3, FS_Subset
    <3> QED BY <3>4 DEF Rank, A, B
  <2>6. ASSUME NEW q \in Tracked', gh'[q].at > sync.since
        PROVE  \/ Awaited(q)'
               \/ sync.page * RestPage <= Rank(Existing, q)'
               \/ /\ Ahead(q)' /\ sync.page > 0
                  /\ {x \in Pulls : gh'[x].at >= gh'[q].at} \subseteq sync'.moved
    <3>1. CASE q # p
      <4>1. q \in Tracked /\ q \in Pulls \ {p} /\ q \in Existing \ {p}
        BY <1>4, <3>1 DEF Tracked
      <4>2. gh[q].at > sync.since /\ gh'[q] = gh[q]
        BY <1>1, <2>6, <4>1
      <4>3. \/ Awaited(q)
            \/ sync.page * RestPage <= Rank(Existing, q)
            \/ /\ Ahead(q) /\ sync.page > 0
               /\ {x \in Pulls : gh[x].at >= gh[q].at} \subseteq sync.moved
        BY <1>2, <4>1, <4>2 DEF Rest
      <4>4. sync.page * RestPage <= Rank(Existing, q) => sync.page * RestPage <= Rank(Existing, q)'
        <5>1. /\ sync.page * RestPage \in Int /\ Rank(Existing, q) \in Int
          <6>1. sync.page * RestPage \in Int
            BY <1>6, PrSyncBounds
          <6>2. q \in Existing
            BY <4>1
          <6>3. Rank(Existing, q) \in Nat
            BY <1>0, <1>3, <6>2, RankGrows
          <6> QED BY <6>1, <6>3
        <5>2. Rank(Existing, q)' \in Int
          <6>1. {x \in Existing' : Newer(Place(x)', Place(q)')} \in SUBSET Pulls
            BY <1>3
          <6>2. Cardinality({x \in Existing' : Newer(Place(x)', Place(q)')}) \in Nat
            BY <6>1, PullsAssumption, FS_Subset, FS_CardinalityType
          <6> QED BY <6>2 DEF Rank
        <5>3. Rank(Existing, q) <= Rank(Existing, q)'
          BY <2>5, <4>1
        <5> QED BY <5>1, <5>2, <5>3
      <4>5. ASSUME {x \in Pulls : gh[x].at >= gh[q].at} \subseteq sync.moved
            PROVE  {x \in Pulls : gh'[x].at >= gh'[q].at} \subseteq sync'.moved
        BY <1>1, <2>1, <4>2, <4>5
      <4> QED BY <1>5, <4>1, <4>3, <4>4, <4>5
    <3>2. CASE q = p
      <4>1. CASE sync.page = 0
        <5>1. sync.page * RestPage = 0
          BY <4>1, PrSyncBounds
        <5>2. {x \in Existing' : Newer(Place(x)', Place(q)')} \in SUBSET Pulls
          BY <1>3
        <5>3. Cardinality({x \in Existing' : Newer(Place(x)', Place(q)')}) \in Nat
          BY <5>2, PullsAssumption, FS_Subset, FS_CardinalityType
        <5>4. Rank(Existing, q)' \in Nat
          BY <5>3 DEF Rank
        <5> QED BY <5>1, <5>4
      <4>2. CASE sync.page > 0
        <5>1. ASSUME NEW x \in Pulls, gh'[x].at >= clock, x \notin sync'.moved PROVE FALSE
          <6>1. x \in Pulls \ {p} /\ x \notin sync.moved
            BY <2>1, <5>1
          <6>2. gh[x].at = clock
            BY <1>1, <1>6, <5>1, <6>1
          <6>3. x \in Existing
            BY <1>6, <6>1, <6>2 DEF TypeInv, GitHubInv, Existing
          <6>4. \E i \in sync.got : clock <= i.at
            BY <1>2, <4>2, <6>1, <6>2, <6>3 DEF Rest
          <6> QED BY <1>6, <1>7, <2>6, <3>2, <6>4
        <5> QED BY <1>1, <1>7, <2>6, <3>2, <4>2, <5>1
      <4> QED BY <1>6, <4>1, <4>2
    <3> QED BY <3>1, <3>2
  <2> QED BY <1>1, <2>2, <2>3, <2>4, <2>6 DEF Rest
<1>12. Last'
  <2> SUFFICES ASSUME sync.at = "last", NEW q \in Tracked', gh'[q].at > sync.since
               PROVE  Awaited(q)' \/ Ahead(q)'
    BY <1>1 DEF Last
  <2>1. CASE q # p
    <3>1. q \in Tracked /\ q \in Pulls \ {p} /\ gh[q].at > sync.since
      BY <1>4, <1>5, <2>1
    <3>2. Awaited(q) \/ Ahead(q)
      BY <1>2, <3>1 DEF Last
    <3> QED BY <1>5, <3>1, <3>2
  <2>2. CASE q = p
    BY <1>7, <2>2
  <2> QED BY <2>1, <2>2
<1>11. Work'
  <2> SUFFICES ASSUME sync.at \in Works, NEW q \in Tracked'
               PROVE  Awaited(q)' \/ Done(q)' \/ (Ahead(q)' /\ gh'[q].at > sync.since)
    BY <1>1 DEF Work
  <2>1. CASE q # p
    BY <1>2, <1>4, <1>5, <2>1 DEF Work
  <2>2. CASE q = p
    BY <1>1, <1>7, <2>2
  <2> QED BY <2>1, <2>2
<1> QED BY <1>8, <1>9, <1>10, <1>11, <1>12

(* A pull request is stored as it was listed last; what is committed        *)
(* half-way has nothing that the old watermark had not passed.              *)
LEMMA SavedBase ==
    ASSUME TypeInv, Base, Work, sync.at \in Works, UNCHANGED <<gh, ghRevs, unread, missed>>,
           db'.synced = db.synced, db'.facts = db.facts \/ db'.facts = sync.work
    PROVE  Base'
<1> SUFFICES ASSUME NEW p \in Tracked, gh[p].at <= db.synced
             PROVE  Kept(p, db'.facts)
  BY DEF Base, Kept, Tracked, Existing, ReviewsOf
<1>1. CASE db'.facts = db.facts
  BY <1>1 DEF Base
<1>2. CASE db'.facts = sync.work
  <2>1. p \in Pulls /\ db.synced <= sync.since
    BY DEF Tracked, Existing, TypeInv, PhaseInv
  <2>2. /\ gh[p].at \in Nat /\ db.synced \in Nat /\ sync.since \in Nat
        /\ \A i \in sync.got : i.at \in Nat /\ db.synced < i.at
        /\ sync.todo \in SUBSET Reviews
    BY <2>1, Numbers
  <2>3. ~Awaited(p)
    BY <2>2 DEF Awaited, Current
  <2>4. ~(gh[p].at > sync.since)
    BY <2>1, <2>2
  <2>5. Kept(p, sync.work \cup sync.todo)
    BY <2>3, <2>4 DEF Work, Done
  <2>6. <<p, gh[p].state>> \in sync.work
    <3>1. <<p, gh[p].state>> \in PullFacts
      <4>1. gh[p].state \in States
        BY <2>1 DEF TypeInv, TypeOK, Tracked, Existing, Kinds
      <4> QED BY <2>1, <4>1 DEF PullFacts
    <3> QED BY <2>2, <2>5, <3>1, PullsAssumption DEF Kept
  <2>7. ASSUME NEW r \in ReviewsOf(p), r \in sync.todo PROVE FALSE
    <3>1. db.synced < gh[p].at
      BY <2>7 DEF ReviewsOf, TypeInv, PhaseInv
    <3> QED BY <2>2, <3>1
  <2> QED BY <1>2, <2>5, <2>6, <2>7 DEF Kept
<1> QED BY <1>1, <1>2

LEMMA StoredPullWater ==
    ASSUME TypeInv, NEW info \in sync.got, StoredPull(info), Base, Work
    PROVE  Base' /\ Graphql' /\ Rest' /\ Last' /\ Work'
<1> DEFINE n == info.number
<1>1. /\ UNCHANGED <<gh, ghRevs, unread, missed>> /\ db'.synced = db.synced
      /\ db'.facts = db.facts \/ db'.facts = sync.work
      /\ sync.at = "pull" /\ sync'.at = "reviews" /\ sync'.got = sync.got \ {info}
      /\ sync'.work = (sync.work \ {<<n, k>> : k \in States}) \cup {<<n, info.state>>}
      /\ sync'.todo = info.reviews \ sync.work
      /\ sync'.since = Max({sync.since, info.at})
      /\ sync'.batch = sync.batch
      /\ \A j \in sync.got \ {info} : Earlier(info, j)
  BY DEF StoredPull, Storing, PullRow, Unnamed, SavedFor
<1>2. sync.todo = {} /\ sync.batch = {} /\ sync.at \in Works /\ sync'.at \in Works
  BY <1>1 DEF TypeInv, PhaseInv, Works
<1>3. Base'
  BY <1>1, <1>2, SavedBase
<1>4. /\ \A p \in Pulls : ReviewsOf(p)' = ReviewsOf(p)
      /\ \A i, p : p \in Pulls => Current(i, p)' = Current(i, p)
      /\ \A p \in Pulls : ReviewsOf(p) \in SUBSET Reviews
  BY <1>1 DEF ReviewsOf, Current, TypeInv, TypeOK
<1>5. Tracked' = Tracked /\ Tracked \in SUBSET Pulls
  BY <1>1 DEF Tracked, Existing
<1>6. /\ n \in Pulls /\ info.at \in Nat /\ info.page \in Nat /\ sync.since \in Nat
      /\ info.reviews \in SUBSET Reviews
      /\ \A i \in sync.got : i.page \in Nat /\ i.at \in Nat
      /\ \A p \in Pulls : gh[p].at \in Nat
  BY Numbers
<1>7. \A r \in Reviews : r \in sync.work => r \in sync'.work
  <2>1. \A k \in States : <<n, k>> \in PullFacts
    BY <1>6 DEF PullFacts
  <2> QED BY <1>1, <2>1, PullsAssumption
<1>8. ASSUME NEW p \in Pulls, Ahead(p), gh[p].at > sync.since
      PROVE  Ahead(p)' /\ gh'[p].at > sync'.since
  <2>1. sync'.since \in {sync.since, info.at}
    BY <1>1, <1>6, MaxOfTwo
  <2>2. info.at < gh[p].at
    BY <1>8 DEF Ahead
  <2> QED BY <1>1, <1>8, <2>1, <2>2 DEF Ahead
<1>9. ASSUME NEW p \in Pulls, NEW i \in sync'.got, Current(i, p),
             \A j \in sync.got : j.number = p /\ i.page <= j.page => Current(j, p)
      PROVE  Awaited(p)'
  BY <1>1, <1>4, <1>9 DEF Awaited
<1>10. ASSUME Current(info, n), \A j \in sync.got : j.number = n /\ info.page <= j.page => Current(j, n)
       PROVE  Done(n)'
  <2>1. <<n, gh[n].state>> \in sync'.work
    BY <1>1, <1>10 DEF Current
  <2>2. ReviewsOf(n) \ unread \subseteq sync'.work \cup sync'.todo
    BY <1>1, <1>2, <1>4, <1>6, <1>7, <1>10 DEF Current
  <2>3. ASSUME NEW j \in sync'.got, j.number = n PROVE Current(j, n)
    <3>1. Earlier(info, j) /\ j \in sync.got
      BY <1>1
    <3>2. info.page <= j.page
      BY <1>6, <3>1 DEF Earlier
    <3> QED BY <1>10, <2>3, <3>1, <3>2
  <2> HIDE DEF n
  <2> QED BY <1>1, <1>4, <1>6, <2>1, <2>2, <2>3 DEF Done, Kept
<1>11. ASSUME NEW p \in Tracked
       PROVE  Awaited(p)' \/ Done(p)' \/ (Ahead(p)' /\ gh'[p].at > sync'.since)
  <2>1. p \in Pulls
    BY <1>5
  <2>2. CASE Awaited(p)
    <3>1. PICK i \in sync.got :
             /\ Current(i, p)
             /\ \A j \in sync.got : j.number = p /\ i.page <= j.page => Current(j, p)
      BY <2>2 DEF Awaited
    <3>2. CASE i # info
      BY <1>1, <1>9, <2>1, <3>1, <3>2
    <3>3. CASE i = info
      <4>1. p = n
        BY <3>1, <3>3 DEF Current
      <4> QED BY <1>10, <3>1, <3>3, <4>1
    <3> QED BY <3>2, <3>3
  <2>3. CASE Done(p)
    <3>1. CASE p = n
      <4>1. \A j \in sync.got : j.number = n => Current(j, n)
        BY <2>3, <3>1 DEF Done
      <4> QED BY <1>10, <3>1, <4>1
    <3>2. CASE p # n
      <4>1. <<p, gh[p].state>> \in sync.work
        BY <1>2, <2>3 DEF Done, Kept
      <4>2. <<p, gh[p].state>> \in sync'.work
        BY <1>1, <3>2, <4>1
      <4>3. ReviewsOf(p) \ unread \subseteq sync'.work
        BY <1>2, <1>4, <1>7, <2>1, <2>3 DEF Done, Kept
      <4>4. \A j \in sync'.got : j.number = p => Current(j, p)
        BY <1>1, <2>3 DEF Done
      <4> QED BY <1>1, <1>4, <2>1, <4>2, <4>3, <4>4 DEF Done, Kept
    <3> QED BY <3>1, <3>2
  <2>4. CASE Ahead(p) /\ gh[p].at > sync.since
    BY <1>8, <2>1, <2>4
  <2> QED BY <1>2, <2>2, <2>3, <2>4 DEF Work
<1> QED BY <1>1, <1>3, <1>5, <1>11 DEF Graphql, Rest, Last, Work

LEMMA StoredReviewWater ==
    ASSUME TypeInv, NEW r \in sync.todo, StoredReview(r), Base, Work
    PROVE  Base' /\ Graphql' /\ Rest' /\ Last' /\ Work'
<1>1. /\ UNCHANGED <<gh, ghRevs, unread, missed>> /\ db'.synced = db.synced
      /\ db'.facts = db.facts \/ db'.facts = sync.work
      /\ sync.at = "reviews" /\ sync'.at = "reviews" /\ sync'.got = sync.got
      /\ sync'.work = sync.work \cup {r} /\ sync'.todo = sync.todo \ {r}
      /\ sync'.since = sync.since /\ sync'.batch = sync.batch
  BY DEF StoredReview, Storing, Unnamed, SavedFor
<1>2. Base'
  BY <1>1, SavedBase DEF Works
<1>3. sync'.work \cup sync'.todo = sync.work \cup sync.todo
  BY <1>1
<1>4. /\ Tracked' = Tracked /\ Tracked \in SUBSET Pulls
      /\ \A p : ReviewsOf(p)' = ReviewsOf(p)
  BY <1>1 DEF Tracked, Existing, ReviewsOf
<1>5. \A p \in Tracked : /\ Awaited(p)' = Awaited(p) /\ Done(p)' = Done(p)
                         /\ Ahead(p)' = Ahead(p)
  BY <1>1, <1>3, <1>4 DEF Awaited, Done, Ahead, Kept, Current
<1> QED BY <1>1, <1>2, <1>4, <1>5 DEF Graphql, Rest, Last, Work, Works

LEMMA CommittedWater ==
    ASSUME TypeInv, CommittedPulls, Base, Work
    PROVE  Base' /\ Graphql' /\ Rest' /\ Last' /\ Work'
<1>1. /\ UNCHANGED <<gh, ghRevs, unread, missed>> /\ db'.facts = sync.work
      /\ db'.synced = Max({db.synced, sync.since})
      /\ sync.at = "pull" /\ sync'.at = "recompute" /\ sync.got = {}
  BY DEF CommittedPulls
<1>2. sync.todo = {} /\ db.synced <= sync.since /\ sync.at \in Works
  BY <1>1 DEF TypeInv, PhaseInv, Works
<1>3. db.synced \in Nat /\ sync.since \in Nat /\ \A p \in Pulls : gh[p].at \in Nat
  BY Numbers
<1>4. db'.synced = sync.since
  <2>1. db'.synced \in {db.synced, sync.since} /\ db'.synced >= sync.since
    BY <1>1, <1>3, MaxOfTwo
  <2> QED BY <1>2, <1>3, <2>1
<1>5. ASSUME NEW p \in Tracked, gh[p].at <= sync.since PROVE Kept(p, sync.work)
  <2>1. ~(gh[p].at > sync.since) /\ ~Awaited(p)
    BY <1>1, <1>3, <1>5 DEF Tracked, Existing, Awaited
  <2>2. Kept(p, sync.work \cup sync.todo)
    BY <1>2, <2>1 DEF Work, Done
  <2> QED BY <1>2, <2>2 DEF Kept
<1>6. Base'
  BY <1>1, <1>4, <1>5 DEF Base, Kept, Tracked, Existing, ReviewsOf
<1> QED BY <1>1, <1>6 DEF Graphql, Rest, Last, Work, Works

LEMMA EmptiedWater ==
    ASSUME TypeInv, NEW at \in {"idle", "graphql", "rest"}, NEW since, Emptied(at, since), Base,
           missed' = missed \/ missed' = {p \in missed : gh[p].at <= db.synced}
    PROVE  Base' /\ Graphql' /\ Rest' /\ Last' /\ Work'
<1>1. /\ UNCHANGED <<gh, ghRevs, db, unread>> /\ sync'.at = at /\ sync'.before = Start
      /\ sync'.page = 0 /\ sync'.got = {} /\ sync'.moved = {}
  BY DEF Emptied
<1>2. Base'
  <2> SUFFICES ASSUME NEW p \in Tracked', gh[p].at <= db.synced PROVE Kept(p, db.facts)'
    BY <1>1 DEF Base
  <2>1. p \in Tracked
    BY <1>1 DEF Tracked, Existing
  <2> QED BY <1>1, <2>1 DEF Base, Kept, ReviewsOf
<1>3. /\ Tracked' \in SUBSET Existing /\ Existing' = Existing
      /\ Existing \in SUBSET Pulls /\ TypeOK
      /\ \A p \in Pulls : Place(p)' = Place(p)
  BY <1>1 DEF Tracked, Existing, Place, TypeInv
<1>4. Graphql'
  <2>1. ASSUME NEW p \in Tracked' PROVE Newer(Start, Place(p))
    <3>1. p \in Pulls
      BY <1>3
    <3>2. gh[p].at \in 0..MaxClock
      BY <1>3, <3>1 DEF TypeOK
    <3> QED BY <3>2, PrSyncBounds DEF Newer, Start, Place
  <2> QED BY <1>1, <1>3, <2>1 DEF Graphql
<1>5. Rest'
  <2>1. ASSUME NEW p \in Tracked' PROVE sync'.page * RestPage <= Rank(Existing, p)'
    <3>1. p \in Existing
      BY <1>3
    <3>2. Rank(Existing, p) \in Nat
      BY <1>3, <3>1, RankGrows
    <3>3. Rank(Existing, p)' = Rank(Existing, p)
      BY <1>3, <3>1 DEF Rank
    <3>4. sync'.page * RestPage = 0
      BY <1>1, PrSyncBounds
    <3> QED BY <3>2, <3>3, <3>4
  <2>2. Cardinality(sync'.moved) < RestPage
    BY <1>1, PrSyncBounds, FS_EmptySet
  <2> QED BY <1>1, <1>3, <2>1, <2>2 DEF Rest
<1>6. Last' /\ Work'
  BY <1>1 DEF Last, Work, Works
<1> QED BY <1>2, <1>4, <1>5, <1>6

(* The reviews of a pull request are read: what had them still to be read   *)
(* has them now, or GitHub did not answer for them.                         *)
LEMMA DetailWater ==
    ASSUME TypeInv, NEW i \in sync.batch, NEW revs, DetailRead(i, revs), Base, Rest, Last
    PROVE  Base' /\ Graphql' /\ Rest' /\ Last' /\ Work'
<1>n. PICK new : new = Detailed(i, revs)
  OBVIOUS
<1>1. /\ UNCHANGED <<gh, ghRevs, db, missed>> /\ unread \subseteq unread'
      /\ sync.at \in {"details", "last"} /\ sync'.at = sync.at
      /\ sync'.since = sync.since /\ sync'.page = sync.page /\ sync'.moved = sync.moved
      /\ sync'.batch = sync.batch \ {i} /\ sync'.got = (sync.got \ {i}) \cup {new}
      /\ new.number = i.number /\ new.state = i.state /\ new.at = i.at
      /\ new.page = i.page /\ new.reviews = revs
      /\ ReviewsOf(i.number) \ unread' \subseteq revs
  BY <1>n DEF DetailRead, SummarySame
<1>2. i \in sync.got
  BY DEF TypeInv, PhaseInv
<1>3. /\ Tracked' = Tracked /\ Existing' = Existing /\ Tracked \in SUBSET Pulls
      /\ \A p : ReviewsOf(p)' = ReviewsOf(p) /\ Place(p)' = Place(p)
  BY <1>1 DEF Tracked, Existing, ReviewsOf, Place
<1>4. \A p : Rank(Existing, p)' = Rank(Existing, p)
  BY <1>3 DEF Rank
<1>5. ASSUME NEW p, NEW j \in sync.got, j # i, Current(j, p) PROVE Current(j, p)'
  BY <1>1, <1>3, <1>5 DEF Current
<1>6. ASSUME NEW p, Current(i, p) PROVE Current(new, p)'
  BY <1>1, <1>3, <1>6 DEF Current
<1>7. ASSUME NEW p \in Pulls, Awaited(p) PROVE Awaited(p)'
  <2>1. PICK k \in sync.got :
           /\ Current(k, p)
           /\ \A j \in sync.got : j.number = p /\ k.page <= j.page => Current(j, p)
    BY <1>7 DEF Awaited
  <2>2. ASSUME NEW j \in sync'.got, j.number = p, k.page <= j.page PROVE Current(j, p)'
    <3>1. CASE j \in sync.got \ {i}
      BY <1>5, <2>1, <2>2, <3>1
    <3>2. CASE j = new
      BY <1>1, <1>2, <1>6, <2>1, <2>2, <3>2
    <3> QED BY <1>1, <3>1, <3>2
  <2>3. CASE k = i
    <3>1. new \in sync'.got /\ Current(new, p)' /\ new.page = k.page
      BY <1>1, <1>6, <2>1, <2>3
    <3> QED BY <2>2, <3>1 DEF Awaited
  <2>4. CASE k # i
    <3>1. k \in sync'.got /\ Current(k, p)'
      BY <1>1, <1>5, <2>1, <2>4
    <3> QED BY <2>2, <3>1 DEF Awaited
  <2> QED BY <2>3, <2>4
<1>8. ASSUME NEW p, Ahead(p) PROVE Ahead(p)'
  <2> SUFFICES ASSUME NEW j \in sync'.got PROVE j.at < gh[p].at
    BY <1>1 DEF Ahead
  <2>1. CASE j \in sync.got
    BY <1>8, <2>1 DEF Ahead
  <2>2. CASE j = new
    BY <1>1, <1>2, <1>8, <2>2 DEF Ahead
  <2> QED BY <1>1, <2>1, <2>2
<1>9. Base'
  <2> SUFFICES ASSUME NEW p \in Tracked, gh[p].at <= db.synced PROVE Kept(p, db.facts)'
    BY <1>1, <1>3 DEF Base
  <2>1. Kept(p, db.facts)
    BY DEF Base
  <2> QED BY <1>1, <1>3, <2>1 DEF Kept
<1>10. CASE sync.at = "last"
  <2>1. Last'
    BY <1>1, <1>3, <1>7, <1>8, <1>10 DEF Last
  <2> QED BY <1>1, <1>9, <1>10, <2>1 DEF Graphql, Rest, Work, Works
<1>11. CASE sync.at = "details"
  <2>1. \A j \in sync'.got : j.page < sync'.page
    <3>1. \A j \in sync.got : j.page < sync.page
      BY <1>11 DEF Rest
    <3> QED BY <1>1, <1>2, <3>1
  <2>2. ASSUME sync.page > 0, NEW q \in Existing \ sync.moved
        PROVE  \E j \in sync'.got : gh[q].at <= j.at
    <3>1. PICK j \in sync.got : gh[q].at <= j.at
      BY <1>11, <2>2 DEF Rest
    <3>2. CASE j = i
      BY <1>1, <3>1, <3>2
    <3>3. CASE j # i
      BY <1>1, <3>1, <3>3
    <3> QED BY <3>2, <3>3
  <2>3. ASSUME NEW p \in Tracked, gh[p].at > sync.since
        PROVE  \/ Awaited(p)'
               \/ sync.page * RestPage <= Rank(Existing, p)'
               \/ /\ Ahead(p)' /\ sync.page > 0
                  /\ {q \in Pulls : gh[q].at >= gh[p].at} \subseteq sync.moved
    <3>1. \/ Awaited(p)
          \/ sync.page * RestPage <= Rank(Existing, p)
          \/ /\ Ahead(p) /\ sync.page > 0
             /\ {q \in Pulls : gh[q].at >= gh[p].at} \subseteq sync.moved
      BY <1>11, <2>3 DEF Rest
    <3> QED BY <1>3, <1>4, <1>7, <1>8, <3>1
  <2>4. Cardinality(sync'.moved) < RestPage
    BY <1>1, <1>11 DEF Rest
  <2> QED BY <1>1, <1>3, <1>9, <1>11, <2>1, <2>2, <2>3, <2>4 DEF Graphql, Rest, Last, Work, Works
<1> QED BY <1>1, <1>10, <1>11

(* A page is done, or the listing breaks off: then what lies behind the     *)
(* cursor is missed, or, before any page, ahead of the watermark.           *)
LEMMA PagesEndWater ==
    ASSUME TypeInv, TypeInv', RestPageDone \/ GraphqlBreaksOff, Base, Graphql, Rest, Last
    PROVE  Base' /\ Graphql' /\ Rest' /\ Last' /\ Work'
<1>0. TypeOK /\ PhaseInv /\ TypeOK' /\ PhaseInv' /\ GotInv'
  BY DEF TypeInv
<1>1. /\ UNCHANGED <<clock, gh, ghRevs, gone, db, rollup, crowded, unread, lost>>
      /\ sync' \in Syncs /\ SummarySame /\ sync'.got = sync.got /\ sync.at \in Lists
      /\ sync'.batch = sync.batch
      /\ \/ /\ sync.at = "details" /\ sync'.at = "rest" /\ sync'.page = sync.page
            /\ sync'.moved = sync.moved /\ missed' = missed
         \/ sync.at = "last" /\ Ended /\ missed' = missed
         \/ /\ sync.at = "graphql" /\ Ended
            /\ missed' = missed \cup (IF sync.got = {} THEN {} ELSE Taken(After))
  BY <1>0, PagesEnd
<1>2. /\ gh' = gh /\ ghRevs' = ghRevs /\ db' = db /\ unread' = unread
      /\ sync'.since = sync.since
  BY <1>1 DEF SummarySame
<1>3. /\ Existing' = Existing /\ Tracked' \in SUBSET Tracked /\ Tracked \in SUBSET Existing
      /\ Existing \in SUBSET Pulls
      /\ \A p : ReviewsOf(p)' = ReviewsOf(p) /\ Place(p)' = Place(p)
  BY <1>1, <1>2 DEF Tracked, Existing, ReviewsOf, Place
<1>4. \A p : /\ Awaited(p)' = Awaited(p) /\ Ahead(p)' = Ahead(p)
             /\ Kept(p, db.facts)' = Kept(p, db.facts) /\ Rank(Existing, p)' = Rank(Existing, p)
  <2>1. \A j, p : Current(j, p)' = Current(j, p)
    BY <1>1, <1>2, <1>3 DEF Current
  <2> QED BY <1>1, <1>2, <1>3, <2>1 DEF Awaited, Ahead, Kept, Rank
<1>5. Base'
  BY <1>2, <1>3, <1>4 DEF Base
<1>6. CASE sync.at = "details"
  <2>1. /\ sync'.at = "rest" /\ sync'.page = sync.page /\ sync'.moved = sync.moved
    BY <1>1, <1>6
  <2>2. Rest'
    BY <1>1, <1>2, <1>3, <1>4, <1>6, <2>1 DEF Rest
  <2> QED BY <1>5, <2>1, <2>2 DEF Graphql, Last, Work, Works
<1>7. CASE sync.at # "details"
  <2>1. Ended /\ sync'.at = "pull"
    BY <1>1, <1>7 DEF Ended
  <2>2. ASSUME NEW p \in Tracked, gh[p].at <= sync.since PROVE Done(p)'
    <3>1. sync'.todo = {} /\ sync'.got \in SUBSET Infos
      BY <1>0, <1>1, <2>1 DEF PhaseInv, Syncs
    <3> QED BY <1>0, <1>2, <2>1, <2>2, <3>1, EndedDone
  <2>3. ASSUME NEW p \in Tracked', gh[p].at > sync.since PROVE Awaited(p) \/ Ahead(p)
    <3>1. CASE sync.at = "last"
      BY <1>3, <2>3, <3>1 DEF Last
    <3>2. CASE sync.at = "graphql"
      <4>1. CASE sync.got = {}
        BY <4>1 DEF Ahead
      <4>2. CASE sync.got # {}
        <5>1. p \in After => p \in missed'
          BY <1>1, <2>3, <3>2, <4>2 DEF Taken
        <5>2. p \notin After
          BY <5>1 DEF Tracked
        <5> QED BY <1>3, <2>3, <3>2, <5>2 DEF Graphql, After
      <4> QED BY <4>1, <4>2
    <3> QED BY <1>1, <1>7, <3>1, <3>2
  <2>4. ASSUME NEW p \in Tracked'
        PROVE  Awaited(p)' \/ Done(p)' \/ (Ahead(p)' /\ gh'[p].at > sync'.since)
    <3>1. p \in Tracked /\ gh[p].at \in Nat /\ sync.since \in Nat
      BY <1>3, Numbers
    <3>2. CASE gh[p].at <= sync.since
      BY <2>2, <3>1, <3>2
    <3>3. CASE gh[p].at > sync.since
      BY <1>2, <1>4, <2>3, <3>3
    <3> QED BY <3>1, <3>2, <3>3
  <2> QED BY <1>5, <2>1, <2>4 DEF Graphql, Rest, Last, Work
<1> QED BY <1>6, <1>7

(* A step that leaves alone what the invariant speaks of.                   *)
LEMMA OthersWater ==
    ASSUME UNCHANGED <<gh, ghRevs, crowded, unread, missed>>,
           db'.facts = db.facts, db'.synced = db.synced,
           sync'.since = sync.since, sync'.got = sync.got, sync'.batch = sync.batch,
           sync'.todo = sync.todo, sync'.work = sync.work,
           \/ /\ sync'.at = sync.at /\ sync'.before = sync.before
              /\ sync'.page = sync.page /\ sync'.moved = sync.moved
           \/ sync.at \in Works /\ sync'.at \in Works,
           WaterInv
    PROVE  WaterInv'
<1>1. /\ Tracked' = Tracked /\ Existing' = Existing
      /\ \A p : ReviewsOf(p)' = ReviewsOf(p) /\ Place(p)' = Place(p)
  BY DEF Tracked, Existing, ReviewsOf, Place
<1>2. \A j, p : Current(j, p)' = Current(j, p)
  BY <1>1 DEF Current
<1>3. \A p : /\ Awaited(p)' = Awaited(p) /\ Ahead(p)' = Ahead(p)
             /\ Rank(Existing, p)' = Rank(Existing, p)
  BY <1>1, <1>2 DEF Awaited, Ahead, Rank
<1>4. \A p : Done(p)' = Done(p)
  BY <1>1, <1>2 DEF Done, Kept
<1>5. Base => Base'
  BY <1>1 DEF Base, Kept
<1>6. Graphql => Graphql'
  BY <1>1, <1>3 DEF Graphql, Works
<1>7. Rest => Rest'
  BY <1>1, <1>3 DEF Rest, Works
<1>8. Last => Last'
  BY <1>1, <1>3 DEF Last, Works
<1>9. Work => Work'
  BY <1>1, <1>3, <1>4 DEF Work
<1> QED BY <1>5, <1>6, <1>7, <1>8, <1>9 DEF WaterInv

LEMMA WaterInductive == ASSUME TypeInv, TypeInv', WaterInv, [Next]_vars PROVE WaterInv'
<1>0. TypeOK /\ GitHubInv /\ PhaseInv
  BY DEF TypeInv
<1>1. ASSUME UNCHANGED vars \/ Tick \/ \E l \in Logins : CloseAccount(l) PROVE WaterInv'
  <2>1. UNCHANGED <<gh, ghRevs, db, sync, crowded, unread, missed>>
    BY <1>1 DEF vars, Tick, CloseAccount, ghosts
  <2> QED BY <2>1, OthersWater
<1>2. ASSUME NEW p \in Pulls, Update(p) PROVE WaterInv'
  BY <1>2, UpdateWater
<1>3. CASE GraphqlPage
  <2>1. crowded' = crowded
    BY <1>3 DEF GraphqlPage, ghosts
  <2> QED BY <1>3, <2>1, GraphqlWater DEF WaterInv
<1>4. CASE RestBatch
  <2>1. crowded' = crowded
    BY <1>4 DEF RestBatch, ghosts
  <2> QED BY <1>4, <2>1, RestWater DEF WaterInv
<1>5. CASE RestReviewsAnswered \/ RestReviewsFail
  <2>1. PICK i \in sync.batch : \E revs : DetailRead(i, revs)
    BY <1>0, <1>5, DetailReads
  <2>2. PICK revs : DetailRead(i, revs)
    BY <2>1
  <2>3. crowded' = crowded
    BY <2>2 DEF DetailRead
  <2> QED BY <2>2, <2>3, DetailWater DEF WaterInv
<1>6. CASE RestPageDone \/ GraphqlBreaksOff
  <2>1. crowded' = crowded
    BY <1>0, <1>6, PagesEnd
  <2> QED BY <1>6, <2>1, PagesEndWater DEF WaterInv
<1>7. CASE UpsertPull
  <2>1. PICK info \in sync.got : StoredPull(info)
    BY <1>0, <1>7, PullStored DEF PhaseInv
  <2>2. crowded' = crowded
    BY <2>1 DEF StoredPull, Storing
  <2> QED BY <2>1, <2>2, StoredPullWater DEF WaterInv
<1>8. CASE UpsertReview
  <2>1. PICK r \in sync.todo : StoredReview(r)
    BY <1>0, <1>8, ReviewStored DEF PhaseInv
  <2>2. crowded' = crowded
    BY <2>1 DEF StoredReview, Storing
  <2> QED BY <2>1, <2>2, StoredReviewWater DEF WaterInv
<1>9. CASE NextPull
  <2>1. /\ UNCHANGED <<gh, ghRevs, db, crowded, unread, missed>>
        /\ sync.at = "reviews" /\ sync'.at = "pull" /\ sync'.got = sync.got
        /\ sync'.batch = sync.batch /\ SummarySame /\ WorkSame
    BY <1>0, <1>9, PhaseSteps
  <2> QED BY <2>1, OthersWater DEF SummarySame, WorkSame, Works
<1>10. CASE CommitPulls
  <2>1. CommittedPulls
    BY <1>0, <1>10, PullsCommitted
  <2>2. crowded' = crowded
    BY <2>1 DEF CommittedPulls
  <2> QED BY <2>1, <2>2, CommittedWater DEF WaterInv
<1>11. CASE BeginListing \/ FallBackToRest
  <2>1. /\ Emptied("graphql", db.synced) \/ Emptied("rest", db.synced)
        /\ missed' = missed \/ missed' = {p \in missed : gh[p].at <= db.synced}
    BY <1>0, <1>11, ListingBegins
  <2>2. crowded' = crowded
    BY <2>1 DEF Emptied
  <2> QED BY <2>1, <2>2, EmptiedWater DEF WaterInv
<1>12. CASE Recompute \/ SyncFails
  <2>1. Emptied("idle", 0) /\ missed' = missed
    BY <1>0, <1>12, SyncEnds
  <2>2. crowded' = crowded
    BY <2>1 DEF Emptied
  <2> QED BY <2>1, <2>2, EmptiedWater DEF WaterInv
<1>13. CASE MergePersons \/ UnmergeIdentity
  <2>1. PICK S, b : Rehomed(S, b)
    BY <1>0, <1>13, PersonsMove
  <2> QED BY <2>1, OthersWater DEF Rehomed, ListSame, WorkSame
<1>14. CASE Next
  <2>1. ASSUME NEW p \in Pulls, OpenPull(p) \/ MergePull(p) PROVE WaterInv'
    BY <1>0, <1>2, <2>1, ChangesUpdate
  <2>2. ASSUME NEW r \in Reviews, SubmitReview(r) PROVE WaterInv'
    BY <1>0, <1>2, <2>2, ReviewUpdates
  <2> QED BY <1>1, <1>3, <1>4, <1>5, <1>6, <1>7, <1>8, <1>9, <1>10, <1>11, <1>12, <1>13,
             <1>14, <2>1, <2>2 DEF Next
<1> QED BY <1>1, <1>14

(* What the watermark has passed is stored, of whatever page it was and     *)
(* however GitHub changed while the pages were read: except an update of a  *)
(* second that a listing had seen one of, what a listing that broke off     *)
(* after a page did not come to, reviews past the first page or that GitHub *)
(* did not answer for, and, by REST, where a full page of pull requests     *)
(* changed meanwhile.                                                       *)
THEOREM WatermarkHolds == Spec => []WatermarkCovers
<1>1. TypeInv /\ WaterInv => WatermarkCovers
  <2> SUFFICES ASSUME TypeInv, Base, NEW p \in Pulls \ missed, Behind(p)
               PROVE  /\ ~Outdated(p)
                      /\ \A r \in Shown(p) : ~Missing(r)
    BY DEF WaterInv, WatermarkCovers
  <2>1. CASE p \in Existing
    <3>1. Kept(p, db.facts)
      BY <2>1 DEF Base, Tracked, Behind
    <3> QED BY <3>1 DEF Kept, Outdated, Missing, ReviewsOf, Shown
  <2>2. CASE p \notin Existing
    <3>1. gh[p].state = "none" /\ \A r \in ghRevs : PullOf[r] # p
      BY <2>2 DEF Existing, TypeInv, GitHubInv
    <3> QED BY <3>1 DEF Outdated, Missing, Shown
  <2> QED BY <2>1, <2>2
<1>2. Spec => []WaterInv
  BY TypeInit, TypeInductive, WaterInit, WaterInductive, TypesHold, PTL DEF Spec
<1> QED BY <1>1, <1>2, TypesHold, PTL
=============================================================================
