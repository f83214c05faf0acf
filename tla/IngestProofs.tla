---------------------------- MODULE IngestProofs ----------------------------
(* Proofs about Ingest, for any branches, authors and persons and any       *)
(* number of failures and edits.                                            *)
EXTENDS Ingest, FiniteSetTheorems, WellFoundedInduction, TLAPS

(* What a session knows of its branch: the positions it has walked past     *)
(* are stored or pending with it, those it skips as known among them, and   *)
(* its deltas are written only when it has come to the end.                 *)
Walked(s, saved) ==
    /\ {"at", "pos", "upto", "known", "pending"} \subseteq DOMAIN s
    /\ s.at \in {"idle", "insert", "applied"}
    /\ s.pos \in Nat /\ s.upto \in Nat
    /\ s.at # "idle" => s.known \subseteq saved /\ 1..s.pos \subseteq saved \cup s.pending
    /\ s.at = "applied" => s.pos = s.upto

IngestInv ==
    /\ tip \in [Repos -> Nat] /\ cursor \in [Repos -> Nat]
    /\ DOMAIN stored = Repos /\ DOMAIN ing = Repos
    /\ \A r \in Repos : Walked(ing[r], stored[r])
    /\ CursorCovered

(* A session that starts over is at rest.                                   *)
LEMMA IdleWalked == ASSUME NEW saved PROVE Walked(Idle, saved)
BY DEF Walked, Idle

(* One more position walked: what was pending is kept, or saved half-way.   *)
LEMMA WalksOn ==
    ASSUME NEW s, NEW saved, Walked(s, saved), s.at = "insert", NEW i, NEW p
    PROVE  /\ Walked(WithCommit(s, s.pos + 1, i, p), saved)
           /\ Walked(WithCommit([s EXCEPT !.pending = {}], s.pos + 1, i, p),
                     saved \cup s.pending)
<1>1. 1..(s.pos + 1) = (1..s.pos) \cup {s.pos + 1}
  BY DEF Walked
<1>2. ASSUME NEW t, NEW kept, {"at", "pos", "upto", "known", "pending"} \subseteq DOMAIN t,
             t.at = "insert", t.upto \in Nat, t.known \subseteq kept,
             1..s.pos \subseteq kept \cup t.pending
      PROVE  Walked(WithCommit(t, s.pos + 1, i, p), kept)
  <2> DEFINE w == WithCommit(t, s.pos + 1, i, p)
  <2>1. /\ DOMAIN w = DOMAIN t /\ w.at = "insert" /\ w.pos = s.pos + 1
        /\ w.upto = t.upto /\ w.known = t.known
        /\ w.pending = t.pending \cup {s.pos + 1}
    BY <1>2 DEF WithCommit
  <2>2. s.pos + 1 \in Nat
    BY DEF Walked
  <2> HIDE DEF w
  <2>3. Walked(w, kept)
    BY <1>1, <1>2, <2>1, <2>2 DEF Walked
  <2> QED BY <2>3 DEF w
<1>3. Walked(WithCommit(s, s.pos + 1, i, p), saved)
  BY <1>2 DEF Walked
<1>4. Walked(WithCommit([s EXCEPT !.pending = {}], s.pos + 1, i, p), saved \cup s.pending)
  <2> DEFINE t == [s EXCEPT !.pending = {}]
  <2>1. /\ DOMAIN t = DOMAIN s /\ t.at = "insert" /\ t.upto = s.upto
        /\ t.known = s.known /\ t.pending = {}
    BY DEF Walked
  <2> HIDE DEF t
  <2>2. Walked(WithCommit(t, s.pos + 1, i, p), saved \cup s.pending)
    BY <1>2, <2>1 DEF Walked
  <2> QED BY <2>2 DEF t
<1> QED BY <1>3, <1>4

(* Every session keeps to it, and the cursor follows only a session that    *)
(* has walked to its end.                                                   *)
LEMMA IngestInductive == IngestInv /\ [Next]_vars => IngestInv'
<1> SUFFICES ASSUME IngestInv, [Next]_vars PROVE IngestInv'
  OBVIOUS
<1> USE DEF IngestInv, CursorCovered, dbVars, bounds
<1>1. ASSUME NEW r \in Repos, Push(r) PROVE IngestInv'
  <2>1. PICK n \in (tip[r] + 1)..Len(Log[r]) : tip' = [tip EXCEPT ![r] = n]
    BY <1>1 DEF Push
  <2>2. n \in Nat
    BY <2>1, LogAssumption
  <2>3. tip' \in [Repos -> Nat]
    BY <2>1, <2>2
  <2> QED BY <1>1, <2>3 DEF Push
<1>2. ASSUME NEW r \in Repos, BeginIngest(r) PROVE IngestInv'
  <2> DEFINE s == [Idle EXCEPT
          !.at = "insert", !.pos = cursor[r], !.upto = tip[r], !.known = stored[r]]
  <2>1. Walked(s, stored[r])
    BY DEF Walked, Idle
  <2> HIDE DEF s
  <2>2. ing' = [ing EXCEPT ![r] = s] /\ UNCHANGED <<tip, cursor, stored>>
    BY <1>2 DEF BeginIngest, s
  <2> QED BY <2>1, <2>2
<1>3. ASSUME NEW r \in Repos, SkipKnown(r) PROVE IngestInv'
  <2> DEFINE s == [ing[r] EXCEPT !.pos = @ + 1]
  <2>1. ing' = [ing EXCEPT ![r] = s] /\ UNCHANGED <<tip, cursor, stored>>
    BY <1>3 DEF SkipKnown
  <2>2. /\ Walked(ing[r], stored[r]) /\ ing[r].at = "insert"
        /\ ing[r].pos + 1 \in ing[r].known
    BY <1>3 DEF SkipKnown
  <2>3. 1..(ing[r].pos + 1) = (1..ing[r].pos) \cup {ing[r].pos + 1}
    BY <2>2 DEF Walked
  <2>4. /\ DOMAIN s = DOMAIN ing[r] /\ s.at = "insert" /\ s.pos = ing[r].pos + 1
        /\ s.upto = ing[r].upto /\ s.known = ing[r].known /\ s.pending = ing[r].pending
    BY <2>2 DEF Walked
  <2> HIDE DEF s
  <2>5. Walked(s, stored[r])
    BY <2>2, <2>3, <2>4 DEF Walked
  <2> QED BY <2>1, <2>5
<1>4. ASSUME NEW r \in Repos, InsertKnownAuthor(r) PROVE IngestInv'
  <2> DEFINE i == Log[r][ing[r].pos + 1]
             p == IF ing[r].cache[i] # NoPerson THEN ing[r].cache[i] ELSE owner[i]
             s == WithCommit(ing[r], ing[r].pos + 1, i, p)
  <2>1. /\ ing' = [ing EXCEPT ![r] = s] /\ UNCHANGED <<tip, cursor, stored>>
        /\ ing[r].at = "insert"
    BY <1>4 DEF InsertKnownAuthor
  <2>2. Walked(s, stored[r])
    BY <2>1, WalksOn
  <2> HIDE DEF s
  <2> QED BY <2>1, <2>2
<1>5. ASSUME NEW r \in Repos, InsertNewAuthor(r) PROVE IngestInv'
  <2> DEFINE i == Log[r][ing[r].pos + 1]
             s == WithCommit([ing[r] EXCEPT !.pending = {}], ing[r].pos + 1, i, NextPerson)
             more == stored[r] \cup ing[r].pending
  <2>1. /\ ing' = [ing EXCEPT ![r] = s] /\ UNCHANGED <<tip, cursor>>
        /\ stored' = [stored EXCEPT ![r] = more]
        /\ ing[r].at = "insert"
    BY <1>5 DEF InsertNewAuthor
  <2>2. Walked(s, more)
    BY <2>1, WalksOn
  <2>3. stored[r] \subseteq more
    OBVIOUS
  <2> HIDE DEF s, more
  <2> QED BY <2>1, <2>2, <2>3
<1>6. ASSUME NEW r \in Repos, ApplyDeltas(r) PROVE IngestInv'
  <2> DEFINE s == [ing[r] EXCEPT !.at = "applied"]
  <2>1. /\ ing' = [ing EXCEPT ![r] = s] /\ UNCHANGED <<tip, cursor, stored>>
        /\ ing[r].at = "insert" /\ ing[r].pos = ing[r].upto
    BY <1>6 DEF ApplyDeltas
  <2>2. Walked(s, stored[r])
    BY <2>1 DEF Walked
  <2> HIDE DEF s
  <2> QED BY <2>1, <2>2
<1>7. ASSUME NEW r \in Repos, ApplyToGone(r) \/ IngestFails(r) PROVE IngestInv'
  <2>1. ing' = [ing EXCEPT ![r] = Idle] /\ UNCHANGED <<tip, cursor, stored>>
    BY <1>7 DEF ApplyToGone, IngestFails
  <2> QED BY <2>1, IdleWalked
<1>8. ASSUME NEW r \in Repos, CommitIngest(r) PROVE IngestInv'
  <2> DEFINE more == stored[r] \cup ing[r].pending
  <2>1. /\ ing' = [ing EXCEPT ![r] = Idle] /\ UNCHANGED tip
        /\ stored' = [stored EXCEPT ![r] = more]
        /\ cursor' = [cursor EXCEPT ![r] = ing[r].upto]
        /\ ing[r].at = "applied"
    BY <1>8 DEF CommitIngest
  <2>2. 1..ing[r].upto \subseteq more /\ ing[r].upto \in Nat
    BY <2>1 DEF Walked
  <2> HIDE DEF more
  <2> QED BY <2>1, <2>2, IdleWalked
<1>9. ASSUME NEW e \in Editors, EditStep(e) PROVE IngestInv'
  <2>1. UNCHANGED <<tip, cursor, stored, ing>>
    BY <1>9 DEF EditStep, BeginMerge, BeginUnmerge, BeginRecompute, CommitEdit
  <2> QED BY <2>1
<1>10. CASE UNCHANGED vars
  BY <1>10 DEF vars
<1> QED
  BY <1>1, <1>2, <1>3, <1>4, <1>5, <1>6, <1>7, <1>8, <1>9, <1>10 DEF Next, IngestStep

(* The cursor never passes a commit that is not stored, wherever an ingest  *)
(* fails, half committed or not, and whatever edits run next to it.         *)
THEOREM CursorIsCovered == Spec => []CursorCovered
<1>1. Init => IngestInv
  BY IdleWalked DEF Init, IngestInv, CursorCovered
<1>2. IngestInv => CursorCovered
  BY DEF IngestInv
<1> QED BY <1>1, <1>2, IngestInductive, PTL DEF Spec

----------------------------------------------------------------------------
(* Constants and helpers.                                                   *)

LEMMA BranchLength ==
    ASSUME NEW r \in Repos
    PROVE  /\ Len(Log[r]) \in Nat
           /\ 1..Len(Log[r]) \subseteq Positions
           /\ \A c \in 1..Len(Log[r]) : Log[r][c] \in Idents
<1>1. Log[r] \in Seq(Idents)
  BY LogAssumption
<1> QED BY <1>1 DEF Positions

LEMMA PositionsFinite == IsFiniteSet(Positions)
<1> DEFINE S == {1..Len(Log[r]) : r \in Repos}
           f == [r \in Repos |-> 1..Len(Log[r])]
<1>1. f \in Surjection(Repos, S)
  BY DEF Surjection
<1>2. IsFiniteSet(S)
  BY <1>1, FS_Surjection, ReposAssumption
<1>3. ASSUME NEW T \in S PROVE IsFiniteSet(T)
  <2>1. PICK r \in Repos : T = 1..Len(Log[r])
    OBVIOUS
  <2>2. Len(Log[r]) \in Int /\ 1 \in Int
    BY BranchLength
  <2> QED BY <2>1, <2>2, FS_Interval
<1> HIDE DEF S
<1>4. IsFiniteSet(UNION S)
  BY <1>2, <1>3, FS_UNION
<1> QED BY <1>4 DEF Positions, S

LEMMA BranchCount ==
    ASSUME NEW r \in Repos, NEW T \in SUBSET (1..Len(Log[r]))
    PROVE  /\ IsFiniteSet(T) /\ Cardinality(T) \in Nat
           /\ Cardinality(T) \in 0..Cardinality(Positions)
<1>1. T \in SUBSET Positions
  BY BranchLength
<1>2. IsFiniteSet(T) /\ Cardinality(T) <= Cardinality(Positions)
  BY <1>1, PositionsFinite, FS_Subset
<1>3. Cardinality(T) \in Nat /\ Cardinality(Positions) \in Nat
  BY <1>2, PositionsFinite, FS_CardinalityType
<1> QED BY <1>2, <1>3

(* The sequence hands out an id that nobody has.                            *)
LEMMA NextPersonIsNew ==
    ASSUME used \subseteq Persons, Persons # used
    PROVE  NextPerson \in Persons \ used
<1> DEFINE S == Persons \ used
<1>1. S \subseteq Nat /\ S # {}
  BY PersonsAssumption
<1> DEFINE T == {0..n : n \in S}
           R == StrictSubsetOrdering(Nat)
<1>2. T \subseteq FiniteSubsetsOf(Nat)
  <2> SUFFICES ASSUME NEW n \in S PROVE 0..n \in SUBSET Nat /\ IsFiniteSet(0..n)
    BY DEF FiniteSubsetsOf
  <2>1. n \in Int /\ 0 \in Int
    BY <1>1
  <2> QED BY <2>1, FS_Interval
<1>3. \E x \in T : \A y \in T : ~ (<<y, x>> \in R)
  <2>1. IsWellFoundedOn(R, FiniteSubsetsOf(Nat))
    BY FS_StrictSubsetOrderingWellFounded
  <2>2. T # {}
    BY <1>1
  <2> HIDE DEF T, R
  <2> QED BY <1>2, <2>1, <2>2, WFMin
<1>4. PICK m \in S : \A n \in S : ~ (<<0..n, 0..m>> \in R)
  BY <1>3
<1>5. ASSUME NEW n \in S, ~ m <= n PROVE FALSE
  <2>1. 0..n \in SUBSET Nat /\ 0..m \in SUBSET Nat /\ 0..n \subseteq 0..m /\ 0..n # 0..m
    <3>1. n \in Nat /\ m \in Nat /\ n < m
      BY <1>1, <1>5
    <3>2. m \in 0..m /\ m \notin 0..n
      BY <3>1
    <3> QED BY <3>1, <3>2
  <2> QED BY <1>4, <2>1 DEF StrictSubsetOrdering
<1> QED BY <1>5 DEF NextPerson, Min

----------------------------------------------------------------------------
(* What a session adds up.                                                  *)

Sessions ==
    [at : {"idle", "insert", "applied"}, pos : Nat, upto : Nat,
     known : SUBSET Positions, pending : SUBSET Positions,
     cache : [Idents -> Persons \cup {NoPerson}], delta : Counts]

(* The commits a session has inserted, and those it credits to p.           *)
Fresh(s) == (1..s.pos) \ s.known
Credit(s, r, p) == {c \in Fresh(s) : s.cache[Log[r][c]] = p}

(* Each of them is credited, and a delta counts what its person gets.       *)
SessionAdds(s, r) ==
    /\ s.pos <= s.upto /\ s.upto <= Len(Log[r])
    /\ \A c \in Fresh(s) : s.cache[Log[r][c]] # NoPerson
    /\ \A p \in Persons : s.delta[p] = Cardinality(Credit(s, r, p))

LEMMA NoCommits ==
    /\ IsFiniteSet(Positions) /\ 0 \in 0..Cardinality(Positions)
    /\ Idle \in Sessions
<1>1. Cardinality(Positions) \in Nat
  BY PositionsFinite, FS_CardinalityType
<1> QED BY <1>1, PositionsFinite DEF Idle, Sessions, Counts

(* One more commit, written by i and credited to the person i is known as.  *)
LEMMA CommitAdds ==
    ASSUME NEW r \in Repos, NEW s \in Sessions, SessionAdds(s, r), s.pos < s.upto,
           s.pos + 1 \notin s.known, NEW p \in Persons,
           s.cache[Log[r][s.pos + 1]] \in {NoPerson, p}
    PROVE  /\ WithCommit(s, s.pos + 1, Log[r][s.pos + 1], p) \in Sessions
           /\ SessionAdds(WithCommit(s, s.pos + 1, Log[r][s.pos + 1], p), r)
<1> DEFINE c == s.pos + 1
           i == Log[r][c]
           w == WithCommit(s, c, i, p)
<1>1. /\ c \in Nat /\ s.upto \in Nat /\ c <= s.upto /\ s.upto <= Len(Log[r])
      /\ Len(Log[r]) \in Nat
  BY BranchLength DEF Sessions, SessionAdds
<1>2. c \in 1..Len(Log[r]) /\ i \in Idents /\ c \in Positions
  BY <1>1, BranchLength DEF Sessions
<1>3. 1..c = (1..s.pos) \cup {c} /\ c \notin 1..s.pos /\ 1..c \subseteq 1..Len(Log[r])
  BY <1>1 DEF Sessions
<1>4. /\ w.pos = c /\ w.at = s.at /\ w.upto = s.upto /\ w.known = s.known
      /\ w.pending = s.pending \cup {c} /\ w.cache = [s.cache EXCEPT ![i] = p]
      /\ w.delta = [s.delta EXCEPT ![p] = @ + 1]
      /\ DOMAIN w = DOMAIN s
  BY DEF WithCommit, Sessions
<1>5. w = [s EXCEPT !.pos = c, !.pending = @ \cup {c},
                    !.cache = [s.cache EXCEPT ![i] = p],
                    !.delta = [s.delta EXCEPT ![p] = @ + 1]]
  BY DEF WithCommit, Sessions
<1> HIDE DEF w
<1>6. c \notin s.known /\ s.cache[i] \in {NoPerson, p} /\ i = Log[r][c]
  OBVIOUS
<1> HIDE DEF c, i
<1>7. Fresh(w) = Fresh(s) \cup {c} /\ c \notin Fresh(s)
  BY <1>3, <1>4, <1>6 DEF Fresh
<1>8. \A d \in Fresh(s) : Log[r][d] = i => s.cache[i] = p
  BY <1>6 DEF SessionAdds
<1>9. \A d \in Fresh(s) : Log[r][d] \in Idents
  BY <1>3, BranchLength DEF Fresh
<1>10. ASSUME NEW d \in Fresh(s) PROVE w.cache[Log[r][d]] = s.cache[Log[r][d]]
  <2> DEFINE j == Log[r][d]
  <2>1. j \in Idents /\ (j = i => s.cache[i] = p)
    BY <1>8, <1>9
  <2>2. DOMAIN s.cache = Idents
    BY DEF Sessions
  <2> HIDE DEF j
  <2>3. w.cache[j] = s.cache[j]
    BY <1>4, <2>1, <2>2
  <2> QED BY <2>3 DEF j
<1>11. w.cache[Log[r][c]] = p
  BY <1>2, <1>4, <1>6 DEF Sessions
<1>12. \A q \in Persons \ {p} : Credit(w, r, q) = Credit(s, r, q)
  BY <1>7, <1>10, <1>11 DEF Credit
<1>13. Credit(w, r, p) = Credit(s, r, p) \cup {c} /\ c \notin Credit(s, r, p)
  BY <1>7, <1>10, <1>11 DEF Credit
<1>14. \A q \in Persons : Credit(w, r, q) \in SUBSET (1..Len(Log[r]))
  BY <1>3, <1>4 DEF Credit, Fresh
<1>15. Credit(s, r, p) \in SUBSET (1..Len(Log[r]))
  BY <1>3 DEF Credit, Fresh
<1>16. Cardinality(Credit(w, r, p)) = Cardinality(Credit(s, r, p)) + 1
  <2>1. IsFiniteSet(Credit(s, r, p))
    BY <1>15, BranchCount
  <2> QED BY <1>13, <2>1, FS_AddElement
<1>17. \A q \in Persons : w.delta[q] = Cardinality(Credit(w, r, q))
  <2>1. s.delta \in [Persons -> 0..Cardinality(Positions)]
    BY DEF Sessions, Counts
  <2>2. \A q \in Persons : s.delta[q] = Cardinality(Credit(s, r, q))
    BY DEF SessionAdds
  <2> QED BY <1>4, <1>12, <1>16, <2>1, <2>2
<1>18. w.delta \in Counts
  <2>1. DOMAIN w.delta = Persons /\ w.delta = [q \in Persons |-> w.delta[q]]
    BY <1>4 DEF Sessions, Counts
  <2>2. \A q \in Persons : w.delta[q] \in 0..Cardinality(Positions)
    BY <1>14, <1>17, BranchCount
  <2> QED BY <2>1, <2>2 DEF Counts
<1>19. w \in Sessions
  <2> DEFINE cache == [s.cache EXCEPT ![i] = p]
             delta == [s.delta EXCEPT ![p] = @ + 1]
  <2>1. cache \in [Idents -> Persons \cup {NoPerson}]
    BY DEF Sessions
  <2>2. delta \in Counts
    BY <1>4, <1>18
  <2>3. w = [s EXCEPT !.pos = c, !.pending = @ \cup {c}, !.cache = cache, !.delta = delta]
    BY <1>5
  <2> HIDE DEF cache, delta
  <2> QED BY <1>1, <1>2, <2>1, <2>2, <2>3 DEF Sessions
<1>20. SessionAdds(w, r)
  <2>1. \A d \in Fresh(w) : w.cache[Log[r][d]] # NoPerson
    BY <1>7, <1>10, <1>11, NoPersonAssumption DEF SessionAdds
  <2> QED BY <1>1, <1>4, <1>17, <2>1 DEF SessionAdds
<1> QED BY <1>19, <1>20 DEF w, c, i

(* A known commit is passed by.                                             *)
LEMMA SkipAdds ==
    ASSUME NEW r \in Repos, NEW s \in Sessions, SessionAdds(s, r), s.pos < s.upto,
           s.pos + 1 \in s.known
    PROVE  /\ [s EXCEPT !.pos = @ + 1] \in Sessions
           /\ SessionAdds([s EXCEPT !.pos = @ + 1], r)
<1> DEFINE w == [s EXCEPT !.pos = @ + 1]
<1>1. /\ w \in Sessions /\ w.pos = s.pos + 1 /\ w.upto = s.upto /\ w.known = s.known
      /\ w.cache = s.cache /\ w.delta = s.delta
  BY DEF Sessions
<1>2. 1..(s.pos + 1) = (1..s.pos) \cup {s.pos + 1}
  BY DEF Sessions
<1> HIDE DEF w
<1>3. Fresh(w) = Fresh(s)
  BY <1>1, <1>2 DEF Fresh
<1>4. SessionAdds(w, r)
  BY <1>1, <1>3 DEF SessionAdds, Credit, Sessions
<1> QED BY <1>1, <1>4 DEF w

(* A session that has just begun.                                           *)
LEMMA BeginAdds ==
    ASSUME NEW r \in Repos, NEW from \in Nat, NEW upto \in Nat, NEW known \in SUBSET Positions,
           from <= upto, upto <= Len(Log[r]), 1..from \subseteq known
    PROVE  LET s == [Idle EXCEPT !.at = "insert", !.pos = from, !.upto = upto,
                                 !.known = known]
           IN  s \in Sessions /\ SessionAdds(s, r)
<1> DEFINE s == [Idle EXCEPT !.at = "insert", !.pos = from, !.upto = upto, !.known = known]
<1>1. s \in Sessions
  BY NoCommits DEF Idle, Sessions
<1>2. /\ s.pos = from /\ s.upto = upto /\ s.known = known
      /\ s.delta = [p \in Persons |-> 0]
  BY DEF Idle
<1> HIDE DEF s
<1>3. Fresh(s) = {}
  BY <1>2 DEF Fresh
<1>4. \A p \in Persons : Credit(s, r, p) = {}
  BY <1>3 DEF Credit
<1>5. SessionAdds(s, r)
  BY <1>2, <1>3, <1>4, FS_EmptySet DEF SessionAdds
<1> QED BY <1>1, <1>5 DEF s

----------------------------------------------------------------------------
(* The types.  A session has inserted what it has walked past and not found *)
(* known, and knows its authors by persons the sequence has handed out; an  *)
(* edit works on persons of its own, and takes along every identity of a    *)
(* person it removes.                                                       *)

SessionOpen(s, r, saved, persons, n) ==
    s.at # "idle" =>
        /\ SessionAdds(s, r)
        /\ s.upto <= n
        /\ s.known \subseteq saved
        /\ saved \cup s.pending = s.known \cup 1..s.pos
        /\ \A i \in Idents : s.cache[i] \in persons \cup {NoPerson}
        /\ s.at = "applied" => s.pos = s.upto

SessionsInv ==
    \A r \in Repos :
        /\ stored[r] \subseteq 1..tip[r]
        /\ SessionOpen(ing[r], r, stored[r], used, tip[r])

OpenEdits ==
    [open : BOOLEAN, moved : SUBSET Idents, to : Persons \cup {NoPerson},
     gone : SUBSET Persons, rebuilt : SUBSET Persons, held : SUBSET (Persons \X Repos),
     snap : [Persons \X Repos -> Nat]]

Touched(e) == edit[e].gone \cup edit[e].rebuilt

EditsInv ==
    \A e \in Editors : edit[e].open =>
        /\ Touched(e) \subseteq used
        /\ edit[e].to \notin edit[e].gone
        /\ edit[e].to # NoPerson => edit[e].to \in edit[e].rebuilt
        /\ \A i \in edit[e].moved : edit[e].to # NoPerson /\ owner[i] \in Touched(e)
        /\ \A i \in Idents : owner[i] \in edit[e].gone => i \in edit[e].moved
        /\ \A f \in Editors \ {e} : edit[f].open => Touched(e) \cap Touched(f) = {}

(* A step of one session, which may save commits.                           *)
LEMMA SessionMoves ==
    ASSUME TypeOK, SessionsInv, NEW r \in Repos, NEW s \in Sessions,
           NEW saved \in SUBSET Positions,
           ing' = [ing EXCEPT ![r] = s], stored' = [stored EXCEPT ![r] = saved],
           UNCHANGED tip, used \subseteq used',
           saved \subseteq 1..tip[r], SessionOpen(s, r, saved, used', tip[r])
    PROVE  /\ ing' \in [Repos -> Sessions] /\ stored' \in [Repos -> SUBSET Positions]
           /\ SessionsInv'
<1>1. ing \in [Repos -> Sessions] /\ stored \in [Repos -> SUBSET Positions]
  BY DEF TypeOK, Sessions
<1>2. ing' \in [Repos -> Sessions] /\ stored' \in [Repos -> SUBSET Positions]
  BY <1>1
<1>3. ASSUME NEW q \in Repos
      PROVE  /\ stored'[q] \subseteq 1..tip'[q]
             /\ SessionOpen(ing'[q], q, stored'[q], used', tip'[q])
  <2>1. CASE q = r
    BY <1>1, <2>1
  <2>2. CASE q # r
    <3>1. ing'[q] = ing[q] /\ stored'[q] = stored[q] /\ tip'[q] = tip[q]
      BY <1>1, <2>2
    <3>2. SessionOpen(ing[q], q, stored[q], used', tip[q])
      BY DEF SessionsInv, SessionOpen
    <3> QED BY <3>1, <3>2 DEF SessionsInv
  <2> QED BY <2>1, <2>2
<1> QED BY <1>2, <1>3 DEF SessionsInv

LEMMA IdleMoves ==
    ASSUME TypeOK, SessionsInv, NEW r \in Repos, NEW saved \in SUBSET Positions,
           ing' = [ing EXCEPT ![r] = Idle], stored' = [stored EXCEPT ![r] = saved],
           UNCHANGED <<tip, used>>, saved \subseteq 1..tip[r]
    PROVE  /\ ing' \in [Repos -> Sessions] /\ stored' \in [Repos -> SUBSET Positions]
           /\ SessionsInv'
BY NoCommits, SessionMoves DEF SessionOpen, Idle

LEMMA OldStored ==
    ASSUME TypeOK, NEW r \in Repos
    PROVE  stored = [stored EXCEPT ![r] = stored[r]]
BY DEF TypeOK

(* The steps of a session.                                                  *)
LEMMA SessionTypes ==
    ASSUME TypeOK, SessionsInv, CursorCovered, NEW r \in Repos, IngestStep(r) \/ IngestFails(r)
    PROVE  /\ ing' \in [Repos -> Sessions] /\ stored' \in [Repos -> SUBSET Positions]
           /\ SessionsInv'
<1> USE DEF dbVars, bounds
<1>0. /\ ing[r] \in Sessions /\ stored[r] \in SUBSET Positions
      /\ stored[r] \subseteq 1..tip[r] /\ SessionOpen(ing[r], r, stored[r], used, tip[r])
      /\ cursor[r] \in Nat /\ tip[r] \in Nat /\ cursor[r] <= tip[r]
      /\ tip[r] <= Len(Log[r]) /\ Len(Log[r]) \in Nat
  BY BranchLength DEF TypeOK, SessionsInv, Sessions
<1>1. CASE BeginIngest(r)
  <2> DEFINE s == [Idle EXCEPT !.at = "insert", !.pos = cursor[r], !.upto = tip[r],
                               !.known = stored[r]]
  <2>1. 1..cursor[r] \subseteq stored[r]
    BY DEF CursorCovered
  <2>2. s \in Sessions /\ SessionAdds(s, r)
    BY <1>0, <2>1, BeginAdds
  <2>3. /\ s.pos = cursor[r] /\ s.upto = tip[r] /\ s.known = stored[r] /\ s.pending = {}
        /\ s.at = "insert" /\ s.cache = [i \in Idents |-> NoPerson]
    BY DEF Idle
  <2>4. ing' = [ing EXCEPT ![r] = s] /\ UNCHANGED <<stored, tip, used>>
    BY <1>1 DEF BeginIngest
  <2> HIDE DEF s
  <2>5. SessionOpen(s, r, stored[r], used', tip[r])
    BY <1>0, <2>1, <2>2, <2>3 DEF SessionOpen
  <2> QED BY <1>0, <2>2, <2>4, <2>5, OldStored, SessionMoves
<1>2. CASE SkipKnown(r)
  <2> DEFINE s == [ing[r] EXCEPT !.pos = @ + 1]
  <2>1. /\ ing' = [ing EXCEPT ![r] = s] /\ UNCHANGED <<stored, tip, used>>
        /\ ing[r].at = "insert" /\ ing[r].pos < ing[r].upto
        /\ ing[r].pos + 1 \in ing[r].known
    BY <1>2 DEF SkipKnown
  <2>2. s \in Sessions /\ SessionAdds(s, r)
    BY <1>0, <2>1, SkipAdds DEF SessionOpen
  <2>3. /\ s.at = "insert" /\ s.pos = ing[r].pos + 1 /\ s.upto = ing[r].upto
        /\ s.known = ing[r].known /\ s.pending = ing[r].pending /\ s.cache = ing[r].cache
    BY <1>0, <2>1 DEF Sessions
  <2>4. 1..(ing[r].pos + 1) = (1..ing[r].pos) \cup {ing[r].pos + 1}
    BY <1>0 DEF Sessions
  <2> HIDE DEF s
  <2>5. SessionOpen(s, r, stored[r], used', tip[r])
    BY <1>0, <2>1, <2>2, <2>3, <2>4 DEF SessionOpen
  <2> QED BY <1>0, <2>1, <2>2, <2>5, OldStored, SessionMoves
<1>3. CASE InsertKnownAuthor(r)
  <2> DEFINE i == Log[r][ing[r].pos + 1]
             p == IF ing[r].cache[i] # NoPerson THEN ing[r].cache[i] ELSE owner[i]
             s == WithCommit(ing[r], ing[r].pos + 1, i, p)
  <2>1. /\ ing' = [ing EXCEPT ![r] = s] /\ UNCHANGED <<stored, tip, used>>
        /\ ing[r].at = "insert" /\ ing[r].pos < ing[r].upto
        /\ ing[r].pos + 1 \notin ing[r].known /\ p # NoPerson
    BY <1>3 DEF InsertKnownAuthor
  <2>2. SessionAdds(ing[r], r)
    BY <1>0, <2>1 DEF SessionOpen
  <2>3. i \in Idents
    <3>1. ing[r].pos \in Nat /\ ing[r].upto \in Nat
      BY <1>0 DEF Sessions
    <3>2. ing[r].pos + 1 \in 1..Len(Log[r])
      BY <2>1, <2>2, <3>1, BranchLength DEF SessionAdds
    <3> QED BY <3>2, BranchLength
  <2>4. p \in used /\ used \subseteq Persons /\ ing[r].cache[i] \in {NoPerson, p}
    BY <1>0, <2>1, <2>3 DEF SessionOpen, TypeOK
  <2>5. s \in Sessions /\ SessionAdds(s, r)
    BY <1>0, <2>1, <2>2, <2>4, CommitAdds
  <2>6. /\ s.at = "insert" /\ s.pos = ing[r].pos + 1 /\ s.upto = ing[r].upto
        /\ s.known = ing[r].known /\ s.pending = ing[r].pending \cup {ing[r].pos + 1}
        /\ s.cache = [ing[r].cache EXCEPT ![i] = p]
    BY <1>0, <2>1 DEF WithCommit, Sessions
  <2>7. 1..(ing[r].pos + 1) = (1..ing[r].pos) \cup {ing[r].pos + 1}
    BY <1>0 DEF Sessions
  <2>8. \A j \in Idents : s.cache[j] \in used \cup {NoPerson}
    BY <1>0, <2>1, <2>4, <2>6 DEF SessionOpen, Sessions
  <2> HIDE DEF s
  <2>9. SessionOpen(s, r, stored[r], used', tip[r])
    BY <1>0, <2>1, <2>5, <2>6, <2>7, <2>8 DEF SessionOpen
  <2> QED BY <1>0, <2>1, <2>5, <2>9, OldStored, SessionMoves
<1>4. CASE InsertNewAuthor(r)
  <2> DEFINE i == Log[r][ing[r].pos + 1]
             p == NextPerson
             t == [ing[r] EXCEPT !.pending = {}]
             s == WithCommit(t, ing[r].pos + 1, i, p)
             saved == stored[r] \cup ing[r].pending
  <2>1. /\ ing' = [ing EXCEPT ![r] = s] /\ stored' = [stored EXCEPT ![r] = saved]
        /\ UNCHANGED tip /\ used' = used \cup {p}
        /\ ing[r].at = "insert" /\ ing[r].pos < ing[r].upto
        /\ ing[r].pos + 1 \notin ing[r].known /\ ing[r].cache[i] = NoPerson
        /\ Persons # used
    BY <1>4 DEF InsertNewAuthor
  <2>2. p \in Persons
    BY <2>1, NextPersonIsNew DEF TypeOK
  <2>3. /\ t \in Sessions /\ t.at = "insert" /\ t.pos = ing[r].pos /\ t.upto = ing[r].upto
        /\ t.known = ing[r].known /\ t.pending = {} /\ t.cache = ing[r].cache
        /\ t.delta = ing[r].delta
    BY <1>0, <2>1 DEF Sessions
  <2>4. SessionAdds(ing[r], r)
    BY <1>0, <2>1 DEF SessionOpen
  <2>5. SessionAdds(t, r)
    BY <2>3, <2>4 DEF SessionAdds, Credit, Fresh
  <2> HIDE DEF t, p
  <2>6. s \in Sessions /\ SessionAdds(s, r)
    BY <2>1, <2>2, <2>3, <2>5, CommitAdds
  <2>7. /\ s.at = "insert" /\ s.pos = ing[r].pos + 1 /\ s.upto = ing[r].upto
        /\ s.known = ing[r].known /\ s.pending = {ing[r].pos + 1}
        /\ s.cache = [ing[r].cache EXCEPT ![i] = p]
    BY <2>3 DEF WithCommit, Sessions
  <2>8. 1..(ing[r].pos + 1) = (1..ing[r].pos) \cup {ing[r].pos + 1}
    BY <1>0 DEF Sessions
  <2>9. \A j \in Idents : s.cache[j] \in used' \cup {NoPerson}
    BY <1>0, <2>1, <2>7 DEF SessionOpen, Sessions
  <2>10. saved \in SUBSET Positions /\ saved \subseteq 1..tip[r]
    <3>1. saved = ing[r].known \cup 1..ing[r].pos /\ ing[r].known \subseteq stored[r]
      BY <1>0, <2>1 DEF SessionOpen
    <3>2. ing[r].pos <= tip[r]
      BY <1>0, <2>1 DEF SessionOpen, Sessions
    <3>3. 1..ing[r].pos \subseteq 1..tip[r]
      BY <1>0, <3>2 DEF Sessions
    <3> QED BY <1>0, <3>1, <3>3 DEF Sessions
  <2> HIDE DEF s
  <2>11. SessionOpen(s, r, saved, used', tip[r])
    BY <1>0, <2>1, <2>6, <2>7, <2>8, <2>9 DEF SessionOpen
  <2> HIDE DEF saved
  <2> QED BY <2>1, <2>6, <2>10, <2>11, SessionMoves
<1>5. CASE ApplyDeltas(r)
  <2> DEFINE s == [ing[r] EXCEPT !.at = "applied"]
  <2>1. /\ ing' = [ing EXCEPT ![r] = s] /\ UNCHANGED <<stored, tip, used>>
        /\ ing[r].at = "insert" /\ ing[r].pos = ing[r].upto
    BY <1>5 DEF ApplyDeltas
  <2>2. /\ s \in Sessions /\ s.at = "applied" /\ s.pos = ing[r].pos /\ s.upto = ing[r].upto
        /\ s.known = ing[r].known /\ s.pending = ing[r].pending /\ s.cache = ing[r].cache
        /\ s.delta = ing[r].delta
    BY <1>0 DEF Sessions
  <2> HIDE DEF s
  <2>3. SessionAdds(s, r)
    BY <1>0, <2>1, <2>2 DEF SessionOpen, SessionAdds, Credit, Fresh
  <2>4. SessionOpen(s, r, stored[r], used', tip[r])
    BY <1>0, <2>1, <2>2, <2>3 DEF SessionOpen
  <2> QED BY <1>0, <2>1, <2>2, <2>4, OldStored, SessionMoves
<1>6. CASE ApplyToGone(r) \/ IngestFails(r)
  <2>1. ing' = [ing EXCEPT ![r] = Idle] /\ UNCHANGED <<stored, tip, used>>
    BY <1>6 DEF ApplyToGone, IngestFails
  <2> QED BY <1>0, <2>1, OldStored, IdleMoves
<1>7. CASE CommitIngest(r)
  <2> DEFINE saved == stored[r] \cup ing[r].pending
  <2>1. /\ ing' = [ing EXCEPT ![r] = Idle] /\ UNCHANGED <<tip, used>>
        /\ stored' = [stored EXCEPT ![r] = saved] /\ ing[r].at = "applied"
    BY <1>7 DEF CommitIngest
  <2>2. saved \subseteq 1..tip[r]
    <3>1. saved = ing[r].known \cup 1..ing[r].pos /\ ing[r].known \subseteq stored[r]
      BY <1>0, <2>1 DEF SessionOpen
    <3>2. ing[r].pos <= tip[r]
      BY <1>0, <2>1 DEF SessionOpen, Sessions
    <3>3. 1..ing[r].pos \subseteq 1..tip[r]
      BY <1>0, <3>2 DEF Sessions
    <3> QED BY <1>0, <3>1, <3>3
  <2>3. saved \in SUBSET Positions
    BY <1>0 DEF Sessions
  <2> HIDE DEF saved
  <2> QED BY <2>1, <2>2, <2>3, IdleMoves
<1> QED BY <1>1, <1>2, <1>3, <1>4, <1>5, <1>6, <1>7 DEF IngestStep

(* The steps of an ingest leave the edits theirs.                           *)
LEMMA IngestKeepsEdits ==
    ASSUME TypeOK, EditsInv, NEW r \in Repos, IngestStep(r) \/ IngestFails(r)
    PROVE  /\ owner' \in [Idents -> Persons \cup {NoPerson}]
           /\ \A i \in Idents : owner'[i] # owner[i] =>
                 owner[i] = NoPerson /\ owner'[i] \in Persons \ used
           /\ alive \subseteq alive' /\ alive' \subseteq used' /\ used' \subseteq Persons
           /\ used \subseteq used'
           /\ \A i \in Idents : owner'[i] # NoPerson => owner'[i] \in alive'
           /\ UNCHANGED edit
           /\ EditsInv'
<1> USE DEF dbVars, bounds
<1>1. CASE InsertNewAuthor(r)
  <2> DEFINE i == Log[r][ing[r].pos + 1]
  <2>1. /\ owner[i] = NoPerson /\ owner' = [owner EXCEPT ![i] = NextPerson]
        /\ alive' = alive \cup {NextPerson} /\ used' = used \cup {NextPerson}
        /\ UNCHANGED edit /\ Persons # used
    BY <1>1 DEF InsertNewAuthor
  <2>2. NextPerson \in Persons \ used
    BY <2>1, NextPersonIsNew DEF TypeOK
  <2> HIDE DEF i
  <2>3. /\ owner' \in [Idents -> Persons \cup {NoPerson}]
        /\ \A j \in Idents : owner'[j] # owner[j] =>
              owner[j] = NoPerson /\ owner'[j] \in Persons \ used
        /\ alive \subseteq alive' /\ alive' \subseteq used' /\ used' \subseteq Persons
        /\ used \subseteq used'
        /\ \A j \in Idents : owner'[j] # NoPerson => owner'[j] \in alive'
    BY <2>1, <2>2 DEF TypeOK
  <2>4. \A e \in Editors : edit[e].moved \subseteq Idents
    BY DEF TypeOK
  <2>5. used \subseteq Persons
    BY DEF TypeOK
  <2>6. ASSUME NEW e \in Editors, edit[e].open, NEW j \in edit[e].moved
        PROVE  owner'[j] = owner[j]
    <3>1. owner[j] \in Persons
      BY <2>5, <2>6 DEF EditsInv
    <3> QED BY <2>3, <2>4, <2>6, <3>1, NoPersonAssumption
  <2>7. ASSUME NEW e \in Editors, edit[e].open, NEW j \in Idents, owner'[j] \in edit[e].gone
        PROVE  owner'[j] = owner[j]
    <3>1. edit[e].gone \subseteq used
      BY <2>7 DEF EditsInv, Touched
    <3> QED BY <2>3, <2>7, <3>1
  <2>8. EditsInv'
    BY <2>1, <2>3, <2>6, <2>7 DEF EditsInv, Touched
  <2> QED BY <2>1, <2>3, <2>8
<1>2. CASE UNCHANGED <<owner, alive, used, edit>>
  BY <1>2 DEF TypeOK, EditsInv, Touched
<1>3. CASE BeginIngest(r) \/ SkipKnown(r) \/ InsertKnownAuthor(r) \/ ApplyDeltas(r)
  BY <1>2, <1>3 DEF BeginIngest, SkipKnown, InsertKnownAuthor, ApplyDeltas
<1>4. CASE ApplyToGone(r) \/ CommitIngest(r) \/ IngestFails(r)
  BY <1>2, <1>4 DEF ApplyToGone, CommitIngest, IngestFails
<1> QED BY <1>1, <1>3, <1>4 DEF IngestStep

(* An edit that commits.                                                    *)
LEMMA EditCommits ==
    ASSUME TypeOK, EditsInv, NEW e \in Editors, CommitEdit(e)
    PROVE  /\ owner' \in [Idents -> Persons \cup {NoPerson}]
           /\ \A i \in Idents : owner'[i] # owner[i] =>
                 i \in edit[e].moved /\ owner'[i] = edit[e].to /\ edit[e].to \in edit[e].rebuilt
           /\ \A i \in Idents : owner[i] # NoPerson => owner'[i] # NoPerson
           /\ alive' \subseteq used
           /\ \A i \in Idents : owner'[i] # NoPerson => owner'[i] \in alive'
           /\ edit' = [edit EXCEPT ![e] = Closed]
           /\ EditsInv'
<1>1. /\ owner' = [i \in Idents |-> IF i \in edit[e].moved THEN edit[e].to ELSE owner[i]]
      /\ alive' = (alive \ edit[e].gone)
            \cup (IF edit[e].to = NoPerson THEN {} ELSE {edit[e].to})
      /\ edit' = [edit EXCEPT ![e] = Closed] /\ edit[e].open /\ UNCHANGED used
  BY DEF CommitEdit
<1>2. /\ edit[e].to \in Persons \cup {NoPerson} /\ edit[e].moved \subseteq Idents
      /\ edit[e].rebuilt \subseteq Persons
  BY DEF TypeOK
<1>3. owner' \in [Idents -> Persons \cup {NoPerson}]
  BY <1>1, <1>2 DEF TypeOK
<1>4. \A i \in edit[e].moved : edit[e].to \in edit[e].rebuilt /\ edit[e].to # NoPerson
  BY <1>1 DEF EditsInv
<1>5. \A i \in Idents : owner'[i] # owner[i] =>
         i \in edit[e].moved /\ owner'[i] = edit[e].to /\ edit[e].to \in edit[e].rebuilt
  BY <1>1, <1>4
<1>6. alive' \subseteq used
  BY <1>1 DEF EditsInv, Touched, TypeOK
<1>7. ASSUME NEW i \in Idents, owner'[i] # NoPerson PROVE owner'[i] \in alive'
  <2>1. CASE i \in edit[e].moved
    BY <1>1, <1>4, <2>1
  <2>2. CASE i \notin edit[e].moved
    <3>1. owner[i] \in alive /\ owner[i] \notin edit[e].gone /\ owner'[i] = owner[i]
      BY <1>1, <1>7, <2>2 DEF TypeOK, EditsInv
    <3> QED BY <1>1, <3>1
  <2> QED BY <2>1, <2>2
<1>8. \A f \in Editors \ {e} : edit'[f] = edit[f]
  BY <1>1
<1>9. ~edit'[e].open
  BY <1>1 DEF Closed, TypeOK
<1>10. ASSUME NEW f \in Editors \ {e}, edit[f].open
       PROVE  /\ \A i \in edit[f].moved : owner'[i] = owner[i]
              /\ \A i \in Idents : owner'[i] \in Touched(f) => owner'[i] = owner[i]
  <2>1. Touched(e) \cap Touched(f) = {} /\ edit[f].moved \subseteq Idents
    BY <1>1, <1>10 DEF EditsInv, TypeOK
  <2>2. \A i \in edit[e].moved : owner[i] \in Touched(e)
    BY <1>1 DEF EditsInv
  <2>3. \A i \in edit[f].moved : owner[i] \in Touched(f)
    BY <1>10 DEF EditsInv
  <2>4. \A i \in Idents : owner'[i] # owner[i] => owner'[i] \in Touched(e)
    BY <1>5 DEF Touched
  <2> QED BY <1>5, <2>1, <2>2, <2>3, <2>4
<1>11. EditsInv'
  <2> SUFFICES ASSUME NEW f \in Editors \ {e}, edit[f].open
               PROVE  /\ \A i \in edit[f].moved : owner'[i] \in Touched(f)
                      /\ \A i \in Idents : owner'[i] \in edit[f].gone => i \in edit[f].moved
    BY <1>1, <1>8, <1>9 DEF EditsInv, Touched
  <2> QED BY <1>10 DEF EditsInv, Touched
<1> QED BY <1>1, <1>2, <1>3, <1>4, <1>5, <1>6, <1>7, <1>11

(* How each of the three edits opens.                                       *)
EditPlan(e, moved, to, gone, rebuilt) ==
    /\ OpenEdit(e, moved, to, gone, rebuilt)
    /\ UNCHANGED <<owner, alive, stored, cursor, rollup, tip, ing, fails>>
    /\ used \subseteq used' /\ used' \subseteq Persons
    /\ gone \cup rebuilt \subseteq used' /\ to \notin gone
    /\ to # NoPerson => to \in rebuilt
    /\ \A i \in moved : to # NoPerson /\ owner[i] \in gone \cup rebuilt
    /\ \A i \in Idents : owner[i] \in gone => i \in moved

LEMMA EditStepOpens ==
    ASSUME TypeOK, SessionsInv, EditsInv, NEW e \in Editors,
           BeginMerge(e) \/ BeginUnmerge(e) \/ BeginRecompute(e)
    PROVE  \E moved \in SUBSET Idents, to \in Persons \cup {NoPerson},
              gone \in SUBSET Persons, rebuilt \in SUBSET Persons :
                EditPlan(e, moved, to, gone, rebuilt)
<1> USE DEF EditPlan
<1> USE DEF dbVars
<1>1. /\ owner \in [Idents -> Persons \cup {NoPerson}]
      /\ alive \subseteq used /\ used \subseteq Persons
      /\ \A i \in Idents : owner[i] # NoPerson => owner[i] \in alive
  BY DEF TypeOK
<1>2. CASE BeginMerge(e)
  <2>1. PICK target \in alive, source \in alive :
           /\ target # source
           /\ OpenEdit(e, {i \in Idents : owner[i] = source}, target, {source}, {target})
           /\ UNCHANGED <<dbVars, tip, ing, fails>>
    BY <1>2 DEF BeginMerge
  <2> DEFINE moved == {i \in Idents : owner[i] = source}
  <2>2. moved \in SUBSET Idents /\ target \in Persons /\ source \in Persons
    BY <1>1
  <2>3. /\ \A i \in moved : target # NoPerson /\ owner[i] \in {source} \cup {target}
        /\ \A i \in Idents : owner[i] \in {source} => i \in moved
    BY <2>2, NoPersonAssumption
  <2> HIDE DEF moved
  <2> USE <2>2
  <2> WITNESS moved \in SUBSET Idents, target \in Persons \cup {NoPerson},
              {source} \in SUBSET Persons, {target} \in SUBSET Persons
  <2> QED BY <1>1, <2>1, <2>2, <2>3 DEF moved
<1>3. CASE BeginUnmerge(e)
  <2>1. PICK i \in Idents :
           /\ owner[i] # NoPerson /\ Persons # used
           /\ used' = used \cup {NextPerson}
           /\ OpenEdit(e, {i}, NextPerson, {}, {owner[i], NextPerson})
           /\ UNCHANGED <<owner, alive, stored, cursor, rollup, tip, ing, fails>>
    BY <1>3 DEF BeginUnmerge
  <2>2. NextPerson \in Persons \ used
    BY <1>1, <2>1, NextPersonIsNew
  <2> DEFINE to == NextPerson
  <2> HIDE DEF to
  <2>3. owner[i] \in alive /\ owner[i] \in Persons /\ to \in Persons /\ to # NoPerson
    BY <1>1, <2>1, <2>2, NoPersonAssumption DEF to
  <2> USE <2>3
  <2> WITNESS {i} \in SUBSET Idents, to \in Persons \cup {NoPerson},
              {} \in SUBSET Persons, {owner[i], to} \in SUBSET Persons
  <2> QED BY <1>1, <2>1, <2>3 DEF to
<1>4. CASE BeginRecompute(e)
  <2>1. PICK p \in alive : /\ OpenEdit(e, {}, NoPerson, {}, {p})
                          /\ UNCHANGED <<dbVars, tip, ing, fails>>
    BY <1>4 DEF BeginRecompute
  <2>2. {p} \in SUBSET Persons
    BY <1>1
  <2> USE <2>2
  <2> WITNESS {} \in SUBSET Idents, NoPerson \in Persons \cup {NoPerson},
              {} \in SUBSET Persons, {p} \in SUBSET Persons
  <2> QED BY <1>1, <2>1
<1> QED BY <1>2, <1>3, <1>4

(* An edit that opens has persons of its own, and counts what is stored.    *)
LEMMA EditOpens ==
    ASSUME TypeOK, SessionsInv, EditsInv, NEW e \in Editors,
           BeginMerge(e) \/ BeginUnmerge(e) \/ BeginRecompute(e)
    PROVE  /\ edit' \in [Editors -> OpenEdits]
           /\ edits' \in 0..MaxEdits /\ overlapped' \in BOOLEAN
           /\ EditsInv'
<1>0. PICK moved \in SUBSET Idents, to \in Persons \cup {NoPerson},
           gone \in SUBSET Persons, rebuilt \in SUBSET Persons :
             EditPlan(e, moved, to, gone, rebuilt)
  BY EditStepOpens
<1> USE <1>0 DEF EditPlan
<1> DEFINE rows == {x \in (gone \cup rebuilt) \X Repos : rollup[x] > 0}
           mapping == [i \in Idents |-> IF i \in moved THEN to ELSE owner[i]]
           snap == [x \in Persons \X Repos |->
                      IF x[1] \in rebuilt
                      THEN Cardinality(Authored(mapping, x[2], x[1])) ELSE 0]
           opened == [open |-> TRUE, moved |-> moved, to |-> to, gone |-> gone,
                      rebuilt |-> rebuilt, held |-> rows, snap |-> snap]
<1>1. /\ edit' = [edit EXCEPT ![e] = opened] /\ edits < MaxEdits /\ edits' = edits + 1
      /\ overlapped' = (overlapped \/ ~NobodyIngests)
      /\ \A f \in Editors : edit[f].open =>
            (gone \cup rebuilt) \cap (edit[f].gone \cup edit[f].rebuilt) = {}
      /\ ~edit[e].open
  BY DEF OpenEdit
<1>2. snap \in [Persons \X Repos -> Nat]
  <2> SUFFICES ASSUME NEW x \in Persons \X Repos
               PROVE  Cardinality(Authored(mapping, x[2], x[1])) \in Nat
    OBVIOUS
  <2>1. x[2] \in Repos
    OBVIOUS
  <2> DEFINE r == x[2]
  <2>2. Authored(mapping, r, x[1]) \subseteq 1..tip[r]
    BY <2>1 DEF Authored, SessionsInv
  <2>3. 1..tip[r] \subseteq 1..Len(Log[r])
    BY <2>1, BranchLength DEF TypeOK
  <2> QED BY <2>1, <2>2, <2>3, BranchCount
<1>3. rows \in SUBSET (Persons \X Repos)
  OBVIOUS
<1> HIDE DEF rows, snap, mapping
<1>4. edits' \in 0..MaxEdits /\ overlapped' \in BOOLEAN
  BY <1>1, BoundsAssumption DEF TypeOK
<1>5. opened \in OpenEdits
  BY <1>2, <1>3 DEF OpenEdits
<1>6. /\ opened.open /\ opened.moved = moved /\ opened.to = to /\ opened.gone = gone
      /\ opened.rebuilt = rebuilt
  OBVIOUS
<1> HIDE DEF opened
<1>7. edit' \in [Editors -> OpenEdits]
  BY <1>1, <1>5 DEF TypeOK, OpenEdits
<1>8. edit'[e] = opened /\ \A f \in Editors \ {e} : edit'[f] = edit[f]
  BY <1>1 DEF TypeOK
<1>9. EditsInv'
  BY <1>1, <1>6, <1>8 DEF EditsInv, Touched
<1> QED BY <1>4, <1>7, <1>9

LEMMA TypeInductive ==
    TypeOK /\ SessionsInv /\ EditsInv /\ CursorCovered /\ [Next]_vars
    => (TypeOK /\ SessionsInv /\ EditsInv)'
<1> SUFFICES ASSUME TypeOK, SessionsInv, EditsInv, CursorCovered, [Next]_vars
             PROVE  (TypeOK /\ SessionsInv /\ EditsInv)'
  OBVIOUS
<1> USE DEF dbVars, bounds
<1>1. ASSUME NEW r \in Repos, Push(r) PROVE (TypeOK /\ SessionsInv /\ EditsInv)'
  <2>1. PICK n \in (tip[r] + 1)..Len(Log[r]) : tip' = [tip EXCEPT ![r] = n]
    BY <1>1 DEF Push
  <2>2. /\ tip \in [Repos -> Nat] /\ tip[r] \in Nat /\ cursor \in [Repos -> Nat]
        /\ \A q \in Repos : cursor[q] <= tip[q] /\ tip[q] <= Len(Log[q])
    BY DEF TypeOK
  <2>3. n \in Nat /\ tip[r] < n /\ n <= Len(Log[r])
    BY <2>1, <2>2, BranchLength
  <2>4. /\ tip' \in [Repos -> Nat]
        /\ \A q \in Repos : tip[q] <= tip'[q] /\ tip'[q] <= Len(Log[q])
    BY <2>1, <2>2, <2>3
  <2>5. \A q \in Repos : cursor[q] <= tip'[q]
    BY <2>2, <2>4
  <2>6. UNCHANGED <<dbVars, ing, edit, bounds, overlapped>>
    BY <1>1 DEF Push
  <2>7. TypeOK'
    BY <2>4, <2>5, <2>6 DEF TypeOK
  <2>8. EditsInv'
    BY <2>6 DEF EditsInv, Touched
  <2>9. ASSUME NEW q \in Repos
        PROVE  /\ stored[q] \subseteq 1..tip'[q]
               /\ SessionOpen(ing[q], q, stored[q], used, tip'[q])
    <3>1. 1..tip[q] \subseteq 1..tip'[q]
      BY <2>2, <2>4
    <3>2. ing[q] \in Sessions
      BY DEF TypeOK, Sessions
    <3>3. ASSUME ing[q].upto <= tip[q] PROVE ing[q].upto <= tip'[q]
      BY <2>2, <2>4, <3>2, <3>3 DEF Sessions
    <3> QED BY <3>1, <3>3 DEF SessionsInv, SessionOpen
  <2>10. SessionsInv'
    BY <2>6, <2>9 DEF SessionsInv
  <2> QED BY <2>7, <2>8, <2>10
<1>2. ASSUME NEW r \in Repos, IngestStep(r) \/ IngestFails(r)
      PROVE  (TypeOK /\ SessionsInv /\ EditsInv)'
  <2>1. /\ ing' \in [Repos -> Sessions] /\ stored' \in [Repos -> SUBSET Positions]
        /\ SessionsInv'
    BY <1>2, SessionTypes
  <2>2. /\ owner' \in [Idents -> Persons \cup {NoPerson}]
        /\ alive' \subseteq used' /\ used' \subseteq Persons
        /\ \A i \in Idents : owner'[i] # NoPerson => owner'[i] \in alive'
        /\ UNCHANGED edit
        /\ EditsInv'
    BY <1>2, IngestKeepsEdits
  <2>3. UNCHANGED <<tip, edits>>
    BY <1>2 DEF IngestStep, BeginIngest, SkipKnown, InsertKnownAuthor, InsertNewAuthor,
                ApplyDeltas, ApplyToGone, CommitIngest, IngestFails
  <2>4. fails' \in 0..MaxFails
    <3>1. UNCHANGED fails \/ (fails < MaxFails /\ fails' = fails + 1)
      BY <1>2 DEF IngestStep, BeginIngest, SkipKnown, InsertKnownAuthor, InsertNewAuthor,
                  ApplyDeltas, ApplyToGone, CommitIngest, IngestFails
    <3> QED BY <3>1, BoundsAssumption DEF TypeOK
  <2>5. overlapped' \in BOOLEAN
    BY <1>2 DEF IngestStep, BeginIngest, SkipKnown, InsertKnownAuthor, InsertNewAuthor,
                ApplyDeltas, ApplyToGone, CommitIngest, IngestFails, TypeOK
  <2>6. CASE UNCHANGED <<cursor, rollup>>
    BY <2>1, <2>2, <2>3, <2>4, <2>5, <2>6 DEF TypeOK, Sessions
  <2>7. CASE CommitIngest(r)
    <3>1. /\ cursor' = [cursor EXCEPT ![r] = ing[r].upto] /\ ing[r].at = "applied"
          /\ rollup' = [x \in Persons \X Repos |->
                rollup[x] + (IF x[2] = r THEN ing[r].delta[x[1]] ELSE 0)]
      BY <2>7 DEF CommitIngest
    <3>2. ing[r] \in Sessions /\ ing[r].upto <= tip[r]
      BY <3>1 DEF TypeOK, Sessions, SessionsInv, SessionOpen
    <3>3. /\ cursor' \in [Repos -> Nat]
          /\ \A q \in Repos : cursor'[q] <= tip'[q] /\ tip'[q] <= Len(Log[q])
      BY <2>3, <3>1, <3>2 DEF TypeOK, Sessions
    <3>4. rollup' \in [Persons \X Repos -> Nat]
      <4> SUFFICES ASSUME NEW x \in Persons \X Repos
                   PROVE  rollup[x] + (IF x[2] = r THEN ing[r].delta[x[1]] ELSE 0) \in Nat
        BY <3>1
      <4>1. ing[r].delta \in [Persons -> Nat] /\ x[1] \in Persons
        BY <3>2 DEF Sessions, Counts
      <4>2. rollup[x] \in Nat
        BY DEF TypeOK
      <4>3. ing[r].delta[x[1]] \in Nat
        BY <4>1
      <4> QED BY <4>2, <4>3
    <3> QED BY <2>1, <2>2, <2>3, <2>4, <2>5, <3>3, <3>4 DEF TypeOK, Sessions
  <2> QED
    BY <1>2, <2>6, <2>7
    DEF IngestStep, BeginIngest, SkipKnown, InsertKnownAuthor, InsertNewAuthor,
        ApplyDeltas, ApplyToGone, IngestFails
<1>3. ASSUME NEW e \in Editors, BeginMerge(e) \/ BeginUnmerge(e) \/ BeginRecompute(e)
      PROVE  (TypeOK /\ SessionsInv /\ EditsInv)'
  <2>1. PICK moved, to, gone, rebuilt : EditPlan(e, moved, to, gone, rebuilt)
    BY <1>3, EditStepOpens
  <2>2. /\ edit' \in [Editors -> OpenEdits]
        /\ edits' \in 0..MaxEdits /\ overlapped' \in BOOLEAN
        /\ EditsInv'
    BY <1>3, EditOpens
  <2>3. TypeOK'
    BY <2>1, <2>2 DEF EditPlan, TypeOK, OpenEdits
  <2>4. SessionsInv'
    BY <2>1 DEF EditPlan, SessionsInv, SessionOpen
  <2> QED BY <2>2, <2>3, <2>4
<1>4. ASSUME NEW e \in Editors, CommitEdit(e) PROVE (TypeOK /\ SessionsInv /\ EditsInv)'
  <2>1. /\ owner' \in [Idents -> Persons \cup {NoPerson}] /\ alive' \subseteq used
        /\ \A i \in Idents : owner'[i] # NoPerson => owner'[i] \in alive'
        /\ edit' = [edit EXCEPT ![e] = Closed]
        /\ EditsInv'
    BY <1>4, EditCommits
  <2>2. /\ UNCHANGED <<used, stored, cursor, tip, ing, bounds, overlapped>>
        /\ rollup' = [x \in Persons \X Repos |->
              IF x[1] \in edit[e].gone THEN 0
              ELSE IF x \in edit[e].held \/ edit[e].snap[x] > 0 THEN edit[e].snap[x]
              ELSE rollup[x]]
    BY <1>4 DEF CommitEdit
  <2>3. edit[e].snap \in [Persons \X Repos -> Nat] /\ rollup \in [Persons \X Repos -> Nat]
    BY DEF TypeOK
  <2>4. rollup' \in [Persons \X Repos -> Nat]
    BY <2>2, <2>3
  <2>5. edit' \in [Editors -> OpenEdits]
    BY <2>1 DEF Closed, TypeOK, OpenEdits
  <2>6. TypeOK'
    BY <2>1, <2>2, <2>4, <2>5 DEF TypeOK, OpenEdits
  <2>7. SessionsInv'
    BY <2>2 DEF SessionsInv, SessionOpen
  <2> QED BY <2>1, <2>6, <2>7
<1>5. CASE UNCHANGED vars
  <2>1. UNCHANGED <<dbVars, tip, ing, edit, bounds, overlapped>>
    BY <1>5 DEF vars
  <2>2. TypeOK'
    BY <2>1 DEF TypeOK
  <2>3. SessionsInv' /\ EditsInv'
    BY <2>1 DEF SessionsInv, SessionOpen, EditsInv, Touched
  <2> QED BY <2>2, <2>3
<1> QED BY <1>1, <1>2, <1>3, <1>4, <1>5 DEF Next, EditStep

LEMMA TypeInit == Init => TypeOK /\ SessionsInv /\ EditsInv
<1> SUFFICES ASSUME Init PROVE TypeOK /\ SessionsInv /\ EditsInv
  OBVIOUS
<1>1. \A r \in Repos : 0 <= Len(Log[r])
  BY BranchLength
<1>2. ing \in [Repos -> Sessions]
  BY NoCommits DEF Init
<1>3. \A r \in Repos : ing[r].at = "idle"
  BY DEF Init, Idle
<1>4. edit \in [Editors -> OpenEdits] /\ \A e \in Editors : ~edit[e].open
  BY DEF Init, Closed, OpenEdits
<1>5. TypeOK
  <2>1. /\ fails \in 0..MaxFails /\ edits \in 0..MaxEdits /\ overlapped \in BOOLEAN
        /\ alive \subseteq used /\ used \subseteq Persons
    <3>1. fails = 0 /\ edits = 0 /\ alive = {} /\ used = {}
      BY DEF Init
    <3>2. overlapped \in BOOLEAN
      BY DEF Init
    <3> QED BY <3>1, <3>2, BoundsAssumption
  <2>2. /\ owner \in [Idents -> Persons \cup {NoPerson}]
        /\ \A i \in Idents : owner[i] # NoPerson => owner[i] \in alive
    BY DEF Init
  <2>3. /\ tip \in [Repos -> Nat] /\ cursor \in [Repos -> Nat]
        /\ \A r \in Repos : cursor[r] <= tip[r] /\ tip[r] <= Len(Log[r])
    BY <1>1 DEF Init
  <2>4. stored \in [Repos -> SUBSET Positions] /\ rollup \in [Persons \X Repos -> Nat]
    BY DEF Init
  <2> QED BY <1>2, <1>4, <2>1, <2>2, <2>3, <2>4 DEF TypeOK, Sessions, OpenEdits
<1>6. SessionsInv /\ EditsInv
  BY <1>3, <1>4 DEF Init, SessionsInv, SessionOpen, EditsInv
<1> QED BY <1>5, <1>6

LEMMA TypesHold == Spec => [](TypeOK /\ SessionsInv /\ EditsInv)
BY TypeInit, TypeInductive, CursorIsCovered, PTL DEF Spec

(* The types, for every value of the constants: an identity never points to *)
(* a person that is gone, whichever edits and sessions interleave, and no   *)
(* delta outgrows the commits of its branch.                                *)
THEOREM TypeCorrect == Spec => []TypeOK
BY TypesHold, PTL

----------------------------------------------------------------------------
(* Whose commits are whose.  A stored commit's author has an identity, a    *)
(* person the sequence has not handed out has no rollup, and an edit counts *)
(* for the persons it rebuilds only.                                        *)

OwnedInv ==
    /\ \A r \in Repos : \A c \in stored[r] : owner[Log[r][c]] # NoPerson
    /\ \A r \in Repos, i \in Idents :
          ing[r].at # "idle" /\ ing[r].cache[i] # NoPerson => owner[i] # NoPerson
    /\ \A p \in Persons \ used, r \in Repos : rollup[<<p, r>>] = 0
    /\ \A e \in Editors : edit[e].open =>
          /\ edit[e].held \subseteq Touched(e) \X Repos
          /\ \A x \in Persons \X Repos : edit[e].snap[x] > 0 => x[1] \in edit[e].rebuilt

(* The commits of r in S that the mapping o gives to p, and the commits of  *)
(* r that its rollup should know of: a session's own come at its end.       *)
Given(o, S, r, p) == {c \in S : o[Log[r][c]] = p}
Counted(r) == IF ing[r].at = "idle" THEN stored[r] ELSE ing[r].known

LEMMA GivenCount ==
    ASSUME NEW r \in Repos, NEW S \in SUBSET (1..Len(Log[r])), NEW o, NEW p
    PROVE  IsFiniteSet(Given(o, S, r, p)) /\ Cardinality(Given(o, S, r, p)) \in Nat
BY BranchCount DEF Given

LEMMA CountedStored ==
    ASSUME TypeOK, SessionsInv, NEW r \in Repos
    PROVE  Counted(r) \subseteq stored[r] /\ stored[r] \subseteq 1..Len(Log[r])
<1>1. stored[r] \subseteq 1..tip[r] /\ 1..tip[r] \subseteq 1..Len(Log[r])
  BY BranchLength DEF SessionsInv, TypeOK
<1>2. ing[r].at # "idle" => ing[r].known \subseteq stored[r]
  BY DEF SessionsInv, SessionOpen
<1> QED BY <1>1, <1>2 DEF Counted

(* What a session has pending has authors with identities.                  *)
LEMMA PendingOwned ==
    ASSUME TypeOK, SessionsInv, OwnedInv, NEW r \in Repos, ing[r].at # "idle",
           NEW c \in stored[r] \cup ing[r].pending
    PROVE  owner[Log[r][c]] # NoPerson
<1>1. /\ SessionAdds(ing[r], r) /\ ing[r].known \subseteq stored[r]
      /\ c \in ing[r].known \cup 1..ing[r].pos /\ ing[r] \in Sessions
  BY DEF SessionsInv, SessionOpen, TypeOK, Sessions
<1>2. CASE c \in stored[r]
  BY <1>2 DEF OwnedInv
<1>3. CASE c \in Fresh(ing[r])
  <2>1. ing[r].cache[Log[r][c]] # NoPerson
    BY <1>1, <1>3 DEF SessionAdds
  <2>2. c \in 1..Len(Log[r])
    BY <1>1, <1>3, BranchLength DEF SessionAdds, Fresh, Sessions
  <2> QED BY <2>1, <2>2, BranchLength DEF OwnedInv
<1> QED BY <1>1, <1>2, <1>3 DEF Fresh

(* A delta is for somebody the session knows an author by.                  *)
LEMMA DeltaCredits ==
    ASSUME TypeOK, SessionsInv, NEW r \in Repos, ing[r].at # "idle",
           NEW p \in Persons, ing[r].delta[p] # 0
    PROVE  \E i \in Idents : ing[r].cache[i] = p
<1>1. SessionAdds(ing[r], r) /\ ing[r] \in Sessions
  BY DEF SessionsInv, SessionOpen, TypeOK, Sessions
<1>2. Credit(ing[r], r, p) # {}
  BY <1>1, FS_EmptySet DEF SessionAdds
<1>3. PICK c \in Fresh(ing[r]) : ing[r].cache[Log[r][c]] = p
  BY <1>2 DEF Credit
<1>4. c \in 1..Len(Log[r])
  BY <1>1, BranchLength DEF SessionAdds, Fresh, Sessions
<1> QED BY <1>3, <1>4, BranchLength

(* What a step of a session leaves as it was.                               *)
LEMMA SessionKeeps ==
    ASSUME TypeOK, SessionsInv, NEW r \in Repos, IngestStep(r) \/ IngestFails(r)
    PROVE  /\ \A q \in Repos \ {r} : ing'[q] = ing[q] /\ stored'[q] = stored[q]
           /\ \/ stored'[r] = stored[r]
              \/ ing[r].at # "idle" /\ stored'[r] = stored[r] \cup ing[r].pending
           /\ ing[r].at # "idle" /\ ing'[r].at # "idle" =>
                 /\ ing'[r].known = ing[r].known
                 /\ \A i \in Idents :
                       \/ ing'[r].cache[i] = ing[r].cache[i]
                       \/ ing[r].cache[i] = NoPerson /\ ing'[r].cache[i] = owner'[i]
           /\ ing[r].at = "idle" =>
                 /\ BeginIngest(r) /\ ing'[r].known = stored[r] /\ stored'[r] = stored[r]
                 /\ \A i \in Idents : ing'[r].cache[i] = NoPerson
           /\ UNCHANGED rollup \/ CommitIngest(r)
<1> USE DEF dbVars, bounds
<1>1. ing \in [Repos -> Sessions] /\ stored \in [Repos -> SUBSET Positions] /\ r \in Repos
  BY DEF TypeOK, Sessions
<1>2. CASE BeginIngest(r)
  <2> DEFINE s == [Idle EXCEPT !.at = "insert", !.pos = cursor[r], !.upto = tip[r],
                               !.known = stored[r]]
  <2>1. s.known = stored[r] /\ s.cache = [i \in Idents |-> NoPerson]
    BY DEF Idle
  <2>2. /\ ing' = [ing EXCEPT ![r] = s] /\ UNCHANGED <<stored, rollup>>
        /\ ing[r].at = "idle"
    BY <1>2 DEF BeginIngest
  <2> HIDE DEF s
  <2> QED BY <1>1, <1>2, <2>1, <2>2
<1>3. CASE SkipKnown(r) \/ ApplyDeltas(r)
  <2>1. PICK s \in {[ing[r] EXCEPT !.pos = @ + 1], [ing[r] EXCEPT !.at = "applied"]} :
           ing' = [ing EXCEPT ![r] = s]
    BY <1>3 DEF SkipKnown, ApplyDeltas
  <2>2. UNCHANGED <<stored, rollup>> /\ ing[r].at # "idle"
    BY <1>3 DEF SkipKnown, ApplyDeltas
  <2>3. s.known = ing[r].known /\ s.cache = ing[r].cache
    BY <1>1, <2>1 DEF Sessions
  <2> QED BY <1>1, <2>1, <2>2, <2>3
<1>4. CASE InsertKnownAuthor(r)
  <2> DEFINE i == Log[r][ing[r].pos + 1]
             p == IF ing[r].cache[i] # NoPerson THEN ing[r].cache[i] ELSE owner[i]
             s == WithCommit(ing[r], ing[r].pos + 1, i, p)
  <2>1. /\ ing' = [ing EXCEPT ![r] = s] /\ UNCHANGED <<stored, rollup, owner>>
        /\ ing[r].at # "idle"
    BY <1>4 DEF InsertKnownAuthor
  <2>2. s.known = ing[r].known /\ s.cache = [ing[r].cache EXCEPT ![i] = p]
    BY <1>1 DEF WithCommit, Sessions
  <2> HIDE DEF s
  <2>3. ASSUME NEW j \in Idents
        PROVE  \/ s.cache[j] = ing[r].cache[j]
               \/ ing[r].cache[j] = NoPerson /\ s.cache[j] = owner[j]
    <3>1. j # i => s.cache[j] = ing[r].cache[j]
      BY <1>1, <2>2 DEF Sessions
    <3>2. j = i => s.cache[j] = p
      BY <1>1, <2>2 DEF Sessions
    <3> QED BY <3>1, <3>2
  <2> HIDE DEF s
  <2> QED BY <1>1, <2>1, <2>2, <2>3
<1>5. CASE InsertNewAuthor(r)
  <2> DEFINE i == Log[r][ing[r].pos + 1]
             p == NextPerson
             s == WithCommit([ing[r] EXCEPT !.pending = {}], ing[r].pos + 1, i, p)
             saved == stored[r] \cup ing[r].pending
  <2>1. /\ ing' = [ing EXCEPT ![r] = s] /\ stored' = [stored EXCEPT ![r] = saved]
        /\ owner' = [owner EXCEPT ![i] = p] /\ UNCHANGED rollup
        /\ ing[r].at # "idle" /\ ing[r].cache[i] = NoPerson
    BY <1>5 DEF InsertNewAuthor
  <2> HIDE DEF p
  <2>2. s.known = ing[r].known /\ s.cache = [ing[r].cache EXCEPT ![i] = p]
    BY <1>1 DEF WithCommit, Sessions
  <2> HIDE DEF s, i
  <2>3. \A j \in Idents : \/ s.cache[j] = ing[r].cache[j]
                          \/ ing[r].cache[j] = NoPerson /\ s.cache[j] = owner'[j]
    BY <1>1, <2>1, <2>2 DEF Sessions, TypeOK
  <2> QED BY <1>1, <2>1, <2>2, <2>3
<1>6. CASE ApplyToGone(r) \/ IngestFails(r)
  <2>1. /\ ing' = [ing EXCEPT ![r] = Idle] /\ UNCHANGED <<stored, rollup>>
        /\ ing[r].at # "idle"
    BY <1>6 DEF ApplyToGone, IngestFails
  <2> QED BY <1>1, <2>1 DEF Idle
<1>7. CASE CommitIngest(r)
  <2>1. /\ ing' = [ing EXCEPT ![r] = Idle] /\ ing[r].at # "idle"
        /\ stored' = [stored EXCEPT ![r] = @ \cup ing[r].pending]
    BY <1>7 DEF CommitIngest
  <2> QED BY <1>1, <1>7, <2>1 DEF Idle
<1> QED BY <1>2, <1>3, <1>4, <1>5, <1>6, <1>7 DEF IngestStep

LEMMA OwnedInductive ==
    ASSUME TypeOK, SessionsInv, EditsInv, OwnedInv, [Next]_vars, TypeOK', SessionsInv'
    PROVE  OwnedInv'
<1> USE DEF dbVars, bounds
<1>1. \A r \in Repos : \A c \in stored'[r] : Log[r][c] \in Idents
  <2>1. ASSUME NEW r \in Repos
        PROVE  stored'[r] \subseteq 1..tip'[r] /\ 1..tip'[r] \subseteq 1..Len(Log[r])
    <3>1. tip'[r] \in Nat /\ tip'[r] <= Len(Log[r])
      BY DEF TypeOK
    <3>2. stored'[r] \subseteq 1..tip'[r]
      BY DEF SessionsInv
    <3> QED BY <3>1, <3>2, BranchLength
  <2> QED BY <2>1, BranchLength
<1>2. CASE UNCHANGED <<owner, used, stored, rollup, ing, edit>>
  BY <1>2 DEF OwnedInv, Touched
<1>3. ASSUME NEW r \in Repos, IngestStep(r) \/ IngestFails(r) PROVE OwnedInv'
  <2>1. /\ \A i \in Idents : owner[i] # NoPerson => owner'[i] # NoPerson
        /\ used \subseteq used' /\ UNCHANGED edit
    BY <1>3, IngestKeepsEdits, NoPersonAssumption
  <2>2. ASSUME NEW q \in Repos, NEW c \in stored'[q] PROVE owner'[Log[q][c]] # NoPerson
    <3>1. owner[Log[q][c]] # NoPerson
      BY <1>3, <2>2, SessionKeeps, PendingOwned DEF OwnedInv
    <3> QED BY <1>1, <2>1, <2>2, <3>1
  <2>3. ASSUME NEW q \in Repos, NEW i \in Idents, ing'[q].at # "idle",
               ing'[q].cache[i] # NoPerson
        PROVE  owner'[i] # NoPerson
    <3>1. CASE q # r
      BY <1>3, <2>1, <2>3, <3>1, SessionKeeps DEF OwnedInv
    <3>2. CASE q = r
      BY <1>3, <2>1, <2>3, <3>2, SessionKeeps DEF OwnedInv
    <3> QED BY <3>1, <3>2
  <2>4. ASSUME NEW p \in Persons \ used, NEW q \in Repos PROVE rollup'[<<p, q>>] = 0
    <3>1. CASE UNCHANGED rollup
      BY <3>1 DEF OwnedInv
    <3>2. CASE CommitIngest(r)
      <4>1. ing[r].at # "idle" /\ rollup' = [x \in Persons \X Repos |->
                rollup[x] + (IF x[2] = r THEN ing[r].delta[x[1]] ELSE 0)]
        BY <3>2 DEF CommitIngest
      <4>2. ing[r].delta[p] = 0
        <5>1. \A i \in Idents : ing[r].cache[i] # p
          BY <4>1, NoPersonAssumption DEF SessionsInv, SessionOpen
        <5> QED BY <4>1, <5>1, DeltaCredits
      <4> QED BY <4>1, <4>2 DEF OwnedInv
    <3> QED BY <1>3, <3>1, <3>2, SessionKeeps
  <2> QED BY <2>1, <2>2, <2>3, <2>4 DEF OwnedInv, Touched
<1>4. ASSUME NEW e \in Editors, BeginMerge(e) \/ BeginUnmerge(e) \/ BeginRecompute(e)
      PROVE  OwnedInv'
  <2>1. PICK moved, to, gone, rebuilt : EditPlan(e, moved, to, gone, rebuilt)
    BY <1>4, EditStepOpens
  <2>2. UNCHANGED <<owner, stored, rollup, ing>> /\ used \subseteq used'
    BY <2>1 DEF EditPlan
  <2> DEFINE rows == {x \in (gone \cup rebuilt) \X Repos : rollup[x] > 0}
             mapping == [i \in Idents |-> IF i \in moved THEN to ELSE owner[i]]
             snap == [x \in Persons \X Repos |->
                        IF x[1] \in rebuilt
                        THEN Cardinality(Authored(mapping, x[2], x[1])) ELSE 0]
             opened == [open |-> TRUE, moved |-> moved, to |-> to, gone |-> gone,
                        rebuilt |-> rebuilt, held |-> rows, snap |-> snap]
  <2>3. edit' = [edit EXCEPT ![e] = opened]
    BY <2>1 DEF EditPlan, OpenEdit
  <2>4. /\ opened.held \subseteq (gone \cup rebuilt) \X Repos
        /\ \A x \in Persons \X Repos : opened.snap[x] > 0 => x[1] \in rebuilt
        /\ opened.gone = gone /\ opened.rebuilt = rebuilt
    OBVIOUS
  <2> HIDE DEF opened
  <2>5. edit'[e] = opened /\ \A f \in Editors \ {e} : edit'[f] = edit[f]
    BY <2>3 DEF TypeOK
  <2> QED BY <2>2, <2>4, <2>5 DEF OwnedInv, Touched
<1>5. ASSUME NEW e \in Editors, CommitEdit(e) PROVE OwnedInv'
  <2>1. /\ \A i \in Idents : owner[i] # NoPerson => owner'[i] # NoPerson
        /\ edit' = [edit EXCEPT ![e] = Closed]
    BY <1>5, EditCommits
  <2>2. /\ UNCHANGED <<used, stored, ing>> /\ edit[e].open
        /\ rollup' = [x \in Persons \X Repos |->
              IF x[1] \in edit[e].gone THEN 0
              ELSE IF x \in edit[e].held \/ edit[e].snap[x] > 0 THEN edit[e].snap[x]
              ELSE rollup[x]]
    BY <1>5 DEF CommitEdit
  <2>3. ~edit'[e].open /\ \A f \in Editors \ {e} : edit'[f] = edit[f]
    BY <2>1 DEF Closed, TypeOK
  <2>4. ASSUME NEW p \in Persons \ used, NEW q \in Repos PROVE rollup'[<<p, q>>] = 0
    <3>1. p \notin edit[e].rebuilt
      BY <2>2 DEF EditsInv, Touched
    <3>2. edit[e].snap[<<p, q>>] \in Nat
      BY DEF TypeOK
    <3>3. edit[e].snap[<<p, q>>] = 0
      BY <2>2, <3>1, <3>2 DEF OwnedInv
    <3> QED BY <2>2, <3>3 DEF OwnedInv
  <2>5. \A q \in Repos : \A c \in stored'[q] : owner'[Log[q][c]] # NoPerson
    BY <1>1, <2>1, <2>2 DEF OwnedInv
  <2> QED BY <2>1, <2>2, <2>3, <2>4, <2>5 DEF OwnedInv, Touched
<1>6. ASSUME NEW r \in Repos, Push(r) PROVE OwnedInv'
  BY <1>2, <1>6 DEF Push
<1>7. CASE UNCHANGED vars
  BY <1>2, <1>7 DEF vars
<1> QED BY <1>3, <1>4, <1>5, <1>6, <1>7 DEF Next, EditStep

----------------------------------------------------------------------------
(* The account of the rollups, for as long as no edit has been open next to *)
(* an ingest.                                                               *)

Alone == NobodyIngests \/ NobodyEdits

(* Sessions know authors by the persons they belong to.                     *)
CacheTrue ==
    \A r \in Repos : ing[r].at # "idle" =>
        \A i \in Idents : ing[r].cache[i] \in {NoPerson, owner[i]}

(* A rollup has no more than the commits it should know of, and all of them *)
(* as long as no ingest has failed.                                         *)
RollupAccount ==
    \A p \in alive, r \in Repos :
        /\ rollup[<<p, r>>] <= Cardinality(Given(owner, Counted(r), r, p))
        /\ fails = 0 => rollup[<<p, r>>] = Cardinality(Given(owner, Counted(r), r, p))

(* What an open edit will write is what its persons will own, and the rows  *)
(* it has not deleted are not there.                                        *)
Mapping(e) == [i \in Idents |-> IF i \in edit[e].moved THEN edit[e].to ELSE owner[i]]

EditAccount ==
    \A e \in Editors : edit[e].open =>
        \A p \in edit[e].rebuilt, r \in Repos :
            /\ edit[e].snap[<<p, r>>] = Cardinality(Given(Mapping(e), stored[r], r, p))
            /\ <<p, r>> \notin edit[e].held => rollup[<<p, r>>] = 0

AccountInv == ~overlapped => Alone /\ CacheTrue /\ RollupAccount /\ EditAccount

(* When a session ends, and what it does to the persons until then.         *)
LEMMA SessionEnds ==
    ASSUME TypeOK, NEW r \in Repos, IngestStep(r)
    PROVE  /\ UNCHANGED fails
           /\ \/ alive' = alive
              \/ alive' = alive \cup {NextPerson} /\ Persons # used
           /\ ing'[r].at = "idle" => ApplyToGone(r) \/ CommitIngest(r)
<1> USE DEF dbVars, bounds
<1>1. ing \in [Repos -> Sessions]
  BY DEF TypeOK, Sessions
<1>2. CASE BeginIngest(r)
  <2> DEFINE s == [Idle EXCEPT !.at = "insert", !.pos = cursor[r], !.upto = tip[r],
                               !.known = stored[r]]
  <2>1. s.at = "insert"
    BY DEF Idle
  <2>2. ing' = [ing EXCEPT ![r] = s] /\ UNCHANGED <<fails, alive>>
    BY <1>2 DEF BeginIngest
  <2> HIDE DEF s
  <2> QED BY <1>1, <2>1, <2>2
<1>3. CASE SkipKnown(r) \/ ApplyDeltas(r)
  <2>1. PICK s \in {[ing[r] EXCEPT !.pos = @ + 1], [ing[r] EXCEPT !.at = "applied"]} :
           ing' = [ing EXCEPT ![r] = s]
    BY <1>3 DEF SkipKnown, ApplyDeltas
  <2>2. UNCHANGED <<fails, alive>> /\ ing[r].at # "idle"
    BY <1>3 DEF SkipKnown, ApplyDeltas
  <2>3. s.at # "idle"
    BY <1>1, <2>1, <2>2 DEF Sessions
  <2> QED BY <1>1, <2>1, <2>2, <2>3
<1>4. ASSUME NEW s \in Sessions, s.at = "insert", NEW c, NEW i, NEW p,
             ing' = [ing EXCEPT ![r] = WithCommit(s, c, i, p)]
      PROVE  ing'[r].at # "idle"
  <2>1. WithCommit(s, c, i, p).at = "insert"
    BY <1>4 DEF WithCommit, Sessions
  <2> QED BY <1>1, <1>4, <2>1
<1>5. CASE InsertKnownAuthor(r)
  <2> DEFINE i == Log[r][ing[r].pos + 1]
             p == IF ing[r].cache[i] # NoPerson THEN ing[r].cache[i] ELSE owner[i]
  <2>1. /\ ing' = [ing EXCEPT ![r] = WithCommit(ing[r], ing[r].pos + 1, i, p)]
        /\ UNCHANGED <<fails, alive>> /\ ing[r].at = "insert"
    BY <1>5 DEF InsertKnownAuthor
  <2> HIDE DEF p, i
  <2> QED BY <1>1, <1>4, <2>1
<1>6. CASE InsertNewAuthor(r)
  <2> DEFINE i == Log[r][ing[r].pos + 1]
             s == [ing[r] EXCEPT !.pending = {}]
  <2>1. /\ ing' = [ing EXCEPT ![r] = WithCommit(s, ing[r].pos + 1, i, NextPerson)]
        /\ UNCHANGED fails /\ ing[r].at = "insert"
        /\ alive' = alive \cup {NextPerson} /\ Persons # used
    BY <1>6 DEF InsertNewAuthor
  <2>2. s \in Sessions /\ s.at = "insert"
    BY <1>1, <2>1 DEF Sessions
  <2> HIDE DEF s, i
  <2> QED BY <1>4, <2>1, <2>2
<1>7. CASE ApplyToGone(r) \/ CommitIngest(r)
  BY <1>7 DEF ApplyToGone, CommitIngest
<1> QED BY <1>2, <1>3, <1>5, <1>6, <1>7 DEF IngestStep

(* A session alone with the database.                                       *)
LEMMA SessionAccount ==
    ASSUME TypeOK, SessionsInv, EditsInv, OwnedInv, AccountInv, ~overlapped',
           NEW r \in Repos, IngestStep(r) \/ IngestFails(r)
    PROVE  Alone' /\ CacheTrue' /\ RollupAccount' /\ EditAccount'
<1> USE DEF dbVars, bounds
<1>1. /\ ~overlapped
      /\ BeginIngest(r) => NobodyEdits
  BY DEF IngestStep, BeginIngest, SkipKnown, InsertKnownAuthor, InsertNewAuthor,
         ApplyDeltas, ApplyToGone, CommitIngest, IngestFails, TypeOK
<1>2. Alone /\ CacheTrue /\ RollupAccount /\ EditAccount
  BY <1>1 DEF AccountInv
<1>3. NobodyEdits
  BY <1>1, <1>2, SessionKeeps DEF Alone, NobodyIngests
<1>4. /\ owner' \in [Idents -> Persons \cup {NoPerson}]
      /\ \A i \in Idents : owner'[i] # owner[i] =>
            owner[i] = NoPerson /\ owner'[i] \in Persons \ used
      /\ alive \subseteq alive' /\ UNCHANGED edit
  BY IngestKeepsEdits
<1>5. Alone' /\ EditAccount'
  BY <1>3, <1>4 DEF Alone, NobodyEdits, EditAccount
<1>6. CacheTrue'
  <2> SUFFICES ASSUME NEW q \in Repos, ing'[q].at # "idle", NEW i \in Idents
               PROVE  ing'[q].cache[i] \in {NoPerson, owner'[i]}
    BY DEF CacheTrue
  <2>1. CASE q # r
    <3>1. ing'[q] = ing[q]
      BY <2>1, SessionKeeps
    <3> QED BY <1>2, <1>4, <3>1 DEF CacheTrue
  <2>2. CASE q = r
    <3>1. CASE ing[r].at = "idle"
      BY <2>2, <3>1, SessionKeeps
    <3>2. CASE ing[r].at # "idle"
      <4>1. \/ ing'[r].cache[i] = ing[r].cache[i]
            \/ ing[r].cache[i] = NoPerson /\ ing'[r].cache[i] = owner'[i]
        BY <2>2, <3>2, SessionKeeps
      <4>2. ing[r].cache[i] \in {NoPerson, owner[i]}
        BY <1>2, <3>2 DEF CacheTrue
      <4> QED BY <1>4, <2>2, <4>1, <4>2
    <3> QED BY <3>1, <3>2
  <2> QED BY <2>1, <2>2
<1>7. \A q \in Repos : /\ Counted(q) \subseteq stored[q]
                       /\ stored[q] \subseteq 1..Len(Log[q])
  BY CountedStored
<1>8. ASSUME UNCHANGED rollup, fails' = 0 => fails = 0,
             \A q \in Repos : Counted(q)' = Counted(q),
             \A p \in alive' : p \in alive \/ p \notin used
      PROVE  RollupAccount'
  <2> SUFFICES ASSUME NEW p \in alive', NEW q \in Repos
               PROVE  /\ rollup[<<p, q>>] <= Cardinality(Given(owner', Counted(q), q, p))
                      /\ fails = 0 =>
                            rollup[<<p, q>>] = Cardinality(Given(owner', Counted(q), q, p))
    BY <1>8 DEF RollupAccount
  <2>1. \A c \in Counted(q) : Log[q][c] \in Idents /\ owner[Log[q][c]] # NoPerson
    BY <1>7, BranchLength DEF OwnedInv
  <2>2. \A c \in Counted(q) : owner'[Log[q][c]] = owner[Log[q][c]]
    BY <1>4, <2>1
  <2>3. Given(owner', Counted(q), q, p) = Given(owner, Counted(q), q, p)
    BY <2>2 DEF Given
  <2>4. CASE p \in alive
    BY <1>2, <2>3, <2>4 DEF RollupAccount
  <2>5. CASE p \notin used
    <3>1. Given(owner, Counted(q), q, p) = {}
      BY <2>1, <2>5 DEF Given, TypeOK
    <3>2. p \in Persons
      BY IngestKeepsEdits
    <3>3. rollup[<<p, q>>] = 0
      BY <2>5, <3>2 DEF OwnedInv
    <3> QED BY <2>3, <3>1, <3>3, FS_EmptySet
  <2> QED BY <1>8, <2>4, <2>5
<1>9. CASE ing'[r].at # "idle"
  <2>1. IngestStep(r)
    BY <1>9 DEF IngestFails, Idle, TypeOK
  <2>3. UNCHANGED <<rollup, fails>>
    <3>1. ~CommitIngest(r)
      BY <1>9 DEF CommitIngest, Idle, TypeOK
    <3> QED BY <2>1, <3>1, SessionEnds, SessionKeeps
  <2>2. \A q \in Repos : Counted(q)' = Counted(q)
    BY <1>9, SessionKeeps DEF Counted
  <2>4. \A p \in alive' : p \in alive \/ p \notin used
    <3>1. \/ alive' = alive
          \/ alive' = alive \cup {NextPerson} /\ Persons # used
      BY <2>1, SessionEnds
    <3>2. Persons # used => NextPerson \notin used
      BY NextPersonIsNew DEF TypeOK
    <3> QED BY <3>1, <3>2
  <2>5. RollupAccount'
    BY <1>8, <2>2, <2>3, <2>4
  <2> QED BY <1>5, <1>6, <2>5
<1>10. ~ApplyToGone(r)
  <2> SUFFICES ASSUME ApplyToGone(r) PROVE FALSE
    OBVIOUS
  <2>1. PICK p \in Persons : ing[r].delta[p] > 0 /\ p \notin alive
    BY DEF ApplyToGone
  <2>2. ing[r].at # "idle" /\ ing[r].delta[p] # 0
    BY <2>1 DEF ApplyToGone
  <2>3. PICK i \in Idents : ing[r].cache[i] = p
    BY <2>2, DeltaCredits
  <2>4. owner[i] = p
    BY <1>2, <2>2, <2>3, NoPersonAssumption DEF CacheTrue
  <2> QED BY <2>1, <2>4, NoPersonAssumption DEF TypeOK
<1>11. ASSUME IngestFails(r) PROVE RollupAccount'
  <2>1. /\ UNCHANGED <<owner, alive, rollup, stored>> /\ fails' = fails + 1
        /\ ing' = [ing EXCEPT ![r] = Idle]
    BY <1>11 DEF IngestFails
  <2>2. fails' # 0
    BY <2>1, BoundsAssumption DEF TypeOK
  <2> SUFFICES ASSUME NEW p \in alive, NEW q \in Repos
               PROVE  rollup[<<p, q>>] <= Cardinality(Given(owner, Counted(q)', q, p))
    BY <2>1, <2>2 DEF RollupAccount
  <2>3. Counted(q) \subseteq Counted(q)' /\ Counted(q)' \in SUBSET (1..Len(Log[q]))
    BY <1>7, <2>1 DEF Counted, Idle, TypeOK
  <2>4. Given(owner, Counted(q), q, p) \in SUBSET Given(owner, Counted(q)', q, p)
    BY <2>3 DEF Given
  <2>5. /\ IsFiniteSet(Given(owner, Counted(q)', q, p))
        /\ Cardinality(Given(owner, Counted(q)', q, p)) \in Nat
        /\ Cardinality(Given(owner, Counted(q), q, p)) \in Nat
    BY <1>7, <2>3, GivenCount
  <2>6. Cardinality(Given(owner, Counted(q), q, p))
          <= Cardinality(Given(owner, Counted(q)', q, p))
    BY <2>4, <2>5, FS_Subset
  <2>7. rollup[<<p, q>>] \in Nat /\ rollup[<<p, q>>] <= Cardinality(Given(owner, Counted(q), q, p))
    BY <1>2 DEF RollupAccount, TypeOK
  <2> QED BY <2>5, <2>6, <2>7
<1>12. ASSUME CommitIngest(r) PROVE RollupAccount'
  <2> DEFINE saved == stored[r] \cup ing[r].pending
  <2>1. /\ ing[r].at = "applied" /\ UNCHANGED <<owner, alive, fails>>
        /\ stored' = [stored EXCEPT ![r] = saved] /\ ing' = [ing EXCEPT ![r] = Idle]
        /\ rollup' = [x \in Persons \X Repos |->
              rollup[x] + (IF x[2] = r THEN ing[r].delta[x[1]] ELSE 0)]
    BY <1>12 DEF CommitIngest
  <2>2. /\ SessionAdds(ing[r], r) /\ ing[r].known \subseteq stored[r]
        /\ saved = ing[r].known \cup 1..ing[r].pos /\ ing[r] \in Sessions
    BY <2>1 DEF SessionsInv, SessionOpen, TypeOK, Sessions
  <2>3. Counted(r) = ing[r].known /\ Counted(r)' = saved
    BY <2>1 DEF Counted, Idle, TypeOK
  <2>4. \A q \in Repos \ {r} : Counted(q)' = Counted(q)
    BY <2>1 DEF Counted, TypeOK
  <2>5. ASSUME NEW p \in alive
        PROVE  Cardinality(Given(owner, saved, r, p))
                 = Cardinality(Given(owner, ing[r].known, r, p)) + ing[r].delta[p]
    <3> DEFINE A == Given(owner, ing[r].known, r, p)
               B == Credit(ing[r], r, p)
    <3>1. p \in Persons /\ p # NoPerson
      BY NoPersonAssumption DEF TypeOK
    <3>2. \A c \in Fresh(ing[r]) : c \in 1..Len(Log[r])
      BY <2>2, BranchLength DEF SessionAdds, Fresh, Sessions
    <3>3. \A c \in Fresh(ing[r]) : ing[r].cache[Log[r][c]] = owner[Log[r][c]]
      BY <1>2, <2>1, <2>2, <3>2, BranchLength DEF SessionAdds, CacheTrue
    <3>4. B = Given(owner, Fresh(ing[r]), r, p)
      BY <3>3 DEF Credit, Given
    <3>5. Given(owner, saved, r, p) = A \cup B /\ A \cap B = {}
      BY <2>2, <3>4 DEF Given, Fresh
    <3>6. ing[r].known \in SUBSET (1..Len(Log[r])) /\ B \in SUBSET (1..Len(Log[r]))
      BY <1>7, <2>2, <3>2 DEF Credit
    <3>7. IsFiniteSet(A) /\ IsFiniteSet(B) /\ Cardinality(A) \in Nat /\ Cardinality(B) \in Nat
      BY <3>6, GivenCount, BranchCount
    <3>8. ing[r].delta[p] = Cardinality(B)
      BY <2>2, <3>1 DEF SessionAdds
    <3> HIDE DEF A, B
    <3>9. Cardinality(A \cup B) = Cardinality(A) + Cardinality(B)
      <4>1. Cardinality(A \cup B) = Cardinality(A) + Cardinality(B) - Cardinality(A \cap B)
        BY <3>7, FS_Union
      <4>2. Cardinality(A \cap B) = 0
        BY <3>5, FS_EmptySet
      <4>3. Cardinality(A \cup B) = Cardinality(A) + Cardinality(B) - 0
        BY <4>1, <4>2
      <4> QED BY <3>7, <4>3
    <3> QED BY <3>5, <3>8, <3>9 DEF A
  <2> HIDE DEF saved
  <2> SUFFICES ASSUME NEW p \in alive, NEW q \in Repos
               PROVE  /\ rollup'[<<p, q>>] <= Cardinality(Given(owner, Counted(q)', q, p))
                      /\ fails = 0 =>
                            rollup'[<<p, q>>] = Cardinality(Given(owner, Counted(q)', q, p))
    BY <2>1 DEF RollupAccount
  <2>6. /\ p \in Persons /\ rollup[<<p, q>>] \in Nat
        /\ rollup[<<p, q>>] <= Cardinality(Given(owner, Counted(q), q, p))
        /\ fails = 0 => rollup[<<p, q>>] = Cardinality(Given(owner, Counted(q), q, p))
    BY <1>2 DEF RollupAccount, TypeOK
  <2>7. CASE q # r
    <3>1. rollup'[<<p, q>>] = rollup[<<p, q>>]
      BY <2>1, <2>6, <2>7
    <3> QED BY <2>4, <2>6, <2>7, <3>1
  <2>8. CASE q = r
    <3>1. rollup'[<<p, r>>] = rollup[<<p, r>>] + ing[r].delta[p]
      BY <2>1, <2>6
    <3>2. /\ Cardinality(Given(owner, ing[r].known, r, p)) \in Nat
          /\ ing[r].delta[p] \in Nat
      BY <1>7, <2>2, <2>3, <2>6, GivenCount DEF Sessions, Counts
    <3> QED BY <2>3, <2>5, <2>6, <2>8, <3>1, <3>2
  <2> QED BY <2>7, <2>8
<1> QED BY <1>5, <1>6, <1>9, <1>10, <1>11, <1>12, SessionEnds

(* A merge, an unmerge or a recompute plans from what it sees.              *)
LEMMA OpenAccount ==
    ASSUME TypeOK, SessionsInv, EditsInv, AccountInv, ~overlapped', NEW e \in Editors,
           BeginMerge(e) \/ BeginUnmerge(e) \/ BeginRecompute(e)
    PROVE  Alone' /\ CacheTrue' /\ RollupAccount' /\ EditAccount'
<1>1. PICK moved \in SUBSET Idents, to \in Persons \cup {NoPerson},
           gone \in SUBSET Persons, rebuilt \in SUBSET Persons :
             EditPlan(e, moved, to, gone, rebuilt)
  BY EditStepOpens
<1>2. UNCHANGED <<owner, alive, stored, rollup, ing, fails>>
  BY <1>1 DEF EditPlan
<1>3. ~overlapped /\ NobodyIngests
  BY <1>1 DEF EditPlan, OpenEdit, TypeOK
<1>4. CacheTrue /\ RollupAccount /\ EditAccount
  BY <1>3 DEF AccountInv
<1> DEFINE rows == {x \in (gone \cup rebuilt) \X Repos : rollup[x] > 0}
           mapping == [i \in Idents |-> IF i \in moved THEN to ELSE owner[i]]
           snap == [x \in Persons \X Repos |->
                      IF x[1] \in rebuilt
                      THEN Cardinality(Authored(mapping, x[2], x[1])) ELSE 0]
           opened == [open |-> TRUE, moved |-> moved, to |-> to, gone |-> gone,
                      rebuilt |-> rebuilt, held |-> rows, snap |-> snap]
<1>5. edit' = [edit EXCEPT ![e] = opened]
  BY <1>1 DEF EditPlan, OpenEdit
<1>6. /\ opened.moved = moved /\ opened.to = to /\ opened.rebuilt = rebuilt
      /\ opened.held = rows /\ opened.snap = snap
  OBVIOUS
<1> HIDE DEF opened
<1>7. edit'[e] = opened /\ \A f \in Editors \ {e} : edit'[f] = edit[f]
  BY <1>5 DEF TypeOK
<1>8. Mapping(e)' = mapping /\ \A f \in Editors \ {e} : Mapping(f)' = Mapping(f)
  BY <1>2, <1>6, <1>7 DEF Mapping
<1>9. Alone' /\ CacheTrue'
  BY <1>2, <1>3 DEF Alone, NobodyIngests, CacheTrue
<1>10. RollupAccount'
  <2>1. \A r \in Repos : Counted(r)' = Counted(r)
    BY <1>2 DEF Counted
  <2> QED BY <1>2, <1>4, <2>1 DEF RollupAccount
<1>11. ASSUME NEW p \in rebuilt, NEW r \in Repos
       PROVE  /\ snap[<<p, r>>] = Cardinality(Given(mapping, stored[r], r, p))
              /\ <<p, r>> \notin rows => rollup[<<p, r>>] = 0
  <2>1. Authored(mapping, r, p) = Given(mapping, stored[r], r, p)
    BY DEF Authored, Given
  <2>2. snap[<<p, r>>] = Cardinality(Authored(mapping, r, p))
    OBVIOUS
  <2>3. rollup[<<p, r>>] \in Nat
    BY DEF TypeOK
  <2> QED BY <2>1, <2>2, <2>3
<1>12. EditAccount'
  <2> SUFFICES ASSUME NEW f \in Editors, edit'[f].open, NEW p \in edit'[f].rebuilt,
                      NEW r \in Repos
               PROVE  /\ edit'[f].snap[<<p, r>>]
                           = Cardinality(Given(Mapping(f)', stored'[r], r, p))
                      /\ <<p, r>> \notin edit'[f].held => rollup'[<<p, r>>] = 0
    BY DEF EditAccount
  <2>1. CASE f = e
    <3> HIDE DEF rows, snap, mapping
    <3> QED BY <1>2, <1>6, <1>7, <1>8, <1>11, <2>1
  <2>2. CASE f # e
    <3>1. edit'[f] = edit[f] /\ Mapping(f)' = Mapping(f)
      BY <1>7, <1>8, <2>2
    <3> QED BY <1>2, <1>4, <3>1 DEF EditAccount
  <2> QED BY <2>1, <2>2
<1> QED BY <1>9, <1>10, <1>12

(* What a committing edit writes.                                           *)
LEMMA CommitWrites ==
    ASSUME TypeOK, EditsInv, OwnedInv, NEW e \in Editors, CommitEdit(e),
           NEW r \in Repos, NEW p \in Persons
    PROVE  /\ owner' = Mapping(e)
           /\ p \notin Touched(e) =>
                 /\ rollup'[<<p, r>>] = rollup[<<p, r>>]
                 /\ \A i \in Idents : owner'[i] = p <=> owner[i] = p
           /\ p \in edit[e].gone =>
                 rollup'[<<p, r>>] = 0 /\ \A i \in Idents : owner'[i] # p
           /\ p \in edit[e].rebuilt \ edit[e].gone =>
                 \/ rollup'[<<p, r>>] = edit[e].snap[<<p, r>>]
                 \/ /\ rollup'[<<p, r>>] = rollup[<<p, r>>]
                    /\ <<p, r>> \notin edit[e].held /\ edit[e].snap[<<p, r>>] = 0
<1>1. /\ owner' = Mapping(e) /\ edit[e].open
      /\ rollup' = [x \in Persons \X Repos |->
            IF x[1] \in edit[e].gone THEN 0
            ELSE IF x \in edit[e].held \/ edit[e].snap[x] > 0 THEN edit[e].snap[x]
            ELSE rollup[x]]
  BY DEF CommitEdit, Mapping
<1>2. edit[e].snap[<<p, r>>] \in Nat
  BY DEF TypeOK
<1>3. ASSUME p \notin Touched(e)
      PROVE  /\ rollup'[<<p, r>>] = rollup[<<p, r>>]
             /\ \A i \in Idents : owner'[i] = p <=> owner[i] = p
  <2>1. edit[e].snap[<<p, r>>] = 0 /\ <<p, r>> \notin edit[e].held /\ p \notin edit[e].gone
    BY <1>1, <1>2, <1>3 DEF OwnedInv, Touched
  <2>2. rollup'[<<p, r>>] = rollup[<<p, r>>]
    BY <1>1, <2>1
  <2>3. ASSUME NEW i \in Idents PROVE owner'[i] = p <=> owner[i] = p
    <3>1. i \in edit[e].moved => edit[e].to # p /\ owner[i] # p
      BY <1>1, <1>3 DEF EditsInv, Touched
    <3> QED BY <1>1, <3>1 DEF Mapping
  <2> QED BY <2>2, <2>3
<1>4. ASSUME p \in edit[e].gone
      PROVE  rollup'[<<p, r>>] = 0 /\ \A i \in Idents : owner'[i] # p
  <2>1. rollup'[<<p, r>>] = 0
    BY <1>1, <1>4
  <2>2. ASSUME NEW i \in Idents PROVE owner'[i] # p
    <3>1. edit[e].to # p /\ (i \notin edit[e].moved => owner[i] # p)
      BY <1>1, <1>4 DEF EditsInv
    <3> QED BY <1>1, <3>1 DEF Mapping
  <2> QED BY <2>1, <2>2
<1>5. ASSUME p \in edit[e].rebuilt \ edit[e].gone
      PROVE  \/ rollup'[<<p, r>>] = edit[e].snap[<<p, r>>]
             \/ /\ rollup'[<<p, r>>] = rollup[<<p, r>>]
                /\ <<p, r>> \notin edit[e].held /\ edit[e].snap[<<p, r>>] = 0
  BY <1>1, <1>2, <1>5
<1> QED BY <1>1, <1>3, <1>4, <1>5

(* So the persons it rebuilt have every commit they own.                    *)
LEMMA CommitRepairs ==
    ASSUME TypeOK, SessionsInv, EditsInv, OwnedInv, AccountInv, ~overlapped,
           NEW e \in Editors, CommitEdit(e), NEW p \in edit[e].rebuilt, NEW r \in Repos
    PROVE  /\ stored' = stored
           /\ rollup'[<<p, r>>] = Cardinality(Given(owner', stored[r], r, p))
<1>1. edit[e].open /\ stored' = stored /\ p \in Persons
  BY DEF CommitEdit, TypeOK
<1>2. /\ edit[e].snap[<<p, r>>] = Cardinality(Given(Mapping(e), stored[r], r, p))
      /\ <<p, r>> \notin edit[e].held => rollup[<<p, r>>] = 0
  BY <1>1 DEF AccountInv, EditAccount
<1>3. CASE p \in edit[e].gone
  <2>1. rollup'[<<p, r>>] = 0 /\ \A i \in Idents : owner'[i] # p
    BY <1>1, <1>3, CommitWrites
  <2>2. \A c \in stored[r] : Log[r][c] \in Idents
    BY CountedStored, BranchLength
  <2>3. Given(owner', stored[r], r, p) = {}
    BY <2>1, <2>2 DEF Given
  <2> QED BY <1>1, <2>1, <2>3, FS_EmptySet
<1>4. CASE p \notin edit[e].gone
  <2>1. rollup'[<<p, r>>] = edit[e].snap[<<p, r>>]
    BY <1>1, <1>2, <1>4, CommitWrites
  <2>2. owner' = Mapping(e)
    BY <1>1, CommitWrites
  <2> QED BY <1>1, <1>2, <2>1, <2>2
<1> QED BY <1>3, <1>4

LEMMA CommitAccount ==
    ASSUME TypeOK, SessionsInv, EditsInv, OwnedInv, AccountInv, ~overlapped',
           NEW e \in Editors, CommitEdit(e)
    PROVE  Alone' /\ CacheTrue' /\ RollupAccount' /\ EditAccount'
<1>1. /\ edit[e].open /\ ~overlapped /\ UNCHANGED <<stored, ing, fails>>
      /\ alive' = (alive \ edit[e].gone)
            \cup (IF edit[e].to = NoPerson THEN {} ELSE {edit[e].to})
      /\ edit' = [edit EXCEPT ![e] = Closed]
  BY DEF CommitEdit, bounds
<1>2. RollupAccount /\ EditAccount /\ NobodyIngests
  BY <1>1 DEF AccountInv, Alone, NobodyEdits
<1>3. Alone' /\ CacheTrue'
  BY <1>1, <1>2 DEF Alone, NobodyIngests, CacheTrue
<1>4. \A r \in Repos : Counted(r) = stored[r] /\ Counted(r)' = stored[r]
  BY <1>1, <1>2 DEF NobodyIngests, Counted
<1>5. \A r \in Repos : \A c \in stored[r] : Log[r][c] \in Idents
  BY CountedStored, BranchLength
<1>6. ASSUME NEW r \in Repos, NEW p \in Persons \ Touched(e)
      PROVE  /\ rollup'[<<p, r>>] = rollup[<<p, r>>]
             /\ \A i \in Idents : owner'[i] = p <=> owner[i] = p
  BY CommitWrites
<1>7. RollupAccount'
  <2> SUFFICES ASSUME NEW p \in alive', NEW r \in Repos
               PROVE  /\ rollup'[<<p, r>>] <= Cardinality(Given(owner', stored[r], r, p))
                      /\ fails = 0 =>
                            rollup'[<<p, r>>] = Cardinality(Given(owner', stored[r], r, p))
    BY <1>1, <1>4 DEF RollupAccount
  <2>1. /\ p \notin edit[e].gone /\ p \in Persons
        /\ p \in alive \/ p \in edit[e].rebuilt
    BY <1>1 DEF EditsInv, TypeOK
  <2>2. Cardinality(Given(owner', stored[r], r, p)) \in Nat
    BY CountedStored, GivenCount
  <2>3. CASE p \in edit[e].rebuilt
    <3>1. rollup'[<<p, r>>] = Cardinality(Given(owner', stored[r], r, p))
      BY <1>1, <2>3, CommitRepairs
    <3> QED BY <2>2, <3>1
  <2>4. CASE p \notin edit[e].rebuilt
    <3>1. p \in alive /\ p \notin Touched(e)
      BY <2>1, <2>4 DEF Touched
    <3>2. Given(owner', stored[r], r, p) = Given(owner, stored[r], r, p)
      BY <1>5, <1>6, <2>1, <3>1 DEF Given
    <3>3. rollup'[<<p, r>>] = rollup[<<p, r>>]
      BY <1>6, <2>1, <3>1
    <3> QED BY <1>2, <1>4, <3>1, <3>2, <3>3 DEF RollupAccount
  <2> QED BY <2>3, <2>4
<1>8. EditAccount'
  <2> SUFFICES ASSUME NEW f \in Editors, edit'[f].open, NEW p \in edit'[f].rebuilt,
                      NEW r \in Repos
               PROVE  /\ edit'[f].snap[<<p, r>>]
                           = Cardinality(Given(Mapping(f)', stored'[r], r, p))
                      /\ <<p, r>> \notin edit'[f].held => rollup'[<<p, r>>] = 0
    BY DEF EditAccount
  <2>1. f # e /\ edit'[f] = edit[f]
    BY <1>1 DEF Closed, TypeOK
  <2>2. p \in Persons \ Touched(e)
    BY <1>1, <2>1 DEF EditsInv, Touched, TypeOK
  <2>3. /\ edit[f].snap[<<p, r>>] = Cardinality(Given(Mapping(f), stored[r], r, p))
        /\ <<p, r>> \notin edit[f].held => rollup[<<p, r>>] = 0
    BY <1>2, <2>1 DEF EditAccount
  <2>4. \A i \in Idents : Mapping(f)'[i] = p <=> Mapping(f)[i] = p
    BY <1>6, <2>1, <2>2 DEF Mapping
  <2>5. Given(Mapping(f)', stored[r], r, p) = Given(Mapping(f), stored[r], r, p)
    BY <1>5, <2>4 DEF Given
  <2> QED BY <1>1, <1>6, <2>1, <2>2, <2>3, <2>5
<1> QED BY <1>3, <1>7, <1>8

LEMMA AccountInductive ==
    ASSUME TypeOK, SessionsInv, EditsInv, OwnedInv, AccountInv, [Next]_vars
    PROVE  AccountInv'
<1> SUFFICES ASSUME ~overlapped'
             PROVE  Alone' /\ CacheTrue' /\ RollupAccount' /\ EditAccount'
  BY DEF AccountInv
<1>1. CASE UNCHANGED <<owner, alive, stored, rollup, ing, edit, fails, overlapped>>
  <2>1. Alone /\ CacheTrue /\ RollupAccount /\ EditAccount
    BY <1>1 DEF AccountInv
  <2>2. \A r \in Repos : Counted(r)' = Counted(r)
    BY <1>1 DEF Counted
  <2>3. \A e \in Editors : Mapping(e)' = Mapping(e)
    BY <1>1 DEF Mapping
  <2>4. Alone' /\ CacheTrue'
    BY <1>1, <2>1 DEF Alone, NobodyIngests, NobodyEdits, CacheTrue
  <2>5. RollupAccount'
    BY <1>1, <2>1, <2>2 DEF RollupAccount
  <2>6. EditAccount'
    BY <1>1, <2>1, <2>3 DEF EditAccount
  <2> QED BY <2>4, <2>5, <2>6
<1>2. ASSUME NEW r \in Repos, Push(r)
      PROVE  UNCHANGED <<owner, alive, stored, rollup, ing, edit, fails, overlapped>>
  BY <1>2 DEF Push, dbVars, bounds
<1>3. ASSUME UNCHANGED vars
      PROVE  UNCHANGED <<owner, alive, stored, rollup, ing, edit, fails, overlapped>>
  BY <1>3 DEF vars, dbVars, bounds
<1> QED BY <1>1, <1>2, <1>3, SessionAccount, OpenAccount, CommitAccount DEF Next, EditStep

LEMMA AccountInit == Init => OwnedInv /\ AccountInv
<1> SUFFICES ASSUME Init PROVE OwnedInv /\ AccountInv
  OBVIOUS
<1>1. /\ \A r \in Repos : ing[r] = Idle /\ stored[r] = {}
      /\ \A e \in Editors : ~edit[e].open
      /\ \A x \in Persons \X Repos : rollup[x] = 0
      /\ alive = {}
  BY DEF Init, Closed
<1>2. \A r \in Repos : ing[r].at = "idle"
  BY <1>1 DEF Idle
<1>3. OwnedInv
  BY <1>1, <1>2 DEF OwnedInv
<1>4. AccountInv
  BY <1>1, <1>2 DEF AccountInv, Alone, NobodyEdits, CacheTrue, RollupAccount, EditAccount
<1> QED BY <1>3, <1>4

LEMMA AccountHolds ==
    Spec => [](TypeOK /\ SessionsInv /\ EditsInv /\ OwnedInv /\ AccountInv)
<1>1. TypeOK /\ SessionsInv /\ EditsInv /\ OwnedInv /\ AccountInv
        /\ (TypeOK /\ SessionsInv /\ EditsInv)' /\ [Next]_vars
        => (OwnedInv /\ AccountInv)'
  BY OwnedInductive, AccountInductive
<1> QED BY <1>1, AccountInit, TypesHold, PTL DEF Spec

(* Nobody's rollup claims a commit that is not stored, and once nothing is  *)
(* under way it has every one: for as long as no edit has been open next to *)
(* an ingest and, the second part, no ingest has failed.                    *)
THEOREM RollupsSound == Spec => []RollupSound
<1>1. TypeOK /\ SessionsInv /\ EditsInv /\ OwnedInv /\ AccountInv => RollupSound
  <2> SUFFICES ASSUME TypeOK, SessionsInv, AccountInv, ~overlapped,
                      NEW p \in alive, NEW r \in Repos
               PROVE  /\ rollup[<<p, r>>] <= Cardinality(Authored(owner, r, p))
                      /\ fails = 0 /\ NobodyIngests =>
                            rollup[<<p, r>>] = Cardinality(Authored(owner, r, p))
    BY DEF RollupSound, RollupExact, RollupAttributed, NeverOvercounts
  <2>1. /\ rollup[<<p, r>>] <= Cardinality(Given(owner, Counted(r), r, p))
        /\ fails = 0 => rollup[<<p, r>>] = Cardinality(Given(owner, Counted(r), r, p))
    BY DEF AccountInv, RollupAccount
  <2>2. Given(owner, stored[r], r, p) = Authored(owner, r, p)
    BY DEF Given, Authored
  <2>3. Given(owner, Counted(r), r, p) \in SUBSET Given(owner, stored[r], r, p)
    BY CountedStored DEF Given
  <2>4. /\ IsFiniteSet(Given(owner, stored[r], r, p))
        /\ Cardinality(Given(owner, stored[r], r, p)) \in Nat
        /\ Cardinality(Given(owner, Counted(r), r, p)) \in Nat
    BY CountedStored, GivenCount
  <2>5. Cardinality(Given(owner, Counted(r), r, p))
          <= Cardinality(Given(owner, stored[r], r, p))
    BY <2>3, <2>4, FS_Subset
  <2>6. rollup[<<p, r>>] \in Nat
    BY DEF TypeOK
  <2>7. rollup[<<p, r>>] <= Cardinality(Authored(owner, r, p))
    BY <2>1, <2>2, <2>4, <2>5, <2>6
  <2>8. ASSUME fails = 0, NobodyIngests
        PROVE  rollup[<<p, r>>] = Cardinality(Authored(owner, r, p))
    <3>1. Counted(r) = stored[r]
      BY <2>8 DEF NobodyIngests, Counted
    <3> QED BY <2>1, <2>2, <2>8, <3>1
  <2> QED BY <2>7, <2>8
<1> QED BY <1>1, AccountHolds, PTL

(* A merge, an unmerge or a recompute leaves the persons it rebuilds exact, *)
(* however far failed ingests had left them behind.                         *)
THEOREM EditsDoRepair == Spec => EditsRepair
<1> DEFINE Repaired == \A e \in Editors : ~overlapped /\ edit[e].open /\ ~edit'[e].open =>
              \A p \in edit[e].rebuilt, r \in Repos :
                  rollup'[<<p, r>>] = Cardinality(Authored(owner, r, p)')
<1>1. ASSUME TypeOK, SessionsInv, EditsInv, OwnedInv, AccountInv, [Next]_vars
      PROVE  Repaired
  <2> SUFFICES ASSUME NEW e \in Editors, ~overlapped, edit[e].open, ~edit'[e].open,
                      NEW p \in edit[e].rebuilt, NEW r \in Repos
               PROVE  rollup'[<<p, r>>] = Cardinality(Authored(owner, r, p)')
    OBVIOUS
  <2>1. CommitEdit(e)
    <3>1. ASSUME NEW q \in Repos, IngestStep(q) \/ IngestFails(q) PROVE UNCHANGED edit
      BY <1>1, <3>1, IngestKeepsEdits
    <3>2. ASSUME NEW q \in Repos, Push(q) PROVE UNCHANGED edit
      BY <3>2 DEF Push
    <3>3. ASSUME NEW f \in Editors, BeginMerge(f) \/ BeginUnmerge(f) \/ BeginRecompute(f)
          PROVE  edit'[e].open
      <4>1. PICK moved \in SUBSET Idents, to \in Persons \cup {NoPerson},
                 gone \in SUBSET Persons, rebuilt \in SUBSET Persons :
                   EditPlan(f, moved, to, gone, rebuilt)
        BY <1>1, <3>3, EditStepOpens
      <4>2. PICK rows, snap : edit' = [edit EXCEPT ![f] =
               [open |-> TRUE, moved |-> moved, to |-> to, gone |-> gone,
                rebuilt |-> rebuilt, held |-> rows, snap |-> snap]]
        BY <4>1, Zenon DEF EditPlan, OpenEdit
      <4> QED BY <1>1, <4>2 DEF TypeOK
    <3>4. ASSUME NEW f \in Editors \ {e}, CommitEdit(f) PROVE edit'[e] = edit[e]
      BY <1>1, <3>4 DEF CommitEdit, TypeOK
    <3>5. UNCHANGED vars => UNCHANGED edit
      BY DEF vars
    <3> QED BY <1>1, <3>1, <3>2, <3>3, <3>4, <3>5 DEF Next, EditStep
  <2>2. /\ stored' = stored
        /\ rollup'[<<p, r>>] = Cardinality(Given(owner', stored[r], r, p))
    BY <1>1, <2>1, CommitRepairs
  <2>3. Authored(owner, r, p)' = Given(owner', stored[r], r, p)
    BY <2>2 DEF Authored, Given
  <2> QED BY <2>2, <2>3
<1>2. TypeOK /\ SessionsInv /\ EditsInv /\ OwnedInv /\ AccountInv /\ [Next]_vars
        => [Repaired]_vars
  BY <1>1
<1> QED BY <1>2, AccountHolds, PTL DEF Spec, EditsRepair
=============================================================================
