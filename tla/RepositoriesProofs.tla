------------------------- MODULE RepositoriesProofs -------------------------
(* Proofs about the repositories of an organization, for every number of    *)
(* nodes and names, every filter and every number of tasks at a time.       *)
EXTENDS Repositories, FiniteSetTheorems, WellFoundedInduction, TLAPS

----------------------------------------------------------------------------
(* A set that has zero and, with every number below n, the next one.        *)
LEMMA UpTo ==
    ASSUME NEW n \in Nat, NEW S, 0 \in S, \A k \in S : k \in Nat /\ k < n => k + 1 \in S
    PROVE  0..n \subseteq S
<1> DEFINE T == {k \in 0..n : k \notin S}
           F == {0..k : k \in T}
           R == StrictSubsetOrdering(Nat)
<1> SUFFICES ASSUME T # {} PROVE FALSE
  OBVIOUS
<1>1. F \subseteq FiniteSubsetsOf(Nat)
  <2>1. \A k \in T : 0..k \in SUBSET Nat /\ IsFiniteSet(0..k)
    BY FS_Interval
  <2> QED BY <2>1 DEF FiniteSubsetsOf
<1>2. \E x \in F : \A y \in F : ~ (<<y, x>> \in R)
  <2>1. IsWellFoundedOn(R, FiniteSubsetsOf(Nat)) /\ F # {}
    BY FS_StrictSubsetOrderingWellFounded
  <2> HIDE DEF F, R
  <2> QED BY <1>1, <2>1, WFMin
<1>3. PICK k \in T : \A j \in T : ~ (<<0..j, 0..k>> \in R)
  BY <1>2
<1>4. k \in Nat /\ k # 0 /\ k <= n
  OBVIOUS
<1>5. k - 1 \in 0..n /\ k - 1 \in Nat /\ k - 1 < n /\ (k - 1) + 1 = k
  BY <1>4
<1>6. k - 1 \notin T
  <2>1. 0..(k - 1) \subseteq 0..k /\ 0..(k - 1) # 0..k
    BY <1>4, <1>5
  <2>2. 0..(k - 1) \in SUBSET Nat /\ 0..k \in SUBSET Nat
    BY <1>4, <1>5
  <2> HIDE DEF T
  <2> QED BY <1>3, <2>1, <2>2 DEF StrictSubsetOrdering
<1>7. k - 1 \in S
  BY <1>5, <1>6
<1> QED BY <1>5, <1>7

(* The walk is what its equation says.                                      *)
Walked(g, n) ==
    g = [k \in 0..n |-> IF k = 0 THEN [rows |-> rows, seen |-> {}, ok |-> TRUE]
                        ELSE Turn(g[k-1], k)]

LEMMA WalkSteps ==
    /\ Walk[0] = [rows |-> rows, seen |-> {}, ok |-> TRUE]
    /\ \A k \in 1..MaxName : Walk[k] = Turn(Walk[k-1], k)
<1> DEFINE S == {n \in 0..MaxName : \E g : Walked(g, n)}
<1>0. MaxName \in Nat
  BY RepositoriesBounds
<1>1. 0 \in S
  <2> DEFINE g == [k \in 0..0 |-> [rows |-> rows, seen |-> {}, ok |-> TRUE]]
  <2>1. Walked(g, 0)
    BY DEF Walked
  <2> HIDE DEF g
  <2> QED BY <1>0, <2>1
<1>2. ASSUME NEW n \in S, n < MaxName PROVE n + 1 \in S
  <2>1. PICK g : Walked(g, n)
    OBVIOUS
  <2>2. n \in Nat /\ n + 1 \in 0..MaxName
    BY <1>0, <1>2
  <2> DEFINE h == [k \in 0..(n + 1) |-> IF k = n + 1 THEN Turn(g[n], k) ELSE g[k]]
  <2>3. \A k \in 0..n : h[k] = g[k]
    BY <2>2
  <2>4. \A k \in 0..n : g[k] = IF k = 0 THEN [rows |-> rows, seen |-> {}, ok |-> TRUE]
                               ELSE Turn(g[k-1], k)
    BY <2>1 DEF Walked
  <2>5. ASSUME NEW k \in 0..(n + 1)
        PROVE  h[k] = IF k = 0 THEN [rows |-> rows, seen |-> {}, ok |-> TRUE]
                      ELSE Turn(h[k-1], k)
    <3>1. CASE k = n + 1
      <4>1. h[k] = Turn(g[n], k) /\ k - 1 = n /\ k # 0 /\ n \in 0..n
        BY <2>2, <3>1
      <4>2. h[k - 1] = g[n]
        BY <2>3, <4>1
      <4> HIDE DEF h
      <4> QED BY <4>1, <4>2
    <3>2. CASE k # n + 1
      <4>1. k \in 0..n /\ (k # 0 => k - 1 \in 0..n)
        BY <2>2, <3>2
      <4>2. h[k] = g[k] /\ (k # 0 => h[k - 1] = g[k - 1])
        BY <2>3, <4>1
      <4> HIDE DEF h
      <4> QED BY <2>4, <4>1, <4>2
    <3> QED BY <3>1, <3>2
  <2>6. Walked(h, n + 1)
    <3>1. h = [k \in 0..(n + 1) |-> h[k]]
      OBVIOUS
    <3> HIDE DEF h
    <3> QED BY <2>5, <3>1 DEF Walked
  <2> HIDE DEF h
  <2> QED BY <2>2, <2>6
<1>3. \E g : Walked(g, MaxName)
  <2>1. \A k \in S : k \in Nat /\ k < MaxName => k + 1 \in S
    BY <1>2
  <2> HIDE DEF S
  <2>2. 0..MaxName \subseteq S
    BY <1>0, <1>1, <2>1, UpTo
  <2> QED BY <1>0, <2>2 DEF S
<1>4. Walk = CHOOSE g : Walked(g, MaxName)
  BY DEF Walk, Walked
<1>5. Walked(Walk, MaxName)
  BY <1>3, <1>4
<1>6. \A k \in 0..MaxName :
         Walk[k] = IF k = 0 THEN [rows |-> rows, seen |-> {}, ok |-> TRUE]
                   ELSE Turn(Walk[k-1], k)
  BY <1>5 DEF Walked
<1>7. 0 \in 0..MaxName /\ \A k \in 1..MaxName : k \in 0..MaxName /\ k # 0
  BY <1>0
<1> QED BY <1>6, <1>7

----------------------------------------------------------------------------
(* Tables of rows.                                                          *)

LEMMA Tables ==
    /\ \A t \in Seq(Rows) : /\ Len(t) \in Nat /\ DOMAIN t = 1..Len(t)
                            /\ \A i \in DOMAIN t : t[i] \in Rows
    /\ \A n \in Nat : \A t \in [1..n -> Rows] : t \in Seq(Rows) /\ Len(t) = n
    /\ \A r \in Rows : /\ r.name \in Names /\ r.node \in Nodes /\ r.included \in BOOLEAN
                       /\ r.clone \in {"pending", "ready", "error"}
                       /\ r.cursor \in Tips /\ r.hist \in SUBSET Nodes
<1>1. \A t \in Seq(Rows) : /\ Len(t) \in Nat /\ DOMAIN t = 1..Len(t)
                           /\ \A i \in DOMAIN t : t[i] \in Rows
  OBVIOUS
<1>2. \A n \in Nat : \A t \in [1..n -> Rows] : t \in Seq(Rows) /\ Len(t) = n
  OBVIOUS
<1>3. \A r \in Rows : /\ r.name \in Names /\ r.node \in Nodes /\ r.included \in BOOLEAN
                      /\ r.clone \in {"pending", "ready", "error"}
                      /\ r.cursor \in Tips /\ r.hist \in SUBSET Nodes
  BY DEF Rows
<1> QED BY <1>1, <1>2, <1>3

LEMMA Decides ==
    \A m, mode, listed, fork, forks :
        RepoIncluded(m, mode, listed, fork, forks) \in BOOLEAN
BY DEF RepoIncluded

(* Where the row of a listed name is, in a table of that length.            *)
Slot(m, n, len) == IF KnownRow(m, n) = 0 THEN len + 1 ELSE KnownRow(m, n)
Included(m, n) == RepoIncluded(m, seen.mode, policy.listed, n \in Forks, seen.forks)

LEMMA KnownRows ==
    ASSUME rows \in Seq(Rows), NEW m, NEW n
    PROVE  /\ KnownRow(m, n) \in {0} \cup DOMAIN rows
           /\ KnownRow(m, n) # 0 => /\ KnownRow(m, n) \in DOMAIN rows
                                    /\ \/ rows[KnownRow(m, n)].node = n
                                       \/ rows[KnownRow(m, n)].name = m
           /\ (\E i \in DOMAIN rows : rows[i].node = n) =>
                 KnownRow(m, n) # 0 /\ rows[KnownRow(m, n)].node = n
           /\ (\E i \in DOMAIN rows : rows[i].name = m) => KnownRow(m, n) # 0
<1>1. \A S : S # {} => ById(S) \in S
  BY DEF ById
<1>2. ById({}) = 0 /\ 0 \notin DOMAIN rows
  BY Tables DEF ById
<1>3. /\ ByNode(n) # 0 => ByNode(n) \in DOMAIN rows /\ rows[ByNode(n)].node = n
      /\ (\E i \in DOMAIN rows : rows[i].node = n) => ByNode(n) # 0
  <2> DEFINE S == {i \in DOMAIN rows : rows[i].node = n}
  <2>1. ByNode(n) = ById(S)
    BY DEF ByNode
  <2>2. S # {} => ById(S) \in S
    BY <1>1
  <2>3. S = {} => ById(S) = 0
    BY <1>2
  <2> QED BY <1>2, <2>1, <2>2, <2>3
<1>4. /\ ByName(m) # 0 => ByName(m) \in DOMAIN rows /\ rows[ByName(m)].name = m
      /\ (\E i \in DOMAIN rows : rows[i].name = m) => ByName(m) # 0
  <2> DEFINE S == {i \in DOMAIN rows : rows[i].name = m}
  <2>1. ByName(m) = ById(S)
    BY DEF ByName
  <2>2. S # {} => ById(S) \in S
    BY <1>1
  <2>3. S = {} => ById(S) = 0
    BY <1>2
  <2> QED BY <1>2, <2>1, <2>2, <2>3
<1> QED BY <1>3, <1>4 DEF KnownRow

(* What one turn of the loop does to the table.                             *)
Upserts(acc, m, n, end, i) ==
    /\ i = Slot(m, n, Len(acc.rows)) /\ i \in Nat
    /\ DOMAIN end.rows = DOMAIN acc.rows \cup {i}
    /\ end.rows \in Seq(Rows) /\ Len(acc.rows) <= Len(end.rows)
    /\ end.rows[i].name = m /\ end.rows[i].node = n
    /\ end.rows[i].included = Included(m, n)
    /\ end.rows[i].hist = IF KnownRow(m, n) = 0 THEN {} ELSE acc.rows[i].hist
    /\ KnownRow(m, n) # 0 => i \in DOMAIN acc.rows
    /\ \A j \in DOMAIN acc.rows \ {i} : end.rows[j] = acc.rows[j]
    /\ end.seen = acc.seen \cup {i}
    /\ end.ok <=> /\ acc.ok
                  /\ \A j \in DOMAIN acc.rows \ {i} :
                        acc.rows[j].name # m /\ acc.rows[j].node # n

LEMMA Upserted ==
    ASSUME TypeOK, NEW acc, acc.rows \in Seq(Rows), Len(rows) <= Len(acc.rows),
           NEW m \in Names, NEW n \in Nodes
    PROVE  Upserts(acc, m, n, UpsertRow(acc, m, n), Slot(m, n, Len(acc.rows)))
<1> DEFINE table == acc.rows
           known == KnownRow(m, n)
           i == Slot(m, n, Len(table))
           inc == Included(m, n)
           old == table[i]
           new == [name |-> m, node |-> n, included |-> inc,
                   clone |-> "pending", cursor |-> NoTip, hist |-> {}]
           kept == [old EXCEPT !.name = m, !.node = n, !.included = inc,
                               !.clone = IF old.name = m THEN @ ELSE "pending"]
           row == IF known = 0 THEN new ELSE kept
           end == [j \in 1..Len(table) \cup {i} |-> IF j = i THEN row ELSE table[j]]
<1>1. UpsertRow(acc, m, n) =
         [rows |-> end, seen |-> acc.seen \cup {i},
          ok |-> acc.ok /\ \A j \in DOMAIN acc.rows :
                   j # i => acc.rows[j].name # m /\ acc.rows[j].node # n]
  BY DEF UpsertRow, Slot, Included
<1>2. /\ rows \in Seq(Rows) /\ Len(rows) \in Nat /\ Len(table) \in Nat
      /\ DOMAIN rows = 1..Len(rows) /\ DOMAIN table = 1..Len(table)
  BY Tables DEF TypeOK
<1>3. known \in {0} \cup DOMAIN rows
  BY <1>2, KnownRows
<1>4. i \in 1..(Len(table) + 1) /\ (known # 0 => i \in DOMAIN table)
  <2> HIDE DEF known, table
  <2>1. i = IF known = 0 THEN Len(table) + 1 ELSE known
    BY DEF Slot, known
  <2> QED BY <1>2, <1>3, <2>1 DEF table
<1>5. inc \in BOOLEAN
  BY Decides DEF Included
<1>6. new \in Rows
  BY <1>5 DEF Rows, Tips
<1>7. known # 0 => kept \in Rows /\ kept.hist = old.hist
  <2>1. known # 0 => old \in Rows
    BY <1>4, Tables
  <2> HIDE DEF inc, old
  <2> QED BY <1>5, <2>1 DEF Rows
<1>8. row \in Rows /\ row.name = m /\ row.node = n /\ row.included = inc
  <2>1. known # 0 => old \in Rows
    BY <1>4, Tables
  <2> HIDE DEF inc, old, known
  <2> QED BY <1>6, <1>7, <2>1 DEF Rows
<1>9. row.hist = IF known = 0 THEN {} ELSE old.hist
  <2> HIDE DEF inc, old, known
  <2> QED BY <1>7
<1>10. /\ end \in Seq(Rows) /\ Len(table) <= Len(end) /\ DOMAIN end = DOMAIN table \cup {i}
       /\ end[i] = row /\ \A j \in DOMAIN table \ {i} : end[j] = table[j]
  <2> HIDE DEF row, i, table
  <2>1. 1..Len(table) \cup {i} = 1..(IF i = Len(table) + 1 THEN Len(table) + 1 ELSE Len(table))
    BY <1>2, <1>4
  <2>2. \A j \in DOMAIN table : table[j] \in Rows
    BY Tables DEF table
  <2>3. end \in [1..(IF i = Len(table) + 1 THEN Len(table) + 1 ELSE Len(table)) -> Rows]
    BY <1>2, <1>8, <2>1, <2>2
  <2>4. (IF i = Len(table) + 1 THEN Len(table) + 1 ELSE Len(table)) \in Nat
    BY <1>2
  <2>5. end \in Seq(Rows) /\ Len(end) = IF i = Len(table) + 1 THEN Len(table) + 1 ELSE Len(table)
    BY <2>3, <2>4, Tables
  <2>6. Len(table) <= Len(end)
    <3> HIDE DEF end
    <3> QED BY <1>2, <2>5
  <2> QED BY <1>2, <2>5, <2>6
<1> HIDE DEF end, row, i, known, inc
<1>11. (acc.ok /\ \A j \in DOMAIN acc.rows :
                   j # i => acc.rows[j].name # m /\ acc.rows[j].node # n)
         <=> /\ acc.ok
             /\ \A j \in DOMAIN acc.rows \ {i} : acc.rows[j].name # m /\ acc.rows[j].node # n
  OBVIOUS
<1> DEFINE up == UpsertRow(acc, m, n)
           fine == acc.ok /\ \A j \in DOMAIN acc.rows :
                      j # i => acc.rows[j].name # m /\ acc.rows[j].node # n
<1>12. up = [rows |-> end, seen |-> acc.seen \cup {i}, ok |-> fine]
  BY <1>1
<1>13. up.rows = end /\ up.seen = acc.seen \cup {i} /\ up.ok = fine
  <2> HIDE DEF up, fine
  <2> QED BY <1>12
<1> HIDE DEF up
<1>14. i \in Nat
  BY <1>2, <1>4
<1>15. up.ok <=> /\ acc.ok
                 /\ \A j \in DOMAIN acc.rows \ {i} :
                       acc.rows[j].name # m /\ acc.rows[j].node # n
  <2>1. up.ok = fine
    BY <1>13
  <2> QED BY <1>11, <2>1
<1>16. /\ up.rows[i].name = m /\ up.rows[i].node = n /\ up.rows[i].included = inc
       /\ up.rows[i].hist = IF known = 0 THEN {} ELSE acc.rows[i].hist
  <2>1. up.rows[i] = row
    BY <1>10, <1>13
  <2> QED BY <1>8, <1>9, <2>1
<1>17. /\ DOMAIN up.rows = DOMAIN acc.rows \cup {i} /\ up.rows \in Seq(Rows)
       /\ Len(acc.rows) <= Len(up.rows) /\ up.seen = acc.seen \cup {i}
       /\ \A j \in DOMAIN acc.rows \ {i} : up.rows[j] = acc.rows[j]
  <2> HIDE DEF fine
  <2> QED BY <1>10, <1>13
<1>18. known # 0 => i \in DOMAIN acc.rows
  BY <1>4
<1> HIDE DEF fine
<1>19. Upserts(acc, m, n, up, i)
  BY <1>14, <1>15, <1>16, <1>17, <1>18 DEF Upserts, i, known, inc
<1> QED BY <1>19 DEF up, i

(* What a walk has made of the rows: no key is broken, and every row it has *)
(* seen is as the listing and the policy it goes by say.                    *)
WalkInv(acc) ==
    /\ acc.rows \in Seq(Rows) /\ Len(rows) <= Len(acc.rows)
    /\ acc.ok => Unique(acc.rows)
    /\ acc.seen \subseteq DOMAIN acc.rows
    /\ \A i \in acc.seen :
          /\ listing[acc.rows[i].name] = acc.rows[i].node
          /\ acc.rows[i].included = Included(acc.rows[i].name, acc.rows[i].node)

LEMMA TurnKeeps ==
    ASSUME TypeOK, NEW acc, WalkInv(acc), NEW m \in Names
    PROVE  WalkInv(Turn(acc, m))
<1>1. CASE listing[m] = NoNode \/ ~acc.ok
  BY <1>1 DEF Turn
<1>2. CASE ~(listing[m] = NoNode \/ ~acc.ok)
  <2> DEFINE n == listing[m]
             end == UpsertRow(acc, m, n)
             i == Slot(m, n, Len(acc.rows))
  <2>1. n \in Nodes /\ acc.ok
    BY <1>2 DEF TypeOK
  <2>2. Turn(acc, m) = end
    BY <1>2 DEF Turn
  <2>3. /\ i \in Nat /\ DOMAIN end.rows = DOMAIN acc.rows \cup {i}
        /\ end.rows \in Seq(Rows) /\ Len(acc.rows) <= Len(end.rows)
        /\ end.rows[i].name = m /\ end.rows[i].node = n
        /\ end.rows[i].included = Included(m, n)
        /\ \A j \in DOMAIN acc.rows \ {i} : end.rows[j] = acc.rows[j]
        /\ end.seen = acc.seen \cup {i}
        /\ end.ok <=> /\ acc.ok
                      /\ \A j \in DOMAIN acc.rows \ {i} :
                            acc.rows[j].name # m /\ acc.rows[j].node # n
    <3>1. acc.rows \in Seq(Rows) /\ Len(rows) <= Len(acc.rows)
      BY DEF WalkInv
    <3>2. Upserts(acc, m, n, end, i)
      BY <2>1, <3>1, Upserted
    <3> HIDE DEF end, i
    <3> QED BY <3>2 DEF Upserts
  <2> HIDE DEF end, i
  <2>4. Len(rows) <= Len(end.rows)
    <3>1. Len(rows) \in Nat /\ Len(acc.rows) \in Nat /\ Len(end.rows) \in Nat
      BY <2>3, Tables DEF TypeOK, WalkInv
    <3> QED BY <2>3, <3>1 DEF WalkInv
  <2>5. end.ok => Unique(end.rows)
    BY <2>1, <2>3 DEF WalkInv, Unique
  <2>6. ASSUME NEW j \in end.seen
        PROVE  /\ listing[end.rows[j].name] = end.rows[j].node
               /\ end.rows[j].included = Included(end.rows[j].name, end.rows[j].node)
    <3>1. CASE j = i
      BY <2>3, <3>1
    <3>2. CASE j # i
      <4>1. j \in acc.seen /\ j \in DOMAIN acc.rows \ {i}
        BY <2>3, <3>2 DEF WalkInv
      <4> QED BY <2>3, <4>1 DEF WalkInv
    <3> QED BY <3>1, <3>2
  <2>7. end.seen \subseteq DOMAIN end.rows
    BY <2>3 DEF WalkInv
  <2> QED BY <2>2, <2>3, <2>4, <2>5, <2>6, <2>7 DEF WalkInv
<1> QED BY <1>1, <1>2

LEMMA WalkHolds == ASSUME TypeOK PROVE WalkInv(Walk[MaxName])
<1> DEFINE S == {k \in 0..MaxName : WalkInv(Walk[k])}
<1>0. MaxName \in Nat
  BY RepositoriesBounds
<1>1. 0 \in S
  <2>1. Len(rows) \in Nat /\ rows \in Seq(Rows)
    BY Tables DEF TypeOK
  <2>2. WalkInv([rows |-> rows, seen |-> {}, ok |-> TRUE])
    BY <2>1 DEF WalkInv, TypeOK
  <2> QED BY <1>0, <2>2, WalkSteps
<1>2. ASSUME NEW k \in S, k < MaxName PROVE k + 1 \in S
  <2>1. k \in Nat /\ k + 1 \in Names /\ k + 1 \in 1..MaxName /\ (k + 1) - 1 = k
    BY <1>0, <1>2 DEF Names
  <2>2. WalkInv(Turn(Walk[k], k + 1))
    BY <2>1, TurnKeeps
  <2>3. Walk[k + 1] = Turn(Walk[k], k + 1)
    BY <2>1, WalkSteps
  <2> QED BY <1>0, <2>1, <2>2, <2>3
<1>3. \A k \in S : k \in Nat /\ k < MaxName => k + 1 \in S
  BY <1>2
<1> HIDE DEF S
<1>4. 0..MaxName \subseteq S
  BY <1>0, <1>1, <1>3, UpTo
<1> QED BY <1>0, <1>4 DEF S

----------------------------------------------------------------------------
(* Tasks.                                                                   *)

TaskInv ==
    /\ phase # "repos" => \A i \in DOMAIN task : task[i].at = "none"
    /\ \A i \in DOMAIN task :
          task[i].at \notin {"none", "waiting"} => task[i].name = rows[i].name

TypeInv == TypeOK /\ TaskInv

(* The nodes GitHub may serve for the row's name.                           *)
Serves(i, n) ==
    /\ n \in Nodes
    /\ name[n] = rows[i].name \/ (rows[i].name \in usedNames /\ n = rows[i].node)

(* What a task may do in a step: to its own row, to the directory of that   *)
(* row's name, and to where it stands.                                      *)
Moved(i) ==
    \E t \in Tasks : /\ task' = [task EXCEPT ![i] = t]
                     /\ t.at = "none" \/ t.name = rows[i].name
Rewritten(i) ==
    \E d \in Dirs :
        /\ disk' = [disk EXCEPT ![rows[i].name] = d]
        /\ d.tip \in {NoTip, disk[rows[i].name].tip} \/ Serves(i, d.tip[1])
Ingested(i) ==
    \E r \in Rows :
        /\ rows' = [rows EXCEPT ![i] = r]
        /\ r.name = rows[i].name /\ r.node = rows[i].node /\ r.included = rows[i].included
        /\ \/ r.hist = rows[i].hist
           \/ /\ disk[rows[i].name].tip # NoTip
              /\ r.hist = rows[i].hist \cup {disk[rows[i].name].tip[1]}
RepoWorks(i) ==
    /\ i \in DOMAIN rows /\ phase = "repos"
    /\ UNCHANGED <<ghVars, policy, phase, seen, listing, maint, ghosts>>
    /\ events' \in 0..MaxEvents
    /\ Moved(i) /\ Rewritten(i) /\ Ingested(i)

LEMMA RepoTypes ==
    ASSUME TypeOK, NEW i \in DOMAIN task
    PROVE  /\ i \in DOMAIN rows /\ rows[i] \in Rows /\ rows[i].name \in Names
           /\ rows[i].node \in Nodes /\ rows[i].hist \in SUBSET Nodes /\ rows[i].cursor \in Tips
           /\ task[i] \in Tasks /\ task[i].cursor \in Tips
           /\ disk[rows[i].name] \in Dirs /\ disk[rows[i].name].tip \in Tips
           /\ disk[rows[i].name].has \in SUBSET Nodes
           /\ \A t : task' = [task EXCEPT ![i] = t] => DOMAIN task' = DOMAIN task
           /\ rows = [rows EXCEPT ![i] = rows[i]]
           /\ disk = [disk EXCEPT ![rows[i].name] = disk[rows[i].name]]
           /\ NoDir \in Dirs /\ NoTask \in Tasks
           /\ NoDir.tip = NoTip /\ NoTask.at = "none"
<1>1. i \in DOMAIN rows /\ task[i] \in Tasks /\ task[i].cursor \in Tips
  BY DEF TypeOK, Tasks
<1>2. /\ rows[i] \in Rows /\ rows[i].name \in Names
      /\ rows[i].node \in Nodes /\ rows[i].hist \in SUBSET Nodes /\ rows[i].cursor \in Tips
  BY <1>1, Tables DEF TypeOK
<1>3. /\ disk[rows[i].name] \in Dirs /\ disk[rows[i].name].tip \in Tips
      /\ disk[rows[i].name].has \in SUBSET Nodes
  BY <1>2 DEF TypeOK, Dirs
<1>4. rows = [rows EXCEPT ![i] = rows[i]]
  BY DEF TypeOK
<1>5. disk = [disk EXCEPT ![rows[i].name] = disk[rows[i].name]]
  BY DEF TypeOK
<1>6. NoDir \in Dirs /\ NoTask \in Tasks /\ NoDir.tip = NoTip /\ NoTask.at = "none"
  BY DEF NoDir, Dirs, NoTask, Tasks, Tips
<1> QED BY <1>1, <1>2, <1>3, <1>4, <1>5, <1>6

(* A step that leaves the row, or the directory, alone.                     *)
LEMMA LeavesAlone ==
    ASSUME TypeOK, NEW i \in DOMAIN task
    PROVE  /\ rows' = rows => Ingested(i)
           /\ disk' = disk => Rewritten(i)
  BY RepoTypes DEF Ingested, Rewritten

LEMMA BeginsRepo ==
    ASSUME TypeInv, NEW i \in DOMAIN task, BeginRepo(i) PROVE RepoWorks(i)
<1> DEFINE m == rows[i].name
           t == [at |-> IF DirExists(m) THEN "fetch" ELSE "cloning",
                 name |-> m, cursor |-> rows[i].cursor]
           d == IF DirExists(m) THEN disk[m] ELSE [NoDir EXCEPT !.at = "cloning"]
<1>0. TypeOK
  BY DEF TypeInv
<1>1. /\ phase = "repos" /\ task' = [task EXCEPT ![i] = t] /\ disk' = [disk EXCEPT ![m] = d]
      /\ UNCHANGED <<ghVars, dbVars, phase, seen, listing, maint, ghosts, events>>
  BY DEF BeginRepo, TaskAt
<1>2. t \in Tasks /\ t.name = m
  BY <1>0, RepoTypes DEF Tasks
<1>3. d \in Dirs /\ d.tip \in {NoTip, disk[m].tip}
  <2>1. [NoDir EXCEPT !.at = "cloning"] \in Dirs /\ [NoDir EXCEPT !.at = "cloning"].tip = NoTip
    BY DEF NoDir, Dirs, Tips
  <2> QED BY <1>0, <2>1, RepoTypes
<1> HIDE DEF t, d
<1>4. Moved(i) /\ Rewritten(i)
  BY <1>1, <1>2, <1>3 DEF Moved, Rewritten
<1>5. Ingested(i)
  BY <1>0, <1>1, LeavesAlone DEF dbVars
<1> QED BY <1>0, <1>1, <1>4, <1>5, RepoTypes DEF RepoWorks, dbVars, TypeOK

LEMMA Served1 ==
    ASSUME TypeInv, NEW i \in DOMAIN task, task[i].at \notin {"none", "waiting"}
    PROVE  /\ task[i].name = rows[i].name
           /\ Served(i) # NoNode => Serves(i, Served(i))
<1>1. task[i].name = rows[i].name
  BY DEF TypeInv, TaskInv
<1>2. /\ NodeNamed(rows[i].name) # NoNode =>
            NodeNamed(rows[i].name) \in Nodes /\ name[NodeNamed(rows[i].name)] = rows[i].name
  BY DEF NodeNamed
<1>3. rows[i].node \in Nodes
  BY RepoTypes DEF TypeInv
<1> QED BY <1>1, <1>2, <1>3 DEF Served, Serves

LEMMA GoesTo ==
    ASSUME TypeInv, NEW i \in DOMAIN task, task[i].at \notin {"none", "waiting"},
           NEW at \in {"configure", "log"}, Goto(i, at)
    PROVE  Moved(i)
<1> DEFINE t == [task[i] EXCEPT !.at = at]
<1>1. task[i] \in Tasks /\ task[i].name = rows[i].name
  BY RepoTypes DEF TypeInv, TaskInv
<1>2. t \in Tasks /\ t.name = rows[i].name
  BY <1>1 DEF Tasks
<1>3. task' = [task EXCEPT ![i] = t]
  BY DEF Goto
<1> QED BY <1>2, <1>3 DEF Moved

LEMMA ClonesFetches ==
    ASSUME TypeInv, NEW i \in DOMAIN task, CloneEnds(i) \/ Configure(i) \/ Fetch(i)
    PROVE  RepoWorks(i)
<1>0. TypeOK
  BY DEF TypeInv
<1>1. task[i].at \notin {"none", "waiting"} /\ phase = "repos"
  BY DEF CloneEnds, Configure, Fetch, TaskAt
<1>2. task[i].name = rows[i].name /\ (Served(i) # NoNode => Serves(i, Served(i)))
  BY <1>1, Served1
<1>3. Moved(i)
  BY <1>1, GoesTo DEF CloneEnds, Configure, Fetch
<1>4. UNCHANGED <<ghVars, dbVars, phase, seen, listing, maint, ghosts, events>>
  BY DEF CloneEnds, Configure, Fetch
<1> DEFINE m == rows[i].name
           n == Served(i)
<1>5. disk[m] \in Dirs
  BY <1>0, RepoTypes
<1>n. n # NoNode => n \in Nodes /\ pushed[n] \in Nat
  BY <1>0, <1>2 DEF Serves, TypeOK
<1>6. ASSUME CloneEnds(i) PROVE Rewritten(i)
  <2> DEFINE d == [at |-> "raw", tip |-> <<n, pushed[n]>>, has |-> {n}]
  <2>1. n # NoNode /\ disk' = [disk EXCEPT ![m] = d]
    BY <1>2, <1>6 DEF CloneEnds
  <2> HIDE DEF n
  <2>2. d \in Dirs /\ d.tip[1] = n
    BY <1>n, <2>1 DEF Dirs, Tips
  <2> QED BY <1>2, <2>1, <2>2 DEF Rewritten, n
<1>7. ASSUME Configure(i) PROVE Rewritten(i)
  <2> DEFINE d == [disk[m] EXCEPT !.at = "ok"]
  <2>1. disk' = [disk EXCEPT ![m] = d]
    BY <1>2, <1>7 DEF Configure
  <2>2. d \in Dirs /\ d.tip = disk[m].tip
    BY <1>5 DEF Dirs
  <2> QED BY <2>1, <2>2 DEF Rewritten
<1>8. ASSUME Fetch(i) PROVE Rewritten(i)
  <2> DEFINE d == [disk[m] EXCEPT !.tip = <<n, pushed[n]>>, !.has = @ \cup {n}]
             e == IF disk[m].at # "ok" THEN disk[m] ELSE d
  <2>1. n # NoNode /\ disk' = [disk EXCEPT ![m] = e]
    BY <1>2, <1>8 DEF Fetch, Dir
  <2> HIDE DEF n
  <2>2. d \in Dirs /\ d.tip[1] = n
    BY <1>5, <1>n, <2>1 DEF Dirs, Tips
  <2> HIDE DEF d
  <2>3. e \in Dirs /\ (e.tip = disk[m].tip \/ e.tip[1] = n)
    BY <1>5, <2>2
  <2> QED BY <1>2, <2>1, <2>3 DEF Rewritten, n
<1>9. Rewritten(i)
  BY <1>6, <1>7, <1>8
<1>10. Ingested(i)
  BY <1>0, <1>4, LeavesAlone DEF dbVars
<1> QED BY <1>0, <1>1, <1>3, <1>4, <1>9, <1>10, RepoTypes DEF RepoWorks, dbVars, TypeOK

LEMMA CommitsRepo ==
    ASSUME TypeInv, NEW i \in DOMAIN task, CommitRepo(i) PROVE RepoWorks(i)
<1>0. TypeOK
  BY DEF TypeInv
<1> DEFINE tip == disk[rows[i].name].tip
           new == tip \notin {NoTip, task[i].cursor}
           cursor == IF new THEN tip ELSE rows[i].cursor
           hist == IF new THEN rows[i].hist \cup {tip[1]} ELSE rows[i].hist
           r == [rows[i] EXCEPT !.clone = "ready", !.cursor = cursor, !.hist = hist]
<1>1. /\ task[i].at = "log" /\ phase = "repos" /\ task' = [task EXCEPT ![i] = NoTask]
      /\ UNCHANGED <<ghVars, policy, disk, phase, seen, listing, maint, ghosts, events>>
  BY DEF CommitRepo, TaskAt
<1>2. task[i].name = rows[i].name
  BY <1>1 DEF TypeInv, TaskInv
<1>3. /\ rows[i] \in Rows /\ rows[i].hist \in SUBSET Nodes /\ rows[i].cursor \in Tips
      /\ tip \in Tips /\ i \in DOMAIN rows
  BY <1>0, RepoTypes
<1>4. cursor \in Tips /\ hist \in SUBSET Nodes
  BY <1>3 DEF Tips
<1>5. hist = rows[i].hist \/ (tip # NoTip /\ hist = rows[i].hist \cup {tip[1]})
  OBVIOUS
<1>6. rows' = [rows EXCEPT ![i].clone = "ready", ![i].cursor = IF new THEN tip ELSE @,
                           ![i].hist = IF new THEN @ \cup {tip[1]} ELSE @]
  BY <1>2 DEF CommitRepo, Dir
<1>7. rows' = [rows EXCEPT ![i] = r]
  BY <1>3, <1>6 DEF Rows
<1> HIDE DEF tip, cursor, hist
<1>8. /\ r \in Rows /\ r.name = rows[i].name /\ r.node = rows[i].node
      /\ r.included = rows[i].included /\ r.hist = hist
  BY <1>3, <1>4 DEF Rows
<1>9. Ingested(i)
  <2> HIDE DEF r
  <2> QED BY <1>5, <1>7, <1>8 DEF Ingested, tip
<1>10. Moved(i) /\ Rewritten(i)
  BY <1>0, <1>1, LeavesAlone, RepoTypes DEF Moved
<1> QED BY <1>0, <1>1, <1>3, <1>9, <1>10 DEF RepoWorks, TypeOK

LEMMA ErrorsRepo ==
    ASSUME TypeInv, NEW i \in DOMAIN task, task[i].at \notin {"none", "waiting"},
           phase = "repos", NEW f \in BOOLEAN, RepoError(i, f), events' \in 0..MaxEvents
    PROVE  RepoWorks(i)
<1>0. TypeOK
  BY DEF TypeInv
<1> DEFINE clone == IF f THEN "error" ELSE rows[i].clone
           r == [rows[i] EXCEPT !.clone = clone]
           d == IF task[i].at = "cloning" THEN NoDir ELSE disk[rows[i].name]
<1>1. /\ task' = [task EXCEPT ![i] = NoTask]
      /\ UNCHANGED <<ghVars, policy, phase, seen, listing, maint, ghosts>>
  BY DEF RepoError
<1>2. task[i].name = rows[i].name
  BY DEF TypeInv, TaskInv
<1>3. rows[i] \in Rows /\ i \in DOMAIN rows /\ disk[rows[i].name] \in Dirs
  BY <1>0, RepoTypes
<1>4. disk' = [disk EXCEPT ![rows[i].name] = d]
  BY <1>2 DEF RepoError
<1>5. d \in Dirs /\ d.tip \in {NoTip, disk[rows[i].name].tip}
  BY <1>0, <1>3, RepoTypes
<1>6. rows' = [rows EXCEPT ![i] = r]
  BY <1>3 DEF RepoError
<1>7. /\ r \in Rows /\ r.name = rows[i].name /\ r.node = rows[i].node
      /\ r.included = rows[i].included /\ r.hist = rows[i].hist
  BY <1>3 DEF Rows
<1> HIDE DEF d, r
<1>8. Rewritten(i) /\ Ingested(i)
  BY <1>4, <1>5, <1>6, <1>7 DEF Rewritten, Ingested
<1>9. Moved(i)
  BY <1>0, <1>1, RepoTypes DEF Moved
<1> QED BY <1>1, <1>3, <1>8, <1>9 DEF RepoWorks

LEMMA StepsWork ==
    ASSUME TypeInv, NEW i \in DOMAIN task, RepoStep(i) \/ RepoFails(i)
    PROVE  RepoWorks(i)
<1>1. CASE BeginRepo(i) \/ CloneEnds(i) \/ Configure(i) \/ Fetch(i) \/ CommitRepo(i)
  BY <1>1, BeginsRepo, ClonesFetches, CommitsRepo
<1>2. CASE RepoImpossible(i)
  <2>1. /\ task[i].at \notin {"none", "waiting"} /\ phase = "repos" /\ RepoError(i, TRUE)
        /\ events' \in 0..MaxEvents
    BY <1>2 DEF RepoImpossible, TaskAt, TypeInv, TypeOK
  <2> QED BY <2>1, ErrorsRepo
<1>3. CASE RepoFails(i)
  <2>1. /\ task[i].at \notin {"none", "waiting"} /\ phase = "repos"
        /\ \E f \in BOOLEAN : RepoError(i, f)
    BY <1>3 DEF RepoFails
  <2>2. events' \in 0..MaxEvents
    BY <1>3, RepositoriesBounds DEF RepoFails, Event, TypeInv, TypeOK
  <2> QED BY <2>1, <2>2, ErrorsRepo
<1> QED BY <1>1, <1>2, <1>3 DEF RepoStep

(* The rows and tasks after such a step.                                    *)
LEMMA WorkKeeps ==
    ASSUME TypeInv, NEW i \in DOMAIN task, RepoWorks(i)
    PROVE  /\ rows' \in Seq(Rows) /\ DOMAIN rows' = DOMAIN rows
           /\ \A j \in DOMAIN rows :
                 /\ rows'[j].name = rows[j].name /\ rows'[j].node = rows[j].node
                 /\ rows'[j].included = rows[j].included
           /\ task' \in [DOMAIN rows -> Tasks] /\ disk' \in [Names -> Dirs]
           /\ \A j \in DOMAIN task : j # i => task'[j] = task[j]
           /\ task'[i].at = "none" \/ task'[i].name = rows[i].name
<1>0. TypeOK /\ i \in DOMAIN rows
  BY DEF TypeInv, RepoWorks
<1>1. PICK t \in Tasks : /\ task' = [task EXCEPT ![i] = t]
                         /\ t.at = "none" \/ t.name = rows[i].name
  BY DEF RepoWorks, Moved
<1>2. PICK d \in Dirs : disk' = [disk EXCEPT ![rows[i].name] = d]
  BY DEF RepoWorks, Rewritten
<1>3. PICK r \in Rows : /\ rows' = [rows EXCEPT ![i] = r]
                        /\ r.name = rows[i].name /\ r.node = rows[i].node
                        /\ r.included = rows[i].included
  BY DEF RepoWorks, Ingested
<1>4. /\ rows' \in Seq(Rows) /\ DOMAIN rows' = DOMAIN rows
      /\ \A j \in DOMAIN rows :
            /\ rows'[j].name = rows[j].name /\ rows'[j].node = rows[j].node
            /\ rows'[j].included = rows[j].included
  <2>1. DOMAIN rows = 1..Len(rows) /\ Len(rows) \in Nat /\ \A j \in DOMAIN rows : rows[j] \in Rows
    BY <1>0, Tables DEF TypeOK
  <2>2. rows' \in [1..Len(rows) -> Rows]
    BY <1>3, <2>1
  <2> QED BY <1>0, <1>3, <2>1, <2>2, Tables
<1>5. /\ task' \in [DOMAIN rows -> Tasks] /\ task'[i] = t
      /\ \A j \in DOMAIN task : j # i => task'[j] = task[j]
  BY <1>0, <1>1 DEF TypeOK
<1>6. disk' \in [Names -> Dirs]
  BY <1>0, <1>2 DEF TypeOK
<1> QED BY <1>1, <1>4, <1>5, <1>6

(* An edit of the filters, and a discovery.                                 *)
Decided(table, p) ==
    \A i \in DOMAIN table :
        table[i].included =
            RepoIncluded(table[i].name, p.mode, p.listed, table[i].node \in Forks, p.forks)

Edited ==
    /\ UNCHANGED <<ghVars, disk, syncVars, maint, clash>>
    /\ events' \in 0..MaxEvents /\ stale' = FALSE
    /\ policy' \in [mode : Modes, forks : BOOLEAN, listed : SUBSET Names]
    /\ rows' \in Seq(Rows) /\ DOMAIN rows' = DOMAIN rows
    /\ \A i \in DOMAIN rows : /\ rows'[i].name = rows[i].name /\ rows'[i].node = rows[i].node
                              /\ rows'[i].hist = rows[i].hist
    /\ Decided(rows', policy')

LEMMA SavesPolicy ==
    ASSUME TypeOK, NEW p \in [mode : Modes, forks : BOOLEAN, listed : SUBSET Names],
           SavePolicy(p)
    PROVE  Edited
<1> DEFINE inc(i) == RepoIncluded(rows[i].name, p.mode, p.listed, rows[i].node \in Forks, p.forks)
           row(i) == [rows[i] EXCEPT !.included = inc(i)]
<1>1. rows' = [i \in DOMAIN rows |-> row(i)]
  BY DEF SavePolicy, ApplyInclusion
<1>2. /\ DOMAIN rows = 1..Len(rows) /\ Len(rows) \in Nat
      /\ \A i \in DOMAIN rows : rows[i] \in Rows
  BY Tables DEF TypeOK
<1>3. ASSUME NEW i \in DOMAIN rows
      PROVE  /\ row(i) \in Rows /\ row(i).name = rows[i].name /\ row(i).node = rows[i].node
             /\ row(i).hist = rows[i].hist /\ row(i).included = inc(i)
  <2>1. inc(i) \in BOOLEAN
    BY Decides
  <2> HIDE DEF inc
  <2> QED BY <1>2, <2>1 DEF Rows
<1>4. \A i \in DOMAIN rows : rows'[i] = row(i)
  BY <1>1
<1>5. rows' \in Seq(Rows) /\ DOMAIN rows' = DOMAIN rows
  <2> HIDE DEF row
  <2>1. rows' \in [1..Len(rows) -> Rows]
    BY <1>1, <1>2, <1>3
  <2> QED BY <1>1, <1>2, <2>1, Tables
<1>6. policy' = p /\ UNCHANGED <<ghVars, disk, syncVars, maint, clash>> /\ stale' = FALSE
  BY DEF SavePolicy
<1>7. events' \in 0..MaxEvents
  BY RepositoriesBounds DEF SavePolicy, Event, TypeOK
<1>8. /\ \A i \in DOMAIN rows : /\ rows'[i].name = rows[i].name /\ rows'[i].node = rows[i].node
                               /\ rows'[i].hist = rows[i].hist /\ rows'[i].included = inc(i)
  <2> HIDE DEF row, inc
  <2> QED BY <1>3, <1>4
<1>9. Decided(rows', p)
  BY <1>5, <1>8 DEF Decided
<1> QED BY <1>5, <1>6, <1>7, <1>8, <1>9 DEF Edited

LEMMA EditsSave == ASSUME TypeOK, RepoFilters \/ ToggleForks PROVE Edited
<1>1. CASE RepoFilters
  <2>1. PICK f \in Filters : SavePolicy([policy EXCEPT !.mode = f.mode, !.listed = f.listed])
    BY <1>1 DEF RepoFilters
  <2>2. f.mode \in Modes /\ f.listed \in SUBSET Names
    BY FiltersAssumption DEF Modes, Names
  <2>3. [policy EXCEPT !.mode = f.mode, !.listed = f.listed]
           \in [mode : Modes, forks : BOOLEAN, listed : SUBSET Names]
    BY <2>2 DEF TypeOK
  <2> QED BY <2>1, <2>3, SavesPolicy
<1>2. CASE ToggleForks
  <2>1. [policy EXCEPT !.forks = ~@] \in [mode : Modes, forks : BOOLEAN, listed : SUBSET Names]
    BY DEF TypeOK
  <2> QED BY <1>2, <2>1, SavesPolicy DEF ToggleForks
<1> QED BY <1>1, <1>2

(* A discovery that commits: the rows are the walk's, those it has not seen *)
(* no longer included.                                                      *)
Discovered ==
    /\ rows' \in Seq(Rows) /\ Unique(rows')
    /\ DOMAIN rows' = DOMAIN Walk[MaxName].rows
    /\ \A i \in DOMAIN rows' :
          /\ rows'[i].name = Walk[MaxName].rows[i].name
          /\ rows'[i].node = Walk[MaxName].rows[i].node
          /\ rows'[i].hist = Walk[MaxName].rows[i].hist
          /\ rows'[i].included => /\ listing[rows'[i].name] = rows'[i].node
                                  /\ Included(rows'[i].name, rows'[i].node)
    /\ task' \in [DOMAIN rows' -> Tasks]
    /\ \A i \in DOMAIN task' : phase' = "repos" \/ task'[i].at = "none"
    /\ \A i \in DOMAIN task' : task'[i].at \in {"none", "waiting"}
    /\ stale' = (seen # [mode |-> policy.mode, forks |-> policy.forks])
    /\ clash' = FALSE

LEMMA Discovers ==
    ASSUME TypeOK, Discover
    PROVE  /\ phase = "discover" /\ seen' = NoPolicy /\ listing' = NoListing
           /\ UNCHANGED <<ghVars, policy, disk, maint>> /\ events' \in 0..MaxEvents
           /\ \/ phase' \in {"repos", "idle"} /\ Walk[MaxName].ok /\ Discovered
              \/ /\ phase' = "idle" /\ ~Walk[MaxName].ok /\ clash' = TRUE
                 /\ UNCHANGED <<rows, task, stale>>
<1> DEFINE end == Walk[MaxName]
           row(i) == [end.rows[i] EXCEPT !.included = @ /\ i \in end.seen]
           known == WithoutGone(end)
<1>1. WalkInv(end)
  BY WalkHolds
<1>2. /\ phase = "discover" /\ seen' = NoPolicy /\ listing' = NoListing
      /\ UNCHANGED <<ghVars, policy, disk, maint>> /\ (UNCHANGED events \/ Event)
      /\ \/ /\ end.ok /\ rows' = known
            /\ \/ /\ phase' = "repos"
                  /\ task' = [i \in DOMAIN known |->
                     IF known[i].included THEN [NoTask EXCEPT !.at = "waiting"] ELSE NoTask]
               \/ phase' = "idle" /\ task' = [i \in DOMAIN known |-> NoTask]
            /\ stale' = (seen # [mode |-> policy.mode, forks |-> policy.forks])
            /\ clash' = FALSE
         \/ /\ ~end.ok /\ phase' = "idle" /\ clash' = TRUE
            /\ UNCHANGED <<rows, task, stale>>
  BY DEF Discover
<1>3. known = [i \in DOMAIN end.rows |-> row(i)]
  BY DEF WithoutGone
<1> HIDE DEF end, known
<1>4. /\ DOMAIN end.rows = 1..Len(end.rows) /\ Len(end.rows) \in Nat
      /\ \A i \in DOMAIN end.rows : end.rows[i] \in Rows
  BY <1>1, Tables DEF WalkInv
<1>5. ASSUME NEW i \in DOMAIN end.rows
      PROVE  /\ row(i) \in Rows /\ row(i).name = end.rows[i].name
             /\ row(i).node = end.rows[i].node /\ row(i).hist = end.rows[i].hist
             /\ row(i).included => i \in end.seen /\ end.rows[i].included
  <2>1. (end.rows[i].included /\ i \in end.seen) \in BOOLEAN
    OBVIOUS
  <2>2. end.rows[i] \in Rows
    BY <1>4
  <2> DEFINE inc == end.rows[i].included /\ i \in end.seen
  <2>3. row(i) = [end.rows[i] EXCEPT !.included = inc]
    BY <2>2 DEF Rows
  <2> HIDE DEF inc, row
  <2>4. inc \in BOOLEAN
    BY <2>1 DEF inc
  <2>5. /\ row(i) \in Rows /\ row(i).name = end.rows[i].name
        /\ row(i).node = end.rows[i].node /\ row(i).hist = end.rows[i].hist
        /\ row(i).included = inc
    BY <2>2, <2>3, <2>4 DEF Rows
  <2> QED BY <2>5 DEF inc
<1>6. \A i \in DOMAIN end.rows : known[i] = row(i)
  BY <1>3
<1>7. known \in Seq(Rows) /\ DOMAIN known = DOMAIN end.rows
  <2> HIDE DEF row
  <2>1. known \in [1..Len(end.rows) -> Rows]
    BY <1>3, <1>4, <1>5
  <2> QED BY <1>3, <1>4, <2>1, Tables
<1>8. ASSUME NEW i \in DOMAIN known
      PROVE  /\ known[i].name = end.rows[i].name /\ known[i].node = end.rows[i].node
             /\ known[i].hist = end.rows[i].hist
             /\ known[i].included => /\ listing[known[i].name] = known[i].node
                                     /\ Included(known[i].name, known[i].node)
  <2> HIDE DEF row
  <2>1. /\ known[i].name = end.rows[i].name /\ known[i].node = end.rows[i].node
        /\ known[i].hist = end.rows[i].hist
        /\ known[i].included => i \in end.seen /\ end.rows[i].included
    BY <1>5, <1>6, <1>7
  <2> QED BY <1>1, <2>1 DEF WalkInv
<1>9. end.ok => Unique(known)
  BY <1>1, <1>7, <1>8 DEF WalkInv, Unique
<1>10. ASSUME end.ok, rows' = known,
              \/ /\ phase' = "repos"
                 /\ task' = [i \in DOMAIN known |->
                     IF known[i].included THEN [NoTask EXCEPT !.at = "waiting"] ELSE NoTask]
              \/ phase' = "idle" /\ task' = [i \in DOMAIN known |-> NoTask]
       PROVE  /\ task' \in [DOMAIN rows' -> Tasks]
              /\ \A i \in DOMAIN task' : task'[i].at \in {"none", "waiting"}
              /\ \A i \in DOMAIN task' : phase' = "repos" \/ task'[i].at = "none"
  <2>1. NoTask \in Tasks /\ [NoTask EXCEPT !.at = "waiting"] \in Tasks
    BY DEF NoTask, Tasks, Tips
  <2>2. NoTask.at = "none" /\ [NoTask EXCEPT !.at = "waiting"].at = "waiting"
    BY DEF NoTask
  <2> QED BY <1>10, <2>1, <2>2
<1>11. events' \in 0..MaxEvents
  BY <1>2, RepositoriesBounds DEF Event, TypeOK
<1> QED BY <1>2, <1>7, <1>8, <1>9, <1>10, <1>11 DEF Discovered, end

----------------------------------------------------------------------------
(* Types.                                                                   *)

LEMMA TypeInit == Init => TypeInv
<1> SUFFICES ASSUME Init PROVE TypeInv
  OBVIOUS
<1>1. name \in [Nodes -> Names \cup {NoName}]
  BY InitiallyAssumption DEF Init, Names, NoName
<1>2. pushed \in [Nodes -> Nat] /\ usedNames \subseteq Names
  BY <1>1 DEF Init, Exists
<1>3. rows \in Seq(Rows) /\ Unique(rows) /\ task \in [DOMAIN rows -> Tasks] /\ TaskInv
  <2>1. rows = <<>> /\ task = <<>> /\ DOMAIN rows = {} /\ DOMAIN task = {}
    BY DEF Init
  <2>2. rows \in Seq(Rows)
    BY <2>1
  <2>3. task = [i \in DOMAIN rows |-> task[i]]
    BY <2>1
  <2> QED BY <2>1, <2>2, <2>3 DEF TaskInv, Unique
<1>4. disk \in [Names -> Dirs]
  BY DEF Init, NoDir, Dirs, Tips
<1>5. /\ phase = "idle" /\ seen \in [mode : Modes, forks : BOOLEAN]
      /\ maint \in [on : BOOLEAN, expected : SUBSET Names]
      /\ policy \in [mode : Modes, forks : BOOLEAN, listed : SUBSET Names]
  BY DEF Init, NoPolicy, NoMaint, Modes
<1>6. listing \in [Names -> Nodes \cup {NoNode}]
  BY DEF Init, NoListing
<1>7. reused \in BOOLEAN /\ stale \in BOOLEAN /\ clash \in BOOLEAN
  BY DEF Init
<1>8. events \in 0..MaxEvents
  BY RepositoriesBounds DEF Init
<1> QED BY <1>1, <1>2, <1>3, <1>4, <1>5, <1>6, <1>7, <1>8 DEF TypeInv, TypeOK

LEMMA EventTypes == ASSUME TypeOK, Event PROVE events' \in 0..MaxEvents
BY RepositoriesBounds DEF Event, TypeOK

LEMMA GitHubTypes == ASSUME TypeInv, GitHubStep PROVE TypeInv'
<1>0. TypeOK /\ TaskInv
  BY DEF TypeInv
<1>1. PICK n \in Nodes : \/ DeleteRepo(n) \/ Push(n)
                         \/ \E m \in Names : CreateRepo(n, m) \/ RenameRepo(n, m)
  BY DEF GitHubStep
<1>2. /\ UNCHANGED <<dbVars, disk, syncVars, maint, ghosts>> /\ Event
      /\ name' \in [Nodes -> Names \cup {NoName}] /\ pushed' \in [Nodes -> Nat]
      /\ usedNames' \subseteq Names /\ reused' \in BOOLEAN
  <2>1. CASE DeleteRepo(n)
    BY <1>0, <2>1 DEF DeleteRepo, TypeOK
  <2>2. CASE Push(n)
    BY <1>0, <2>2 DEF Push, TypeOK
  <2>3. CASE \E m \in Names : CreateRepo(n, m) \/ RenameRepo(n, m)
    <3>1. PICK m \in Names : CreateRepo(n, m) \/ RenameRepo(n, m)
      BY <2>3
    <3>2. Named(n, m) /\ pushed' \in [Nodes -> Nat]
      BY <1>0, <3>1 DEF CreateRepo, RenameRepo, TypeOK
    <3>3. reused' \in BOOLEAN
      BY <1>0, <3>2 DEF Named, TypeOK
    <3> QED BY <1>0, <3>2, <3>3 DEF Named, TypeOK
  <2> QED BY <1>1, <2>1, <2>2, <2>3
<1>3. events' \in 0..MaxEvents
  BY <1>0, <1>2, EventTypes
<1> QED BY <1>0, <1>2, <1>3 DEF TypeInv, TypeOK, TaskInv, Unique, dbVars, syncVars, ghosts

LEMMA NamedTypes == \A m : NodeNamed(m) \in Nodes \cup {NoNode}
BY DEF NodeNamed

LEMMA SyncTypes ==
    ASSUME TypeInv, BeginSync \/ ListRepos \/ EndSync \/ ListingFails PROVE TypeInv'
<1>0. TypeOK /\ TaskInv
  BY DEF TypeInv
<1>1. CASE BeginSync
  <2>1. seen' \in [mode : Modes, forks : BOOLEAN]
    BY <1>0, <1>1 DEF BeginSync, TypeOK
  <2> QED BY <1>0, <1>1, <2>1 DEF
      BeginSync, TypeInv, TypeOK, TaskInv, Unique, ghVars, dbVars, ghosts
<1>2. CASE ListRepos
  <2>1. listing' \in [Names -> Nodes \cup {NoNode}]
    BY <1>2, NamedTypes DEF ListRepos
  <2> QED BY <1>0, <1>2, <2>1 DEF
      ListRepos, TypeInv, TypeOK, TaskInv, Unique, ghVars, dbVars, ghosts
<1>3. CASE EndSync
  BY <1>0, <1>3 DEF EndSync, TypeInv, TypeOK, TaskInv, Unique, ghVars, dbVars, ghosts
<1>4. CASE ListingFails
  <2>1. seen' \in [mode : Modes, forks : BOOLEAN] /\ events' \in 0..MaxEvents
    BY <1>0, <1>4, EventTypes DEF ListingFails, NoPolicy, Modes
  <2> QED BY <1>0, <1>4, <2>1 DEF
      ListingFails, TypeInv, TypeOK, TaskInv, Unique, ghVars, dbVars, ghosts
<1> QED BY <1>1, <1>2, <1>3, <1>4

LEMMA MaintenanceTypes ==
    ASSUME TypeInv, MaintenanceReads \/ MaintenanceRemoves \/ Crash PROVE TypeInv'
<1>0. TypeOK /\ TaskInv
  BY DEF TypeInv
<1>1. CASE MaintenanceReads
  <2>1. \A i \in DOMAIN rows : rows[i].name \in Names
    BY <1>0, Tables DEF TypeOK
  <2> DEFINE expected == {rows[i].name : i \in {j \in DOMAIN rows : rows[j].clone = "ready"}}
  <2>2. maint' = [on |-> TRUE, expected |-> expected]
    BY <1>1 DEF MaintenanceReads
  <2>3. expected \in SUBSET Names
    BY <2>1
  <2> HIDE DEF expected
  <2>4. maint' \in [on : BOOLEAN, expected : SUBSET Names]
    BY <2>2, <2>3
  <2> QED BY <1>0, <1>1, <2>4 DEF MaintenanceReads, TypeInv, TypeOK, TaskInv, Unique, ghVars,
                                  dbVars, syncVars, ghosts
<1>2. CASE MaintenanceRemoves
  <2>1. events' \in 0..MaxEvents
    BY <1>0, <1>2, EventTypes DEF MaintenanceRemoves, TypeOK
  <2>2. disk' \in [Names -> Dirs] /\ maint' \in [on : BOOLEAN, expected : SUBSET Names]
    BY <1>0, <1>2 DEF MaintenanceRemoves, TypeOK, NoDir, NoMaint, Dirs, Tips
  <2> QED BY <1>0, <1>2, <2>1, <2>2 DEF MaintenanceRemoves, TypeInv, TypeOK, TaskInv, Unique,
                                        ghVars, dbVars, syncVars, ghosts
<1>3. CASE Crash
  <2>1. /\ task' \in [DOMAIN rows' -> Tasks] /\ \A i \in DOMAIN task' : task'[i].at = "none"
        /\ rows' = rows
    <3>1. NoTask \in Tasks /\ NoTask.at = "none"
      BY DEF NoTask, Tasks, Tips
    <3> QED BY <1>0, <1>3, <3>1 DEF Crash, TypeOK, dbVars
  <2>2. /\ seen' \in [mode : Modes, forks : BOOLEAN] /\ events' \in 0..MaxEvents
        /\ listing' \in [Names -> Nodes \cup {NoNode}]
        /\ maint' \in [on : BOOLEAN, expected : SUBSET Names]
    BY <1>0, <1>3, EventTypes DEF Crash, NoPolicy, NoListing, NoMaint, Modes
  <2>3. TaskInv'
    BY <2>1 DEF TaskInv
  <2> QED BY <1>0, <1>3, <2>1, <2>2, <2>3 DEF Crash, TypeInv, TypeOK, Unique, ghVars, dbVars,
                                              ghosts
<1> QED BY <1>1, <1>2, <1>3

LEMMA WorkTypes ==
    ASSUME TypeInv, NEW i \in DOMAIN task, RepoWorks(i) PROVE TypeInv'
<1>0. TypeOK /\ TaskInv
  BY DEF TypeInv
<1>1. /\ rows' \in Seq(Rows) /\ DOMAIN rows' = DOMAIN rows
      /\ \A j \in DOMAIN rows :
            /\ rows'[j].name = rows[j].name /\ rows'[j].node = rows[j].node
      /\ task' \in [DOMAIN rows -> Tasks] /\ disk' \in [Names -> Dirs]
      /\ \A j \in DOMAIN task : j # i => task'[j] = task[j]
      /\ task'[i].at = "none" \/ task'[i].name = rows[i].name
  BY WorkKeeps
<1>2. /\ UNCHANGED <<ghVars, policy, phase, seen, listing, maint, ghosts>>
      /\ events' \in 0..MaxEvents /\ i \in DOMAIN rows /\ phase = "repos"
  BY DEF RepoWorks
<1>3. Unique(rows')
  BY <1>0, <1>1 DEF TypeOK, Unique
<1>4. TaskInv'
  BY <1>0, <1>1, <1>2 DEF TaskInv, TypeOK
<1> QED BY <1>0, <1>1, <1>2, <1>3, <1>4 DEF TypeInv, TypeOK, ghVars, ghosts

LEMMA EditTypes == ASSUME TypeInv, Edited PROVE TypeInv'
<1>0. TypeOK /\ TaskInv
  BY DEF TypeInv
<1>1. Unique(rows') /\ TaskInv'
  BY <1>0 DEF Edited, TypeOK, TaskInv, Unique, syncVars
<1> QED BY <1>0, <1>1 DEF Edited, TypeInv, TypeOK, ghVars, syncVars

LEMMA DiscoverTypes == ASSUME TypeInv, Discover PROVE TypeInv'
<1>0. TypeOK /\ TaskInv
  BY DEF TypeInv
<1>1. /\ phase = "discover" /\ seen' = NoPolicy /\ listing' = NoListing
      /\ UNCHANGED <<ghVars, policy, disk, maint>> /\ events' \in 0..MaxEvents
      /\ \/ phase' \in {"repos", "idle"} /\ Discovered
         \/ phase' = "idle" /\ clash' = TRUE /\ UNCHANGED <<rows, task, stale>>
  BY <1>0, Discovers
<1>2. /\ seen' \in [mode : Modes, forks : BOOLEAN] /\ listing' \in [Names -> Nodes \cup {NoNode}]
  BY <1>1 DEF NoPolicy, NoListing, Modes
<1>3. CASE phase' \in {"repos", "idle"} /\ Discovered
  <2>1. /\ rows' \in Seq(Rows) /\ Unique(rows') /\ task' \in [DOMAIN rows' -> Tasks]
        /\ stale' \in BOOLEAN /\ clash' \in BOOLEAN
        /\ \A i \in DOMAIN task' : task'[i].at \in {"none", "waiting"}
        /\ \A i \in DOMAIN task' : phase' = "repos" \/ task'[i].at = "none"
    BY <1>3 DEF Discovered
  <2>2. TaskInv'
    BY <1>3, <2>1 DEF TaskInv
  <2> QED BY <1>0, <1>1, <1>2, <1>3, <2>1, <2>2 DEF TypeInv, TypeOK, ghVars
<1>4. CASE phase' = "idle" /\ clash' = TRUE /\ UNCHANGED <<rows, task, stale>>
  BY <1>0, <1>1, <1>2, <1>4 DEF TypeInv, TypeOK, TaskInv, Unique, ghVars
<1> QED BY <1>1, <1>3, <1>4

(* What a step is, seen from outside the task that takes it.                *)
LEMMA Steps ==
    ASSUME TypeInv, Next
    PROVE  \/ GitHubStep \/ Edited \/ Discover
           \/ BeginSync \/ ListRepos \/ EndSync \/ ListingFails
           \/ MaintenanceReads \/ MaintenanceRemoves \/ Crash
           \/ \E i \in DOMAIN task : RepoWorks(i)
<1>1. TypeOK
  BY DEF TypeInv
<1> QED BY <1>1, EditsSave, StepsWork DEF Next, SyncStep

LEMMA TypeInductive == TypeInv /\ [Next]_vars => TypeInv'
<1> SUFFICES ASSUME TypeInv, [Next]_vars PROVE TypeInv'
  OBVIOUS
<1>1. CASE Next
  BY <1>1, Steps, GitHubTypes, EditTypes, DiscoverTypes, SyncTypes, MaintenanceTypes, WorkTypes
<1>2. CASE UNCHANGED vars
  BY <1>2 DEF TypeInv, TypeOK, TaskInv, Unique, vars, ghVars, dbVars, syncVars, ghosts
<1> QED BY <1>1, <1>2

(* Whatever GitHub, admins, crashes and maintenance do: no two rows of an   *)
(* org share a name or a node, and a task works in the directory of its row.*)
THEOREM TypeCorrect == Spec => []TypeOK
<1>1. TypeInv => TypeOK
  BY DEF TypeInv
<1> QED BY <1>1, TypeInit, TypeInductive, PTL DEF Spec

----------------------------------------------------------------------------
(* Filters.                                                                 *)

LEMMA QuietSteps ==
    ASSUME \/ GitHubStep \/ BeginSync \/ ListRepos \/ EndSync \/ ListingFails
           \/ MaintenanceReads \/ MaintenanceRemoves \/ Crash
    PROVE  /\ UNCHANGED <<dbVars, ghosts>>
           /\ phase' # "repos" \/ phase' = phase
<1>1. CASE GitHubStep
  BY <1>1 DEF GitHubStep, DeleteRepo, Push, CreateRepo, RenameRepo, Named, syncVars
<1>2. CASE BeginSync \/ ListRepos \/ EndSync \/ ListingFails
  BY <1>2 DEF BeginSync, ListRepos, EndSync, ListingFails
<1>3. CASE MaintenanceReads \/ MaintenanceRemoves \/ Crash
  BY <1>3 DEF MaintenanceReads, MaintenanceRemoves, Crash, syncVars
<1> QED BY <1>1, <1>2, <1>3

LEMMA InclusionInductive ==
    TypeInv /\ InclusionFollowsPolicy /\ [Next]_vars => InclusionFollowsPolicy'
<1> SUFFICES ASSUME TypeInv, InclusionFollowsPolicy, [Next]_vars
             PROVE  InclusionFollowsPolicy'
  OBVIOUS
<1>0. TypeOK
  BY DEF TypeInv
<1>1. ASSUME UNCHANGED <<dbVars, ghosts>> PROVE InclusionFollowsPolicy'
  BY <1>1 DEF InclusionFollowsPolicy, dbVars, ghosts
<1>2. CASE Edited
  BY <1>2 DEF Edited, Decided, InclusionFollowsPolicy
<1>3. CASE Discover
  <2>1. \/ UNCHANGED <<dbVars, stale>>
        \/ Discovered /\ policy' = policy
    BY <1>0, <1>3, Discovers DEF dbVars
  <2>2. CASE UNCHANGED <<dbVars, stale>>
    BY <2>2 DEF InclusionFollowsPolicy, dbVars
  <2>3. CASE Discovered /\ policy' = policy
    <3> SUFFICES ASSUME ~stale', NEW i \in DOMAIN rows', rows'[i].included
                 PROVE  RepoIncluded(rows'[i].name, policy.mode, policy.listed,
                                     rows'[i].node \in Forks, policy.forks)
      BY <2>3 DEF InclusionFollowsPolicy
    <3>1. Included(rows'[i].name, rows'[i].node)
      BY <2>3 DEF Discovered
    <3>2. seen = [mode |-> policy.mode, forks |-> policy.forks]
      BY <2>3 DEF Discovered
    <3>3. seen.mode = policy.mode /\ seen.forks = policy.forks
      BY <3>2
    <3> QED BY <3>1, <3>3 DEF Included
  <2> QED BY <2>1, <2>2, <2>3
<1>4. CASE \E i \in DOMAIN task : RepoWorks(i)
  <2>1. /\ DOMAIN rows' = DOMAIN rows
        /\ \A j \in DOMAIN rows :
              /\ rows'[j].name = rows[j].name /\ rows'[j].node = rows[j].node
              /\ rows'[j].included = rows[j].included
    BY <1>4, WorkKeeps
  <2>2. UNCHANGED <<policy, ghosts>>
    BY <1>4 DEF RepoWorks
  <2> QED BY <2>1, <2>2 DEF InclusionFollowsPolicy, ghosts
<1>5. CASE UNCHANGED vars
  BY <1>1, <1>5 DEF vars
<1> QED BY <1>1, <1>2, <1>3, <1>4, <1>5, Steps, QuietSteps

(* What a discovery that commits leaves included, GitHub has listed.        *)
GoneStops ==
    (phase = "discover" /\ (phase' = "repos" \/ (phase' = "idle" /\ rows' # rows))) =>
        \A i \in DOMAIN rows' : rows'[i].included =>
            listing[rows'[i].name] = rows'[i].node

LEMMA DiscoveryStops == TypeInv /\ [Next]_vars => GoneStops
<1> SUFFICES ASSUME TypeInv, [Next]_vars, phase = "discover", phase' # phase,
                    phase' = "repos" \/ rows' # rows
             PROVE  GoneStops
  BY DEF GoneStops
<1>1. Next
  BY DEF vars, syncVars
<1>2. Discover
  <2>1. ~Edited /\ ~ \E i \in DOMAIN task : RepoWorks(i)
    BY DEF Edited, RepoWorks, syncVars
  <2>2. Discover \/ (UNCHANGED rows /\ phase' # "repos")
    BY <1>1, <2>1, Steps, QuietSteps DEF dbVars
  <2> QED BY <2>2
<1>3. Discovered \/ (UNCHANGED rows /\ phase' # "repos")
  BY <1>2, Discovers DEF TypeInv
<1>4. Discovered
  BY <1>3
<1> QED BY <1>4 DEF Discovered, GoneStops

(* What the filters rule out is shown nowhere, and what is gone from GitHub *)
(* stops with the discovery that misses it, for any repositories, names and *)
(* filters, and whatever edits fall between a discovery's steps.            *)
THEOREM FiltersObeyed == Spec => FiltersHold
<1>1. Init => InclusionFollowsPolicy
  BY DEF Init, InclusionFollowsPolicy
<1>2. TypeInv /\ [Next]_vars => [GoneStops]_vars
  BY DiscoveryStops
<1>3. Spec => []InclusionFollowsPolicy
  BY <1>1, TypeInit, TypeInductive, InclusionInductive, PTL DEF Spec
<1>4. Spec => [][GoneStops]_vars
  BY <1>2, TypeInit, TypeInductive, PTL DEF Spec
<1>5. [][GoneStops]_vars <=> GoneStopsSyncing
  BY PTL DEF GoneStopsSyncing, GoneStops
<1> QED BY <1>3, <1>4, <1>5, PTL DEF FiltersHold

----------------------------------------------------------------------------
(* Renames.                                                                 *)

(* A listing has every node under one name.                                 *)
ListingInv ==
    \A m, l \in Names : listing[m] = listing[l] => m = l \/ listing[m] = NoNode

(* While no name has been given twice, every name that was ever used has    *)
(* one owner, and whatever carries the name is of that node: GitHub's own   *)
(* repository, the listing under way, the row and the tip of its clone.     *)
Owned(owner) ==
    /\ \A n \in Nodes : Exists(n) => name[n] \in usedNames /\ owner[name[n]] = n
    /\ \A m \in Names : listing[m] # NoNode => m \in usedNames /\ listing[m] = owner[m]
    /\ \A i \in DOMAIN rows : /\ rows[i].name \in usedNames
                              /\ rows[i].node = owner[rows[i].name]
                              /\ rows[i].hist \subseteq {rows[i].node}
    /\ \A m \in Names : disk[m].tip # NoTip => m \in usedNames /\ disk[m].tip[1] = owner[m]
OwnerInv ==
    reused \/ (~clash /\ \E owner \in [Names -> Nodes \cup {NoNode}] : Owned(owner))

RenameInv == TypeInv /\ ListingInv /\ OwnerInv

LEMMA Finds == \A m : NodeNamed(m) # NoNode => NodeNamed(m) \in Nodes /\ name[NodeNamed(m)] = m
BY DEF NodeNamed

LEMMA OwnerInit == Init => RenameInv
<1> SUFFICES ASSUME Init PROVE RenameInv
  OBVIOUS
<1>1. TypeInv
  BY TypeInit
<1>2. ListingInv
  BY DEF Init, NoListing, ListingInv
<1> DEFINE owner == [m \in Names |-> NodeNamed(m)]
<1>3. owner \in [Names -> Nodes \cup {NoNode}]
  BY NamedTypes
<1>4. ASSUME NEW n \in Nodes, Exists(n) PROVE name[n] \in usedNames /\ owner[name[n]] = n
  <2>1. name[n] \in Names /\ name[n] \in usedNames
    BY <1>1, <1>4 DEF Init, TypeInv, TypeOK, Exists
  <2>2. NodeNamed(name[n]) \in Nodes /\ name[NodeNamed(name[n])] = name[n]
    BY DEF NodeNamed
  <2>3. NodeNamed(name[n]) = n
    <3> DEFINE k == NodeNamed(name[n])
    <3>1. name[k] = name[n] => k = n \/ name[k] = 0
      BY <2>2, InitiallyAssumption DEF Init
    <3> QED BY <1>4, <2>2, <3>1 DEF Exists, NoName
  <2> QED BY <2>1, <2>3
<1>5. DOMAIN rows = {} /\ ~clash
  BY DEF Init
<1>6. \A m \in Names : disk[m].tip = NoTip /\ listing[m] = NoNode
  BY DEF Init, NoDir, NoListing
<1> HIDE DEF owner
<1>7. Owned(owner)
  BY <1>4, <1>5, <1>6 DEF Owned
<1> QED BY <1>1, <1>2, <1>3, <1>5, <1>7 DEF RenameInv, OwnerInv

LEMMA ListingInductive == TypeInv /\ ListingInv /\ [Next]_vars => ListingInv'
<1> SUFFICES ASSUME TypeInv, ListingInv, [Next]_vars PROVE ListingInv'
  OBVIOUS
<1>1. CASE UNCHANGED listing
  BY <1>1 DEF ListingInv
<1>2. CASE listing' = NoListing
  BY <1>2 DEF ListingInv, NoListing
<1>3. CASE ListRepos
  BY <1>3, Finds DEF ListRepos, ListingInv
<1>4. UNCHANGED listing \/ listing' = NoListing \/ ListRepos
  <2>1. CASE GitHubStep
    BY <2>1 DEF GitHubStep, DeleteRepo, Push, CreateRepo, RenameRepo, Named, syncVars
  <2>2. CASE Edited \/ Discover \/ \E i \in DOMAIN task : RepoWorks(i)
    BY <2>2, Discovers DEF TypeInv, Edited, RepoWorks, syncVars
  <2>3. CASE BeginSync \/ ListRepos \/ EndSync \/ ListingFails
    BY <2>3 DEF BeginSync, EndSync, ListingFails
  <2>4. CASE MaintenanceReads \/ MaintenanceRemoves \/ Crash
    BY <2>4 DEF MaintenanceReads, MaintenanceRemoves, Crash, syncVars
  <2>5. CASE UNCHANGED vars
    BY <2>5 DEF vars, syncVars
  <2> QED BY <2>1, <2>2, <2>3, <2>4, <2>5, Steps
<1> QED BY <1>1, <1>2, <1>3, <1>4

(* A walk after its first k names: no key is broken, every row keeps its    *)
(* node, and has the name it had or one it was listed under.                *)
WalkSound(acc, owner, k) ==
    /\ acc.ok /\ acc.rows \in Seq(Rows) /\ Len(rows) <= Len(acc.rows)
    /\ \A j \in DOMAIN acc.rows :
          /\ acc.rows[j].name \in usedNames
          /\ acc.rows[j].node = owner[acc.rows[j].name]
          /\ acc.rows[j].hist \subseteq {acc.rows[j].node}
          /\ j \in DOMAIN rows => acc.rows[j].node = rows[j].node
          /\ j \in DOMAIN rows \/ \E l \in 1..k : listing[l] = acc.rows[j].node

LEMMA TurnSound ==
    ASSUME TypeOK, ListingInv, NEW owner, Owned(owner), NEW k \in 0..MaxName,
           NEW acc, WalkSound(acc, owner, k), NEW m \in Names, m = k + 1
    PROVE  WalkSound(Turn(acc, m), owner, m)
<1> DEFINE n == listing[m]
           end == UpsertRow(acc, m, n)
           i == Slot(m, n, Len(acc.rows))
<1>1. k \in Nat /\ m \in Names /\ 1..k \subseteq 1..m /\ m \in 1..m /\ m \notin 1..k
      /\ 1..k \subseteq Names
  BY RepositoriesBounds DEF Names
<1>2. CASE n = NoNode
  BY <1>1, <1>2 DEF Turn, WalkSound
<1>3. CASE n # NoNode
  <2>1. n \in Nodes /\ m \in usedNames /\ owner[m] = n
    BY <1>1, <1>3 DEF TypeOK, Owned
  <2>2. Turn(acc, m) = end
    BY <1>3 DEF Turn, WalkSound
  <2>3. /\ i \in Nat /\ DOMAIN end.rows = DOMAIN acc.rows \cup {i}
        /\ end.rows \in Seq(Rows) /\ Len(acc.rows) <= Len(end.rows)
        /\ end.rows[i].name = m /\ end.rows[i].node = n
        /\ end.rows[i].hist = IF KnownRow(m, n) = 0 THEN {} ELSE acc.rows[i].hist
        /\ KnownRow(m, n) # 0 => i \in DOMAIN acc.rows
        /\ \A j \in DOMAIN acc.rows \ {i} : end.rows[j] = acc.rows[j]
        /\ end.ok <=> /\ acc.ok
                      /\ \A j \in DOMAIN acc.rows \ {i} :
                            acc.rows[j].name # m /\ acc.rows[j].node # n
    <3>1. acc.rows \in Seq(Rows) /\ Len(rows) <= Len(acc.rows)
      BY DEF WalkSound
    <3>2. Upserts(acc, m, n, end, i)
      BY <2>1, <3>1, Upserted
    <3> HIDE DEF end, i
    <3> QED BY <3>2 DEF Upserts
  <2>4. /\ i = IF KnownRow(m, n) = 0 THEN Len(acc.rows) + 1 ELSE KnownRow(m, n)
        /\ KnownRow(m, n) # 0 => /\ KnownRow(m, n) \in DOMAIN rows
                                 /\ \/ rows[KnownRow(m, n)].node = n
                                    \/ rows[KnownRow(m, n)].name = m
        /\ (\E j \in DOMAIN rows : rows[j].node = n) =>
              KnownRow(m, n) # 0 /\ rows[KnownRow(m, n)].node = n
    BY KnownRows DEF Slot, TypeOK
  <2>5. /\ Len(rows) \in Nat /\ Len(acc.rows) \in Nat /\ Len(end.rows) \in Nat
        /\ DOMAIN rows = 1..Len(rows) /\ DOMAIN acc.rows = 1..Len(acc.rows)
    BY <2>3, Tables DEF TypeOK, WalkSound
  <2> DEFINE known == KnownRow(m, n)
  <2> HIDE DEF n, i, end, known
  <2>6. known # 0 => i = known /\ i \in DOMAIN rows /\ rows[i].node = n
    BY <2>1, <2>4 DEF Owned, known
  <2>7. known = 0 => i \notin DOMAIN rows /\ i \notin DOMAIN acc.rows
    BY <2>4, <2>5 DEF WalkSound, known
  <2>8. ASSUME NEW j \in DOMAIN acc.rows, acc.rows[j].node = n PROVE j = i
    <3>1. CASE j \in DOMAIN rows
      <4>1. rows[j].node = n
        BY <2>8, <3>1 DEF WalkSound
      <4>2. known # 0
        BY <2>4, <3>1, <4>1 DEF known
      <4> QED BY <2>6, <3>1, <4>1, <4>2 DEF TypeOK, Unique
    <3>2. CASE j \notin DOMAIN rows
      <4>1. PICK l \in 1..k : listing[l] = n
        BY <2>8, <3>2 DEF WalkSound
      <4>2. l \in Names /\ l # m /\ m \in Names
        BY <1>1
      <4> QED BY <1>3, <4>1, <4>2 DEF ListingInv, n
    <3> QED BY <3>1, <3>2
  <2>9. ASSUME NEW j \in DOMAIN acc.rows, acc.rows[j].name = m PROVE j = i
    BY <2>1, <2>8, <2>9 DEF WalkSound
  <2>10. end.ok
    BY <2>3, <2>8, <2>9 DEF WalkSound
  <2>11. Len(rows) <= Len(end.rows)
    BY <2>3, <2>5 DEF WalkSound
  <2>12. ASSUME NEW j \in DOMAIN end.rows
         PROVE  /\ end.rows[j].name \in usedNames
                /\ end.rows[j].node = owner[end.rows[j].name]
                /\ end.rows[j].hist \subseteq {end.rows[j].node}
                /\ j \in DOMAIN rows => end.rows[j].node = rows[j].node
                /\ j \in DOMAIN rows \/ \E l \in 1..m : listing[l] = end.rows[j].node
    <3>1. CASE j = i
      <4>1. known # 0 => acc.rows[i].hist \subseteq {n}
        BY <2>3, <2>6 DEF WalkSound, known
      <4>2. end.rows[i].hist \subseteq {n}
        BY <2>3, <4>1 DEF known
      <4>3. listing[m] = n
        BY DEF n
      <4> QED BY <1>1, <2>1, <2>3, <2>6, <2>7, <3>1, <4>2, <4>3
    <3>2. CASE j # i
      <4>1. j \in DOMAIN acc.rows /\ end.rows[j] = acc.rows[j]
        BY <2>3, <3>2
      <4> QED BY <1>1, <4>1 DEF WalkSound
    <3> QED BY <3>1, <3>2
  <2>13. WalkSound(end, owner, m)
    BY <2>3, <2>10, <2>11, <2>12 DEF WalkSound
  <2> QED BY <2>2, <2>13
<1> QED BY <1>2, <1>3

LEMMA WalkStaysSound ==
    ASSUME TypeOK, ListingInv, NEW owner, Owned(owner)
    PROVE  WalkSound(Walk[MaxName], owner, MaxName)
<1> DEFINE S == {k \in 0..MaxName : WalkSound(Walk[k], owner, k)}
<1>0. MaxName \in Nat
  BY RepositoriesBounds
<1>1. 0 \in S
  <2>1. Len(rows) \in Nat /\ rows \in Seq(Rows)
    BY Tables DEF TypeOK
  <2>2. WalkSound([rows |-> rows, seen |-> {}, ok |-> TRUE], owner, 0)
    BY <2>1 DEF WalkSound, Owned
  <2> QED BY <1>0, <2>2, WalkSteps
<1>2. ASSUME NEW k \in S, k < MaxName PROVE k + 1 \in S
  <2>1. k \in Nat /\ k + 1 \in 1..MaxName /\ (k + 1) - 1 = k /\ k + 1 \in Names
    BY <1>0, <1>2 DEF Names
  <2>2. WalkSound(Turn(Walk[k], k + 1), owner, k + 1)
    BY <2>1, TurnSound
  <2>3. Walk[k + 1] = Turn(Walk[k], k + 1)
    BY <2>1, WalkSteps
  <2> QED BY <1>0, <2>1, <2>2, <2>3
<1>3. \A k \in S : k \in Nat /\ k < MaxName => k + 1 \in S
  BY <1>2
<1> HIDE DEF S
<1>4. 0..MaxName \subseteq S
  BY <1>0, <1>1, <1>3, UpTo
<1> QED BY <1>0, <1>4 DEF S

(* No step but GitHub's hands a name over.                                  *)
LEMMA NamesStay ==
    ASSUME TypeInv, NEW owner \in [Names -> Nodes \cup {NoNode}], Owned(owner),
           NEW n \in Nodes, NEW m \in Names, Named(n, m), ~reused', ~clash
    PROVE  OwnerInv'
<1> DEFINE own == [owner EXCEPT ![m] = n]
<1>0. TypeOK
  BY DEF TypeInv
<1>1. /\ m \notin usedNames /\ usedNames' = usedNames \cup {m}
      /\ name' = [name EXCEPT ![n] = m] /\ ~clash'
      /\ rows' = rows /\ disk' = disk /\ listing' = listing
  BY DEF Named, dbVars, syncVars, ghosts
<1>2. /\ own \in [Names -> Nodes \cup {NoNode}] /\ own[m] = n
      /\ \A l \in usedNames : own[l] = owner[l]
  BY <1>0, <1>1 DEF TypeOK
<1> HIDE DEF own
<1>3. ASSUME NEW k \in Nodes, Exists(k)' PROVE name'[k] \in usedNames' /\ own[name'[k]] = k
  BY <1>0, <1>1, <1>2, <1>3 DEF TypeOK, Owned, Exists
<1>4. ASSUME NEW l \in Names, listing'[l] # NoNode
      PROVE  l \in usedNames' /\ listing'[l] = own[l]
  BY <1>1, <1>2, <1>4 DEF Owned
<1>5. ASSUME NEW i \in DOMAIN rows'
      PROVE  /\ rows'[i].name \in usedNames' /\ rows'[i].node = own[rows'[i].name]
             /\ rows'[i].hist \subseteq {rows'[i].node}
  BY <1>1, <1>2 DEF Owned
<1>6. ASSUME NEW l \in Names, disk'[l].tip # NoTip
      PROVE  l \in usedNames' /\ disk'[l].tip[1] = own[l]
  BY <1>1, <1>2, <1>6 DEF Owned
<1>7. Owned(own)'
  BY <1>3, <1>4, <1>5, <1>6 DEF Owned
<1> QED BY <1>1, <1>2, <1>7 DEF OwnerInv

LEMMA OwnerInductive ==
    TypeInv /\ ListingInv /\ OwnerInv /\ [Next]_vars => OwnerInv'
<1> SUFFICES ASSUME TypeInv, ListingInv, OwnerInv, [Next]_vars, ~reused' PROVE OwnerInv'
  BY DEF OwnerInv
<1>0. TypeOK
  BY DEF TypeInv
<1>1. ~reused
  <2>1. CASE GitHubStep
    BY <2>1 DEF GitHubStep, DeleteRepo, Push, CreateRepo, RenameRepo, Named
  <2>2. CASE Edited \/ Discover \/ \E i \in DOMAIN task : RepoWorks(i)
    BY <1>0, <2>2, Discovers DEF Edited, RepoWorks, ghVars
  <2>3. CASE BeginSync \/ ListRepos \/ EndSync \/ ListingFails
    BY <2>3 DEF BeginSync, ListRepos, EndSync, ListingFails, ghVars
  <2>4. CASE MaintenanceReads \/ MaintenanceRemoves \/ Crash
    BY <2>4 DEF MaintenanceReads, MaintenanceRemoves, Crash, ghVars
  <2>5. CASE UNCHANGED vars
    BY <2>5 DEF vars, ghVars
  <2> QED BY <2>1, <2>2, <2>3, <2>4, <2>5, Steps
<1>2. PICK owner \in [Names -> Nodes \cup {NoNode}] : Owned(owner)
  BY <1>1 DEF OwnerInv
<1>3. ~clash
  BY <1>1 DEF OwnerInv
<1>4. ASSUME UNCHANGED <<name, usedNames, rows, clash>>,
             listing' = listing \/ listing' = NoListing,
             \A m \in Names : disk'[m].tip \in {NoTip, disk[m].tip}
      PROVE  OwnerInv'
  <2>1. \A n \in Nodes : Exists(n)' => Exists(n)
    BY <1>4 DEF Exists
  <2>2. \A m \in Names : listing'[m] # NoNode => listing'[m] = listing[m]
    BY <1>4 DEF NoListing
  <2>3. Owned(owner)'
    BY <1>2, <1>4, <2>1, <2>2 DEF Owned
  <2> QED BY <1>3, <1>4, <2>3 DEF OwnerInv
<1>5. CASE GitHubStep
  <2>1. PICK n \in Nodes : \/ DeleteRepo(n) \/ Push(n)
                           \/ \E m \in Names : CreateRepo(n, m) \/ RenameRepo(n, m)
    BY <1>5 DEF GitHubStep
  <2>2. CASE \E m \in Names : CreateRepo(n, m) \/ RenameRepo(n, m)
    BY <1>2, <1>3, <2>2, NamesStay DEF CreateRepo, RenameRepo
  <2>3. CASE DeleteRepo(n)
    <3>1. /\ name' = [name EXCEPT ![n] = NoName]
          /\ usedNames' = usedNames /\ rows' = rows /\ clash' = clash /\ disk' = disk
          /\ listing' = listing
      BY <2>3 DEF DeleteRepo, dbVars, syncVars, ghosts
    <3>2. \A k \in Nodes : Exists(k)' => Exists(k) /\ name'[k] = name[k]
      BY <1>0, <3>1 DEF TypeOK, Exists
    <3>3. Owned(owner)'
      BY <1>2, <3>1, <3>2 DEF Owned
    <3> QED BY <1>3, <3>1, <3>3 DEF OwnerInv
  <2>4. CASE Push(n)
    BY <1>4, <2>4 DEF Push, dbVars, syncVars, ghosts
  <2> QED BY <2>1, <2>2, <2>3, <2>4
<1>6. CASE ListRepos
  <2>1. /\ listing' = [m \in Names |-> NodeNamed(m)]
        /\ name' = name /\ usedNames' = usedNames /\ rows' = rows /\ disk' = disk
        /\ clash' = clash
    BY <1>6 DEF ListRepos, ghVars, dbVars, ghosts
  <2>2. ASSUME NEW m \in Names, listing'[m] # NoNode
        PROVE  m \in usedNames' /\ listing'[m] = owner[m]
    <3>1. listing'[m] \in Nodes /\ name[listing'[m]] = m
      BY <2>1, <2>2, Finds
    <3>2. Exists(listing'[m])
      BY <3>1 DEF Exists, Names, NoName
    <3> QED BY <1>2, <2>1, <3>1, <3>2 DEF Owned
  <2>3. \A n \in Nodes : Exists(n)' => Exists(n)
    BY <2>1 DEF Exists
  <2>4. Owned(owner)'
    BY <1>2, <2>1, <2>2, <2>3 DEF Owned
  <2> QED BY <1>3, <2>1, <2>4 DEF OwnerInv
<1>7. CASE BeginSync \/ EndSync \/ ListingFails \/ MaintenanceReads \/ Crash
  BY <1>4, <1>7 DEF BeginSync, EndSync, ListingFails, MaintenanceReads, Crash, ghVars, dbVars,
                    syncVars, ghosts
<1>8. CASE MaintenanceRemoves
  <2>1. \A m \in Names : disk'[m].tip \in {NoTip, disk[m].tip}
    BY <1>8 DEF MaintenanceRemoves, NoDir
  <2> QED BY <1>4, <1>8, <2>1 DEF MaintenanceRemoves, ghVars, dbVars, syncVars, ghosts
<1>9. CASE Edited
  <2>1. \A n \in Nodes : Exists(n)' => Exists(n)
    BY <1>9 DEF Edited, Exists, ghVars
  <2>2. Owned(owner)'
    BY <1>2, <1>9, <2>1 DEF Edited, Owned, ghVars, syncVars
  <2> QED BY <1>3, <1>9, <2>2 DEF Edited, OwnerInv
<1>10. CASE Discover
  <2>1. WalkSound(Walk[MaxName], owner, MaxName)
    BY <1>0, <1>2, WalkStaysSound
  <2>2. /\ Discovered /\ UNCHANGED <<ghVars, disk>> /\ listing' = NoListing
    BY <1>0, <1>10, <2>1, Discovers DEF WalkSound
  <2>3. ASSUME NEW i \in DOMAIN rows'
        PROVE  /\ rows'[i].name \in usedNames /\ rows'[i].node = owner[rows'[i].name]
               /\ rows'[i].hist \subseteq {rows'[i].node}
    BY <2>1, <2>2 DEF WalkSound, Discovered
  <2>4. \A n \in Nodes : Exists(n)' => Exists(n)
    BY <2>2 DEF Exists, ghVars
  <2>5. \A m \in Names : listing'[m] = NoNode
    BY <2>2 DEF NoListing
  <2>6. Owned(owner)'
    BY <1>2, <2>2, <2>3, <2>4, <2>5 DEF Owned, ghVars
  <2> QED BY <2>2, <2>6 DEF OwnerInv, Discovered
<1>11. CASE \E i \in DOMAIN task : RepoWorks(i)
  <2>1. PICK i \in DOMAIN task : RepoWorks(i)
    BY <1>11
  <2>2. /\ name' = name /\ usedNames' = usedNames /\ clash' = clash /\ listing' = listing
        /\ i \in DOMAIN rows
    BY <2>1 DEF RepoWorks, ghVars, ghosts
  <2> DEFINE m == rows[i].name
  <2>3. /\ m \in Names /\ m \in usedNames /\ rows[i].node = owner[m]
        /\ rows[i].hist \subseteq {owner[m]}
    BY <1>0, <1>2, RepoTypes DEF Owned
  <2>4. ASSUME NEW n, Serves(i, n) PROVE n = owner[m]
    <3>1. n \in Nodes /\ (name[n] = m => Exists(n))
      BY <2>3, <2>4 DEF Serves, Exists, Names, NoName
    <3> QED BY <1>2, <2>3, <2>4, <3>1 DEF Serves, Owned
  <2>5. PICK d \in Dirs : /\ disk' = [disk EXCEPT ![m] = d]
                          /\ d.tip \in {NoTip, disk[m].tip} \/ Serves(i, d.tip[1])
    BY <2>1 DEF RepoWorks, Rewritten
  <2>6. PICK r \in Rows :
           /\ rows' = [rows EXCEPT ![i] = r] /\ r.name = m /\ r.node = rows[i].node
           /\ \/ r.hist = rows[i].hist
              \/ disk[m].tip # NoTip /\ r.hist = rows[i].hist \cup {disk[m].tip[1]}
    BY <2>1 DEF RepoWorks, Ingested
  <2> HIDE DEF m
  <2>7. r.hist \subseteq {owner[m]}
    BY <1>2, <2>3, <2>6 DEF Owned
  <2>8. ASSUME NEW j \in DOMAIN rows'
        PROVE  /\ rows'[j].name \in usedNames /\ rows'[j].node = owner[rows'[j].name]
               /\ rows'[j].hist \subseteq {rows'[j].node}
    <3>1. CASE j = i
      BY <2>2, <2>3, <2>6, <2>7, <3>1
    <3>2. CASE j # i
      BY <1>2, <2>6, <3>2 DEF Owned
    <3> QED BY <3>1, <3>2
  <2>9. ASSUME NEW l \in Names, disk'[l].tip # NoTip
        PROVE  l \in usedNames /\ disk'[l].tip[1] = owner[l]
    <3>1. CASE l = m
      <4>1. disk'[l] = d
        BY <1>0, <2>5, <3>1 DEF TypeOK
      <4> QED BY <1>2, <2>3, <2>4, <2>5, <2>9, <3>1, <4>1 DEF Owned
    <3>2. CASE l # m
      <4>1. disk'[l] = disk[l]
        BY <1>0, <2>5, <3>2 DEF TypeOK
      <4> QED BY <1>2, <2>9, <4>1 DEF Owned
    <3> QED BY <3>1, <3>2
  <2>10. \A n \in Nodes : Exists(n)' => Exists(n)
    BY <2>2 DEF Exists
  <2>11. Owned(owner)'
    BY <1>2, <2>2, <2>8, <2>9, <2>10 DEF Owned
  <2> QED BY <1>3, <2>2, <2>11 DEF OwnerInv
<1>12. CASE UNCHANGED vars
  BY <1>4, <1>12 DEF vars, ghVars, dbVars, syncVars, ghosts
<1> QED BY <1>5, <1>6, <1>7, <1>8, <1>9, <1>10, <1>11, <1>12, Steps

(* As long as GitHub never gives a name to a second repository, a rename    *)
(* keeps the row and its history: no discovery breaks a unique key, whatever*)
(* the order of names, and no row holds commits of two repositories, however*)
(* clones are redirected, killed, removed or reused.                        *)
THEOREM ReuseOnlyConfuses == Spec => []OnlyReuseConfuses
<1>1. RenameInv => OnlyReuseConfuses
  BY DEF RenameInv, OwnerInv, Owned, OnlyReuseConfuses
<1>2. RenameInv /\ [Next]_vars => RenameInv'
  BY TypeInductive, ListingInductive, OwnerInductive DEF RenameInv
<1> QED BY <1>1, <1>2, OwnerInit, PTL DEF Spec
=============================================================================
