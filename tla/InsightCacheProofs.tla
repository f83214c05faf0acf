------------------------- MODULE InsightCacheProofs -------------------------
(***************************************************************************)
(* Proofs about the texts of insights, for any pages, reports and number   *)
(* of requests at a time: what is shown was written for what is asked, and *)
(* reports that take their subjects from one leaderboard never block each  *)
(* other.                                                                  *)
(***************************************************************************)
EXTENDS InsightCache, FiniteSetTheorems, WellFoundedInduction, TLAPS

----------------------------------------------------------------------------
(* Numbers and turns.                                                      *)

\* A set of numbers up to n has a least ...
LEMMA Least ==
    ASSUME NEW n \in Nat, NEW T, T \subseteq 0..n, T # {}
    PROVE  \E k \in T : \A j \in T : k <= j
<1> DEFINE F == {0..k : k \in T}
           R == StrictSubsetOrdering(Nat)
<1>1. F \subseteq FiniteSubsetsOf(Nat)
  <2>1. \A k \in T : 0..k \in SUBSET Nat /\ IsFiniteSet(0..k)
    BY FS_Interval
  <2> QED BY <2>1 DEF FiniteSubsetsOf
<1>2. \E x \in F : \A y \in F : ~ (<<y, x>> \in R)
  <2>1. IsWellFoundedOn(R, FiniteSubsetsOf(Nat)) /\ F # {}
    BY FS_StrictSubsetOrderingWellFounded
  <2> HIDE DEF F, R
  <2> QED BY <1>1, <2>1, WFMin
<1>3. PICK k \in T : \A j \in T : ~ (<<0..j, 0..k>> \in R)
  BY <1>2
<1>4. ASSUME NEW j \in T, ~(k <= j) PROVE FALSE
  <2>1. j \in Nat /\ k \in Nat /\ j < k
    BY <1>4
  <2>2. 0..j \subseteq 0..k /\ 0..j # 0..k /\ 0..j \in SUBSET Nat /\ 0..k \in SUBSET Nat
    BY <2>1
  <2> HIDE DEF R
  <2> QED BY <1>3, <2>2 DEF R, StrictSubsetOrdering
<1> QED BY <1>4

\* ... and a greatest one.
LEMMA Greatest ==
    ASSUME NEW n \in Nat, NEW T, T \subseteq 0..n, T # {}
    PROVE  \E k \in T : \A j \in T : j <= k
<1> DEFINE U == {n - k : k \in T}
<1>1. U \subseteq 0..n /\ U # {}
  <2>1. \A k \in T : k \in 0..n /\ n - k \in 0..n
    OBVIOUS
  <2> QED BY <2>1
<1>2. PICK u \in U : \A j \in U : u <= j
  <2> HIDE DEF U
  <2> QED BY <1>1, Least
<1>3. PICK k \in T : u = n - k
  OBVIOUS
<1>4. \A j \in T : n - k <= n - j /\ j \in Nat /\ k \in Nat
  BY <1>2, <1>3
<1>5. \A j \in T : j <= k
  BY <1>4
<1> QED BY <1>5

LEMMA PlanShapes ==
    ASSUME NEW plan \in Plans
    PROVE  /\ plan.board \in Seq(Subjects) /\ Len(plan.board) \in Nat
           /\ plan.todo \subseteq Entries /\ plan.todo # {}
           /\ \A e \in plan.todo : e.turn \in 0..(Len(plan.board) + 1)
           /\ \A e, f \in plan.todo : e.turn = f.turn => e = f
           /\ \A e \in plan.todo :
                 \/ /\ e.turn = 1 /\ e.view[1] # "report" /\ plan.board = <<>>
                 \/ /\ e.turn \in DOMAIN plan.board /\ e.about = {}
                    /\ e.view = <<"report", plan.board[e.turn]>>
                 \/ /\ e.turn = Len(plan.board) + 1 /\ e.about # {} /\ e.view[1] = "report"
           /\ \A i, j \in DOMAIN plan.board : plan.board[i] = plan.board[j] => i = j
<1>1. CASE \E a \in Pages : plan = [todo |-> Page(a), board |-> <<>>]
  <2>1. PICK a \in Pages : plan = [todo |-> Page(a), board |-> <<>>]
    BY <1>1
  <2> DEFINE e == [turn |-> 1, view |-> <<a, "page">>, about |-> {}, ai |-> TRUE]
  <2>2. plan.todo = {e} /\ plan.board = <<>>
    BY <2>1 DEF Page
  <2>3. /\ e \in Entries /\ e.turn = 1 /\ e.view[1] = a /\ a # "report"
    BY InsightCacheAssumption DEF Entries, Views
  <2>4. <<>> \in Seq(Subjects) /\ Len(<<>>) = 0 /\ DOMAIN <<>> = {}
    OBVIOUS
  <2> HIDE DEF e
  <2> QED BY <2>2, <2>3, <2>4
<1>2. CASE \E report \in Reports : plan = [todo |-> Insights(report), board |-> report.board]
  <2>1. PICK report \in Reports : plan = [todo |-> Insights(report), board |-> report.board]
    BY <1>2
  <2> DEFINE b == report.board
             early(k) == Cardinality({j \in Chosen(report) : j <= k}) <= AiSectionCap
             sec(k) == [turn |-> k, view |-> <<"report", b[k]>>, about |-> {}, ai |-> early(k)]
             intro == Introduction(report)
  <2>2. /\ b \in Seq(Subjects) /\ Len(b) \in Nat /\ DOMAIN b = 1..Len(b)
        /\ \A k \in DOMAIN b : b[k] \in Subjects
        /\ \A i, j \in DOMAIN b : b[i] = b[j] => i = j
    BY ReportsAssumption
  <2>3. /\ plan.board = b
        /\ plan.todo = {sec(k) : k \in Chosen(report)} \cup {intro}
    BY <2>1 DEF Insights, Sections
  <2>4. Chosen(report) \subseteq DOMAIN b
    BY DEF Chosen
  <2> HIDE DEF early
  <2>5. /\ intro.turn = Len(b) + 1 /\ intro.about = {report} /\ intro.view = <<"report", "intro">>
        /\ intro \in Entries
    BY <2>2 DEF Introduction, Entries, Views
  <2>6. ASSUME NEW k \in DOMAIN b
        PROVE  /\ sec(k).turn = k /\ sec(k).view = <<"report", b[k]>> /\ sec(k).about = {}
               /\ sec(k) \in Entries
    <3>1. early(k) \in BOOLEAN
      BY DEF early
    <3>2. <<"report", b[k]>> \in Views /\ k \in Nat
      BY <2>2 DEF Views
    <3> QED BY <3>1, <3>2 DEF Entries
  <2> HIDE DEF sec, intro, b
  <2>7. plan.todo \subseteq Entries /\ intro \in plan.todo
    BY <2>3, <2>4, <2>5, <2>6
  <2>8. ASSUME NEW e \in plan.todo
        PROVE  \/ e = intro /\ e.turn = Len(b) + 1 /\ e.about # {} /\ e.view[1] = "report"
               \/ /\ e.turn \in DOMAIN b /\ e = sec(e.turn) /\ e.about = {}
                  /\ e.view = <<"report", b[e.turn]>>
    BY <2>3, <2>4, <2>5, <2>6
  <2>9. \A e \in plan.todo : e.turn \in 0..(Len(b) + 1)
    BY <2>2, <2>8
  <2>10. \A e, f \in plan.todo : e.turn = f.turn => e = f
    BY <2>2, <2>8
  <2> QED BY <2>2, <2>3, <2>7, <2>8, <2>9, <2>10
<1> QED BY <1>1, <1>2 DEF Plans

(* Of plans over one leaderboard, what has the same key has the same turn.  *)
LEMMA SameTurn ==
    ASSUME NEW p \in Plans, NEW q \in Plans, p.board = q.board,
           NEW e \in p.todo, NEW f \in q.todo, e.view = f.view, e.about = f.about
    PROVE  e.turn = f.turn
<1>1. \/ e.turn = 1 /\ e.view[1] # "report"
      \/ /\ e.turn \in DOMAIN p.board /\ e.about = {}
         /\ e.view = <<"report", p.board[e.turn]>>
      \/ e.turn = Len(p.board) + 1 /\ e.about # {} /\ e.view[1] = "report"
  BY PlanShapes
<1>2. \/ f.turn = 1 /\ f.view[1] # "report"
      \/ /\ f.turn \in DOMAIN p.board /\ f.about = {}
         /\ f.view = <<"report", p.board[f.turn]>>
      \/ f.turn = Len(p.board) + 1 /\ f.about # {} /\ f.view[1] = "report"
  BY PlanShapes
<1>3. \A i, j \in DOMAIN p.board : p.board[i] = p.board[j] => i = j
  BY PlanShapes
<1> QED BY <1>1, <1>2, <1>3

First(todo) == CHOOSE insight \in todo : \A other \in todo : insight.turn <= other.turn

LEMMA FirstIsLeast ==
    ASSUME NEW plan \in Plans, NEW todo, todo \subseteq plan.todo, todo # {}
    PROVE  /\ First(todo) \in todo
           /\ \A f \in todo \ {First(todo)} : First(todo).turn < f.turn
<1> DEFINE T == {e.turn : e \in todo}
           n == Len(plan.board) + 1
<1>1. n \in Nat /\ T \subseteq 0..n /\ T # {} /\ \A e \in todo : e.turn \in Nat
  BY PlanShapes DEF Entries
<1>2. PICK k \in T : \A j \in T : k <= j
  <2> HIDE DEF T, n
  <2> QED BY <1>1, Least
<1>3. PICK e \in todo : \A f \in todo : e.turn <= f.turn
  BY <1>2
<1>4. /\ First(todo) \in todo
      /\ \A f \in todo : First(todo).turn <= f.turn
  BY <1>3 DEF First
<1>5. \A f \in todo : First(todo).turn = f.turn => First(todo) = f
  BY <1>4, PlanShapes
<1> QED BY <1>1, <1>4, <1>5

----------------------------------------------------------------------------
(* The invariant.                                                          *)

\* What a request has inserted was due before anything it has yet to give.
Orderly(q, plan) ==
    /\ q.board = plan.board /\ q.todo \subseteq plan.todo
    /\ \A row \in q.own : \E e \in plan.todo :
          /\ row.key.view = e.view /\ row.key.about = e.about
          /\ \A f \in q.todo : e.turn < f.turn

\* A request, wherever it is.
Asking == {"config", "lookup", "call", "insert"}
Fits(q) ==
    /\ q \in States
    /\ q.at \in {"idle", "commit"} <=> q.todo = {}
    /\ q.at = "idle" => q.own = {}
    /\ q.at \in Asking => /\ q.asked.view = First(q.todo).view
                          /\ q.asked.about = First(q.todo).about
    /\ q.at # "idle" => \E plan \in Plans : Orderly(q, plan)
    /\ \A row \in q.own : row.text = row.key
    /\ \A insight \in q.shown : insight.text = insight.asked

Settings ==
    /\ data \in 0..MaxChanges /\ data <= changes
    /\ model \in Models \cup {Off} /\ brief \in [Areas -> Briefs]
    /\ begun \in 0..MaxBegun /\ changes \in 0..MaxChanges /\ failures \in 0..MaxFailures

Apart ==
    /\ \A r, s \in Requests : r # s => req[r].own \cap req[s].own = {}
    /\ \A r \in Requests : cache \cap req[r].own = {}

CacheInv ==
    /\ Settings /\ Apart
    /\ req \in [Requests -> States] /\ \A r \in Requests : Fits(req[r])
    /\ cache \subseteq Rows /\ \A row \in cache : row.text = row.key

\* The fields of a request.
LEMMA StateFields ==
    /\ \A q \in States :
          /\ q.at \in {"idle", "context", "config", "lookup", "call", "insert", "commit"}
          /\ q.todo \in SUBSET Entries /\ q.asked \in Asks /\ q.attempt \in 0..2
          /\ q.own \in SUBSET Rows /\ q.shown \in SUBSET [asked : Asks, text : Asks]
          /\ q.board \in Seq(Subjects)
          /\ q = [at |-> q.at, todo |-> q.todo, asked |-> q.asked, attempt |-> q.attempt,
                  own |-> q.own, shown |-> q.shown, board |-> q.board]
    /\ \A a \in Asks :
          /\ a.view \in Views \cup {<<>>} /\ a.about \in SUBSET Reports
          /\ a.data \in 0..MaxChanges /\ a.brief \in Briefs /\ a.model \in Models \cup {Off}
    /\ \A row \in Rows : row.key \in Asks /\ row.text \in Asks
    /\ \A row \in Rows : row = [key |-> row.key, text |-> row.text]
    /\ NotAsked \in Asks
<1>1. \A q \in States :
          /\ q.at \in {"idle", "context", "config", "lookup", "call", "insert", "commit"}
          /\ q.todo \in SUBSET Entries /\ q.asked \in Asks /\ q.attempt \in 0..2
          /\ q.own \in SUBSET Rows /\ q.shown \in SUBSET [asked : Asks, text : Asks]
          /\ q.board \in Seq(Subjects)
  BY DEF States
<1>2. \A q \in States :
          q = [at |-> q.at, todo |-> q.todo, asked |-> q.asked, attempt |-> q.attempt,
               own |-> q.own, shown |-> q.shown, board |-> q.board]
  BY DEF States
<1>3. \A a \in Asks :
          /\ a.view \in Views \cup {<<>>} /\ a.about \in SUBSET Reports
          /\ a.data \in 0..MaxChanges /\ a.brief \in Briefs /\ a.model \in Models \cup {Off}
  BY DEF Asks
<1>4. \A row \in Rows : /\ row.key \in Asks /\ row.text \in Asks
                        /\ row = [key |-> row.key, text |-> row.text]
  BY DEF Rows
<1>5. NotAsked \in Asks
  <2> DEFINE views == Views \cup {<<>>}
             days == 0..MaxChanges
             view == <<>>
  <2>1. view \in views /\ Off \in Models \cup {Off}
    OBVIOUS
  <2>2. 0 \in days
    <3>1. MaxChanges \in Nat
      BY InsightCacheAssumption
    <3> QED BY <3>1
  <2>3. "" \in Briefs
    BY InsightCacheAssumption
  <2>4. /\ NotAsked = [view |-> view, about |-> {}, data |-> 0, brief |-> "", model |-> Off]
        /\ Asks = [view : views, about : SUBSET Reports, data : days, brief : Briefs,
                   model : Models \cup {Off}]
    BY DEF NotAsked, Asks
  <2> HIDE DEF views, days, view
  <2> QED BY <2>1, <2>2, <2>3, <2>4
<1> QED BY <1>1, <1>2, <1>3, <1>4, <1>5

LEMMA IdleFits == Fits(Idle)
<1>1. Idle \in States
  BY StateFields DEF Idle, States
<1> QED BY <1>1 DEF Fits, Idle, Asking

\* An insight is given, and the next one's turn comes.
Gives(r, q) ==
    /\ q.todo = req[r].todo \ {Turn(r)} /\ q.board = req[r].board
    /\ q.at = IF req[r].todo = {Turn(r)} THEN "commit" ELSE "context"

LEMMA GivenShape ==
    ASSUME NEW r \in Requests, req[r] \in States, NEW asked \in Asks,
           NEW texts, texts \subseteq {asked}
    PROVE  LET q == Given(r, asked, texts)
           IN  /\ q \in States /\ Gives(r, q) /\ q.own = req[r].own
               /\ \A insight \in q.shown : insight.text = insight.asked
<1> DEFINE shown == {[asked |-> asked, text |-> t] : t \in texts}
           todo == req[r].todo \ {Turn(r)}
           at == IF req[r].todo = {Turn(r)} THEN "commit" ELSE "context"
           q == [at |-> at, todo |-> todo, asked |-> NotAsked, attempt |-> 0,
                 own |-> req[r].own, shown |-> shown, board |-> req[r].board]
<1>1. shown \in SUBSET [asked : Asks, text : Asks] /\ \A i \in shown : i.text = i.asked
  OBVIOUS
<1>2. todo \in SUBSET Entries /\ at \in {"context", "commit"}
  BY StateFields
<1>3. Given(r, asked, texts) = q
  <2> DEFINE old == req[r]
             one == {Turn(r)}
  <2>1. old = [at |-> old.at, todo |-> old.todo, asked |-> old.asked, attempt |-> old.attempt,
               own |-> old.own, shown |-> old.shown, board |-> old.board]
    BY StateFields
  <2>2. Given(r, asked, texts) =
           [old EXCEPT !.shown = shown, !.asked = NotAsked, !.attempt = 0,
                       !.todo = old.todo \ one,
                       !.at = IF old.todo = one THEN "commit" ELSE "context"]
    BY <2>1 DEF Given
  <2> HIDE DEF old, shown, one
  <2>3. Given(r, asked, texts) =
           [at |-> IF old.todo = one THEN "commit" ELSE "context", todo |-> old.todo \ one,
            asked |-> NotAsked, attempt |-> 0, own |-> old.own, shown |-> shown,
            board |-> old.board]
    BY <2>1, <2>2
  <2> QED BY <2>3 DEF old, one
<1> HIDE DEF shown, at, todo
<1>4. q \in States
  BY <1>1, <1>2, StateFields DEF States
<1>5. q.todo = todo /\ q.board = req[r].board /\ q.at = at /\ q.own = req[r].own /\ q.shown = shown
  OBVIOUS
<1> HIDE DEF q
<1> QED BY <1>1, <1>3, <1>4, <1>5 DEF Gives, todo, at

LEMMA GivesFits ==
    ASSUME NEW r \in Requests, Fits(req[r]), req[r].at \notin {"idle", "commit"},
           NEW q \in States, Gives(r, q), q.own \subseteq req[r].own,
           \A insight \in q.shown : insight.text = insight.asked
    PROVE  Fits(q)
<1>1. q.at \in {"idle", "commit"} <=> q.todo = {}
  BY DEF Gives, Fits
<1>2. q.at \notin Asking /\ q.at # "idle"
  BY DEF Gives, Asking
<1>3. PICK plan \in Plans : Orderly(req[r], plan)
  BY DEF Fits
<1>4. Orderly(q, plan)
  BY <1>3 DEF Orderly, Gives
<1> QED BY <1>1, <1>2, <1>4 DEF Fits

\* The insight that is given has its row inserted.
LEMMA InsertFits ==
    ASSUME NEW r \in Requests, Fits(req[r]), req[r].at = "insert",
           NEW q \in States, Gives(r, q), NEW row, row.key = req[r].asked, row.text = row.key,
           q.own = req[r].own \cup {row},
           \A insight \in q.shown : insight.text = insight.asked
    PROVE  Fits(q)
<1>1. q.at \in {"idle", "commit"} <=> q.todo = {}
  BY DEF Gives, Fits
<1>2. q.at \notin Asking /\ q.at # "idle"
  BY DEF Gives, Asking
<1>3. PICK plan \in Plans : Orderly(req[r], plan)
  BY DEF Fits
<1> DEFINE e == Turn(r)
<1>4. e = First(req[r].todo)
  BY DEF Turn, First
<1>5. req[r].todo \subseteq plan.todo /\ req[r].todo # {}
  BY <1>3 DEF Orderly, Fits
<1>6. e \in plan.todo /\ \A f \in req[r].todo \ {e} : e.turn < f.turn
  BY <1>4, <1>5, FirstIsLeast
<1>7. row.key.view = e.view /\ row.key.about = e.about
  BY <1>4 DEF Fits, Asking
<1> HIDE DEF e
<1>8. q.todo = req[r].todo \ {e} /\ q.board = req[r].board
  BY DEF Gives, e
<1>9. ASSUME NEW x \in q.own
      PROVE  \E f \in plan.todo : /\ x.key.view = f.view /\ x.key.about = f.about
                                  /\ \A g \in q.todo : f.turn < g.turn
  <2>1. CASE x = row
    BY <1>6, <1>7, <1>8, <2>1
  <2>2. CASE x \in req[r].own
    BY <1>3, <1>8, <2>2 DEF Orderly
  <2> QED BY <2>1, <2>2
<1>10. Orderly(q, plan)
  BY <1>3, <1>8, <1>9 DEF Orderly
<1> QED BY <1>1, <1>2, <1>10 DEF Fits

----------------------------------------------------------------------------
(* Steps of a request.                                                     *)

LEMMA InitHolds == Init => CacheInv
<1> SUFFICES ASSUME Init PROVE CacheInv
  OBVIOUS
<1>1. req \in [Requests -> States] /\ \A r \in Requests : Fits(req[r]) /\ req[r].own = {}
  BY IdleFits DEF Init, Fits, Idle
<1>2. data \in 0..MaxChanges /\ data <= changes /\ changes \in 0..MaxChanges
  <2>1. MaxChanges \in Nat /\ data = 0 /\ changes = 0
    BY InsightCacheAssumption DEF Init
  <2> QED BY <2>1
<1>3. begun \in 0..MaxBegun /\ failures \in 0..MaxFailures
  <2>1. MaxBegun \in Nat /\ MaxFailures \in Nat /\ begun = 0 /\ failures = 0
    BY InsightCacheAssumption DEF Init
  <2> QED BY <2>1
<1>4. model \in Models \cup {Off}
  BY DEF Init
<1>5. brief \in [Areas -> Briefs]
  BY InsightCacheAssumption DEF Init
<1>6. cache = {}
  BY DEF Init
<1> QED BY <1>1, <1>2, <1>3, <1>4, <1>5, <1>6 DEF CacheInv, Settings, Apart

\* Nothing is added to what the requests have inserted, or to the cache.
LEMMA NothingAdded ==
    ASSUME CacheInv, NEW r \in Requests, NEW q, Fits(q), req' = [req EXCEPT ![r] = q],
           q.own \subseteq req[r].own, cache' \subseteq cache, Settings'
    PROVE  CacheInv'
<1>1. /\ req' \in [Requests -> States] /\ \A s \in Requests : Fits(req'[s])
  BY DEF CacheInv, Fits
<1>2. \A s \in Requests : req'[s].own \subseteq req[s].own
  BY DEF CacheInv
<1>3. Apart'
  BY <1>2 DEF CacheInv, Apart
<1> QED BY <1>1, <1>3 DEF CacheInv

LEMMA NobodyMoves ==
    ASSUME CacheInv, req' = req, cache' \subseteq cache, Settings' PROVE CacheInv'
BY DEF CacheInv, Apart

\* A step of one request that adds nothing.
Asks1(r) == \E q : /\ Fits(q) /\ q.own \subseteq req[r].own
                   /\ req' = [req EXCEPT ![r] = q]

\* The next thing a request asks.
AsksNext(r, q) ==
    /\ q.at \in Asking /\ q.todo = req[r].todo /\ q.own = req[r].own
    /\ q.board = req[r].board /\ q.shown \in {{}, req[r].shown}
    /\ q.asked.view = Turn(r).view /\ q.asked.about = Turn(r).about

LEMMA AskFits ==
    ASSUME NEW r \in Requests, Fits(req[r]), req[r].at \notin {"idle", "commit"},
           NEW q \in States, AsksNext(r, q), req' = [req EXCEPT ![r] = q]
    PROVE  Asks1(r)
<1>1. \A insight \in q.shown : insight.text = insight.asked
  BY DEF Fits, AsksNext
<1>2. q.asked.view = First(q.todo).view /\ q.asked.about = First(q.todo).about
  BY DEF Turn, First, AsksNext
<1>3. PICK plan \in Plans : Orderly(req[r], plan)
  BY DEF Fits
<1>4. Orderly(q, plan)
  BY <1>3 DEF Orderly, AsksNext
<1>5. q.at \notin {"idle", "commit"} /\ q.todo # {} /\ \A row \in q.own : row.text = row.key
  BY DEF Fits, Asking, AsksNext
<1>6. Fits(q)
  BY <1>1, <1>2, <1>4, <1>5 DEF Fits
<1> QED BY <1>6 DEF Asks1, AsksNext

\* Whose turn it is, and what its text is asked for.
LEMMA TurnFits ==
    ASSUME NEW r \in Requests, Fits(req[r]), req[r].at \notin {"idle", "commit"}
    PROVE  /\ Turn(r) \in Entries /\ Turn(r).view \in Views /\ Turn(r).about \in SUBSET Reports
           /\ req[r].asked \in Asks
           /\ req[r].at \in Asking => /\ req[r].asked.view = Turn(r).view
                                      /\ req[r].asked.about = Turn(r).about
<1>1. PICK plan \in Plans : Orderly(req[r], plan)
  BY DEF Fits
<1>2. Turn(r) = First(req[r].todo)
  BY DEF Turn, First
<1>3. Turn(r) \in req[r].todo
  BY <1>1, <1>2, FirstIsLeast DEF Fits, Orderly
<1>4. Turn(r) \in Entries
  BY <1>3, StateFields DEF Fits
<1>5. Turn(r).view \in Views /\ Turn(r).about \in SUBSET Reports
  BY <1>4 DEF Entries
<1> QED BY <1>2, <1>4, <1>5, StateFields DEF Fits

LEMMA GivesText ==
    ASSUME NEW r \in Requests, Fits(req[r]), req[r].at \notin {"idle", "commit"},
           NEW asked \in Asks, NEW texts, texts \subseteq {asked},
           req' = [req EXCEPT ![r] = Given(r, asked, texts)]
    PROVE  Asks1(r)
<1> DEFINE q == Given(r, asked, texts)
<1>1. /\ q \in States /\ Gives(r, q) /\ q.own = req[r].own
      /\ \A insight \in q.shown : insight.text = insight.asked
  BY GivenShape DEF Fits
<1>2. req' = [req EXCEPT ![r] = q]
  OBVIOUS
<1> HIDE DEF q
<1>3. Fits(q)
  BY <1>1, GivesFits
<1> QED BY <1>1, <1>2, <1>3 DEF Asks1

LEMMA GoesOn ==
    ASSUME CacheInv, NEW r \in Requests, req[r].at \notin {"idle", "commit"},
           NEW at \in Asking, NEW asked \in Asks, asked.view = Turn(r).view,
           asked.about = Turn(r).about, Go(r, at, asked)
    PROVE  Asks1(r)
<1> DEFINE old == req[r]
           q == [old EXCEPT !.at = at, !.asked = asked]
<1>1. Fits(old) /\ old \in States
  BY DEF CacheInv
<1>2. req' = [req EXCEPT ![r] = q]
  BY DEF Go, CacheInv
<1>3. /\ q \in States /\ q.at = at /\ q.asked = asked /\ q.todo = old.todo
      /\ q.own = old.own /\ q.board = old.board /\ q.shown = old.shown
  <2> HIDE DEF old
  <2> QED BY <1>1 DEF States, Asking
<1> HIDE DEF q
<1>4. AsksNext(r, q)
  BY <1>3 DEF AsksNext
<1> QED BY <1>1, <1>2, <1>3, <1>4, AskFits

LEMMA ComposeAsks == ASSUME CacheInv, NEW r \in Requests, Compose(r) PROVE Asks1(r) /\ OnlyReq
<1> DEFINE old == req[r]
           section == Turn(r)
           asked == [NotAsked EXCEPT !.view = section.view, !.about = section.about,
                                     !.data = data]
           q == [old EXCEPT !.at = "config", !.asked = asked, !.shown = {}]
<1>1. old.at = "context" /\ OnlyReq
  BY DEF Compose
<1>2. Fits(old) /\ old \in States /\ req \in [Requests -> States] /\ data \in 0..MaxChanges
  BY DEF CacheInv, Settings
<1>3. section.view \in Views /\ section.about \in SUBSET Reports
  BY <1>1, <1>2, TurnFits
<1>4. asked \in Asks /\ asked.view = section.view /\ asked.about = section.about
  <2> HIDE DEF section
  <2> QED BY <1>2, <1>3, StateFields DEF Asks
<1>5. CASE section.ai
  <2>1. req' = [req EXCEPT ![r] = q]
    BY <1>2, <1>5 DEF Compose
  <2>2. /\ q \in States /\ q.at = "config" /\ q.asked = asked /\ q.todo = old.todo
        /\ q.own = old.own /\ q.board = old.board /\ q.shown = {}
    <3> HIDE DEF old, asked
    <3> QED BY <1>2, <1>4 DEF States
  <2> HIDE DEF q, asked
  <2>3. AsksNext(r, q)
    BY <1>4, <2>2 DEF AsksNext, Asking
  <2> QED BY <1>1, <1>2, <2>1, <2>2, <2>3, AskFits
<1>6. CASE ~section.ai
  <2> DEFINE none == {}
  <2>1. req' = [req EXCEPT ![r] = Given(r, asked, none)]
    BY <1>6 DEF Compose
  <2> HIDE DEF asked
  <2>2. none \subseteq {asked}
    OBVIOUS
  <2> HIDE DEF none
  <2>3. old.at \notin {"idle", "commit"}
    BY <1>1
  <2>4. Asks1(r)
    BY <1>2, <1>4, <2>1, <2>2, <2>3, GivesText
  <2> QED BY <1>1, <2>4
<1> QED BY <1>5, <1>6

LEMMA FallbackGives ==
    ASSUME CacheInv, NEW r \in Requests, req[r].at \in Asking, Fallback(r)
    PROVE  Asks1(r) /\ OnlyReq
<1>1. Fits(req[r]) /\ req[r].at \notin {"idle", "commit"}
  BY DEF CacheInv, Asking
<1>2. req[r].asked \in Asks
  BY <1>1, TurnFits
<1> DEFINE none == {}
<1>3. req' = [req EXCEPT ![r] = Given(r, req[r].asked, none)] /\ OnlyReq
  BY DEF Fallback
<1>4. none \subseteq {req[r].asked}
  OBVIOUS
<1> HIDE DEF none
<1>5. Asks1(r)
  BY <1>1, <1>2, <1>3, <1>4, GivesText
<1> QED BY <1>3, <1>5

LEMMA ReadAsks ==
    ASSUME CacheInv, NEW r \in Requests, ReadConfig(r) \/ LookUp(r)
    PROVE  Asks1(r) /\ OnlyReq
<1> DEFINE old == req[r].asked
<1>1. Fits(req[r]) /\ req[r].at \in Asking /\ req[r].at \notin {"idle", "commit"}
  BY DEF CacheInv, Asking, ReadConfig, LookUp
<1>2. old \in Asks /\ old.view = Turn(r).view /\ old.about = Turn(r).about /\ old.view \in Views
  BY <1>1, TurnFits
<1>3. CASE ReadConfig(r)
  <2> DEFINE asked == [old EXCEPT !.model = model]
  <2>1. CASE model = Off
    BY <1>1, <1>3, <2>1, FallbackGives DEF ReadConfig
  <2>2. CASE model # Off
    <3>1. Go(r, "lookup", asked)
      BY <1>3, <2>2 DEF ReadConfig
    <3>2. asked \in Asks /\ asked.view = Turn(r).view /\ asked.about = Turn(r).about
      <4> HIDE DEF old
      <4>1. model \in Models \cup {Off}
        BY DEF CacheInv, Settings
      <4> QED BY <1>2, <4>1 DEF Asks
    <3> HIDE DEF asked
    <3>3. Asks1(r)
      BY <1>1, <3>1, <3>2, GoesOn DEF Asking
    <3> QED BY <3>1, <3>3 DEF Go
  <2> QED BY <2>1, <2>2
<1>4. CASE LookUp(r)
  <2> DEFINE area == old.view[1]
             asked == [old EXCEPT !.brief = brief[area]]
             hits == {row \in cache \cup req[r].own : row.key = CacheKey(asked)}
             texts == {row.text : row \in hits}
  <2>1. brief[area] \in Briefs
    <3>1. area \in Areas
      BY <1>2 DEF Views, Areas
    <3> QED BY <3>1 DEF CacheInv, Settings
  <2>2. asked \in Asks /\ asked.view = Turn(r).view /\ asked.about = Turn(r).about
    <3> HIDE DEF old, area
    <3> QED BY <1>2, <2>1 DEF Asks
  <2>3. IF hits = {} THEN Go(r, "call", asked)
        ELSE req' = [req EXCEPT ![r] = Given(r, asked, texts)] /\ OnlyReq
    BY <1>4 DEF LookUp
  <2>4. texts \subseteq {asked}
    <3>1. \A row \in cache \cup req[r].own : row.text = row.key
      BY DEF CacheInv, Fits
    <3> HIDE DEF asked
    <3> QED BY <3>1 DEF CacheKey
  <2> HIDE DEF asked, texts, hits
  <2>5. CASE hits = {}
    <3>1. Go(r, "call", asked)
      BY <2>3, <2>5
    <3>2. Asks1(r)
      BY <1>1, <2>2, <3>1, GoesOn DEF Asking
    <3> QED BY <3>1, <3>2 DEF Go
  <2>6. CASE hits # {}
    BY <1>1, <2>2, <2>3, <2>4, <2>6, GivesText
  <2> QED BY <2>5, <2>6
<1> QED BY <1>3, <1>4

LEMMA CallAsks ==
    ASSUME CacheInv, NEW r \in Requests, Answers(r) \/ FailsForNow(r) \/ Refuses(r)
    PROVE  Asks1(r) /\ OnlyReq
<1>1. Fits(req[r]) /\ req[r].at \in Asking /\ req[r].at \notin {"idle", "commit"}
  BY DEF CacheInv, Asking, Answers, FailsForNow, Refuses
<1>2. /\ req[r].asked \in Asks /\ req[r].asked.view = Turn(r).view
      /\ req[r].asked.about = Turn(r).about
  BY <1>1, TurnFits
<1>3. CASE Answers(r)
  <2>1. Go(r, "insert", req[r].asked)
    BY <1>3 DEF Answers
  <2>2. Asks1(r)
    BY <1>1, <1>2, <2>1, GoesOn DEF Asking
  <2> QED BY <2>1, <2>2 DEF Go
<1>4. CASE Refuses(r) \/ (FailsForNow(r) /\ req[r].attempt # 0)
  BY <1>1, <1>4, FallbackGives DEF Refuses, FailsForNow
<1>5. CASE FailsForNow(r) /\ req[r].attempt = 0
  <2> DEFINE old == req[r]
             q == [old EXCEPT !.attempt = 1]
  <2>1. req' = [req EXCEPT ![r] = q] /\ OnlyReq /\ old \in States
    BY <1>5 DEF FailsForNow, CacheInv
  <2>2. /\ q \in States /\ q.at = old.at /\ q.asked = old.asked /\ q.todo = old.todo
        /\ q.own = old.own /\ q.board = old.board /\ q.shown = old.shown
    <3> HIDE DEF old
    <3> QED BY <2>1 DEF States
  <2> HIDE DEF q
  <2>3. AsksNext(r, q)
    BY <1>1, <1>2, <2>2 DEF AsksNext
  <2> QED BY <1>1, <2>1, <2>2, <2>3, AskFits
<1> QED BY <1>3, <1>4, <1>5

\* A request begins, or ends without what it has inserted.
LEMMA BeginsOrEnds ==
    ASSUME CacheInv, NEW r \in Requests,
           \/ \E plan \in Plans : Begin(r, plan)
           \/ DeadlockBroken(r) \/ Commit(r) \/ Fails(r)
    PROVE  Asks1(r)
<1>1. CASE \E plan \in Plans : Begin(r, plan)
  <2>1. PICK plan \in Plans : Begin(r, plan)
    BY <1>1
  <2> DEFINE q == [Idle EXCEPT !.at = "context", !.todo = plan.todo, !.board = plan.board]
  <2>2. req' = [req EXCEPT ![r] = q]
    BY <2>1 DEF Begin
  <2>3. Idle \in States /\ Idle.own = {} /\ Idle.shown = {}
    BY IdleFits DEF Fits, Idle
  <2>4. plan.board \in Seq(Subjects) /\ plan.todo \subseteq Entries /\ plan.todo # {}
    BY PlanShapes
  <2>5. /\ q \in States /\ q.at = "context" /\ q.todo = plan.todo /\ q.board = plan.board
        /\ q.own = {} /\ q.shown = {}
    BY <2>3, <2>4 DEF States
  <2> HIDE DEF q
  <2>6. Orderly(q, plan)
    BY <2>5 DEF Orderly
  <2>7. Fits(q)
    BY <2>4, <2>5, <2>6 DEF Fits, Asking
  <2> QED BY <2>2, <2>5, <2>7 DEF Asks1
<1>2. CASE DeadlockBroken(r) \/ Commit(r) \/ Fails(r)
  <2>1. req' = [req EXCEPT ![r] = Idle] /\ Idle.own = {}
    BY <1>2 DEF DeadlockBroken, Commit, Fails, Idle
  <2> QED BY <2>1, IdleFits DEF Asks1
<1> QED BY <1>1, <1>2

LEMMA InsertKeeps == ASSUME CacheInv, NEW r \in Requests, Insert(r) PROVE CacheInv'
<1> DEFINE old == req[r]
           asked == old.asked
           row == [key |-> asked, text |-> asked]
           given == Given(r, asked, {asked})
<1>1. /\ Fits(old) /\ old \in States /\ old.at = "insert"
      /\ old.at \in Asking /\ old.at \notin {"idle", "commit"}
  BY DEF CacheInv, Insert, Asking
<1>2. asked \in Asks
  BY <1>1, TurnFits
<1>3. OnlyReq /\ \A s \in Requests : ~WaitsFor(r, s)
  BY DEF Insert
<1>4. /\ given \in States /\ Gives(r, given) /\ given.own = old.own
      /\ \A insight \in given.shown : insight.text = insight.asked
  <2> DEFINE texts == {asked}
  <2>1. texts \subseteq {asked}
    OBVIOUS
  <2> HIDE DEF texts
  <2>2. /\ Given(r, asked, texts) \in States /\ Gives(r, Given(r, asked, texts))
        /\ Given(r, asked, texts).own = old.own
        /\ \A insight \in Given(r, asked, texts).shown : insight.text = insight.asked
    BY <1>1, <1>2, <2>1, GivenShape
  <2> QED BY <2>2 DEF texts
<1>5. row \in Rows /\ row.key = asked /\ row.text = row.key
  BY <1>2 DEF Rows
<1>6. Settings'
  BY <1>3 DEF OnlyReq, CacheInv, Settings
<1>7. CASE \E x \in cache : x.key = asked
  <2> DEFINE q == [given EXCEPT !.own = given.own]
  <2>1. req' = [req EXCEPT ![r] = q]
    BY <1>7 DEF Insert, CacheKey
  <2>2. /\ q \in States /\ q.at = given.at /\ q.asked = given.asked /\ q.todo = given.todo
        /\ q.own = given.own /\ q.board = given.board /\ q.shown = given.shown
    <3> HIDE DEF given
    <3> QED BY <1>4 DEF States
  <2> HIDE DEF q, given
  <2>3. Gives(r, q)
    BY <1>4, <2>2 DEF Gives
  <2>4. Fits(q)
    BY <1>1, <1>4, <2>2, <2>3, GivesFits
  <2> QED BY <1>3, <1>4, <1>6, <2>1, <2>2, <2>4, NothingAdded DEF OnlyReq
<1>8. CASE ~\E x \in cache : x.key = asked
  <2> DEFINE own == old.own \cup {row}
             q == [given EXCEPT !.own = own]
  <2>1. req' = [req EXCEPT ![r] = q]
    BY <1>4, <1>8 DEF Insert, CacheKey
  <2>2. own \subseteq Rows
    BY <1>1, <1>5, StateFields
  <2>3. /\ q \in States /\ q.at = given.at /\ q.todo = given.todo
        /\ q.own = own /\ q.board = given.board /\ q.shown = given.shown
    <3> HIDE DEF given, own
    <3> QED BY <1>4, <2>2 DEF States
  <2> HIDE DEF q, given
  <2>4. Gives(r, q)
    BY <1>4, <2>3 DEF Gives
  <2>5. Fits(q)
    <3> HIDE DEF row
    <3> QED BY <1>1, <1>4, <1>5, <2>3, <2>4, InsertFits
  <2>6. /\ req' \in [Requests -> States] /\ \A s \in Requests : Fits(req'[s])
        /\ req'[r].own = own /\ \A s \in Requests \ {r} : req'[s] = req[s]
    BY <2>1, <2>3, <2>5 DEF CacheInv
  <2>7. cache' = cache /\ row \notin cache
    BY <1>3, <1>5, <1>8 DEF OnlyReq
  <2>8. \A s \in Requests \ {r} : row \notin req[s].own
    BY <1>1, <1>3, <1>5 DEF WaitsFor, CacheKey
  <2> HIDE DEF row
  <2>9. Apart'
    BY <2>6, <2>7, <2>8 DEF CacheInv, Apart
  <2> QED BY <1>6, <2>6, <2>7, <2>9 DEF CacheInv
<1> QED BY <1>7, <1>8

LEMMA CommitKeeps == ASSUME CacheInv, NEW r \in Requests, Commit(r) PROVE CacheInv'
<1>1. /\ req' = [req EXCEPT ![r] = Idle] /\ cache' = cache \cup req[r].own
      /\ UNCHANGED <<data, model, brief, begun, changes, failures>>
  BY DEF Commit
<1>2. Settings'
  BY <1>1 DEF CacheInv, Settings
<1>3. /\ req' \in [Requests -> States] /\ \A s \in Requests : Fits(req'[s])
      /\ req'[r].own = {} /\ \A s \in Requests \ {r} : req'[s] = req[s]
  BY <1>1, IdleFits DEF CacheInv, Fits, Idle
<1>4. Apart'
  BY <1>1, <1>3 DEF CacheInv, Apart
<1>5. req[r].own \subseteq Rows /\ \A row \in req[r].own : row.text = row.key
  BY StateFields DEF CacheInv, Fits
<1> QED BY <1>1, <1>2, <1>3, <1>4, <1>5 DEF CacheInv

LEMMA ChangesKeep ==
    ASSUME CacheInv, DataChanges \/ SaveAi \/ SaveInstructions \/ PruneStale
    PROVE  CacheInv'
<1>1. req' = req /\ cache' \subseteq cache
  BY DEF DataChanges, SaveAi, SaveInstructions, PruneStale
<1>2. changes' = changes + 1 /\ changes < MaxChanges /\ UNCHANGED <<begun, failures>>
  BY DEF DataChanges, SaveAi, SaveInstructions, PruneStale, Changing
<1>3. MaxChanges \in Nat
  BY InsightCacheAssumption
<1>4. data' \in {data, data + 1}
  BY DEF DataChanges, SaveAi, SaveInstructions, PruneStale
<1>5. changes' \in 0..MaxChanges /\ data' \in 0..MaxChanges /\ data' <= changes'
  <2>1. /\ data \in 0..MaxChanges /\ data <= changes /\ changes \in 0..MaxChanges
    BY DEF CacheInv, Settings
  <2> QED BY <1>2, <1>3, <1>4, <2>1
<1>6. model' \in Models \cup {Off}
  BY DEF DataChanges, SaveAi, SaveInstructions, PruneStale, CacheInv, Settings
<1>7. brief' \in [Areas -> Briefs]
  BY DEF DataChanges, SaveAi, SaveInstructions, PruneStale, CacheInv, Settings
<1>8. Settings'
  BY <1>2, <1>5, <1>6, <1>7 DEF CacheInv, Settings
<1> QED BY <1>1, <1>8, NobodyMoves

LEMMA CacheInductive == CacheInv /\ [Next]_vars => CacheInv'
<1> SUFFICES ASSUME CacheInv, [Next]_vars PROVE CacheInv'
  OBVIOUS
<1>1. ASSUME NEW r \in Requests, Asks1(r), cache' = cache, Settings' PROVE CacheInv'
  BY <1>1, NothingAdded DEF Asks1
<1>2. ASSUME NEW r \in Requests,
             \/ Compose(r) \/ ReadConfig(r) \/ LookUp(r) \/ Answers(r) \/ FailsForNow(r)
             \/ Refuses(r) \/ DeadlockBroken(r)
      PROVE  CacheInv'
  <2>1. Asks1(r) /\ OnlyReq
    BY <1>2, ComposeAsks, ReadAsks, CallAsks, BeginsOrEnds DEF DeadlockBroken
  <2>2. Settings' /\ cache' = cache
    BY <2>1 DEF OnlyReq, CacheInv, Settings
  <2> QED BY <1>1, <2>1, <2>2
<1>3. ASSUME NEW r \in Requests, Fails(r) \/ \E plan \in Plans : Begin(r, plan)
      PROVE  CacheInv'
  <2>1. Asks1(r) /\ cache' = cache
    BY <1>3, BeginsOrEnds DEF Fails, Begin
  <2>2. /\ UNCHANGED <<data, model, brief, changes>>
        /\ \/ failures < MaxFailures /\ failures' = failures + 1 /\ begun' = begun
           \/ begun < MaxBegun /\ begun' = begun + 1 /\ failures' = failures
    BY <1>3 DEF Fails, Begin
  <2>3. begun' \in 0..MaxBegun /\ failures' \in 0..MaxFailures
    <3>1. /\ MaxBegun \in Nat /\ MaxFailures \in Nat
          /\ begun \in 0..MaxBegun /\ failures \in 0..MaxFailures
      BY InsightCacheAssumption DEF CacheInv, Settings
    <3> QED BY <2>2, <3>1
  <2>4. Settings'
    BY <2>2, <2>3 DEF CacheInv, Settings
  <2> QED BY <1>1, <2>1, <2>4
<1>4. CASE UNCHANGED vars
  <2>1. Settings'
    BY <1>4 DEF vars, CacheInv, Settings
  <2> QED BY <1>4, <2>1, NobodyMoves DEF vars
<1> QED BY <1>2, <1>3, <1>4, InsertKeeps, CommitKeeps, ChangesKeep DEF Next, Step

----------------------------------------------------------------------------
(* What follows from it.                                                   *)

LEMMA TypesFollow == CacheInv => TypeOK
<1> SUFFICES ASSUME CacheInv PROVE TypeOK
  OBVIOUS
<1>1. \A row \in cache \cup Inserted : row \in Rows /\ row.text = row.key
  BY StateFields DEF CacheInv, Fits, Inserted
<1>2. \A x, y \in cache \cup Inserted : x.key = y.key => x = y
  <2> SUFFICES ASSUME NEW x \in cache \cup Inserted, NEW y \in cache \cup Inserted,
                      x.key = y.key
               PROVE  x = y
    OBVIOUS
  <2>1. x = [key |-> x.key, text |-> x.text] /\ y = [key |-> y.key, text |-> y.text]
    BY <1>1, StateFields
  <2>2. x.text = y.text
    BY <1>1
  <2> QED BY <2>1, <2>2
<1>3. cache \cap Inserted = {}
  BY DEF CacheInv, Apart, Inserted
<1>4. \A r \in Requests : req[r].at \in {"idle", "commit"} <=> req[r].todo = {}
  BY DEF CacheInv, Fits
<1> QED BY <1>2, <1>3, <1>4 DEF CacheInv, Settings, Apart, TypeOK

LEMMA ServedFollows == CacheInv => ServedMatches
BY DEF CacheInv, Fits, ServedMatches

\* Somebody who waits is asked to give what its owner has given before what
\* it waits with itself: of the requests over one leaderboard, the one that
\* has come furthest waits for nobody.
LEMMA OrderFollows == CacheInv => OnlyOrdersClash
<1> SUFFICES ASSUME CacheInv, NEW group \in SUBSET Requests, Deadlocked(group),
                    \A r, s \in group : req[r].board = req[s].board
             PROVE  FALSE
  BY DEF OnlyOrdersClash
<1> DEFINE turn(r) == Turn(r).turn
           T == {turn(r) : r \in group}
<1>1. group # {} /\ \A r \in group : \E s \in group : WaitsFor(r, s)
  BY DEF Deadlocked
<1>2. ASSUME NEW r \in group
      PROVE  \E plan \in Plans : /\ Orderly(req[r], plan) /\ Turn(r) \in plan.todo
                                 /\ Turn(r) \in req[r].todo
                                 /\ turn(r) \in 0..(Len(req[r].board) + 1)
  <2>1. Fits(req[r]) /\ req[r].at = "insert"
    BY <1>1 DEF CacheInv, WaitsFor
  <2>2. PICK plan \in Plans : Orderly(req[r], plan)
    BY <2>1 DEF Fits
  <2>3. Turn(r) = First(req[r].todo)
    BY DEF Turn, First
  <2>4. Turn(r) \in req[r].todo
    BY <2>1, <2>2, <2>3, FirstIsLeast DEF Fits, Orderly
  <2>5. Turn(r) \in plan.todo /\ plan.board = req[r].board
    BY <2>2, <2>4 DEF Orderly
  <2>6. turn(r) \in 0..(Len(req[r].board) + 1)
    BY <2>5, PlanShapes
  <2> QED BY <2>2, <2>4, <2>5, <2>6
<1>3. ASSUME NEW r \in group, NEW s \in group, WaitsFor(r, s) PROVE turn(r) < turn(s)
  <2>1. PICK row \in req[s].own : row.key = req[r].asked
    BY <1>3 DEF WaitsFor, CacheKey
  <2>2. PICK p \in Plans : Orderly(req[r], p) /\ Turn(r) \in p.todo
    BY <1>2
  <2>3. PICK q \in Plans : Orderly(req[s], q) /\ Turn(s) \in req[s].todo
    BY <1>2
  <2>4. PICK e \in q.todo : /\ row.key.view = e.view /\ row.key.about = e.about
                            /\ \A f \in req[s].todo : e.turn < f.turn
    BY <2>1, <2>3 DEF Orderly
  <2>5. req[r].asked.view = Turn(r).view /\ req[r].asked.about = Turn(r).about
    <3>1. Fits(req[r]) /\ req[r].at \in Asking /\ req[r].at \notin {"idle", "commit"}
      BY <1>3 DEF CacheInv, WaitsFor, Asking
    <3> QED BY <3>1, TurnFits
  <2>6. p.board = q.board
    BY <2>2, <2>3 DEF Orderly
  <2>7. e.turn = turn(r)
    BY <2>1, <2>2, <2>4, <2>5, <2>6, SameTurn
  <2> QED BY <2>3, <2>4, <2>7
<1>4. PICK r0 \in group : TRUE
  BY <1>1
<1>5. Len(req[r0].board) + 1 \in Nat
  <2>1. req[r0].board \in Seq(Subjects)
    BY StateFields DEF CacheInv
  <2> QED BY <2>1
<1>6. T \subseteq 0..(Len(req[r0].board) + 1) /\ T # {}
  <2>1. \A r \in group : turn(r) \in 0..(Len(req[r0].board) + 1)
    BY <1>2
  <2> QED BY <1>4, <2>1
<1>7. PICK k \in T : \A j \in T : j <= k
  <2> HIDE DEF T
  <2> QED BY <1>5, <1>6, Greatest
<1>8. PICK r \in group : turn(r) = k
  OBVIOUS
<1>9. PICK s \in group : WaitsFor(r, s)
  BY <1>1
<1>10. turn(r) < turn(s) /\ turn(s) <= k
  BY <1>3, <1>7, <1>9
<1>11. turn(r) \in Int /\ turn(s) \in Int
  BY <1>5, <1>6
<1> HIDE DEF turn, T
<1> QED BY <1>8, <1>10, <1>11

(* Whatever is invalidated, pruned, refused or rolled back: the cache holds *)
(* one text for a key, every AI text is shown for what it was written       *)
(* about, and requests block each other only over different leaderboards.   *)
THEOREM CacheStaysSound == Spec => []CacheSound
<1>1. CacheInv => CacheSound
  BY TypesFollow, ServedFollows, OrderFollows DEF CacheSound
<1> QED BY <1>1, InitHolds, CacheInductive, PTL DEF Spec
=============================================================================
