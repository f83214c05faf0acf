---------------------------- MODULE InsightCache ----------------------------
(***************************************************************************)
(* The texts of insights (ai/insights.py): a page asks for one, a report   *)
(* for one for each section and one for its introduction, all in the       *)
(* report's transaction.  A text comes from the cache, from the model      *)
(* behind the AI endpoint, which may fail, be slow and be asked twice, or, *)
(* without AI, from the statements of the fallback.  Meanwhile an admin    *)
(* changes the endpoint and the instructions, syncs change the data and    *)
(* maintenance prunes the cache.                                           *)
(*                                                                         *)
(* A context is the version of the data it is computed from; a cache key,  *)
(* a hash in the code, is the record of what is hashed, and a text is the  *)
(* record of what its prompt told the model.  A row that a transaction has *)
(* inserted is seen by nobody else until it commits, but holds up whoever  *)
(* inserts the same key meanwhile.                                         *)
(***************************************************************************)
EXTENDS Naturals, Sequences, FiniteSets

CONSTANTS
    Pages,           \* areas whose view is a page
    Subjects,        \* persons and repositories a report has sections about
    Reports,         \* what a report may be asked for: the leaderboard its
                     \* repositories give, and its subjects, {} for all
    Models, Briefs,  \* names of models, texts of instructions, "" for none
    Off,             \* no endpoint is configured
    Requests,        \* pages and reports under way at the same time
    AiSectionCap,    \* sections of a report the model writes
    MaxBegun, MaxChanges, MaxFailures

ASSUME InsightCacheAssumption ==
    /\ AiSectionCap \in Nat /\ Off \notin Models /\ "" \in Briefs /\ "report" \notin Pages
    /\ MaxBegun \in Nat /\ MaxChanges \in Nat /\ MaxFailures \in Nat
\* A leaderboard has everybody once.
ASSUME ReportsAssumption ==
    /\ Reports \subseteq [board : Seq(Subjects), wanted : SUBSET Subjects]
    /\ \A report \in Reports : \A i, j \in DOMAIN report.board :
          report.board[i] = report.board[j] => i = j

VARIABLES
    data,        \* version of the data
    model,       \* AI_KEY: the model configured, or Off
    brief,       \* AI_INSTRUCTIONS_KEY: instructions by area
    cache,       \* the committed rows of Insight
    req,         \* where each request is
    begun, changes, failures

vars == <<data, model, brief, cache, req, begun, changes, failures>>

Areas == Pages \cup {"report"}

----------------------------------------------------------------------------
(* What a request goes through: views, what their context tells of,        *)
(* whether the model is to write, and the turn they have.                  *)

\* The sections of a people or repository report: its subjects in the order
\* of its leaderboard, with those asked for who are not on it behind the
\* rest.  The first AiSectionCap of them get the model's text.  A section's
\* context is the subject's, whatever the report's filters.
Chosen(report) ==
    {k \in DOMAIN report.board : report.wanted = {} \/ report.board[k] \in report.wanted}
Sections(report) ==
    {[turn |-> k, view |-> <<"report", report.board[k]>>, about |-> {},
      ai |-> Cardinality({j \in Chosen(report) : j <= k}) <= AiSectionCap] :
        k \in Chosen(report)}

\* The introduction comes last and tells of the selection.
Introduction(report) == [turn |-> Len(report.board) + 1, view |-> <<"report", "intro">>,
                         about |-> {report}, ai |-> TRUE]
Insights(report) == Sections(report) \cup {Introduction(report)}
Page(area) == {[turn |-> 1, view |-> <<area, "page">>, about |-> {}, ai |-> TRUE]}
Plans == {[todo |-> Page(a), board |-> <<>>] : a \in Pages} \cup
         {[todo |-> Insights(report), board |-> report.board] : report \in Reports}

\* A request: the insights it has yet to give, what the text of the one whose
\* turn it is is asked for, the rows inserted in its transaction, the insight
\* given before the next is composed, and, of a report, its leaderboard.
NotAsked == [view |-> <<>>, about |-> {}, data |-> 0, brief |-> "", model |-> Off]
Idle == [at |-> "idle", todo |-> {}, asked |-> NotAsked, attempt |-> 0, own |-> {},
         shown |-> {}, board |-> <<>>]
Turn(r) == CHOOSE insight \in req[r].todo :
              \A other \in req[r].todo : insight.turn <= other.turn

Inserted == UNION {req[r].own : r \in Requests}

Views == (Pages \X {"page"}) \cup ({"report"} \X (Subjects \cup {"intro"}))
Entries == [turn : Nat, view : Views, about : SUBSET Reports, ai : BOOLEAN]
Asks == [view : Views \cup {<<>>}, about : SUBSET Reports, data : 0..MaxChanges,
         brief : Briefs, model : Models \cup {Off}]
Rows == [key : Asks, text : Asks]
States == [at : {"idle", "context", "config", "lookup", "call", "insert", "commit"},
           todo : SUBSET Entries, asked : Asks, attempt : 0..2, own : SUBSET Rows,
           shown : SUBSET [asked : Asks, text : Asks], board : Seq(Subjects)]

TypeOK ==
    /\ data \in 0..MaxChanges /\ model \in Models \cup {Off} /\ brief \in [Areas -> Briefs]
    /\ begun \in 0..MaxBegun /\ changes \in 0..MaxChanges /\ failures \in 0..MaxFailures
    /\ cache \subseteq Rows /\ req \in [Requests -> States]
    /\ \A r \in Requests : req[r].at \in {"idle", "commit"} <=> req[r].todo = {}
    \* The unique key, over what is committed and what may yet be.
    /\ \A x, y \in cache \cup Inserted : x.key = y.key => x = y
    /\ \A r, s \in Requests : r # s => req[r].own \cap req[s].own = {}
    /\ cache \cap Inserted = {}

Init ==
    /\ data = 0 /\ model \in Models \cup {Off} /\ brief = [area \in Areas |-> ""]
    /\ cache = {} /\ req = [r \in Requests |-> Idle]
    /\ begun = 0 /\ changes = 0 /\ failures = 0

OnlyReq == UNCHANGED <<data, model, brief, cache, begun, changes, failures>>

----------------------------------------------------------------------------
(* One insight after the other: insight_for.                               *)

\* The request goes to a step, and learns what its text is asked for.
Go(r, at, asked) ==
    /\ req' = [req EXCEPT ![r].at = at, ![r].asked = asked]
    /\ OnlyReq

\* An insight is given: the text with its chip, or none where the fallback
\* states what the context says.  The next one's turn comes.
Given(r, asked, texts) ==
    [req[r] EXCEPT !.shown = {[asked |-> asked, text |-> t] : t \in texts},
                   !.asked = NotAsked, !.attempt = 0,
                   !.todo = @ \ {Turn(r)},
                   !.at = IF req[r].todo = {Turn(r)} THEN "commit" ELSE "context"]
Fallback(r) == req' = [req EXCEPT ![r] = Given(r, req[r].asked, {})] /\ OnlyReq

Begin(r, plan) ==
    /\ req[r].at = "idle"
    /\ begun < MaxBegun /\ begun' = begun + 1
    /\ req' = [req EXCEPT ![r] = [Idle EXCEPT !.at = "context", !.todo = plan.todo,
                                              !.board = plan.board]]
    /\ UNCHANGED <<data, model, brief, cache, changes, failures>>

\* The queries of the context.
Compose(r) ==
    /\ req[r].at = "context"
    /\ LET section == Turn(r)
           asked == [NotAsked EXCEPT !.view = section.view,
                                     !.about = section.about, !.data = data]
       IN req' = [req EXCEPT ![r] =
                    IF section.ai THEN [@ EXCEPT !.at = "config", !.asked = asked, !.shown = {}]
                    ELSE Given(r, asked, {})]
    /\ OnlyReq

ReadConfig(r) ==
    /\ req[r].at = "config"
    /\ IF model = Off THEN Fallback(r)
       ELSE Go(r, "lookup", [req[r].asked EXCEPT !.model = model])

KeyWithoutBrief(asked) == [asked EXCEPT !.brief = ""] \* mutant: left to invalidation

\* What cache_key hashes.
CacheKey(asked) == asked

\* The instructions of the area are read, and the rows it can see.
LookUp(r) ==
    /\ req[r].at = "lookup"
    /\ LET asked == [req[r].asked EXCEPT !.brief = brief[req[r].asked.view[1]]]
           hits == {row \in cache \cup req[r].own : row.key = CacheKey(asked)}
       IN IF hits = {} THEN Go(r, "call", asked)
          ELSE /\ req' = [req EXCEPT ![r] = Given(r, asked, {row.text : row \in hits})]
               /\ OnlyReq

\* The endpoint answers with a text, fails in a way worth a second attempt
\* (a time-out, a 5xx), or in another (an error, nothing but reasoning).
Answers(r) ==
    /\ req[r].at = "call"
    /\ Go(r, "insert", req[r].asked)
FailsForNowAgain(r) == \* mutant: the attempts are not counted
    /\ req[r].at = "call"
    /\ req' = [req EXCEPT ![r].attempt = 1 - @] /\ OnlyReq
FailsForNow(r) ==
    /\ req[r].at = "call"
    /\ IF req[r].attempt = 0
       THEN req' = [req EXCEPT ![r].attempt = 1] /\ OnlyReq
       ELSE Fallback(r)
Refuses(r) ==
    /\ req[r].at = "call"
    /\ Fallback(r)

WaitsFor(r, s) ==
    /\ r # s /\ req[r].at = "insert"
    /\ \E row \in req[s].own : row.key = CacheKey(req[r].asked)

\* The savepoint: where the key is in another's transaction, the insert
\* waits for its end; where it is committed, the row there stays and the
\* text is given all the same.
Insert(r) ==
    LET asked == req[r].asked
        key == CacheKey(asked)
    IN /\ req[r].at = "insert"
       /\ \A s \in Requests : ~WaitsFor(r, s)
       /\ req' = [req EXCEPT ![r] = [Given(r, asked, {asked}) EXCEPT
            !.own = IF \E row \in cache : row.key = key THEN @
                    ELSE @ \cup {[key |-> key, text |-> asked]}]]
       /\ OnlyReq

\* Requests that wait for each other: PostgreSQL aborts one of them.  That is
\* not the IntegrityError insight_for expects, so its report fails.
Deadlocked(group) == /\ group # {}
                     /\ \A r \in group : \E s \in group : WaitsFor(r, s)
DeadlockBroken(r) ==
    /\ \E group \in SUBSET Requests : r \in group /\ Deadlocked(group)
    /\ req' = [req EXCEPT ![r] = Idle]
    /\ OnlyReq

\* The page is committed, or the report with its PDF.
Commit(r) ==
    /\ req[r].at = "commit"
    /\ cache' = cache \cup req[r].own
    /\ req' = [req EXCEPT ![r] = Idle]
    /\ UNCHANGED <<data, model, brief, begun, changes, failures>>

\* A query or the rendering of the PDF fails, or the process dies: the
\* transaction is rolled back.
Fails(r) ==
    /\ req[r].at # "idle"
    /\ failures < MaxFailures /\ failures' = failures + 1
    /\ req' = [req EXCEPT ![r] = Idle]
    /\ UNCHANGED <<data, model, brief, cache, begun, changes>>

----------------------------------------------------------------------------
(* What changes meanwhile.                                                 *)

Changing == changes < MaxChanges /\ changes' = changes + 1

\* A sync, a merge or a filter edit.
DataChanges ==
    /\ Changing
    /\ data' = data + 1
    /\ UNCHANGED <<model, brief, cache, req, begun, failures>>

\* The endpoint is configured, for another model, or disabled.
SaveAi ==
    /\ Changing
    /\ \E m \in (Models \cup {Off}) \ {model} : model' = m
    /\ UNCHANGED <<data, brief, cache, req, begun, failures>>

\* Saved instructions discard the rows of the areas they change; those of
\* transactions under way are not seen.
SaveInstructions ==
    /\ Changing
    /\ \E saved \in [Areas -> Briefs] \ {brief} :
          /\ brief' = saved
          /\ cache' = {row \in cache : LET area == row.key.view[1]
                                       IN saved[area] = brief[area]}
    /\ UNCHANGED <<data, model, req, begun, failures>>

\* Maintenance removes what is older than thirty days, whichever that is.
PruneStale ==
    /\ Changing
    /\ \E stale \in SUBSET cache : cache' = cache \ stale
    /\ UNCHANGED <<data, model, brief, req, begun, failures>>

Step(r) ==
    \/ Compose(r) \/ ReadConfig(r) \/ LookUp(r)
    \/ Answers(r) \/ FailsForNow(r) \/ Refuses(r)
    \/ Insert(r) \/ DeadlockBroken(r) \/ Commit(r)

Next ==
    \/ \E r \in Requests : Step(r) \/ Fails(r) \/ \E plan \in Plans : Begin(r, plan)
    \/ DataChanges \/ SaveAi \/ SaveInstructions \/ PruneStale

\* Queries end, the client gives an attempt 90 seconds, and PostgreSQL lets
\* an insert that waits go on when the other transaction has ended, or ends
\* one of those that wait for each other.
Spec == Init /\ [][Next]_vars /\ \A r \in Requests : WF_vars(Step(r))

----------------------------------------------------------------------------
(* Properties.                                                             *)

(* An AI text is about the view, the data and the selection it is shown    *)
(* for, and was asked for with the instructions and of the model the       *)
(* request has read: whatever was invalidated, pruned, or inserted by a    *)
(* request under way since before a change (cache_key; insights.py:129).   *)
ServedMatches ==
    \A r \in Requests : \A insight \in req[r].shown : insight.text = insight.asked

(* Requests block each other only where reports take their subjects from   *)
(* different leaderboards: two reports over equal ones insert the keys they *)
(* share in the same order (stats.py:282), whoever was selected.           *)
OnlyOrdersClash ==
    \A group \in SUBSET Requests : Deadlocked(group) =>
        \E r, s \in group : req[r].board # req[s].board

(* The cache holds one text for a key, every text is shown for what it was *)
(* written about, and reports that would insert in one order never block.  *)
CacheSound == TypeOK /\ ServedMatches /\ OnlyOrdersClash

(* docs/configuration.md:169, "Every insight area always renders": with    *)
(* the endpoint down or slow, and with others inserting the same keys, a   *)
(* page or report always comes to its end.  A report may come to a bad one *)
(* by DeadlockBroken.                                                      *)
AlwaysRenders == \A r \in Requests : req[r].at # "idle" ~> req[r].at = "idle"
=============================================================================
