------------------------------ MODULE Statistics ------------------------------
(***************************************************************************)
(* The query layer over the daily rollups (services/stats.py) and what is  *)
(* computed from it: ramp-up cohorts, drill-downs, insight contexts, the   *)
(* performance charts, and the persons the pickers offer.  Everything here *)
(* is a function of a database "d", of a period and of the query's         *)
(* arguments; the module Research has the database change.                 *)
(*                                                                         *)
(* A database is a record of                                               *)
(*   facts     the base tables: commits, pull requests, reviews            *)
(*   owner     the person of each identity                                 *)
(*   rows      person_repo_day_stats                                       *)
(*   included  the repositories with Repo.included                         *)
(*   mode, listed, membersOnly, members   the person filters of each org   *)
(*                                                                         *)
(* Days are integers and a week has DaysPerWeek of them, day 0 being the   *)
(* first of a week.  Of the metrics, deletions travel with additions, and  *)
(* the two kinds of churn with churn.  A score is a natural number, the    *)
(* shares and percentages computed from it are kept as numerator and       *)
(* denominator.                                                            *)
(***************************************************************************)
EXTENDS Integers, FiniteSets, FiniteSetsExt

CONSTANTS
    Identities,     \* identities, which are also the ids of persons
    Repos, Orgs,
    OrgOf,          \* the org of a repository
    DaysPerWeek,
    GraceDays,      \* rampup.GRACE_DAYS
    Never           \* the merge day of a pull request that is not merged

ASSUME StatisticsAssumption ==
    /\ IsFiniteSet(Identities) /\ IsFiniteSet(Repos)
    /\ OrgOf \in [Repos -> Orgs]
    /\ DaysPerWeek \in Nat \ {0} /\ GraceDays \in Nat /\ Never \notin Int

Persons == Identities

Metrics == {"commits", "additions", "churn", "significance",
            "prs_opened", "prs_merged", "reviews"}
Zero == [m \in Metrics |-> 0]

\* The sum of the values of a function.
SumOver(f) == MapThenSumSet(LAMBDA x : f[x], DOMAIN f)

----------------------------------------------------------------------------
(* Rollups: metrics/rollup.py.                                             *)

\* What a fact adds: on which day, to which metric, how much.
Deltas(f) ==
    CASE f.kind = "commit" ->
            {<<f.day, "commits", 1>>, <<f.day, "additions", f.size>>,
             <<f.day, "churn", f.churned>>, <<f.day, "significance", f.size>>}
      [] f.kind = "pull" ->
            {<<f.day, "prs_opened", 1>>} \cup
            (IF f.merged = Never THEN {} ELSE {<<f.merged, "prs_merged", 1>>})
      [] f.kind = "review" -> {<<f.day, "reviews", 1>>}

\* The deltas of a set of facts, and the row that one of them belongs to.
Entries(facts) == UNION {{f} \X Deltas(f) : f \in facts}
RowKey(owner, e) == [person |-> owner[e[1].by], repo |-> e[1].repo, day |-> e[2][1]]

\* merge_deltas: one row for each person, repository and day.
Row(facts, owner, k) ==
    [person |-> k.person, repo |-> k.repo, day |-> k.day,
     n |-> [m \in Metrics |->
              SumOver([e \in {e \in Entries(facts) : RowKey(owner, e) = k /\ e[2][2] = m} |->
                         e[2][3]])]]
MergeDeltas(facts, owner) == {Row(facts, owner, RowKey(owner, e)) : e \in Entries(facts)}

SameKey(x, y) == x.person = y.person /\ x.repo = y.repo /\ x.day = y.day

\* The upsert of apply_deltas, which adds to a row that is there.
Already(rows, y, m) == SumOver([x \in {x \in rows : SameKey(x, y)} |-> x.n[m]])
ApplyDeltas(rows, new) ==
    {x \in rows : \A y \in new : ~SameKey(x, y)} \cup
    {[y EXCEPT !.n = [m \in Metrics |-> y.n[m] + Already(rows, y, m)]] : y \in new}

\* recompute_for_persons: the rows of these persons, from the base tables.
RecomputeForPersons(d, persons) ==
    {x \in d.rows : x.person \notin persons} \cup
    MergeDeltas({f \in d.facts : d.owner[f.by] \in persons}, d.owner)

----------------------------------------------------------------------------
(* Who and what is counted.                                                *)

\* The persons linked to a member of the org.
MemberPersons(d, org) == {d.owner[i] : i \in d.members[org]}

\* _person_allowed, over the filters of _person_filter_map.
PersonAllowed(d, org, p) ==
    /\ org \in d.membersOnly => p \in MemberPersons(d, org)
    /\ d.mode[org] = "whitelist" => p \in d.listed[org]
    /\ d.mode[org] = "blacklist" => p \notin d.listed[org]

\* The arguments of a query; no orgs, repositories or persons named means
\* all of them.
Query(s, persons, repos) ==
    [orgs |-> s.orgs, start |-> s.start, end |-> s.end,
     persons |-> persons, repos |-> repos]
InScope(orgs, repo) == orgs = {} \/ OrgOf[repo] \in orgs

\* The WHERE clause every query of the module repeats.
BaseRollup(d, q) ==
    {x \in d.rows :
        /\ x.repo \in d.included
        /\ q.start <= x.day /\ x.day < q.end
        /\ InScope(q.orgs, x.repo)
        /\ q.repos # {} => x.repo \in q.repos
        /\ q.persons # {} => x.person \in q.persons}
Counted(d, q) == {x \in BaseRollup(d, q) : PersonAllowed(d, OrgOf[x.repo], x.person)}

SumOf(rows) == [m \in Metrics |-> SumOver([x \in rows |-> x.n[m]])]

----------------------------------------------------------------------------
(* The aggregates of services/stats.py.                                    *)

PersonLeaderboard(d, q) ==
    LET counted == Counted(d, q)
    IN [p \in {x.person : x \in counted} |->
          SumOf({x \in counted : x.person = p})]

RepoLeaderboard(d, q) ==
    LET counted == Counted(d, q)
        Of(r) == {x \in counted : x.repo = r}
    IN [r \in {x.repo : x \in counted} |->
          [n |-> SumOf(Of(r)), contributors |-> Cardinality({x.person : x \in Of(r)})]]

BoardSum(board, m) == SumOver([e \in DOMAIN board |-> board[e][m]])
RepoSum(board, m) == SumOver([r \in DOMAIN board |-> board[r].n[m]])

\* The repositories are counted by a query of their own, which applies
\* neither the person filters nor the persons asked for.
Totals(d, q) ==
    LET people == PersonLeaderboard(d, q)
    IN [n |-> [m \in Metrics |-> BoardSum(people, m)],
        activePeople |-> Cardinality(DOMAIN people),
        activeRepos |-> Cardinality({x.repo : x \in BaseRollup(d, [q EXCEPT !.persons = {}])})]

Timeseries(d, q) ==
    LET counted == Counted(d, q)
    IN [day \in {x.day : x \in counted} |-> SumOf({x \in counted : x.day = day})]

WeekOf(day) == day - (day % DaysPerWeek)

WeeklyByEntity(d, q, by) ==
    LET counted == Counted(d, q)
        Entity(x) == IF by = "person" THEN x.person ELSE x.repo
        Of(e) == {x \in counted : Entity(x) = e}
    IN [e \in {Entity(x) : x \in counted} |->
          [w \in {WeekOf(x.day) : x \in Of(e)} |->
             SumOf({x \in Of(e) : WeekOf(x.day) = w})]]

\* add_percentiles: how many of the population are below.
Below(board, p, m) == Cardinality({o \in DOMAIN board : board[o][m] < board[p][m]})

\* First and last day of activity over the whole history.
ActivitySpans(d, orgs) ==
    LET counted == {x \in d.rows : /\ x.repo \in d.included
                                   /\ InScope(orgs, x.repo)
                                   /\ PersonAllowed(d, OrgOf[x.repo], x.person)}
        Days(p) == {x.day : x \in {y \in counted : y.person = p}}
    IN [p \in {x.person : x \in counted} |->
          [first |-> Min(Days(p)), last |-> Max(Days(p))]]

FirstMergedPrs(d, orgs) ==
    LET merged == {f \in d.facts : /\ f.kind = "pull" /\ f.merged # Never
                                   /\ f.repo \in d.included
                                   /\ InScope(orgs, f.repo)
                                   /\ PersonAllowed(d, OrgOf[f.repo], d.owner[f.by])}
    IN [p \in {d.owner[f.by] : f \in merged} |->
          Min({f.merged : f \in {g \in merged : d.owner[g.by] = p}})]

----------------------------------------------------------------------------
(* Ramp-up: services/rampup.py.                                            *)

WeeksBetween(first, later) ==
    IF later <= first THEN 0 ELSE (later - first) \div DaysPerWeek

\* The first week that reaches the median of the weeks with output.
WeeksToSteady(first, weeks) ==
    LET active == {w \in DOMAIN weeks : weeks[w]["significance"] > 0}
        Reached(v) == Cardinality({w \in active : weeks[w]["significance"] <= v})
        n == Cardinality(active)
        \* The values in the middle, of which the median is the mean.
        Middle(k) == Min({weeks[w]["significance"] : w \in
                            {u \in active : Reached(weeks[u]["significance"]) >= k}})
        twiceMedian == Middle((n + 1) \div 2) + Middle((n + 2) \div 2)
        steady == {w \in active : 2 * weeks[w]["significance"] >= twiceMedian}
    IN IF n < 2 THEN {} ELSE {WeeksBetween(first, Min(steady))}

Joiners(spans, start, end) ==
    {p \in DOMAIN spans : start <= spans[p].first /\ spans[p].first < end}
Leavers(spans, start, end) ==
    {p \in DOMAIN spans : /\ start <= spans[p].last
                          /\ spans[p].last < end - GraceDays}
        \ Joiners(spans, start, end)

Cohort(d, orgs, start, end) ==
    LET spans == ActivitySpans(d, orgs)
        prs == FirstMergedPrs(d, orgs)
        tracked == Joiners(spans, start, end) \cup Leavers(spans, start, end)
        weekly == IF tracked = {} THEN <<>>
                  ELSE WeeklyByEntity(d, [orgs |-> orgs, repos |-> {}, persons |-> tracked,
                                          start |-> Min({spans[p].first : p \in tracked}),
                                          end |-> end], "person")
        Entry(p) == [firstPr |-> IF p \in DOMAIN prs
                                 THEN {WeeksBetween(spans[p].first, prs[p])} ELSE {},
                     steady |-> IF p \in DOMAIN weekly
                                THEN WeeksToSteady(spans[p].first, weekly[p]) ELSE {}]
    IN [joiners |-> [p \in Joiners(spans, start, end) |-> Entry(p)],
        leavers |-> [p \in Leavers(spans, start, end) |-> Entry(p)],
        measured |-> Cardinality(DOMAIN spans \cap DOMAIN prs)]

----------------------------------------------------------------------------
(* Drill-down: services/drilldown.py.                                      *)

Behind(d, kind, p, r, s) ==
    {f \in d.facts : /\ f.kind = kind /\ f.repo = r /\ d.owner[f.by] = p
                     /\ s.start <= f.day /\ f.day < s.end}
CommitRows(d, p, r, s) == Behind(d, "commit", p, r, s)
PrRows(d, p, r, s) == Behind(d, "pull", p, r, s)

----------------------------------------------------------------------------
(* Contexts of insights: services/insight_context.py.                      *)

\* [start, end) and what previous_range takes for the window before it.
PreviousRange(s) ==
    LET prevEnd == s.start - 1
    IN [s EXCEPT !.start = prevEnd - (s.end - s.start), !.end = prevEnd]

Turnover(current, previous) ==
    [arrived |-> DOMAIN current \ DOMAIN previous,
     departed |-> DOMAIN previous \ DOMAIN current]

\* The series by ISO week.
WeeklyTrend(series) ==
    [w \in {WeekOf(day) : day \in DOMAIN series} |->
       [m \in {"commits", "significance"} |->
          SumOver([day \in {day \in DOMAIN series : WeekOf(day) = w} |-> series[day][m]])]]

\* A percent change, as its numerator and base; none without a base.
PctChange(current, previous) ==
    IF previous = 0 THEN {} ELSE {<<current - previous, previous>>}

DashboardContext(d, s) ==
    LET q == Query(s, {}, {})
        before == Query(PreviousRange(s), {}, {})
    IN [totals |-> Totals(d, q),
        trend |-> WeeklyTrend(Timeseries(d, q)),
        people |-> PersonLeaderboard(d, q),
        repos |-> RepoLeaderboard(d, q),
        deltas |-> [m \in {"commits", "significance", "prs_merged", "reviews"} |->
                      PctChange(Totals(d, q).n[m], Totals(d, before).n[m])],
        turnover |-> Turnover(PersonLeaderboard(d, q), PersonLeaderboard(d, before))]

\* The ranks a person may have; equals are ordered as they happen to come.
RankBySignificance(board, p) ==
    LET above == {o \in DOMAIN board : board[o]["significance"] > board[p]["significance"]}
        notBelow == {o \in DOMAIN board : board[o]["significance"] >= board[p]["significance"]}
    IN (Cardinality(above) + 1)..Cardinality(notBelow)

PersonContext(d, p, s) ==
    LET board == PersonLeaderboard(d, Query(s, {}, {}))
        me == IF p \in DOMAIN board THEN board[p] ELSE Zero
    IN [metrics |-> me,
        percentiles |-> IF p \notin DOMAIN board THEN Zero
                        ELSE [m \in Metrics |-> Below(board, p, m)],
        ranks |-> IF p \in DOMAIN board THEN RankBySignificance(board, p) ELSE {},
        population |-> Cardinality(DOMAIN board),
        share |-> <<me["significance"], BoardSum(board, "significance")>>,
        split |-> RepoLeaderboard(d, Query(s, {p}, {})),
        trend |-> WeeklyTrend(Timeseries(d, Query(s, {p}, {})))]

\* The totals and the trend of a repository are asked for in every org, the
\* contributors in the scope.
RepoContext(d, r, s) ==
    LET everywhere == Query([s EXCEPT !.orgs = {}], {}, {r})
        contributors == PersonLeaderboard(d, Query(s, {}, {r}))
    IN [totals |-> Totals(d, everywhere),
        trend |-> WeeklyTrend(Timeseries(d, everywhere)),
        contributors |-> contributors,
        topShare |-> IF DOMAIN contributors = {} THEN {}
                     ELSE {<<Max({contributors[p]["significance"] : p \in DOMAIN contributors}),
                             BoardSum(contributors, "significance")>>},
        turnover |-> Turnover(contributors,
                              PersonLeaderboard(d, Query(PreviousRange(s), {}, {r})))]

\* people-performance and repo-performance: the change of significance of
\* whoever was active in either window, before the longest bars are picked.
Change(now, before) ==
    [e \in DOMAIN now \cup DOMAIN before |->
       (IF e \in DOMAIN now THEN now[e] ELSE 0)
         - (IF e \in DOMAIN before THEN before[e] ELSE 0)]
PeoplePerformance(d, s) ==
    LET Significance(q) == LET board == PersonLeaderboard(d, q)
                           IN [p \in DOMAIN board |-> board[p]["significance"]]
    IN Change(Significance(Query(s, {}, {})), Significance(Query(PreviousRange(s), {}, {})))
RepoPerformance(d, s) ==
    LET Significance(q) == LET board == RepoLeaderboard(d, q)
                           IN [r \in DOMAIN board |-> board[r].n["significance"]]
    IN Change(Significance(Query(s, {}, {})), Significance(Query(PreviousRange(s), {}, {})))

\* The bars shown: at most "limit" gainers and as many decliners, which are
\* the longest of their side.
Bars(changes, limit) ==
    LET Longest(side, Before(_, _)) ==
            {e \in side : Cardinality({o \in side : Before(o, e)}) < limit}
        gainers == {e \in DOMAIN changes : changes[e] > 0}
        decliners == {e \in DOMAIN changes : changes[e] < 0}
    IN [up |-> Longest(gainers, LAMBDA o, e : changes[o] > changes[e]),
        down |-> Longest(decliners, LAMBDA o, e : changes[o] < changes[e])]

----------------------------------------------------------------------------
(* Whom the pickers offer: services/membership.py.                         *)

Restricted(d) == d.membersOnly # {} \/ d.included # Repos

VisiblePersons(d) ==
    {x.person : x \in {y \in d.rows :
        /\ y.repo \in d.included
        /\ OrgOf[y.repo] \in d.membersOnly => y.person \in MemberPersons(d, OrgOf[y.repo])}}

RelevantPersons(d) ==
    IF Restricted(d)
    THEN VisiblePersons(d) \cup UNION {MemberPersons(d, o) : o \in d.membersOnly}
    ELSE {d.owner[i] : i \in Identities}

\* The people and repositories of the composer's selects.
PickerOptions(d) == [people |-> RelevantPersons(d), repos |-> d.included]
=============================================================================
