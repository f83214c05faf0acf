------------------------------- MODULE Research -------------------------------
(***************************************************************************)
(* The blocks of a research (services/research.py) over a database that    *)
(* ingests, merges, splits and filter edits change.  One operator per      *)
(* handler gives the numbers the block shows; tables, sentences and charts *)
(* are layout and left out.                                                *)
(*                                                                         *)
(* A block is a record with every slot; a slot its operation does not have *)
(* is empty: {} for a picker, None for a select, "" for a menu.          *)
(***************************************************************************)
EXTENDS Statistics

CONSTANTS
    None,
    FactPool,         \* the facts that may be ingested
    MaxFacts, MaxEdits,
    Scopes,           \* the scopes and periods looked at
    Bands,            \* the bands of a composition before "Others"
    QualityFloor, DeliveryFloor, ConsistencyFloor, SpotlightLimit

\* What a fact of each kind is made of.
ASSUME FactPoolAssumption ==
    \A f \in FactPool :
        /\ f.kind \in {"commit", "pull", "review"}
        /\ f.by \in Identities /\ f.repo \in Repos /\ f.day \in Int
        /\ f.kind = "commit" => f.size \in Nat /\ f.churned \in Nat
        /\ f.kind = "pull" => f.merged \in Int \cup {Never}
        /\ f.kind = "review" => f.author \in Identities
ASSUME ScopesAssumption ==
    \A s \in Scopes : s \in [orgs : SUBSET Orgs, start : Int, end : Int] /\ s.start <= s.end

VARIABLES
    db,               \* the database
    edits             \* merges and filter edits so far; a split undoes a merge

vars == <<db, edits>>

----------------------------------------------------------------------------
(* Operations and their slots.                                             *)

Pickers == {"people", "people_b", "repos"}
Selects == {"person", "person_b", "repo", "repo_b"}
Menus == {"entity", "metric", "category"}
Slots == Pickers \cup Selects \cup Menus

Ops == [compare_people |-> {"people"}, compare_repos |-> {"repos"},
        compare_groups |-> {"people", "people_b"}, versus_scope |-> {"person"},
        spotlight |-> {"entity", "category"},
        correlate_person_repo |-> {"person", "repo"},
        correlate_people |-> {"person", "person_b"},
        correlate_repos |-> {"repo", "repo_b"},
        rank |-> {"entity", "people", "repos", "metric"},
        evolution |-> {"entity", "people", "repos", "metric"},
        composition_repo |-> {"repo"}, composition_person |-> {"person"},
        overlap_people |-> {"people"}, overlap_repos |-> {"repos"},
        handoff |-> {"repo"}, review_graph |-> {"people"},
        volatility |-> {"entity", "people", "repos", "metric"}]

\* _MIN_MULTI, with the default of validate_block.
MinMulti(op, slot) ==
    IF op \in {"compare_people", "compare_repos", "overlap_people", "overlap_repos",
               "review_graph", "rank"}
    THEN 2 ELSE 1

Unset(slot) == CASE slot \in Pickers -> {} [] slot \in Selects -> None [] OTHER -> ""

\* The block research_add_block builds of a form: the operation's slots only.
BlockOf(op, form) ==
    [slot \in Slots \cup {"op"} |->
       CASE slot = "op" -> op
         [] slot \in Ops[op] -> form[slot]
         [] OTHER -> Unset(slot)]

Categories == {"output", "impact", "quality", "delivery", "collaboration",
               "consistency", "momentum"}
MetricChoices == Metrics \ {"prs_opened"}

ExaminedWithoutPicker(b) == \* mutant: the chosen entity's picker is not looked at
    Ops[b.op] \ {"entity", "people", "repos"}

\* The slots validate_block looks at: of the two pickers of an entity, the
\* one that was chosen.
Examined(b) ==
    IF "entity" \notin Ops[b.op] THEN Ops[b.op]
    ELSE (Ops[b.op] \ {"entity", "people", "repos"}) \cup
         (IF Ops[b.op] \cap {"people", "repos"} = {} THEN {} ELSE {b.entity})

Valid(b) ==
    /\ "entity" \in Ops[b.op] => b.entity \in {"people", "repos"}
    /\ "category" \in Ops[b.op] => b.category \in Categories
    /\ \A slot \in Examined(b) :
          /\ slot \in Pickers => Cardinality(b[slot]) >= MinMulti(b.op, slot)
          /\ slot \in Selects => b[slot] # None
          /\ slot = "metric" => b.metric \in MetricChoices
    /\ b.op = "correlate_people" => b.person # b.person_b
    /\ b.op = "correlate_repos" => b.repo # b.repo_b

\* What the handlers take for granted: ids in their selects, a first element
\* of a ranking or of a maximum over the pickers, a known metric, category
\* and entity.  run_block turns anything else into an error block.
Subjects(b) == IF b.entity = "people" THEN b.people ELSE b.repos
Presumed(b) ==
    /\ Ops[b.op] \cap Selects # {} => \A slot \in Ops[b.op] \cap Selects : b[slot] # None
    /\ b.op \in {"compare_people", "overlap_people"} => b.people # {}
    /\ b.op \in {"compare_repos", "overlap_repos"} => b.repos # {}
    /\ b.op \in {"rank", "evolution"} => Subjects(b) # {}
    /\ b.op \in {"rank", "evolution", "volatility"} => b.metric \in MetricChoices
    /\ "entity" \in Ops[b.op] => b.entity \in {"people", "repos"}
    /\ b.op = "spotlight" => b.category \in Categories

----------------------------------------------------------------------------
(* Helpers of the handlers.                                                *)

WeeksFromStart(s) == \* mutant: weeks are counted from the first day
    {w \in s.start..(s.end - 1) : (w - s.start) % DaysPerWeek = 0}

\* The weeks a chart has: from the first one on, while they start in time.
Weeks(s) == {w \in WeekOf(s.start)..(s.end - 1) : w % DaysPerWeek = 0}

At(f, x, default) == IF x \in DOMAIN f THEN f[x] ELSE default
Series(weekly, e, s, m) == [w \in Weeks(s) |-> At(At(weekly, e, <<>>), w, Zero)[m]]

HalvesApart(s) == \* mutant: the second half starts the day after it should
    LET mid == s.start + ((s.end - s.start) \div 2)
    IN <<[s EXCEPT !.end = mid], [s EXCEPT !.start = mid + 1]>>

Halves(s) ==
    LET mid == s.start + ((s.end - s.start) \div 2)
    IN <<[s EXCEPT !.end = mid], [s EXCEPT !.start = mid]>>

\* Reviews of one person on another's pull requests, or on their own.  Neither
\* person filters nor rollups have a part in it.
ReviewPairs(d, s, people) ==
    [pair \in people \X people |->
       Cardinality({f \in d.facts :
          /\ f.kind = "review" /\ f.repo \in d.included
          /\ s.start <= f.day /\ f.day < s.end /\ InScope(s.orgs, f.repo)
          /\ d.owner[f.by] = pair[1] /\ d.owner[f.author] = pair[2]})]

----------------------------------------------------------------------------
(* Handlers.                                                               *)

ComparePeople(d, s, b) ==
    LET board == PersonLeaderboard(d, Query(s, b.people, {}))
        weekly == WeeklyByEntity(d, Query(s, b.people, {}), "person")
    IN [p \in b.people |-> [n |-> At(board, p, Zero),
                            chart |-> Series(weekly, p, s, "significance")]]

CompareRepos(d, s, b) ==
    LET board == RepoLeaderboard(d, Query(s, {}, b.repos))
        weekly == WeeklyByEntity(d, Query(s, {}, b.repos), "repo")
    IN [r \in b.repos |-> [n |-> At(board, r, [n |-> Zero]).n,
                           chart |-> Series(weekly, r, s, "significance")]]

CompareGroups(d, s, b) ==
    LET weekly == WeeklyByEntity(d, Query(s, b.people \cup b.people_b, {}), "person")
        Group(ids) ==
            LET board == PersonLeaderboard(d, Query(s, ids, {}))
            IN [n |-> [m \in Metrics |-> BoardSum(board, m)],
                chart |-> [w \in Weeks(s) |->
                   SumOver([p \in ids |-> Series(weekly, p, s, "significance")[w]])]]
    IN <<Group(b.people), Group(b.people_b)>>

\* How far above the average, times the population.
VersusScope(d, s, b) ==
    LET board == PersonLeaderboard(d, Query(s, {}, {}))
        mine == At(board, b.person, Zero)
    IN [mine |-> mine, population |-> Cardinality(DOMAIN board),
        above |-> [m \in Metrics |->
                     mine[m] * Cardinality(DOMAIN board) - BoardSum(board, m)],
        ranks |-> IF b.person \in DOMAIN board
                  THEN RankBySignificance(board, b.person) ELSE {}]

CorrelatePersonRepo(d, s, b) ==
    LET Chart(persons, repos, by, e) ==
            Series(WeeklyByEntity(d, Query(s, persons, repos), by), e, s, "significance")
        both == Chart({b.person}, {b.repo}, "person", b.person)
        days == DOMAIN Timeseries(d, Query(s, {b.person}, {b.repo}))
        split == PersonLeaderboard(d, Query(s, {b.person}, {b.repo}))
    IN [both |-> both,
        presence |-> Chart({}, {b.repo}, "repo", b.repo),
        focus |-> Chart({b.person}, {}, "person", b.person),
        span |-> IF days = {} THEN {} ELSE {<<Min(days), Max(days)>>},
        mine |-> At(split, b.person, Zero)]

CorrelatePeople(d, s, b) ==
    LET Split(p) == RepoLeaderboard(d, Query(s, {p}, {}))
        weekly == WeeklyByEntity(d, Query(s, {b.person, b.person_b}, {}), "person")
        Active(p) == {w \in DOMAIN At(weekly, p, <<>>) :
                        \E m \in Metrics : weekly[p][w][m] > 0}
        reviews == ReviewPairs(d, s, {b.person, b.person_b})
    IN [shared |-> DOMAIN Split(b.person) \cap DOMAIN Split(b.person_b),
        both |-> Active(b.person) \cap Active(b.person_b),
        either |-> Active(b.person) \cup Active(b.person_b),
        exchanged |-> <<reviews[<<b.person, b.person_b>>], reviews[<<b.person_b, b.person>>]>>]

\* The movers: of the two repositories' significance a shared contributor
\* has in a half, the second one's part, as numerator and denominator.
CorrelateRepos(d, s, b) ==
    LET Board(r) == PersonLeaderboard(d, Query(s, {}, {r}))
        shared == DOMAIN Board(b.repo) \cap DOMAIN Board(b.repo_b)
        weekly == WeeklyByEntity(d, Query(s, {}, {b.repo, b.repo_b}), "repo")
        In(half, p, r) == At(PersonLeaderboard(d, Query(half, {p}, {r})), p, Zero)["significance"]
        Parts(p) == [h \in 1..2 |->
            <<In(Halves(s)[h], p, b.repo_b),
              In(Halves(s)[h], p, b.repo) + In(Halves(s)[h], p, b.repo_b)>>]
        \* Four times the shift, over the product of the denominators.
        Shift(p) == 4 * (Parts(p)[2][1] * Parts(p)[1][2] - Parts(p)[1][1] * Parts(p)[2][2])
        Scale(p) == Parts(p)[1][2] * Parts(p)[2][2]
    IN [shared |-> shared,
        parts |-> [p \in shared |-> Parts(p)],
        toward |-> [p \in {q \in shared : Scale(q) > 0 /\
                             (Shift(q) >= Scale(q) \/ -Shift(q) >= Scale(q))} |->
                      IF Shift(p) > 0 THEN b.repo_b ELSE b.repo],
        charts |-> <<Series(weekly, b.repo, s, "significance"),
                     Series(weekly, b.repo_b, s, "significance")>>]

Rank(d, s, b) ==
    LET people == PersonLeaderboard(d, Query(s, b.people, {}))
        repos == RepoLeaderboard(d, Query(s, {}, b.repos))
    IN [e \in Subjects(b) |-> IF b.entity = "people" THEN At(people, e, Zero)[b.metric]
                              ELSE At(repos, e, [n |-> Zero]).n[b.metric]]

Evolution(d, s, b) ==
    LET weekly == IF b.entity = "people"
                  THEN WeeklyByEntity(d, Query(s, b.people, {}), "person")
                  ELSE WeeklyByEntity(d, Query(s, {}, b.repos), "repo")
    IN [e \in Subjects(b) |-> Series(weekly, e, s, b.metric)]

\* The subject's weeks, split over the other kind of entity.  The largest
\* bands are drawn (with the equals of the last), the rest together.
Composition(d, s, b) ==
    LET weekly == IF b.op = "composition_repo"
                  THEN WeeklyByEntity(d, Query(s, {}, {b.repo}), "person")
                  ELSE WeeklyByEntity(d, Query(s, {b.person}, {}), "repo")
        chart == [e \in DOMAIN weekly |-> Series(weekly, e, s, "significance")]
        Larger(o, e) == SumOver(chart[o]) > SumOver(chart[e])
        top == {e \in DOMAIN chart : Cardinality({o \in DOMAIN chart : Larger(o, e)}) < Bands}
    IN [bands |-> [e \in top |-> chart[e]],
        others |-> [w \in Weeks(s) |->
                      SumOver([e \in DOMAIN chart \ top |-> chart[e][w]])],
        totals |-> [e \in DOMAIN chart |-> SumOver(chart[e])]]

\* What every one of the picked entities has a row with.
OverlapPeople(d, s, b) ==
    {r \in Repos : \A p \in b.people : r \in DOMAIN RepoLeaderboard(d, Query(s, {p}, {}))}
OverlapRepos(d, s, b) ==
    {p \in Persons : \A r \in b.repos : p \in DOMAIN PersonLeaderboard(d, Query(s, {}, {r}))}

\* Each contributor's part of each half, as numerator and denominator.
Handoff(d, s, b) ==
    LET Board(h) == PersonLeaderboard(d, Query(Halves(s)[h], {}, {b.repo}))
        Whole(h) == LET sum == BoardSum(Board(h), "significance")
                    IN IF sum = 0 THEN 1 ELSE sum
    IN [p \in DOMAIN Board(1) \cup DOMAIN Board(2) |->
          [h \in 1..2 |-> <<At(Board(h), p, Zero)["significance"], Whole(h)>>]]

\* The text counts every review, the table has a dot where a person meets
\* their own pull requests.
ReviewGraph(d, s, b) ==
    LET counts == ReviewPairs(d, s, b.people)
    IN [edges |-> counts,
        cells |-> [pair \in {pair \in b.people \X b.people : pair[1] # pair[2]} |->
                     counts[pair]]]

\* Average and deviation of a weekly series: steady when the deviation is
\* below 0.6 of the average, bursty when it is above 1.2 of it.
Reading(series) ==
    LET sum == SumOver(series)
        spread == Cardinality(DOMAIN series) * SumOver([w \in DOMAIN series |-> series[w] * series[w]])
                    - sum * sum
    IN CASE sum = 0 -> "no activity"
         [] sum > 0 /\ 25 * spread < 9 * sum * sum -> "steady"
         [] sum > 0 /\ 25 * spread > 36 * sum * sum -> "bursty"
         [] OTHER -> "variable"
Volatility(d, s, b) == [e \in Subjects(b) |-> Reading(Evolution(d, s, b)[e])]

\* Whoever is active and above the category's floor, with its score as
\* numerator and denominator; quality is better when it is lower.
Spotlight(d, s, b) ==
    LET q == Query(s, {}, {})
        stat == IF b.entity = "people" THEN PersonLeaderboard(d, q)
                ELSE LET board == RepoLeaderboard(d, q) IN [r \in DOMAIN board |-> board[r].n]
        weekly == WeeklyByEntity(d, q, IF b.entity = "people" THEN "person" ELSE "repo")
        chart == [e \in DOMAIN stat |-> Series(weekly, e, s, "significance")]
        qualified == {e \in DOMAIN stat :
            /\ b.category = "quality" => stat[e]["additions"] >= QualityFloor
            /\ b.category = "delivery" => stat[e]["prs_opened"] >= DeliveryFloor
            /\ b.category = "consistency" => stat[e]["commits"] >= ConsistencyFloor}
        \* The weeks of the first half of the axis.
        early == {w \in Weeks(s) : Cardinality({v \in Weeks(s) : v < w}) < Cardinality(Weeks(s)) \div 2}
        Over(e, weeks) == SumOver([w \in weeks |-> chart[e][w]])
        Score(e) ==
            CASE b.category = "output" -> <<stat[e]["commits"], 1>>
              [] b.category = "impact" -> <<stat[e]["significance"], 1>>
              [] b.category = "quality" -> <<stat[e]["churn"], stat[e]["additions"]>>
              [] b.category = "delivery" -> <<stat[e]["prs_merged"], stat[e]["prs_opened"]>>
              [] b.category = "collaboration" -> <<stat[e]["reviews"], 1>>
              [] b.category = "consistency" ->
                    <<Cardinality({w \in Weeks(s) : chart[e][w] > 0}), Cardinality(Weeks(s))>>
              [] b.category = "momentum" -> <<Over(e, Weeks(s) \ early) - Over(e, early), 1>>
        scores == [e \in qualified |-> Score(e)]
        Less(x, y) == x[1] * y[2] < y[1] * x[2]
        Better(o, e) == IF b.category = "quality" THEN Less(scores[o], scores[e])
                        ELSE Less(scores[e], scores[o])
    IN [scores |-> scores,
        \* The places an entry may take, and whether only the ends are shown.
        places |-> [e \in qualified |->
            (Cardinality({o \in qualified : Better(o, e)}) + 1)
              ..(Cardinality({o \in qualified : ~Better(e, o)}))],
        split |-> Cardinality(qualified) > 2 * SpotlightLimit,
        skipped |-> Cardinality(DOMAIN stat) - Cardinality(qualified)]

----------------------------------------------------------------------------
(* The database changes.                                                   *)

Init ==
    /\ edits = 0
    /\ db = [facts |-> {}, owner |-> [i \in Identities |-> i], rows |-> {},
             included |-> Repos, mode |-> [o \in Orgs |-> "all"],
             listed |-> [o \in Orgs |-> {}], membersOnly |-> {},
             members |-> [o \in Orgs |-> {}]]

Edit(d) == edits < MaxEdits /\ edits' = edits + 1 /\ db' = d

\* An ingest commits a fact with its deltas.
IngestFact(f) ==
    /\ f \notin db.facts /\ Cardinality(db.facts) < MaxFacts
    /\ f.kind = "review" => \E pull \in db.facts : pull.kind = "pull" /\ pull.by = f.author
    /\ db' = [db EXCEPT !.facts = @ \cup {f},
                        !.rows = ApplyDeltas(@, MergeDeltas({f}, db.owner))]
    /\ UNCHANGED edits

MergedKeepingRows(d, target, source) == \* mutant: the source's rollups stay
    LET moved == [d EXCEPT
            !.owner = [i \in Identities |-> IF d.owner[i] = source THEN target ELSE d.owner[i]]]
    IN [moved EXCEPT !.rows = RecomputeForPersons(moved, {target})]

\* merge_persons: identities, filter entries and rollups go to the target.
Merged(d, target, source) ==
    LET moved == [d EXCEPT
            !.owner = [i \in Identities |-> IF d.owner[i] = source THEN target ELSE d.owner[i]],
            !.listed = [o \in Orgs |-> IF source \in d.listed[o]
                          THEN (d.listed[o] \ {source}) \cup {target} ELSE d.listed[o]],
            !.rows = {x \in d.rows : x.person \notin {source, target}}]
    IN [moved EXCEPT !.rows = RecomputeForPersons(moved, {target})]
Living(d) == {d.owner[i] : i \in Identities}
MergePersons ==
    \E target, source \in Living(db) : target # source /\ Edit(Merged(db, target, source))

\* unmerge_identity: a new person, one of the ids without identities.
UnmergeIdentity ==
    \E i \in Identities, fresh \in Persons \ Living(db) :
        /\ \E other \in Identities \ {i} : db.owner[other] = db.owner[i]
        /\ LET moved == [db EXCEPT !.owner[i] = fresh]
           IN db' = [moved EXCEPT !.rows = RecomputeForPersons(moved, {db.owner[i], fresh})]
        /\ UNCHANGED edits

\* A repository is ruled out or in, by a listing or an admin.
IncludeRepo ==
    \E r \in Repos : Edit([db EXCEPT !.included = IF r \in @ THEN @ \ {r} ELSE @ \cup {r}])

\* The form of the person filters: mode and list at once.
PersonFilters ==
    \E o \in Orgs, mode \in {"all", "whitelist", "blacklist"}, people \in SUBSET Living(db) :
        Edit([db EXCEPT !.mode[o] = mode, !.listed[o] = people])

\* Members-only comes with the list of members GitHub answers.
ToggleMembers ==
    \E o \in Orgs, linked \in SUBSET Identities :
        Edit(IF o \in db.membersOnly THEN [db EXCEPT !.membersOnly = @ \ {o}]
             ELSE [db EXCEPT !.membersOnly = @ \cup {o}, !.members[o] = linked])

Next ==
    \/ \E f \in FactPool : IngestFact(f)
    \/ MergePersons
    \/ UnmergeIdentity
    \/ IncludeRepo
    \/ PersonFilters
    \/ ToggleMembers

Spec == Init /\ [][Next]_vars

----------------------------------------------------------------------------
(* Properties.                                                             *)

\* The blocks of a handler over everyone and everything.
Over(op, entity, people, repos, metric) ==
    BlockOf(op, [slot \in Slots |->
        CASE slot = "entity" -> entity [] slot = "people" -> people
          [] slot = "repos" -> repos [] slot = "metric" -> metric
          [] OTHER -> Unset(slot)])

(* The rollups that ingests, merges and splits maintain piece by piece are *)
(* those a rebuild from the base tables gives: one row for each person,    *)
(* repository and day.                                                     *)
RowsAreRebuilt == db.rows = MergeDeltas(db.facts, db.owner)

(* A number on a person's row for a repository is the number of commits    *)
(* and pull requests its drill-down lists.                                 *)
DrilldownTraces ==
    \A s \in Scopes, r \in Repos :
        LET board == PersonLeaderboard(db, Query(s, {}, {r}))
        IN \A p \in DOMAIN board :
              /\ board[p]["commits"] = Cardinality(CommitRows(db, p, r, s))
              /\ board[p]["prs_opened"] = Cardinality(PrRows(db, p, r, s))

(* The weeks of every chart cover the period: evolution, comparison and    *)
(* composition add up to the number ranked, and the parts of a repository  *)
(* or of a person to the whole.                                            *)
ChartsAddUp ==
    \A s \in Scopes, m \in {"significance", "reviews"} :
        LET people == Over("rank", "people", Persons, {}, m)
            repos == Over("rank", "repos", {}, Repos, m)
            ranked == Rank(db, s, people)
            rankedRepos == Rank(db, s, repos)
            evolution == Evolution(db, s, people)
            evolutionR == Evolution(db, s, repos)
            totals == Totals(db, Query(s, {}, {}))
        IN /\ \A p \in Persons : SumOver(evolution[p]) = ranked[p]
           /\ \A r \in Repos : SumOver(evolutionR[r]) = rankedRepos[r]
           /\ SumOver(ranked) = totals.n[m]
           /\ SumOver(rankedRepos) = totals.n[m]
           /\ BoardSum(Timeseries(db, Query(s, {}, {})), m) = totals.n[m]

(* The review graph of everyone gives the reviews on the row of a person   *)
(* whom no filter touches: the row's cells in the table, and the edge of   *)
(* the person's own pull requests, which the table leaves out.             *)
ReviewsTrace ==
    \A s \in Scopes :
        LET board == PersonLeaderboard(db, Query(s, {}, {}))
            graph == ReviewGraph(db, s, Over("review_graph", "", Persons, {}, ""))
        IN \A p \in Persons : (\A o \in Orgs : PersonAllowed(db, o, p)) =>
              At(board, p, Zero)["reviews"] =
                SumOver([a \in Persons |-> IF a = p THEN graph.edges[<<p, p>>]
                                            ELSE graph.cells[<<p, a>>]])

(* A person's page, the percentiles, the comparison with the scope and the *)
(* spotlight agree on where the person stands.                             *)
StandingsAgree ==
    \A s \in Scopes :
        LET board == PersonLeaderboard(db, Query(s, {}, {}))
            impact == Spotlight(db, s, [Over("spotlight", "people", {}, {}, "")
                                          EXCEPT !.category = "impact"])
        IN \A p \in DOMAIN board :
              LET page == PersonContext(db, p, s)
                  versus == VersusScope(db, s, [BlockOf("versus_scope",
                                [slot \in Slots |-> Unset(slot)]) EXCEPT !.person = p])
              IN /\ page.percentiles["significance"] + Max(page.ranks) = page.population
                 /\ versus.ranks = page.ranks /\ versus.mine = page.metrics
                 /\ impact.places[p] = page.ranks
                 /\ page.share[1] = RepoSum(page.split, "significance")

(* Blocks that put two subjects together agree with those about one: a     *)
(* pair's common repositories are its overlap, a group has what its people *)
(* have, what a person did in a repository is part of what either did and  *)
(* of what its own split shows, and nobody is steady without output.       *)
PairsAgree ==
    \A s \in Scopes :
        LET compared == ComparePeople(db, s, Over("compare_people", "", Persons, {}, ""))
            comparedR == CompareRepos(db, s, Over("compare_repos", "", {}, Repos, ""))
            reading == Volatility(db, s, Over("volatility", "people", Persons, {}, "significance"))
        IN /\ \A p \in Persons :
                 /\ SumOver(compared[p].chart) = compared[p].n["significance"]
                 /\ (reading[p] = "no activity") <=> (compared[p].n["significance"] = 0)
                 /\ \A r \in Repos :
                       LET pair == CorrelatePersonRepo(db, s, [person |-> p, repo |-> r])
                       IN /\ pair.focus = compared[p].chart
                          /\ (s.orgs = {} \/ OrgOf[r] \in s.orgs) => pair.presence = comparedR[r].chart
                          /\ \A w \in Weeks(s) : /\ pair.both[w] <= pair.presence[w]
                                                 /\ pair.both[w] <= pair.focus[w]
                          /\ SumOver(pair.both) = pair.mine["significance"]
                          /\ (pair.span = {}) <=> (pair.mine = Zero)
           /\ \A p, q \in Persons : p # q =>
                 LET pair == CorrelatePeople(db, s, [person |-> p, person_b |-> q])
                     groups == CompareGroups(db, s, [people |-> {p, q}, people_b |-> Persons])
                 IN /\ pair.shared = OverlapPeople(db, s, [people |-> {p, q}])
                    /\ pair.both \subseteq Weeks(s) \cup {WeekOf(s.start)}
                    /\ \A g \in 1..2 :
                          SumOver(groups[g].chart) = groups[g].n["significance"]
                    /\ groups[1].n["significance"]
                         = compared[p].n["significance"] + compared[q].n["significance"]
           /\ \A r1, r2 \in Repos : r1 # r2 =>
                 CorrelateRepos(db, s, [repo |-> r1, repo_b |-> r2]).shared
                   = OverlapRepos(db, s, [repos |-> {r1, r2}])

(* The bands of a composition and its "Others" are, week by week, all of   *)
(* the subject's output; a performance chart's changes add up to the       *)
(* change of the totals between the two windows it compares.               *)
PartsAddUp ==
    \A s \in Scopes :
        LET Whole(c, w) == SumOver([e \in DOMAIN c.bands |-> c.bands[e][w]]) + c.others[w]
            Significance(scope) == Totals(db, Query(scope, {}, {})).n["significance"]
        IN /\ \A r \in Repos :
                 LET c == Composition(db, s, [op |-> "composition_repo", repo |-> r])
                     chart == CompareRepos(db, s, [repos |-> {r}])[r].chart
                 IN \A w \in Weeks(s) : Whole(c, w) = chart[w]
           /\ \A p \in Persons :
                 LET c == Composition(db, s, [op |-> "composition_person", person |-> p])
                     chart == ComparePeople(db, s, [people |-> {p}])[p].chart
                 IN \A w \in Weeks(s) : Whole(c, w) = chart[w]
           /\ SumOver(PeoplePerformance(db, s)) = Significance(s) - Significance(PreviousRange(s))
           /\ SumOver(RepoPerformance(db, s)) = SumOver(PeoplePerformance(db, s))
           /\ LET bars == Bars(PeoplePerformance(db, s), 1)
              IN (bars.up \cup bars.down = {}) =>
                    \A p \in DOMAIN PeoplePerformance(db, s) : PeoplePerformance(db, s)[p] = 0

(* Every number can be traced: to the base tables, from one view to        *)
(* another, and from the parts to the whole.                               *)
NumbersTrace == /\ RowsAreRebuilt /\ DrilldownTraces /\ ChartsAddUp
                /\ ReviewsTrace /\ StandingsAgree /\ PairsAgree /\ PartsAddUp

(* The two halves of a period have between them what the period has, for a *)
(* handoff, for the movers between two repositories and for the momentum.  *)
HalvesAddUp ==
    \A s \in Scopes :
        /\ \A r \in Repos :
              LET board == PersonLeaderboard(db, Query(s, {}, {r}))
                  shares == Handoff(db, s, [op |-> "handoff", repo |-> r])
              IN /\ DOMAIN shares = DOMAIN board
                 /\ \A p \in DOMAIN board :
                       shares[p][1][1] + shares[p][2][1] = board[p]["significance"]
        /\ \A r1, r2 \in Repos : r1 # r2 =>
              LET moved == CorrelateRepos(db, s, [repo |-> r1, repo_b |-> r2])
                  board == PersonLeaderboard(db, Query(s, {}, {r1, r2}))
              IN \A p \in moved.shared :
                    moved.parts[p][1][2] + moved.parts[p][2][2] = board[p]["significance"]

(* Whatever windows follow each other, everyone joins in exactly one of    *)
(* them, leaves in at most one, and never leaves where it joins.           *)
EveryoneJoinsOnce ==
    \A s \in Scopes :
        LET cohort(h) == Cohort(db, s.orgs, Halves(s)[h].start, Halves(s)[h].end)
            whole == Cohort(db, s.orgs, s.start, s.end)
            Joined(h) == DOMAIN cohort(h).joiners
            Left(h) == DOMAIN cohort(h).leavers
        IN /\ Joined(1) \cup Joined(2) = DOMAIN whole.joiners
           /\ Joined(1) \cap Joined(2) = {} /\ Left(1) \cap Left(2) = {}
           /\ Joined(1) \cap Left(1) = {} /\ Joined(2) \cap Left(2) = {}
           /\ DOMAIN whole.leavers \subseteq DOMAIN ActivitySpans(db, s.orgs)
           /\ (DOMAIN whole.leavers \cap Left(1)) \cap DOMAIN whole.joiners = {}

(* A period that is cut in two loses nobody's work at the cut and counts   *)
(* nothing on both sides of it.                                            *)
PeriodsCompose == HalvesAddUp /\ EveryoneJoinsOnce

\* What a form may bring: of the slots of the operation any choice of what
\* its controls offer, and nothing for the others.
Forms(op) ==
    LET Of(slot, offered) == IF slot \in Ops[op] THEN offered ELSE {Unset(slot)}
        people == PickerOptions(db).people
        repos == PickerOptions(db).repos
    IN [people : Of("people", SUBSET people), people_b : Of("people_b", SUBSET people),
        repos : Of("repos", SUBSET repos),
        person : Of("person", {None} \cup people), person_b : Of("person_b", {None} \cup people),
        repo : Of("repo", {None} \cup repos), repo_b : Of("repo_b", {None} \cup repos),
        entity : Of("entity", {"", "people", "repos"}),
        metric : Of("metric", {"", "reviews", "prs_opened"}),
        category : Of("category", {"", "impact"})]

(* Of what the pickers offer, validate_block lets nothing pass that a      *)
(* handler would stumble over; and the pickers offer everyone and every    *)
(* repository that is counted somewhere.                                   *)
ComposedBlocksCompute ==
    /\ \A op \in DOMAIN Ops : \A form \in Forms(op) :
          Valid(BlockOf(op, form)) => Presumed(BlockOf(op, form))
    /\ \A s \in Scopes :
          /\ DOMAIN PersonLeaderboard(db, Query(s, {}, {})) \subseteq PickerOptions(db).people
          /\ DOMAIN RepoLeaderboard(db, Query(s, {}, {})) \subseteq PickerOptions(db).repos

(* A merge or a split moves numbers between the persons it is about and    *)
(* changes no total, no repository, no day and nobody else, as long as no  *)
(* filter tells these persons apart.                                       *)
MergesMoveNumbers ==
    [][db'.owner # db.owner =>
         LET moved == {p \in Persons : \E i \in Identities :
                          db.owner[i] # db'.owner[i] /\ p \in {db.owner[i], db'.owner[i]}}
         IN (\A o \in Orgs : db.mode[o] = "all" /\ o \notin db.membersOnly) =>
              \A s \in Scopes :
                 LET q == Query(s, {}, {})
                     before == PersonLeaderboard(db, q)
                     after == PersonLeaderboard(db', q)
                 IN /\ Totals(db, q).n = Totals(db', q).n
                    /\ Timeseries(db, q) = Timeseries(db', q)
                    /\ \A r \in Repos : At(RepoLeaderboard(db, q), r, [n |-> Zero]).n
                                      = At(RepoLeaderboard(db', q), r, [n |-> Zero]).n
                    /\ \A p \in Persons \ moved : At(before, p, Zero) = At(after, p, Zero)]_vars
=============================================================================
