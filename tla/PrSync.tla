------------------------------- MODULE PrSync -------------------------------
(* Pull requests and reviews of one repository: how a sync lists what has   *)
(* been updated since the watermark pr_synced_at, newest first and page by  *)
(* page while GitHub goes on changing, upserts it in a session that every   *)
(* new identity commits half-way, and has the rollups of the authors' and   *)
(* reviewers' persons rebuilt at its end from the ids it has kept, while    *)
(* people merge and split persons.                                          *)
(*                                                                          *)
(* Time has the resolution GitHub reports, a second.  A GraphQL page is     *)
(* read at one instant, a REST page and the reviews of each of its pull     *)
(* requests at instants of their own.  A merge or split is one step (how    *)
(* its transaction overlaps a session's is Ingest's subject).               *)
EXTENDS Naturals, FiniteSets, FiniteSetsExt

CONSTANTS
    Pulls,        \* numbers of the pull requests that may be opened
    Reviews,
    PullOf,       \* the pull request of a review
    NumberOf,     \* the place of a review among those of its pull request
    AuthorOf,     \* the login behind a pull request or a review
    PrPage,       \* pull requests per GraphQL page (_PR_PAGE)
    RestPage,     \* per REST page (_PAGE)
    ReviewPage,   \* reviews of a pull request that either listing asks for
    MaxClock,
    MaxUpsets,    \* failures, merges, splits and closed accounts
    Known         \* logins whose identity other repositories have left

Logins == {AuthorOf[x] : x \in Pulls \cup Reviews}
(* The facts of a database: states of pull requests, and reviews.          *)
States == {"open", "merged"}
PullFacts == {<<p, k>> : p \in Pulls, k \in States}
Facts == PullFacts \cup Reviews
Items == Pulls \cup Reviews
(* What a listing can ever hold of the reviews.                            *)
FirstReviews == {r \in Reviews : NumberOf[r] <= ReviewPage}

ASSUME PullsAssumption ==
    /\ Pulls \subseteq Nat /\ IsFiniteSet(Pulls)
    /\ Pulls \cap Reviews = {} /\ PullFacts \cap Reviews = {}
    /\ PullOf \in [Reviews -> Pulls] /\ DOMAIN AuthorOf = Pulls \cup Reviews
    /\ NumberOf \in [Reviews -> Nat]
ASSUME PrSyncBounds ==
    /\ PrPage \in Nat \ {0} /\ RestPage \in Nat \ {0} /\ ReviewPage \in Nat
    /\ MaxClock \in Nat \ {0} /\ MaxUpsets \in Nat

VARIABLES
    clock,   \* seconds
    gh,      \* GitHub: each pull request's state, when it was updated, and
             \* (ghost) whether a listing had seen an update of that second
    ghRevs,  \* GitHub: the reviews
    gone,    \* GitHub: logins whose account is closed
    db,      \* committed: pull requests and reviews, which of them have no
             \* author, each identity's person, watermark
    rollup,  \* committed: what each person is credited with
    sync,    \* the repository's task, and the sync's summary
    upsets,
    crowded, \* ghost: RestPage pull requests changed during one REST listing
    unread,  \* ghost: reviews a failed REST request left out
    missed,  \* ghost: pull requests a listing broken off did not come to
    lost     \* ghost: logins robbed of their recompute

vars == <<clock, gh, ghRevs, gone, db, rollup, sync, upsets,
          crowded, unread, missed, lost>>
github == <<clock, gh, ghRevs, gone>>
ghosts == <<crowded, unread, missed>>

Kinds == States \cup {"none"}
NoPull == [state |-> "none", at |-> 0, tied |-> FALSE]
Start == <<MaxClock + 1, 0>>   \* a place before every pull request
Resting ==
    [at |-> "idle", since |-> 0, before |-> Start, page |-> 0, got |-> {},
     batch |-> {}, moved |-> {}, todo |-> {}, nobodys |-> {}, work |-> {}, anon |-> {},
     held |-> {}, affected |-> {}, committed |-> {}, robbed |-> {}]

ItemOf(f) == IF f \in PullFacts THEN f[1] ELSE f
By(f) == AuthorOf[ItemOf(f)]
FactsOf(facts, anon, l) == {f \in facts : By(f) = l /\ ItemOf(f) \notin anon}
Stored(l) == FactsOf(db.facts, db.anon, l)
Credited(l) == {x \in rollup : By(x[2]) = l}

(* What a listing has of a pull request, which of its pages had it, and    *)
(* which of it and its reviews came without an author.                     *)
Infos == [number : Pulls, state : States, at : 1..MaxClock,
          reviews : SUBSET Reviews, nobodys : SUBSET Items, page : Nat]
Syncs == [at : {"idle", "graphql", "rest", "details", "last", "pull", "reviews",
                "recompute"},
          since : 0..MaxClock, before : Nat \X Nat, page : Nat,
          got : SUBSET Infos, batch : SUBSET Infos, moved : SUBSET Pulls,
          todo : SUBSET Reviews, nobodys : SUBSET Items,
          work : SUBSET Facts, anon : SUBSET Items, held : SUBSET Logins,
          affected : SUBSET Nat, committed : SUBSET Logins, robbed : SUBSET Logins]

(* Of a pull request one row, of a review one of a pull request that has    *)
(* its row, and of an author or reviewer, unless the row has none, an       *)
(* identity.                                                                *)
Integrity(facts, anon, reviews) ==
    /\ \A p \in Pulls : ~({<<p, k>> : k \in States} \subseteq facts)
    /\ \A r \in reviews : \E k \in States : <<PullOf[r], k>> \in facts
    /\ \A f \in facts : ItemOf(f) \in anon \/ db.owner[By(f)] # 0

TypeOK ==
    /\ clock \in 1..MaxClock
    /\ gh \in [Pulls -> [state : Kinds, at : 0..MaxClock, tied : BOOLEAN]]
    /\ ghRevs \subseteq Reviews /\ gone \subseteq Logins
    /\ db \in [facts : SUBSET Facts, anon : SUBSET Items, owner : [Logins -> Nat],
               next : Nat, synced : 0..MaxClock]
    /\ rollup \subseteq Nat \X Facts
    /\ sync \in Syncs
    /\ upsets \in 0..MaxUpsets /\ crowded \in BOOLEAN
    /\ unread \subseteq Reviews /\ missed \subseteq Pulls /\ lost \subseteq Logins
    /\ db.synced <= clock
    /\ Integrity(db.facts, db.anon, db.facts \cap Reviews)

(* The identities that are known already are all of one person.            *)
Init ==
    /\ clock = 1
    /\ gh = [p \in Pulls |-> NoPull] /\ ghRevs = {} /\ gone = {}
    /\ db = [facts |-> {}, anon |-> {},
             owner |-> [l \in Logins |-> IF l \in Known THEN 1 ELSE 0],
             next |-> 2, synced |-> 0]
    /\ rollup = {}
    /\ sync = Resting /\ upsets = 0
    /\ crowded = FALSE /\ unread = {} /\ missed = {} /\ lost = {}

----------------------------------------------------------------------------
(* GitHub.  Updates of a pull request between the pages of a REST listing  *)
(* are counted.                                                            *)
SecondSeen ==
    \/ clock \in {db.synced, sync.since}
    \/ \E info \in sync.got : info.at = clock
Updated(p, state) ==
    /\ gh' = [gh EXCEPT ![p] = [state |-> state, at |-> clock, tied |-> SecondSeen]]
    /\ sync' = IF sync.at \in {"rest", "details"}
               THEN [sync EXCEPT !.moved = @ \cup {p}] ELSE sync
    /\ crowded' = (crowded \/ Cardinality(sync'.moved) >= RestPage)
    /\ missed' = missed \ {p}
    /\ UNCHANGED <<clock, gone, db, rollup, upsets, unread, lost>>
OpenPull(p) == gh[p].state = "none" /\ Updated(p, "open") /\ UNCHANGED ghRevs
MergePull(p) == gh[p].state = "open" /\ Updated(p, "merged") /\ UNCHANGED ghRevs
SubmitReview(r) ==
    /\ r \notin ghRevs /\ gh[PullOf[r]].state # "none"
    /\ \A q \in Reviews \ ghRevs : PullOf[q] = PullOf[r] => NumberOf[r] <= NumberOf[q]
    /\ ghRevs' = ghRevs \cup {r}
    /\ Updated(PullOf[r], gh[PullOf[r]].state)
Tick ==
    /\ clock < MaxClock /\ clock' = clock + 1
    /\ UNCHANGED <<gh, ghRevs, gone, db, rollup, sync, upsets, ghosts, lost>>

(* An account is closed: what it wrote stays, with no author.              *)
CloseAccount(l) ==
    /\ l \notin gone /\ gone' = gone \cup {l}
    /\ upsets < MaxUpsets /\ upsets' = upsets + 1
    /\ UNCHANGED <<clock, gh, ghRevs, db, rollup, sync, ghosts, lost>>

(* UPDATED_AT descending, ties by number; a cursor is a place in it.       *)
Newer(k, l) == k[1] > l[1] \/ (k[1] = l[1] /\ k[2] > l[2])
Place(p) == <<gh[p].at, p>>
Existing == {p \in Pulls : gh[p].state # "none"}
Rank(S, p) == Cardinality({q \in S : Newer(Place(q), Place(p))})
ReviewsOf(p) == {r \in ghRevs \cap FirstReviews : PullOf[r] = p}
Nobodys(items) == {x \in items : AuthorOf[x] \in gone}
Info(p, revs) ==
    [number |-> p, state |-> gh[p].state, at |-> gh[p].at, reviews |-> revs,
     nobodys |-> Nobodys({p} \cup revs), page |-> sync.page]

----------------------------------------------------------------------------
(* _sync_repo asks for what was updated after the watermark.               *)
BeginListing ==
    /\ sync.at = "idle"
    /\ sync' = [Resting EXCEPT !.at = "graphql", !.since = db.synced]
    /\ missed' = {p \in missed : gh[p].at <= db.synced}
    /\ UNCHANGED <<github, db, rollup, upsets, crowded, unread, lost>>

(* A page: what is newer than "since" is taken; the listing is over at the *)
(* first that is not, or with the last page.                               *)
Taken(page) == {p \in page : gh[p].at > sync.since}
Oldest(page) == CHOOSE p \in page : \A q \in page \ {p} : Newer(Place(q), Place(p))
Listed(got) ==
    [sync EXCEPT !.at = "pull", !.got = got, !.before = Start, !.page = 0, !.moved = {},
                 !.work = db.facts, !.anon = db.anon]

OverWithOnePage(page, last) == TRUE \* mutant: the cursor is not followed
Over(page, last) == last \/ Taken(page) # page
After == {p \in Existing : Newer(sync.before, Place(p))}
GraphqlPage ==
    /\ sync.at = "graphql"
    /\ LET page == {p \in After : Rank(After, p) < PrPage}
           got == sync.got \cup {Info(p, ReviewsOf(p)) : p \in Taken(page)}
       IN sync' = IF Over(page, page = After) THEN Listed(got)
                  ELSE [sync EXCEPT !.got = got, !.before = Place(Oldest(page)), !.page = @ + 1]
    /\ UNCHANGED <<github, db, rollup, upsets, ghosts, lost>>

(* A page comes without its repository, with an error graphql() lets pass: *)
(* the list so far is taken for all of it.                                 *)
GraphqlBreaksOff ==
    /\ sync.at = "graphql"
    /\ upsets < MaxUpsets /\ upsets' = upsets + 1
    /\ sync' = Listed(sync.got)
    /\ missed' = missed \cup (IF sync.got = {} THEN {} ELSE Taken(After))
    /\ UNCHANGED <<github, db, rollup, crowded, unread, lost>>

(* GraphQL times out with a 502 or 504: all over again by REST.            *)
FallBackToRest ==
    /\ sync.at = "graphql"
    /\ sync' = [Resting EXCEPT !.at = "rest", !.since = sync.since]
    /\ UNCHANGED <<github, db, rollup, upsets, ghosts, lost>>

(* Pages are numbered; a page is read ...                                  *)
RestBatch ==
    /\ sync.at = "rest"
    /\ LET first == sync.page * RestPage
           page == {p \in Existing : Rank(Existing, p) \in first..(first + RestPage - 1)}
           batch == {Info(p, {}) : p \in Taken(page)}
       IN sync' = [sync EXCEPT !.at = IF Over(page, Cardinality(page) < RestPage)
                                      THEN "last" ELSE "details",
                     !.got = @ \cup batch, !.batch = batch, !.page = @ + 1]
    /\ UNCHANGED <<github, db, rollup, upsets, ghosts, lost>>

(* ... then, newest first, the reviews of each of its pull requests, taken *)
(* for none if the request fails ...                                       *)
Earlier(i, j) ==
    i.page < j.page \/ (i.page = j.page /\ Newer(<<i.at, i.number>>, <<j.at, j.number>>))
Detailed(i, revs) == [i EXCEPT !.reviews = revs, !.nobodys = @ \cup Nobodys(revs)]
RestDetail(i, revs) ==
    /\ sync.at \in {"details", "last"} /\ \A j \in sync.batch \ {i} : Earlier(i, j)
    /\ sync' = [sync EXCEPT !.batch = @ \ {i}, !.got = (@ \ {i}) \cup {Detailed(i, revs)}]
    /\ UNCHANGED <<github, db, rollup, crowded, missed, lost>>
RestReviewsAnswered == \E i \in sync.batch :
    RestDetail(i, ReviewsOf(i.number)) /\ UNCHANGED <<upsets, unread>>
RestReviewsFail == \E i \in sync.batch :
    /\ upsets < MaxUpsets /\ upsets' = upsets + 1
    /\ RestDetail(i, {}) /\ unread' = unread \cup ReviewsOf(i.number)

(* ... and the next page, or the upserts.                                  *)
RestPageDone ==
    /\ sync.at \in {"details", "last"} /\ sync.batch = {}
    /\ sync' = IF sync.at = "last" THEN Listed(sync.got) ELSE [sync EXCEPT !.at = "rest"]
    /\ UNCHANGED <<github, db, rollup, upsets, ghosts, lost>>

----------------------------------------------------------------------------
(* get_or_create_github_identity with commit_on_create: a new login is a   *)
(* person of its own, and commits all that the session has written so far. *)
WithLogin(l) ==
    IF db.owner[l] # 0 THEN db
    ELSE [db EXCEPT !.facts = sync.work, !.anon = sync.anon,
                    !.owner[l] = db.next, !.next = @ + 1]
Committed(d) == {l \in Logins : FactsOf(d.facts, d.anon, l) # Stored(l)}

(* The person of an identity is read with it; of one the session holds, it *)
(* may be the one read before.                                             *)
PersonsBefore(d, l) == {{db.owner[l]} \ {0}} \* mutant: whom the lookup creates is not noted
Persons(d, l) == {{d.owner[l]}} \cup (IF l \in sync.held THEN {{}} ELSE {})

(* upsert_pull_requests: the row of the next pull request, which without   *)
(* an author has nobody recomputed ...                                     *)
PullRowAgain(p, state) == sync.work \cup {<<p, state>>} \* mutant: no row is replaced
PullRow(p, state) == (sync.work \ {<<p, k>> : k \in States}) \cup {<<p, state>>}
Uncredited(p) == \* whose row loses its author
    {l \in {AuthorOf[p]} : p \notin sync.anon /\ \E k \in States : <<p, k>> \in sync.work}
Stepped(info) ==
    [sync EXCEPT !.at = "reviews", !.got = @ \ {info},
                 !.todo = info.reviews \ sync.work, !.nobodys = info.nobodys,
                 !.since = Max({@, info.at}), !.work = PullRow(info.number, info.state)]
UpsertPull ==
    /\ sync.at = "pull"
    /\ \E info \in sync.got :
          LET p == info.number  l == AuthorOf[p]  d == WithLogin(l)
          IN /\ \A j \in sync.got \ {info} : Earlier(info, j)
             /\ IF p \in info.nobodys
                THEN /\ sync' = [Stepped(info) EXCEPT !.anon = @ \cup {p},
                                    !.robbed = @ \cup Uncredited(p)]
                     /\ db' = db
                ELSE /\ \E ids \in Persons(d, l) :
                          sync' = [Stepped(info) EXCEPT !.anon = @ \ {p},
                                     !.held = @ \cup {l}, !.affected = @ \cup ids,
                                     !.committed = @ \cup Committed(d)]
                     /\ db' = d
    /\ UNCHANGED <<github, rollup, upsets, ghosts, lost>>

(* ... then the reviews it did not know ...                                *)
Reviewed(r) == [sync EXCEPT !.work = @ \cup {r}, !.todo = @ \ {r}]
UpsertReview ==
    /\ sync.at = "reviews"
    /\ \E r \in sync.todo :
          LET l == AuthorOf[r]  d == WithLogin(l)
          IN IF r \in sync.nobodys
             THEN /\ sync' = [Reviewed(r) EXCEPT !.anon = @ \cup {r}]
                  /\ db' = db
             ELSE /\ \E ids \in Persons(d, l) :
                       sync' = [Reviewed(r) EXCEPT !.held = @ \cup {l},
                                  !.affected = @ \cup ids, !.committed = @ \cup Committed(d)]
                  /\ db' = d
    /\ UNCHANGED <<github, rollup, upsets, ghosts, lost>>
NextPull ==
    /\ sync.at = "reviews" /\ sync.todo = {}
    /\ sync' = [sync EXCEPT !.at = "pull", !.nobodys = {}]
    /\ UNCHANGED <<github, db, rollup, upsets, ghosts, lost>>

(* ... and the watermark, committed with the rest.  "since" has become the *)
(* newest update among what was listed.                                    *)
WatermarkNow == clock \* mutant: the time of the sync
Watermark == Max({db.synced, sync.since})
CommitPulls ==
    /\ sync.at = "pull" /\ sync.got = {}
    /\ LET d == [db EXCEPT !.facts = sync.work, !.anon = sync.anon,
                           !.synced = Watermark]
       IN /\ db' = d
          /\ sync' = [sync EXCEPT !.at = "recompute", !.committed = @ \cup Committed(d)]
    /\ UNCHANGED <<github, rollup, upsets, ghosts, lost>>

----------------------------------------------------------------------------
(* recompute_for_persons: their rows go, and are derived from what their   *)
(* identities have.                                                        *)
Rebuilt(d, persons) ==
    {x \in rollup : x[1] \notin persons} \cup
    {<<d.owner[By(f)], f>> : f \in {g \in d.facts : ItemOf(g) \notin d.anon
                                                 /\ d.owner[By(g)] \in persons}}

(* Once every task is done, for those affected, by the ids they had then.  *)
Recompute ==
    /\ sync.at = "recompute"
    /\ rollup' = Rebuilt(db, sync.affected)
    /\ lost' = {l \in lost \cup sync.robbed : db.owner[l] \notin sync.affected}
    /\ sync' = Resting
    /\ UNCHANGED <<github, db, upsets, ghosts>>

(* merge_persons and unmerge_identity: identities move to a person, the    *)
(* one merged into or a new one, and both persons are rebuilt.  (A person  *)
(* may have identities of commits besides, or none but those: its id is as *)
(* good as a new one, and merging it into another rebuilds the other.)     *)
Rehome(S, b) ==
    LET d == [db EXCEPT !.owner = [l \in Logins |-> IF l \in S THEN b ELSE @[l]],
                        !.next = Max({@, b + 1})]
        both == {db.owner[l] : l \in S} \cup {b}
        astray == {l \in S \cap sync.held : db.owner[l] # b}
    IN /\ db' = d /\ rollup' = Rebuilt(d, both)
       /\ lost' = {l \in lost : d.owner[l] \notin both}
       /\ sync' = IF sync.at \in {"pull", "reviews"}
                  THEN [sync EXCEPT !.robbed = @ \cup astray] ELSE sync
       /\ upsets < MaxUpsets /\ upsets' = upsets + 1
       /\ UNCHANGED <<github, ghosts>>
MergePersons == \E l \in Logins, b \in {db.owner[k] : k \in Logins} \cup {db.next} :
    /\ db.owner[l] # 0 /\ b # 0
    /\ Rehome({k \in Logins : db.owner[k] = db.owner[l]}, b)
UnmergeIdentity == \E l \in Logins : db.owner[l] # 0 /\ Rehome({l}, db.next)

(* The task fails, the sync fails or the worker dies: the session rolls    *)
(* back, and the set of affected persons is gone.                          *)
SyncFails ==
    /\ sync.at # "idle"
    /\ upsets < MaxUpsets /\ upsets' = upsets + 1
    /\ lost' = lost \cup sync.committed
    /\ sync' = Resting
    /\ UNCHANGED <<github, db, rollup, ghosts>>

Next ==
    \/ \E p \in Pulls : OpenPull(p) \/ MergePull(p)
    \/ \E r \in Reviews : SubmitReview(r)
    \/ Tick \/ \E l \in Logins : CloseAccount(l)
    \/ BeginListing \/ GraphqlPage \/ GraphqlBreaksOff \/ FallBackToRest
    \/ RestBatch \/ RestReviewsAnswered \/ RestReviewsFail \/ RestPageDone
    \/ UpsertPull \/ UpsertReview \/ NextPull \/ CommitPulls \/ Recompute \/ SyncFails
    \/ MergePersons \/ UnmergeIdentity

(* The scheduler syncs again and again, and a sync ends.                   *)
Spec ==
    /\ Init /\ [][Next]_vars
    /\ WF_vars(BeginListing) /\ WF_vars(GraphqlPage)
    /\ WF_vars(RestBatch) /\ WF_vars(RestReviewsAnswered) /\ WF_vars(RestPageDone)
    /\ WF_vars(UpsertPull) /\ WF_vars(UpsertReview) /\ WF_vars(NextPull)
    /\ WF_vars(CommitPulls) /\ WF_vars(Recompute)

----------------------------------------------------------------------------
Outdated(p) == gh[p].state # "none" /\ <<p, gh[p].state>> \notin db.facts
Missing(r) == r \in ghRevs \ db.facts
Shown(p) == {r \in FirstReviews \ unread : PullOf[r] = p}

(* The watermark never passes by an update, of whatever page and however   *)
(* GitHub changes meanwhile: what is not stored is newer than it, was      *)
(* updated in a second of which a listing had seen an update already, or   *)
(* was not come to by a listing that broke off after a page (_PRS_QUERY    *)
(* answered without its repository).  By REST, if no full page of pull     *)
(* requests changes while the pages are read; reviews, those of the first  *)
(* page, if GitHub answered for them.                                      *)
Behind(p) == gh[p].at <= db.synced /\ ~gh[p].tied
WatermarkCovers ==
    crowded \/ \A p \in Pulls \ missed : Behind(p) =>
                  ~Outdated(p) /\ \A r \in Shown(p) : ~Missing(r)

(* At rest an identity's present person, and nobody else, is credited with *)
(* exactly the pull requests and reviews stored as the identity's, unless  *)
(* it was robbed of the recompute: by a sync that failed after committing  *)
(* some of it (half-way commits), by a merge or split after its person's   *)
(* id was noted for the recompute, or by its account being closed, which   *)
(* takes the author off a row and has nobody recomputed.  Whatever         *)
(* recomputes its person next sets it right.                               *)
RollupsFollow ==
    sync.at = "idle" =>
        \A l \in Logins \ lost : Credited(l) = {<<db.owner[l], f>> : f \in Stored(l)}

(* Again and again everything is stored except what was updated in such a  *)
(* second, was left out by such a listing, or lies past the first page of  *)
(* reviews.                                                                *)
CatchesUp ==
    []<>(crowded \/ \A p \in Pulls \ missed : ~gh[p].tied =>
            ~Outdated(p) /\ \A r \in Shown(p) : ~Missing(r))
=============================================================================
