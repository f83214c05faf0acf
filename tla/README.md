# A formal model of gh-contribution-analyzer

This directory holds TLA+ specifications of the program's core logic, TLC
configurations that check them on small instances, and TLAPS proofs for every
value of the constants. Each definition is translated from the code;
`PROJECT.json` ("map") names the lines each one stands for. Paths such as
`sync/orchestrator.py` are relative to `src/src/gca/`.

Contents: [the system](#the-system) · [modules](#modules) · [runs](#runs) ·
[proofs](#proofs) · [disagreements](#where-the-code-and-its-text-disagree) ·
[not modelled](#not-modelled) · [plan](#plan)

## The system

gca mirrors GitHub organisations: it clones their repositories, ingests commits,
pull requests and reviews into PostgreSQL, attributes them to persons, keeps
daily rollups, and turns them into web pages, AI narratives and PDF reports that
it e-mails. Three kinds of process share the database and the data directory and
nothing else:

* the **worker** (`worker.py`), one process with an APScheduler loop. At boot it
  resets what a crash left behind; then it runs six jobs, each with
  `max_instances=1`, as coroutines that interleave at every `await`;
* the **web app** (`web/`), requests that run concurrently, each with a session
  committed by its handler;
* the **command line** (`cli.py`), processes that call the same services.

They meet only in rows: `orgs.sync_status`, the `sync_requests` settings
document, `reports.status`, `job_ledger`, persons, identities and rollups.
PostgreSQL runs at READ COMMITTED, no handler takes explicit locks, and the
protocols rest on guarded UPDATEs, unique keys and the order of commits.

### Inventory

| Component (code) | State | Operations | Interacts with | What is hard | What makes it correct |
|---|---|---|---|---|---|
| Org sync (`sync/orchestrator.py`, `scheduler/jobs.py`) | `Org.sync_status`, tasks, semaphore, stop event, affected persons | claim, discover, one task per repository, recompute, attribute, finish, degrade | all three processes claim; admin edits and boots write the same column | competition for the claim, stale writes over it, crash with the claim held, fatal errors among parallel tasks | one runner per org; a rate limit stops and degrades; nothing stays locked; enabled orgs keep being synced |
| Org administration (`services/orgs.py`, `web/routers/orgs.py`) | the org row | add, update token, revalidate, toggle, filters, remove | writes status next to the claim; cascades under running syncs | load, then a network call, then save | edits do not disturb a sync |
| Manual requests (`scheduler/jobs.py`, `services/settings.py`) | `settings["sync_requests"]` | file, read, re-read, clear, serve | web and worker rewrite one JSON document | read-modify-write without a lock, crash between clear and serve | a request gets its turn, or is lost to an overlap or a crash and nothing else |
| Discovery and filters (`sync/orchestrator.py`, `web/routers/orgs.py`) | `Repo` rows: name, node id, included, gone | list, upsert, rename, include, mark gone, edit filters | feeds the tasks, walks dictionaries built before the walk | renames onto names in use, filters edited while GitHub answers | a repository keeps its history; what the filters rule out is shown nowhere |
| Clone cache (`sync/gitrepo.py`, `scheduler/jobs.py`) | directories by name, `clone_status` | clone, configure, fetch, read the log, remove orphans | maintenance next to syncs | interruption between clone and configuration, deletion of a clone in progress | every admitted repository is ingested to its tip |
| Commit ingest (`sync/ingest.py`, `metrics/rollup.py`) | commits, cursor, deltas, rollups | insert commit, create identity (commits half-way), upsert deltas, move cursor | two repositories in parallel; merges and recomputes of the same persons | half-way commit, failure after it, stale person in a delta | rollups equal the commits; the cursor loses nothing |
| Pull requests (`sync/prsync.py`, `sync/api.py`) | `PullRequest`, `Review`, watermark `pr_synced_at` | page (GraphQL, REST), upsert, stop at the watermark, move it | shares the repository's session | lists that move while they are paged or break off, equal timestamps, fallback, half-way commits, merges before the recompute | no update is missed; credit follows identities |
| Identities (`identity/`, `web/routers/manage.py`) | identities, persons, suggestions, resolved addresses | resolve, score, scan, auto-merge, accept, dismiss, merge, split, attribute | rebuilds rollups; scans and people act on the same queue | long sessions over rows others change, merges in sequence | proofs are acted upon; decisions survive |
| Report queue (`reports/service.py`, `scheduler/jobs.py`, `mail/dispatch.py`) | `Report` row, PDF file | request, claim, render, write, commit, fail, requeue, e-mail | web files, worker drains, command line bypasses the queue | file and row are not one transaction, crash with a claim, mail before commit | each request is settled once; a document is there when offered |
| Period watcher (`scheduler/jobs.py`, `scheduler/periods.py`) | `JobLedger`, `ReportSchedule` | claim a period, generate, mail, settle | calls the report service and mail | three transactions, mails in between, only the last closed period is looked at | each period is reported, and once |
| Insight cache (`ai/insights.py`, `ai/client.py`) | `Insight` rows | key, look up, ask, store, invalidate, prune | pages one at a time, reports many in one transaction | settings and data that change between the key and the prompt, inserts that block each other | a cached text matches its context; something is always shown |
| Statistics, research, drill-down (`services/`) | none of their own | read-only queries; composed blocks | pages, reports and contexts | one filter forgotten in one of forty queries, weeks and halves at the edges of a period | every number can be traced, and the parts add up |
| Membership and person filters (`services/membership.py`, `models/org.py`) | members, allow and deny lists | refresh, match | statistics, suggestions | merges change who a listed person is | the same persons count everywhere |
| Metrics (`metrics/churn.py`, `significance.py`, `classify.py`) | none | pure functions | called by ingest | boundaries of windows | the documented definitions |
| Presentation (`web/`, `charts/`, `reports/builder.py`) | none | render | | | layout, left to tests |
| Transports and plumbing (`mail/graph.py`, `mail/smtp.py`, `db/`, `config.py`, `crypto.py`) | none | send, connect, migrate, encrypt | | | pure I/O |

The hazards, one per place in the code where one of these bites, are listed in
`PROJECT.json` with the properties that watch them.

## Modules

| Module | What it is |
|---|---|
| `OrgSync`, `MCOrgSync` | Org-level sync: runners, claim, tasks, degradation, crashes, admin edits |
| `SyncRequests` | the request document with its read-modify-write cycles |
| `SyncProofs` | the theorems of `OrgSync` and of `SyncRequests` |
| `Repositories`, `MCRepositories` | GitHub's repositories, discovery, filters, the clone cache, maintenance |
| `RepositoriesProofs` | its theorems |
| `Ingest`, `MCIngest` | ingest sessions, deltas, cursor, edits that rebuild rollups; two histories |
| `IngestProofs` | its theorems |
| `PrSync`, `MCPrSync` | listing by pages, upserts, watermark, recompute |
| `PrSyncProofs` | its theorems |
| `Suggestions`, `MCSuggestions` | persons, scoring, scans, the queue, decisions, attribution; two casts |
| `SuggestionsProofs` | its theorems |
| `ReportLifecycle` | the abstract promise of the report archive |
| `ReportQueue` | rows, files, generators, mailings; implements `ReportLifecycle` |
| `PeriodWatcher`, `MCPeriodWatcher` | the ledger of scheduled reports; periods of two and of three days |
| `ReportProofs` | the theorems of `ReportQueue`, the refinement among them, and of `PeriodWatcher` |
| `Statistics` | the query layer as operators over a database |
| `Research`, `MCResearch` | the blocks of a research, over a database that changes; extends `Statistics` |
| `ResearchProofs` | its theorems |
| `InsightCache`, `MCInsightCache` | pages and reports that ask for texts |
| `InsightCacheProofs` | its theorem |

How they compose: `OrgSync` has the outcome of a discovery and of a repository's
task, which `Repositories` opens up (names, clones, cursors); `Ingest` and `PrSync`
open up what a task does between its fetch and its commit. `Research` extends
`Statistics`, whose `MergeDeltas` and `ApplyDeltas` are the rollups that `Ingest` keeps
as one counter. `ReportQueue` implements `ReportLifecycle`, and `InsightCache` has
the texts of the reports it renders.

**What a step is.** A step is what the code does between two points at which
another process or coroutine can see or change its state: a transaction, or the
part of a coroutine between two awaits that matter. A short transaction that
loads a row and overwrites a column with a constant is one step: SQLAlchemy emits
an UPDATE only when the loaded value differs, so the pair behaves like a blind
write at the commit or like nothing at the load. Where a network call lies in
between (`update_token`, `revalidate`, `reports_email`) the load and the save are
two steps and the save uses the loaded value. Statements that would wait for a
row lock are not enabled until the lock is released.

### OrgSync

`status` is `Org.sync_status` ("unborn" and "removed" for the absence of the
row), `enabled` is `sync_enabled`. Each runner (the hourly job, the
manual-request job, `gca sync run`) has a `stage` in `sync_org`, the org `cur` it
syncs, the ids `todo` of its loop, its per-repository `task` states, its `stop`
event and whether persons are `affected`. `Claim` is the guarded UPDATE, and
`ClaimRaises` an exception of it, which no handler of `sync_org` catches: the job ends
with the orgs it had still to visit;
`Discover` ends with any set of included repositories or an error; `AcquireSlot`
is `_one` once it holds the semaphore, with its second look at the stop event;
`RepoSucceeds`, `RepoFails` and `RepoFatal` are the outcomes of `_sync_repo`;
`GatherReturns`, `Recompute`, `Attribute`, `Finish` and `MarkDegraded` are the
rest of `sync_org`, in its order (the rollups are rebuilt before a fatal error is
raised again). The session of `Finish` may raise too, and then degrades the org.
`LoadForEdit` with `UpdateToken`, `RevalidateOk`,
`RevalidateFails`, `UpdateTokenFails` are admin edits around their GitHub call;
`ResetStaleRuns` is the boot. The ghost `torn` marks an org whose claim a process
that does not hold it has overwritten.

A sync whose org was removed half-way goes on until a statement needs the row.
A fatal error in such a sync is masked: recording it violates a foreign key and
that IntegrityError takes its place, which is why `RepoFatal` needs the row.

### SyncRequests

`doc` is the settings row (whether it exists, and its keys). A web request reads
it (`ReadForRequest`); `set()` looks once more whether the row is there (`SetLooks`,
`found`); the commit writes what was read first with one key more (`FileRequest`), over
whatever the row holds by now if it was found, and loses the race to insert it
otherwise (`RequestRefused`). The job reads twice, writes what is new since its first
read (`Remaining`), commits, and gives the orgs it took their turns. The session's
identity map is weak, so every second read is a query. The ghosts: `owed`, orgs with a
request and no turn since; `lost`, those whose request a commit overwrote without
having read it; `dropped`, those whose request a run had cleared when it was cut off.

### Repositories

`name` is what each node is called on GitHub, `pushed` the number of its pushes;
`rows` are the `Repo` rows, `disk` the clone cache by name, `phase`, `listing`, `seen`
and `task` the sync. `CreateRepo`, `RenameRepo`, `DeleteRepo` and `Push` are GitHub,
whose redirects from old names end when a name is given out again (`Named`).
`ListRepos` and `Discover` are the two halves of `_discover`: the policy `seen` was
loaded before the listing, and `UpsertRow` looks names up as they were before the
walk; `Turn` is one pass of its loop, and `Walk` the table after each. A discovery may
fail before it has written a row (`ListingFails`) or, where it asks for the members, after:
then its rows are committed and no repository is synced. `BeginRepo`, `CloneEnds`,
`Configure`, `Fetch`, `CommitRepo` and `RepoFails` are `_sync_repo` under the semaphore; a clone that was killed before `Configure` has no
refspec, so `FetchWithoutRefspec` brings nothing. `RepoFilters` and `ToggleForks` are
the forms. `MaintenanceReads` and `MaintenanceRemoves` are the weekly job around its
awaits. The ghosts: `stale`, a filter was saved under a discovery; `reused`, GitHub
has given a name to a second repository; `clash`, a discovery broke on a unique key.

### Ingest

One counter per person and repository stands for the days and columns of
`person_repo_day_stats`. `BeginIngest` reads the cursor and the known commits;
`SkipKnown`, `InsertKnownAuthor` and `InsertNewAuthor` walk the branch. The last
one is `get_or_create_git_identity` with `commit_on_create`: identity and person
are inserted and the session is committed with the commits it has pending, but
without their deltas. The session caches the person each identity had when it
first loaded it. `ApplyDeltas` is the additive upsert, `ApplyToGone` its foreign
key failure when a merge has deleted the person, `CommitIngest` the commit with
the cursor. `IngestFails` is any error or crash before that. Edits
(`BeginMerge`, `BeginUnmerge`, `BeginRecompute`, then `CommitEdit`) delete the
rows of some persons and rebuild them from what their transaction sees, with the
row locks of both sides. The ghost `overlapped` tells that an edit and an ingest
have been open together.

### PrSync

`gh` is each pull request on GitHub (state and the second of its last update), `gone` the
accounts that are closed, `db` the stored facts, which of them have no author (`anon`),
the person of each identity (`owner`, 0 for none) and the watermark, `rollup` who is
credited with what, `sync` the session. A page is the set of the pull requests of low
`Rank` behind the cursor, newest update first, and what has been listed a set of records
that say which page had them, which gives the order of the walk (`Earlier`).

* *Listing.* `GraphqlPage` reads a page with the first reviews of each pull request
  (`FirstReviews`) and takes what is newer than the watermark; `GraphqlBreaksOff` is a page
  without its repository, which ends the list as if it were complete. `FallBackToRest`
  starts over by REST: `RestBatch` reads a page, then, each at an instant of its own,
  `RestReviewsAnswered` or `RestReviewsFail` the first reviews of each of its pull
  requests, then `RestPageDone`. An item by a closed account comes without an author.
* *Upserts.* `UpsertPull`, `UpsertReview` and `NextPull` walk the list. A login that is new
  commits the session half-way (`WithLogin`). The session notes the id of the person of
  the identity as it is then (`affected`; for an identity it has loaded before it may be
  the earlier person, `held`); an item without an author is stored without one and notes
  nobody. `CommitPulls` stores the newest update seen as the watermark.
* *Recompute* rebuilds the persons of the ids noted, `SyncFails` forgets them.
  `MergePersons` and `UnmergeIdentity` move identities, and rebuild both persons, at any
  time.

The ghosts: `tied` (in `gh`), updated in a second of which a listing had seen an update
already; `crowded`, a full page changed during one REST listing; `unread`, reviews
GitHub did not answer for; `missed`, pull requests a listing broken off did not come to;
`robbed` (of the sync) and `lost`, logins whose recompute failed with the sync, went to
the person they were of before, or was never asked for since their account is closed.

### Suggestions

`db` has the owner of each identity, the pending and dismissed pairs, the persons
somebody has named or put on the filter list. A view (`RawView`, `PruneSharedNames`)
is what the scoring knows of a person; `Certain` are the identity proofs,
`Heuristics` the other signals with their weights, in hundredths, `Missing` their
combination. `ScanReads` and `ScanEnds` are `suggest.generate` around its work: it
revalidates the queue, merges the proven pairs one after the other (`MergeAll`, a
recursive function over the pairs, with `Rank` choosing who stays) and queues the rest. `AttributionAsks`,
`AttributionEnds`, `SessionLost` and `Recheck` are `attribution.py` around its calls.
`AcceptSuggestion`, `ManualMerge`, `DismissSuggestion`, `Unmerge`, `Rename`,
`ListPerson` and `ToggleMembersOnly` are the handlers of the manage and org pages. One scan
is under way at a time.

### ReportLifecycle and ReportQueue

`ReportLifecycle` promises: a request becomes a document or a failure, once; a
document is never withdrawn; only documents are mailed. `ReportQueue` has the row
(`status`, `path`), the directory (`file`, by name: kind, start month and
second), the drain job, command-line generators whose row is invisible until
they commit, mailings, crashes and the boot that requeues. Under the refinement
mapping `Phases`, queued and generating are pending, and generated, emailed and
unsent are ready. `KeepsLifecycle` and `SettlesRequests` are the abstract
specifications as properties of the detailed one.

### PeriodWatcher

Days are counted from a day on which a period of every schedule begins; periods
have equal lengths. `Fire` reads the enabled schedules; for each one `Claim`
takes the ledger slot of the period that closed last unless it is done; `Render`,
`Deliver` and `CommitReports` are the transaction of the try block, with the mail
gone before its commit; `FinishDone` and `FinishFailed` settle the ledger in a
transaction of their own. `ReportsFail` is an error inside the try block,
`LedgerFails` one outside it, which ends the run for the schedules that are left.
`NextDay` fires the trigger only when the worker is up and idle: APScheduler keeps
nothing, so a missed day stays missed. The ghost `lost` holds the periods on
which a run died with mails or rows already out, `kept` the schedules nobody has
switched off.

### Statistics and Research

A database is a record of base tables (`facts`), identity owners, rollup rows,
included repositories and person filters. Each query of `services/stats.py`
(`PersonLeaderboard`, `RepoLeaderboard`, `Totals`, `Timeseries`, `WeeklyByEntity`,
`ActivitySpans`, ...), of the drill-downs, of ramp-up and of the insight contexts is an
operator over it, with the filters it applies and no others; each handler of
`services/research.py` is an operator over those. Numbers stay natural; shares are
pairs of numerator and denominator. `BlockOf` and `Valid` are `block_from_form` and
`validate_block`; `Presumed` is what the handlers take for granted. Facts are
ingested one by one, persons merged and split, repositories included and excluded,
filters edited, and the rollups kept as the code keeps them.

### InsightCache

A request is a page with one text or a report with one for each section and an
introduction, all in the report's transaction. What it has yet to give (`todo`) is a set
of insights, each with its `turn`: its place on the leaderboard (`board`), behind all of
which comes the introduction. A selection (`wanted`) keeps the order. `Compose`, `ReadConfig`
and `LookUp` read the data, the settings and the cache at three different times;
`Answers`, `FailsForNow` and `Refuses` are the endpoint's outcomes, two attempts at
most; `Insert` is `_store` with its savepoint, waiting for a transaction that has
inserted the same key; `DeadlockBroken` is PostgreSQL's choice among those that
wait for each other. `DataChanges`, `SaveAi`, `SaveInstructions` and `PruneStale` come in
between. A key is the record of what the code hashes, a text the record of what
its prompt told the model.

## Runs

All passing runs are exhaustive. Sizes are distinct states.

| Run | Instance | Shows |
|---|---|---|
| `OrgSync_claim` | one org, two repositories, semaphore 1, hourly job, a command-line sync that may be killed, one admin, one worker crash or claim that raises (519k) | `ExclusiveClaim`: unless the claim was torn, one runner per org and the row says so; `StopIsFinal`: no task starts after a fatal error; `FatalDegrades` |
| `OrgSync_live` | one org, one repository, all three runners, one crash, fair (26k) | `RunningHasRunner`: nothing says running without a runner; `SyncsRecur`: enabled orgs are synced again and again, and no sync lasts for ever |
| `SyncRequests` | two orgs, three requests, two crashes, fair (215k) | `NoSilentLoss`: a request not yet served is in the document or with the job, or was overwritten unread, or cleared by a run then cut off; `EveryRequestHasItsTurn`: each that was not lost so is served |
| `Repositories` | two nodes, one a fork, two names, semaphore 1, two events, fair (81k) | `FiltersHold`: what the policy rules out is not included, unless a discovery under way had loaded an older policy; `OnlyReuseConfuses`: renames keep row and history unless a name is given out twice; `KeepsUp`: admitted repositories are ingested to their tips, orphaned clones go |
| `Ingest` | two repositories, two authors, an editor, two edits, one failure, fair (39k) | `RollupSound`: exact without failures and overlaps, and short of an overlap never too much; `CursorCovered`; `EditsRepair`; `AllIngested` |
| `PrSync` | two pull requests, two reviews of one of them, pages of one (GraphQL), two (REST) and one review, two seconds, one upset (failure, listing broken off, closed account, merge or split), fair (596k) | `WatermarkCovers`: what the watermark has passed is stored, up to the exceptions it names; `RollupsFollow`: an identity's present person has the credit for what is stored as its, unless it was robbed of the recompute; `CatchesUp` |
| `Suggestions` | four identities of one human, five person ids, two edits, fair (107k) | `QueueSettles`: proofs are merged, stale pairs leave; `AttributionHappens`; `DecisionsKept` |
| `Suggestions_v_dismissed` | a cast in which two proofs meet in a third person | `DismissedNeverMerged` is violated (see below) |
| `ReportQueue` | three reports, one slot, two seconds, one crash, a command-line run and a mailing, fair (157k) | `RowsTellTheTruth`: a row in generating has the worker on it or a boot to come, a row that offers a document has one on disk; `KeepsLifecycle`: the refinement; `SettlesRequests` |
| `PeriodWatcher` | two schedules, days 6 to 9, two troubles (783k) | `OncePerPeriod`, `DoneIsArchived`, `EveryPeriodReported` |
| `Research` | three identities, three repositories, two orgs, up to five of six facts, one edit, two scopes (3.6k) | `NumbersTrace`: rollups, drill-downs, charts, standings, pairs and parts agree; `PeriodsCompose`; `ComposedBlocksCompute`; `MergesMoveNumbers` |
| `InsightCache` | a page and two reports over different leaderboards, two requests at a time, one change, one failure, fair (308k) | `CacheSound`: a text is shown only for what it was written about, and only reports with different leaderboards can block each other; `AlwaysRenders` |

**Why the bounds are enough.** Orgs do not interact in `OrgSync` except through
the runners' loops, so one org with the runners that can meet on it contains
every race for a claim; the proof covers any number. Two repositories with a
semaphore of one give a running task, a waiting one and a stop event set between
them. A second worker crash adds nothing to one followed by a boot, since the boot
leaves no worker state; a claim that raises counts as one.
In `Repositories` two nodes and two names give a rename, a
swap, a name given out twice, and a task that waits for the other's; two events
allow a filter edit during the listing followed by a crash, or a rename followed by
one. The history of `Ingest` has an author shared by both repositories and one who
is new in the middle of a branch, so the half-way commit happens with commits
pending; two edits allow a merge followed by an unmerge. In `PrSync` one pull request
fits a GraphQL page, so that a second page can move under the first; two seconds
allow an update in and after the second of the watermark; reviews by the other author,
who is new, are the half-way commit, and the second of them is past the page of
reviews. Each upset is looked at by itself; the proofs have any number.
The cast of `Suggestions` has a proof, a shared name, a shared local part and an
account to be found by address; two edits allow a dismissal followed by a merge.
Three reports allow one in each generator and one queued; two seconds allow names to
collide and to differ. Days 6 to 9 close two periods of two days and one of three;
two troubles are as many as the shorter period can fail to absorb. The facts of
`Research` fall before, on, between and after the edges of two periods that start
in the middle of a week of three days. Two requests are what a wait needs; two
reports in opposite order are what a deadlock needs. `CHECK_DEADLOCK FALSE` is set
because bounded inputs run out.

**Fairness.** `OrgSync`: the hourly trigger fires, a coroutine that can go on
does, and a dead worker is restarted (`restart: unless-stopped` in
`compose.yml`). Nothing obliges an admin, a manual request or a command-line run
to appear, and no fairness is given to failures. `SyncRequests`, `ReportQueue`:
their jobs fire every 30 and 15 seconds. `Repositories`: syncs recur and go on;
the weekly maintenance reads, and gets its turn between two syncs (strong fairness
for its removal, which a sync can put off but not for ever). `Ingest`: each hourly sync takes a
repository on, open transactions end. `PrSync`: the steps of a sync follow one
another. `Suggestions`: scans recur every two hours and attributions with every
sync, both end one way or the other, and days pass; nothing obliges a person to
decide anything. `InsightCache`: each request goes on. In all of them a network call
ends because the clients have timeouts. `PeriodWatcher` and `Research` state no
liveness: the days are bounded, and `EveryPeriodReported` says the same as a safety
property over the calendar; the queries answer at once.

## Proofs

Checked by `tlapm` for every value of the constants (any sets of orgs, runners,
repositories, requests, reports, schedules, authors, logins, facts, scopes; any number of crashes,
failures and edits), from the named assumptions on the constants. A theorem of
invariance takes the three usual steps: initially, inductively with one case per action,
and implied. The strengthenings were checked by TLC on the runs' instances first.

**`SyncProofs`**

* Of `OrgSync`, `TypeCorrect`: `TypeOK` is inductive; its last conjunct (a runner is in the middle of a
  sync exactly when it has an org) is what the next proof needs.
* `ClaimIsExclusive`, `Spec => []ExclusiveClaim`, inductive relative to the types. A
  claim needs a row that is not running; if the org is not torn and somebody is active
  on it, the row is running or removed, so nobody else can claim it. A write that moves
  the row away from running is made by the only active runner, which then leaves, or
  by somebody else, who then tears the org. Removal is final because ids are never
  reused. The ghost is cleared only with the last active runner.
* `StopStopsTasks`, `Spec => StopIsFinal`, and `FatalsDegrade`, `Spec => FatalDegrades`: action
  properties over all steps of all runners. `SyncInv` says where a runner can be whose stop
  event is set, or that has a task with a fatal error: past its tasks' start, and never at
  the steps that finish a sync in good order.
* `RunnersHold`: if no command-line process is killed half-way (`CliMayCrash` is FALSE, as in the
  run; with it the property is false, see below), `Spec => []RunningHasRunner`. A runner that
  leaves an org leaves another status, and the boot resets what a crashed worker has left.

* Of `SyncRequests`, `RequestsTypeCorrect`, with the facts the protocol rests on (the row exists once anybody has
  filed a request).
* `OnlyRacesAndCrashesLose`, `RequestsSpec => []NoSilentLoss`. Filing adds to the document it
  read first; clearing keeps `latest \ first` and takes `first`. A key is therefore gone only
  by a commit over a document that had changed since it was read, which `lost` records
  key by key, or with the orgs a run had still to serve when it was cut off (`dropped`).

**`RepositoriesProofs`**

* `TypeCorrect`: `TypeOK` with the unique keys of the table, and `TaskInv`, that a task in
  the middle of its work has the name of a directory. The walk of a discovery is
  a recursive function; its defining equation is proved by `WalkSteps` (over `UpTo`, an
  induction on sets of naturals), and `WalkInv` is then carried from turn to turn: rows are
  rewritten in place or added at the end, have no name or node twice as long as the walk
  has broken no key, and those it has seen are as the listing and its policy say.
* `FiltersObeyed`, `Spec => FiltersHold`: an invariant and an action property. A row's
  inclusion is decided by the policy the session had loaded, and `stale` records that it is
  no longer the saved one; what the discovery did not see it switches off, and what it
  saw has the node that GitHub listed under the row's name.
* `ReuseOnlyConfuses`, `Spec => []OnlyReuseConfuses`. As long as no name was given out
  twice, every name that has been used has one owner (`OwnerInv`): GitHub's repository of
  that name, the listing under way, the row and the tip of the clone under the name are
  the owner's, and a row's history is its node's. `WalkSound` carries that through a walk:
  a row keeps its node, so the dictionaries of before the walk never send a listed name
  to a row of another node, and no turn breaks a key.

**`IngestProofs`**

* `TypeCorrect`: `SessionsInv` says what a session knows, has cached and has added (at most
  as much as it has walked), and `EditsInv` what an edit under way has read and means to move;
  an edit's target exists, and the next person's id is new.
* `CursorIsCovered`, `Spec => []CursorCovered`. The strengthening says of every session what it
  has walked (`Walked`): the positions up to its own are stored or pending, those it
  skips were stored when it began and stay so, and it writes its deltas only at the end of
  its walk. The half-way commit moves positions from pending to stored, a failure forgets
  the session, and only the final commit, whose position is the tip it fetched,
  moves the cursor.
* `RollupsSound`, `Spec => []RollupSound`, and `EditsDoRepair`, `Spec => EditsRepair`. What is stored has
  an identity (`OwnedInv`). Short of an overlap (`AccountInv`) either nobody ingests or nobody
  edits, a session's cache agrees with the owners, a rollup has at most the commits it
  should know of (those stored, or during a session those known when it began) and exactly
  those as long as no ingest has failed, a session's deltas are the commits it has walked,
  and an edit has counted what its persons will own.

**`PrSyncProofs`**

* `TypeCorrect`: the types, and the integrity of what is committed, half-way commits
  included: no review without its pull request, one row of each, and an identity for the
  author of every row that has one. `GitHubInv`, `GotInv` and `PhaseInv` bound what is listed, in
  what order, and what a session may hold.
* `RollupsHold`, `Spec => []RollupsFollow`. `RollupInv`: a login whose person's credit disagrees
  with what is stored as the login's is among those the session has committed something
  of, or it is `lost`. Of each of the former, the id its identity has by now is among those
  noted, or a merge, a split or a row without its author has made it `robbed`. A recompute
  deletes and derives the rows of the ids it is given and touches no others
  (`RebuildsExactly`), and so does a merge or split for both its persons.
* `WatermarkHolds`, `Spec => []WatermarkCovers`. `WaterInv` follows every pull request whose last
  update fell in a second no listing had seen an update of: it is listed and waiting (`Awaited`),
  or stored in the session (`Done`), or behind the cursor, or newer than everything
  listed (`Ahead`), which the new watermark will not pass. By REST the place of the cursor
  is taken by its rank: fewer pull requests than a page holds have moved to the front,
  so none has slipped from a page to come to one already read (`RankGrows`, `LowRanks` and
  `FullPage` count pages by cardinality). Reviews read after their page belong to an update
  that is listed or ahead. What a listing broken off did not come to is `missed` from then
  on, until it is updated or listed. When the list is worked off nothing is awaited,
  and the newest update listed may become the watermark.

**`ReportProofs`**

* Of `ReportQueue`, `TypeCorrect`; `RowsAreTruthful`, `Spec => []RowsTellTheTruth`; and `QueueKeepsLifecycle`,
  `Spec => KeepsLifecycle`, the refinement. `QueueInv` adds to the types that a row in generating has
  its owner (`GeneratingIsOwned`), that what a row offers is on disk (`PdfOnDisk`), that the
  worker holds the row it claimed and each command line the id the sequence gave it
  alone (`WorkerHoldsRow`, `CliHoldsId`, `CliIdsDiffer`), that what a generator has written is
  there (`WrittenIsThere`), and that a mailing has a document (`MailHasDocument`). Without
  the holders a commit could settle a request a second time, which the abstract step
  does not allow. Each action then maps to one promised step or to a stutter.
* Of `PeriodWatcher`, `WatcherTypeCorrect`; `DoneMeansArchived`, `WatcherSpec => []DoneIsArchived`, by the fact that a run past its
  commit has an archived report; `ReportedOnce`, `WatcherSpec => []OncePerPeriod`, by `UntouchedUntilDone`: a
  period that no run died on after its mails had left, that is not done, and that no
  run is exposed on has neither report nor mail.
* `PeriodsReported`, `WatcherSpec => []EveryPeriodReported`. `DaysCharged`: while a period of a kept
  schedule has closed and is not done, every day since its closing day has been charged
  with a trouble, or the run of today is still to come to it (`Pending`). When the next
  one closes, the days charged are as many as the period has, against what the property
  assumes. It speaks of periods that close within the model's days: one that had closed
  before has lost days nobody counted.

**`ResearchProofs`**

* What the rollups hold: `Sound` has the database typed and its rows equal to the rows that its
  facts and owners call for. `StepSound` carries it through every step (`AlwaysSound`): an ingest adds the new
  facts' deltas (`IngestRebuilds`), and a merge or a split rebuilds the persons it touched and
  leaves all others' rows alone (`RecomputeRebuilds`, `MergeSound`, `SplitSound`). `RowsAre` says what
  a row is: per key and metric, the sum of the entries that have its key.
* `BlocksCompute`, `Spec => []ComposedBlocksCompute`: what `validate_block` lets through is what the
  handlers presume (`ValidPresumed`), and what a composer offers is counted (`CountedOffered`).
* `CutsLoseNothing`, `Spec => []PeriodsCompose`: for a handoff and for the movers the two periods'
  rows part those of the whole (`HandoffAddsUp`, `MoversAddUp`), and nobody joins or leaves in both (`JoinOnce`).
* `NumbersMoveOnly`, `Spec => MergesMoveNumbers`: the `Worth` of rows is that of the facts behind them
  (`WorthEntries`), so rows under other owners that have the same facts are worth the same
  (`SameWorth`): a merge or a split moves numbers between persons and makes or loses none.
* `NumbersTraced`, `Spec => []NumbersTrace`. Each number a block shows is the `Worth` of some rows: those of a
  person, a repository, a pair, a group or a week. Rows that part others have worths that add up to
  theirs (`WorthSplit`, `GroupWorth`), and the weeks of a chart part its period (`WeekOfDay`,
  `WeeksHold`, `ChartSum`). Counts agree with the drill-downs because each fact of the kind adds one to
  the row of its key (`FactCount`, `DrilledDown`). A row is only there if somebody did
  something (`RowsCount`), so one who is on no chart has no span either. `Places` is what sorting gives a
  standing; `BandsAddUp`, `ChangesAddUp` and `BarsAreDrawn` are about the parts a chart is cut in.

**`InsightCacheProofs`**

* `CacheStaysSound`, `Spec => []CacheSound`. `Fits` says of one request that what it asks is what its
  turn is for and that what it has inserted or shown is text about what was asked, `Apart` that
  what one has inserted is neither committed nor another's, `Orderly` that what a request has
  inserted was due before anything it has yet to give. The last is the argument that
  requests over one leaderboard do not block each other: in a group of them that wait
  for one another take the one whose turn is furthest (`Greatest`). It waits for a row
  that another member has inserted and is therefore past, so that one has come
  further, a contradiction. `ReportsAssumption` has nobody twice on a leaderboard, which is
  grouped by person or repository.

**`SuggestionsProofs`**

* `TypeCorrect`, `Spec => []TypeOK`. Besides types, `TypeOK` has the integrity of the tables
  (`Consistent`: persons have ids the sequence has given out, suggestions and filter entries are about
  persons there are) and that a scan's views have one entry per person. A scan merges the proven pairs
  one after the other, and an attribution works through addresses and, for each, through persons: both are
  functions defined step by step, whose equations `Recursion` proves for any such
  definition and whose invariants `Throughout` carries from step to step. `Progress` is what a
  scan keeps from merge to merge: the tables are consistent, nobody is new, and each person it
  has seen stands for one of them; `RanksDiffer` has the ranks of two views differ, so
  that a survivor is determined. `Attributed` is the same for an attribution; for the
  persons it creates there are ids left (`RoomForUnseen`), since there are at least
  as many ids to come as identities without a person.
* `DecisionsAreKept`, `Spec => DecisionsKept`. `Follows` compares the tables of a step's beginning with
  those it has come to, with any number of merges, attributions and new persons in between: nobody
  returns, whoever is still there keeps its identities, a pair that is no longer
  dismissed has lost one of its persons or has one that absorbed another, and the identities of
  somebody on a filter list belong to somebody on it. Each single merge and each new
  person keeps it (`MergeFollows`, `OwnPersonFollows`), so what a whole scan or attribution leaves
  is as the property says (`FollowingRespects`). The only exception is a pair the scan had
  read while it was pending; a split is the one case in which an identity leaves the list.

Where a proof needs an induction (`UpTo`, `Least`, `Greatest`, `SomeNewest`, `OverSubsets`), it is
stated about a set and rests on the well-foundedness of strict inclusion on finite sets,
since the library's induction rules take operators. That is also how the sums of `Statistics`,
folds over sets of facts, came into reach: `AddsExists` has the fold exist on every finite set,
`SumStep` that the order does not matter, and the proofs then use `SumSplit`,
`SumGroups` and `SumZero`.

**Model-checked only**

Every invariant and every action property of a passing run is a theorem. With TLC stays every
liveness property, and with them the fairness: `SyncsRecur`, `EveryRequestHasItsTurn`, `KeepsUp`,
`AllIngested`, `CatchesUp`, `QueueSettles`, `AttributionHappens`, `SettlesRequests`, `AlwaysRenders`.
Liveness, like `ENABLED`, is outside the prover's reach. `RunningHasRunner` is proved under
the hypothesis named above, without which it is false.

## Where the code and its text disagree

`Suggestions_v_dismissed` shows one disagreement step by step: a scan merges the proven
pairs one after the other. Where A and B, and B and C, each share a proof, all
three become one person, although A and C may be a pair somebody has dismissed; the
dismissed suggestion is deleted on the way (`identity/merge.py:57`).
`identity/suggest.py:308-309` says "Dismissed suggestions are never resurrected, never
deleted and never auto-merged." The quotation is in `PROJECT.json`.

The properties of the passing runs state exactly what the others leave of the
promise; they were met while modelling:

* **Two runners on one org.** A token update, a revalidation or a boot writes the
  status without holding the claim; `ExclusiveClaim` excepts an org whose claim was torn
  that way.
* **A killed `gca sync run` stops an org's syncs** until the worker boots: the row
  stays running and `sync_all_orgs` skips it.
* **A request filed between the re-read and the write is lost** (`NoSilentLoss`), two
  "Sync now" requests may drop one another, and requests are cleared before they are
  served, so a worker that stops in between drops them.
* **Commits of a half-committed ingest never reach the rollups** unless an edit
  rebuilds their author; nor does what a merge moved under a session
  (`docs/metrics.md:112`). `RollupSound` says when rollups are exact.
* **Recomputes of two orgs' syncs may overlap**, and the ingest of one org with the
  recompute of another: "every repo task" of `sync/orchestrator.py:271-272` ("so
  concurrent recomputes can never race each other or the ingests") is every task of
  that org's sync.
* **Two reports of one kind, month and second share a file**; the earlier row then
  serves the later document.
* **A period may be reported twice**: its mails leave before the ledger says done.
* **An update within a second already seen is not listed again**, whereas
  `sync/api.py:6-7` says late changes are always picked up; a REST request for
  reviews that does not answer 200 counts as "no reviews" for good; and reviews past
  the first hundred of a pull request are never seen (`sync/api.py:167`, `586-593`).
* **A GraphQL page without its repository ends the list as if it were complete**
  (`sync/api.py:515-517`; `graphql()` raises for some kinds of error only). The list is
  newest first, so the watermark passes the older updates for good (`missed`).
* **Rollups of pull requests and reviews may go stale without a failure**: a merge or split
  moves an identity after its person's id was noted (`sync/prsync.py:38`, `93`), and a pull
  request whose author's account is closed loses its author with nobody recomputed
  (`sync/prsync.py:29-30`, `59`). `RollupsFollow` excepts exactly these logins (`lost`).
* **An interrupted clone** stays on disk without its fetch refspec and keeps its
  repository where it is until somebody deletes it (`docs/deployment.md:110` has the
  worker clone again only what is lost); `KeepsUp` excepts it by `Frozen`.
* **A filter saved while a discovery waits for GitHub is undone** by that
  discovery and applied again by the next (`FiltersHold`, `stale`).
* **A split identity may be merged again by the next scan** if it still shares a
  proof, whereas `docs/configuration.md:103-104` has every automatic merge
  "reversible identity by identity through the split action".
* **A report may fail on a deadlock of the insight cache** when two reports over
  different repositories insert the same keys in different orders; only
  `IntegrityError` is caught, whereas `docs/configuration.md:169` has every area
  always render.
* **`previous_range` of a period leaves a day between the two**
  (`services/insight_context.py:29-33`), so the trend compares windows that do not meet.
* **Not every number applies the person filters**: `totals().active_repos`, the
  review graph and the drill-downs do not, whereas `services/stats.py:4-5` says they
  "are always applied". `NumbersTrace` compares them where no filter touches a person.
* The blocks of a research are edited by index in one stored list without a lock,
  and several settings documents are read, changed and rewritten like the request
  document.

## Not modelled

* **Churn, significance and classification**: pure functions of one commit and its
  files' history, with floating-point scores; their unit tests enumerate the cases.
  In the models the size of a commit is data.
* **Calendar arithmetic**: `PeriodWatcher` has periods of equal length, `Research` days
  and weeks as integers; months, ISO weeks, time zones and all-time periods are left to
  the unit tests. So are rounding, correlation coefficients, entropies and the wording of
  every block.
* **The HTTP clients' retries and back-off** (a call answers, fails for now or fails),
  and the parsing of git's log. In `Repositories`, disk quotas and repacking, which change nothing that
  another step reads.
* **`prune_orphans` next to another org's ingest** and **the savepoint race of two
  sessions that create one identity**: the first needs two orgs' sessions over one set
  of identities, the second is one step here because the loser reads the winner's
  row. **Two scans for suggestions at once** (the worker's, the manage page's and the
  command line's do not exclude each other): edits by hand under a scan are modelled,
  another scan's merges and new rows are not. The pool of database connections is SQLAlchemy's. A database that fails
  twice in a row (while an error is being recorded) is outside the models.
* In `OrgSync` the text of `sync_error`, `SyncRun` rows and members are
  abstracted. The branch of `sync_org` for an org without credentials is left out:
  `add_org` always stores one. The second look at the claimed report in
  `process_report_queue` cannot find anything with a single worker.
* **Presentation, transports, configuration, migrations, encryption**: rendering without
  state, and I/O whose outcomes appear in the models that call it.

## Plan

Done: `OrgSync`, `SyncRequests`, `Repositories`, `Ingest`, `PrSync`, `Suggestions`,
`ReportLifecycle` and `ReportQueue`, `PeriodWatcher`, `Statistics` and `Research`,
`InsightCache`; the proofs above. What is left, in this order:

1. `Resolver`: two orgs' sessions and `prune_orphans` over one set of identities.
2. `Periods` (months as `12 * y + m`): consecutive periods meet, and the previous one
   is the previous one; then the calendar in `PeriodWatcher`.
3. `Churn` and `Significance` in integers, against reference definitions over bounded
   histories.
