---------------------------- MODULE Repositories ----------------------------
(* The repositories of one organization: what a sync's discovery makes of   *)
(* GitHub's listing, the clone cache each repository's task reads its       *)
(* history from, and the weekly maintenance that removes clones.            *)
(*                                                                          *)
(* GitHub's repositories are nodes that change their names.  A branch is    *)
(* its number of pushes; a clone is where its branch stands and the nodes   *)
(* whose commits are in its object store.  Pages of one listing are read at *)
(* one instant, git's own retries are part of the step they retry.          *)
EXTENDS Naturals, Sequences, FiniteSets

CONSTANTS
    Nodes,      \* GitHub's repositories by node id
    Forks,      \* those that are forks
    MaxName,    \* names are 1..MaxName, in GitHub's order
    Initially,  \* the names GitHub may have given out at first
    Filters,    \* what the filter form may post: a mode and names
    Concurrency,\* tasks of one sync in flight at a time
    MaxEvents,  \* bound on what the code does not control: GitHub's changes,
                \* filter edits, failures, crashes, removals during a sync
    NoNode

ASSUME ForksAssumption == Forks \subseteq Nodes
ASSUME InitiallyAssumption ==
    /\ Initially \subseteq [Nodes -> 0..MaxName]
    /\ \A f \in Initially, n, m \in Nodes : f[n] = f[m] => n = m \/ f[n] = 0
ASSUME FiltersAssumption ==
    Filters \subseteq [mode : {"all", "whitelist", "blacklist"}, listed : SUBSET (1..MaxName)]
ASSUME NoNodeAssumption == NoNode \notin Nodes
ASSUME RepositoriesBounds ==
    MaxName \in Nat /\ Concurrency \in Nat \ {0} /\ MaxEvents \in Nat

Names == 1..MaxName
NoName == 0     \* of a node that does not exist, yet or any more

VARIABLES
    name,     \* GitHub: the name of each node
    pushed,   \* GitHub: the pushes to each node's branch, 0 before it exists
    usedNames,\* ghost: names some repository has had
    reused,   \* ghost: some name has been given to a second repository
    policy,   \* Org.repo_filter_mode, Org.ignore_forks and the RepoFilter rows
    rows,     \* the Repo rows, by id
    disk,     \* the clone directories, by name
    phase,    \* the sync: "idle", "listing", "discover" or "repos"
    seen,     \* the policy of the org row the sync has loaded
    listing,  \* what list_repos returned: the node of each name
    task,     \* _sync_repo of each row
    maint,    \* maintenance: the directories it expects, once it has read them
    stale,    \* ghost: the last discovery went by a policy edited meanwhile
    clash,    \* ghost: the last discovery broke a unique key
    events    \* how many of them there have been

ghVars == <<name, pushed, usedNames, reused>>
dbVars == <<policy, rows>>
syncVars == <<phase, seen, listing, task>>
ghosts == <<stale, clash>>
vars == <<ghVars, dbVars, disk, syncVars, maint, ghosts, events>>

Modes == {"all", "whitelist", "blacklist"}
NoTip == <<NoNode, 0>>
NoDir == [at |-> "none", tip |-> NoTip, has |-> {}]
NoListing == [m \in Names |-> NoNode]
NoPolicy == [mode |-> "all", forks |-> FALSE]
NoTask == [at |-> "none", name |-> NoName, cursor |-> NoTip]
NoMaint == [on |-> FALSE, expected |-> {}]
Event == events < MaxEvents /\ events' = events + 1
Exists(n) == name[n] # NoName
NodeNamed(m) == IF \E n \in Nodes : name[n] = m
                THEN CHOOSE n \in Nodes : name[n] = m ELSE NoNode

Tips == {NoTip} \cup (Nodes \X Nat)
Rows == [name : Names, node : Nodes, included : BOOLEAN,
         clone : {"pending", "ready", "error"}, cursor : Tips, hist : SUBSET Nodes]
Dirs == [at : {"none", "cloning", "raw", "ok"}, tip : Tips, has : SUBSET Nodes]
Tasks == [at : {"none", "waiting", "cloning", "configure", "fetch", "log"},
          name : Names \cup {NoName}, cursor : Tips]

(* The unique keys of the repos table.                                     *)
Unique(table) ==
    \A i, j \in DOMAIN table : i # j =>
        table[i].name # table[j].name /\ table[i].node # table[j].node

TypeOK ==
    /\ name \in [Nodes -> Names \cup {NoName}]
    /\ pushed \in [Nodes -> Nat]
    /\ usedNames \subseteq Names /\ reused \in BOOLEAN
    /\ policy \in [mode : Modes, forks : BOOLEAN, listed : SUBSET Names]
    /\ rows \in Seq(Rows) /\ Unique(rows)
    /\ disk \in [Names -> Dirs]
    /\ phase \in {"idle", "listing", "discover", "repos"}
    /\ seen \in [mode : Modes, forks : BOOLEAN]
    /\ listing \in [Names -> Nodes \cup {NoNode}]
    /\ task \in [DOMAIN rows -> Tasks]
    /\ maint \in [on : BOOLEAN, expected : SUBSET Names]
    /\ stale \in BOOLEAN /\ clash \in BOOLEAN
    /\ events \in 0..MaxEvents

Init ==
    /\ name \in Initially
    /\ pushed = [n \in Nodes |-> IF Exists(n) THEN 1 ELSE 0]
    /\ usedNames = {name[n] : n \in {m \in Nodes : Exists(m)}} /\ reused = FALSE
    /\ policy = [mode |-> "all", forks |-> FALSE, listed |-> {}]
    /\ rows = <<>> /\ task = <<>>
    /\ disk = [m \in Names |-> NoDir]
    /\ phase = "idle" /\ seen = NoPolicy
    /\ listing = NoListing
    /\ maint = NoMaint
    /\ stale = FALSE /\ clash = FALSE
    /\ events = 0

----------------------------------------------------------------------------
(* GitHub.                                                                 *)
Named(n, m) ==
    /\ NodeNamed(m) = NoNode
    /\ Event
    /\ name' = [name EXCEPT ![n] = m]
    /\ usedNames' = usedNames \cup {m}
    /\ reused' = (reused \/ m \in usedNames)
    /\ UNCHANGED <<dbVars, disk, syncVars, maint, ghosts>>

CreateRepo(n, m) ==
    /\ pushed[n] = 0
    /\ Named(n, m)
    /\ pushed' = [pushed EXCEPT ![n] = 1]

RenameRepo(n, m) ==
    /\ Exists(n)
    /\ Named(n, m)
    /\ UNCHANGED pushed

DeleteRepo(n) ==
    /\ Exists(n)
    /\ Event
    /\ name' = [name EXCEPT ![n] = NoName]
    /\ UNCHANGED <<pushed, usedNames, reused, dbVars, disk, syncVars, maint, ghosts>>

Push(n) ==
    /\ Exists(n)
    /\ Event
    /\ pushed' = [pushed EXCEPT ![n] = @ + 1]
    /\ UNCHANGED <<name, usedNames, reused, dbVars, disk, syncVars, maint, ghosts>>

----------------------------------------------------------------------------
(* Filters.                                                                *)

(* _repo_included *)
RepoIncluded(m, mode, listed, isFork, ignoreForks) ==
    /\ ~(ignoreForks /\ isFork)
    /\ mode = "whitelist" => m \in listed
    /\ mode = "blacklist" => m \notin listed

(* _apply_repo_inclusion: every row of the org, those GitHub no longer     *)
(* lists among them.                                                       *)
ApplyInclusion(p) ==
    rows' = [i \in DOMAIN rows |-> [rows[i] EXCEPT !.included =
        RepoIncluded(rows[i].name, p.mode, p.listed, rows[i].node \in Forks, p.forks)]]

SavePolicy(p) ==
    /\ Event
    /\ policy' = p
    /\ ApplyInclusion(p)
    /\ stale' = FALSE
    /\ UNCHANGED <<ghVars, disk, syncVars, maint, clash>>

(* orgs_repo_filters: names are picked among the known repositories.       *)
RepoFilters ==
    \E f \in Filters :
        /\ f.listed \subseteq {rows[i].name : i \in DOMAIN rows}
        /\ SavePolicy([policy EXCEPT !.mode = f.mode, !.listed = f.listed])

ToggleForks == SavePolicy([policy EXCEPT !.forks = ~@])

----------------------------------------------------------------------------
(* Discovery.                                                              *)

(* sync_org holds the claim and loads the org row for its session.         *)
BeginSync ==
    /\ phase = "idle"
    /\ phase' = "listing"
    /\ seen' = [mode |-> policy.mode, forks |-> policy.forks]
    /\ UNCHANGED <<ghVars, dbVars, disk, listing, task, maint, ghosts, events>>

ListRepos ==
    /\ phase = "listing"
    /\ phase' = "discover"
    /\ listing' = [m \in Names |-> NodeNamed(m)]
    /\ UNCHANGED <<ghVars, dbVars, disk, seen, task, maint, ghosts, events>>

(* A request of the discovery session fails before _discover has flushed a *)
(* row: nothing is committed but the run row.                              *)
ListingFails ==
    /\ phase = "listing"
    /\ Event
    /\ phase' = "idle" /\ seen' = NoPolicy
    /\ UNCHANGED <<ghVars, dbVars, disk, listing, task, maint, ghosts>>

(* The dictionaries built before the loop: a row's place in them is that   *)
(* of the committed rows, whatever the loop has made of it since.          *)
ById(S) == IF S = {} THEN 0 ELSE CHOOSE i \in S : TRUE
ByNode(n) == ById({i \in DOMAIN rows : rows[i].node = n})
ByName(m) == ById({i \in DOMAIN rows : rows[i].name = m})

(* Mutant: the node id is not looked up, every rename is a new repository. *)
KnownRowByName(m, n) == ByName(m)

KnownRow(m, n) == IF ByNode(n) # 0 THEN ByNode(n) ELSE ByName(m)

(* Mutant: the unique keys are not looked at.                              *)
UpsertRowUnchecked(acc, m, n) ==
    LET known == KnownRow(m, n)
        i == IF known = 0 THEN Len(acc.rows) + 1 ELSE known
        row == [name |-> m, node |-> n,
                included |-> RepoIncluded(m, seen.mode, policy.listed, n \in Forks,
                                          seen.forks),
                clone |-> "pending", cursor |-> NoTip, hist |-> {}]
    IN  [acc EXCEPT !.rows = [j \in 1..Len(acc.rows) \cup {i} |->
                                 IF j = i THEN row ELSE acc.rows[j]],
                    !.seen = @ \cup {i}]

(* One turn of the loop, with its flush: acc is the session's rows, the    *)
(* ids it has seen, and whether a unique key has been broken.              *)
UpsertRow(acc, m, n) ==
    LET known == KnownRow(m, n)
        i == IF known = 0 THEN Len(acc.rows) + 1 ELSE known
        included == RepoIncluded(m, seen.mode, policy.listed, n \in Forks, seen.forks)
        old == acc.rows[i]
        row == IF known = 0
               THEN [name |-> m, node |-> n, included |-> included,
                     clone |-> "pending", cursor |-> NoTip, hist |-> {}]
               ELSE [old EXCEPT !.name = m, !.node = n, !.included = included,
                                !.clone = IF old.name = m THEN @ ELSE "pending"]
    IN  [rows |-> [j \in 1..Len(acc.rows) \cup {i} |->
                      IF j = i THEN row ELSE acc.rows[j]],
         seen |-> acc.seen \cup {i},
         ok |-> acc.ok /\ \A j \in DOMAIN acc.rows :
                   j # i => acc.rows[j].name # m /\ acc.rows[j].node # n]

(* The listing, name by name; a broken key ends the walk.                  *)
Turn(acc, m) ==
    IF listing[m] = NoNode \/ ~acc.ok THEN acc ELSE UpsertRow(acc, m, listing[m])
Walk[k \in 0..MaxName] ==
    IF k = 0 THEN [rows |-> rows, seen |-> {}, ok |-> TRUE] ELSE Turn(Walk[k-1], k)

(* Mutant: repositories that are gone stay included.                       *)
WithoutGoneNone(acc) == acc.rows

(* Repositories gone from GitHub stop syncing.                             *)
WithoutGone(acc) ==
    [i \in DOMAIN acc.rows |->
        [acc.rows[i] EXCEPT !.included = @ /\ i \in acc.seen]]

(* _discover, and the commit of its session.  Where only members count,    *)
(* org_members is asked after the rows were flushed: its failure degrades  *)
(* the org, and the rows are committed nonetheless.  A broken unique key   *)
(* rolls the session back and degrades the org.                            *)
Discover ==
    /\ phase = "discover"
    /\ LET end == Walk[MaxName]
           known == WithoutGone(end)
       IN  IF end.ok
           THEN /\ rows' = known
                /\ \/ /\ phase' = "repos"
                      /\ task' = [i \in DOMAIN known |->
                            IF known[i].included THEN [NoTask EXCEPT !.at = "waiting"]
                            ELSE NoTask]
                      /\ UNCHANGED events
                   \/ /\ Event
                      /\ phase' = "idle"
                      /\ task' = [i \in DOMAIN known |-> NoTask]
                /\ stale' = (seen # [mode |-> policy.mode, forks |-> policy.forks])
                /\ clash' = FALSE
           ELSE /\ phase' = "idle"
                /\ clash' = TRUE
                /\ UNCHANGED <<rows, task, stale, events>>
    /\ seen' = NoPolicy /\ listing' = NoListing
    /\ UNCHANGED <<ghVars, policy, disk, maint>>

----------------------------------------------------------------------------
(* _sync_repo and the clone of its repository.                             *)

TaskAt(i, at) == phase = "repos" /\ task[i].at = at
Goto(i, at) == task' = [task EXCEPT ![i].at = at]
Dir(i) == disk[task[i].name]

(* GitMirror.exists: HEAD is there from the first moment of a clone.       *)
DirExists(m) == disk[m].at # "none"

(* The repository GitHub serves for a name: the one that has it, or else a  *)
(* renamed one it redirects to.                                            *)
Served(i) ==
    IF NodeNamed(task[i].name) # NoNode THEN NodeNamed(task[i].name)
    ELSE IF task[i].name \in usedNames /\ Exists(rows[i].node)
         THEN rows[i].node ELSE NoNode

(* The semaphore has room.                                                 *)
FreeSlot ==
    Cardinality({i \in DOMAIN task : task[i].at \notin {"none", "waiting"}}) < Concurrency

(* The row is read, and the fetch or the clone begins: git clone --bare    *)
(* makes the directory first and its branches last.                        *)
BeginRepo(i) ==
    /\ TaskAt(i, "waiting") /\ FreeSlot
    /\ task' = [task EXCEPT ![i] =
          [at |-> IF DirExists(rows[i].name) THEN "fetch" ELSE "cloning",
           name |-> rows[i].name, cursor |-> rows[i].cursor]]
    /\ disk' = [disk EXCEPT ![rows[i].name] =
          IF DirExists(rows[i].name) THEN @ ELSE [NoDir EXCEPT !.at = "cloning"]]
    /\ UNCHANGED <<ghVars, dbVars, phase, seen, listing, maint, ghosts, events>>

CloneEnds(i) ==
    /\ TaskAt(i, "cloning")
    /\ Dir(i).at = "cloning"
    /\ Served(i) # NoNode
    /\ disk' = [disk EXCEPT ![task[i].name] =
          [at |-> "raw", tip |-> <<Served(i), pushed[Served(i)]>>, has |-> {Served(i)}]]
    /\ Goto(i, "configure")
    /\ UNCHANGED <<ghVars, dbVars, phase, seen, listing, maint, ghosts, events>>

(* git config remote.origin.fetch                                          *)
Configure(i) ==
    /\ TaskAt(i, "configure")
    /\ Dir(i).at = "raw"
    /\ disk' = [disk EXCEPT ![task[i].name].at = "ok"]
    /\ Goto(i, "log")
    /\ UNCHANGED <<ghVars, dbVars, phase, seen, listing, maint, ghosts, events>>

(* Mutant: the branches never move.                                        *)
FetchWithoutRefspec(i) ==
    /\ TaskAt(i, "fetch") /\ DirExists(task[i].name) /\ Served(i) # NoNode
    /\ Goto(i, "log")
    /\ UNCHANGED <<ghVars, dbVars, disk, phase, seen, listing, maint, ghosts, events>>

(* git fetch origin --prune: without the refspec of Configure it leaves    *)
(* the branches as they are.                                               *)
Fetch(i) ==
    /\ TaskAt(i, "fetch")
    /\ DirExists(task[i].name)
    /\ Served(i) # NoNode
    /\ disk' = [disk EXCEPT ![task[i].name] =
          IF Dir(i).at # "ok" THEN Dir(i)
          ELSE [Dir(i) EXCEPT !.tip = <<Served(i), pushed[Served(i)]>>,
                              !.has = Dir(i).has \cup {Served(i)}]]
    /\ Goto(i, "log")
    /\ UNCHANGED <<ghVars, dbVars, phase, seen, listing, maint, ghosts, events>>

(* git log last_ingested_oid.. needs that commit in the object store.      *)
LogReadable(i) ==
    \/ Dir(i).tip \in {NoTip, task[i].cursor}
    \/ task[i].cursor = NoTip
    \/ task[i].cursor[1] \in Dir(i).has

(* branch_tip, log_numstat, ingest_repo and the commit of the task.        *)
CommitRepo(i) ==
    /\ TaskAt(i, "log")
    /\ DirExists(task[i].name)
    /\ LogReadable(i)
    /\ LET tip == Dir(i).tip
           new == tip \notin {NoTip, task[i].cursor}
       IN  rows' = [rows EXCEPT ![i].clone = "ready",
                                ![i].cursor = IF new THEN tip ELSE @,
                                ![i].hist = IF new THEN @ \cup {tip[1]} ELSE @]
    /\ task' = [task EXCEPT ![i] = NoTask]
    /\ UNCHANGED <<ghVars, policy, disk, phase, seen, listing, maint, ghosts, events>>

(* The task ends in an error: _record_repo_error; git removes the          *)
(* directory of a clone that fails.                                        *)
RepoError(i, cloneFailure) ==
    /\ rows' = [rows EXCEPT ![i].clone = IF cloneFailure THEN "error" ELSE @]
    /\ disk' = [disk EXCEPT ![task[i].name] =
          IF task[i].at = "cloning" THEN NoDir ELSE @]
    /\ task' = [task EXCEPT ![i] = NoTask]
    /\ UNCHANGED <<ghVars, policy, phase, seen, listing, maint, ghosts>>

(* What cannot succeed: the directory is gone, GitHub does not serve the   *)
(* repository, or the clone lacks the commit the row was ingested up to.   *)
RepoImpossible(i) ==
    /\ \/ TaskAt(i, "cloning") /\ (Dir(i).at # "cloning" \/ Served(i) = NoNode)
       \/ TaskAt(i, "configure") /\ Dir(i).at # "raw"
       \/ TaskAt(i, "fetch") /\ (~DirExists(task[i].name) \/ Served(i) = NoNode)
       \/ TaskAt(i, "log") /\ (~DirExists(task[i].name) \/ ~LogReadable(i))
    /\ RepoError(i, TRUE)
    /\ UNCHANGED events

(* Any other failure; a rate limit says nothing of the clone.              *)
RepoFails(i) ==
    /\ phase = "repos" /\ task[i].at \notin {"none", "waiting"}
    /\ Event
    /\ \E cloneFailure \in BOOLEAN : RepoError(i, cloneFailure)

EndSync ==
    /\ phase = "repos"
    /\ \A i \in DOMAIN task : task[i].at = "none"
    /\ phase' = "idle"
    /\ UNCHANGED <<ghVars, dbVars, disk, seen, listing, task, maint, ghosts, events>>

----------------------------------------------------------------------------
(* maintenance: the ready repositories are read, every clone is repacked   *)
(* (which changes nothing seen here), then what was not read is removed.   *)
(* Both may fall into a sync; one weekly run that does is a trouble.       *)
MaintenanceReads ==
    /\ ~maint.on
    /\ maint' = [on |-> TRUE,
                 expected |-> {rows[i].name : i \in {j \in DOMAIN rows :
                                  rows[j].clone = "ready"}}]
    /\ UNCHANGED <<ghVars, dbVars, disk, syncVars, ghosts, events>>

MaintenanceRemoves ==
    /\ maint.on
    /\ \/ phase = "idle" /\ UNCHANGED events
       \/ phase # "idle" /\ Event
    /\ disk' = [m \in Names |-> IF m \in maint.expected THEN disk[m] ELSE NoDir]
    /\ maint' = NoMaint
    /\ UNCHANGED <<ghVars, dbVars, syncVars, ghosts>>

(* The worker is killed, its git processes with it.                        *)
Crash ==
    /\ phase # "idle" \/ maint.on
    /\ Event
    /\ phase' = "idle" /\ seen' = NoPolicy /\ listing' = NoListing
    /\ task' = [i \in DOMAIN task |-> NoTask]
    /\ maint' = NoMaint
    /\ UNCHANGED <<ghVars, dbVars, disk, ghosts>>

----------------------------------------------------------------------------
GitHubStep ==
    \E n \in Nodes :
        \/ DeleteRepo(n) \/ Push(n)
        \/ \E m \in Names : CreateRepo(n, m) \/ RenameRepo(n, m)

RepoStep(i) ==
    \/ BeginRepo(i) \/ CloneEnds(i) \/ Configure(i) \/ Fetch(i)
    \/ CommitRepo(i) \/ RepoImpossible(i)

SyncStep ==
    \/ BeginSync \/ ListRepos \/ Discover \/ EndSync
    \/ \E i \in DOMAIN task : RepoStep(i)

Next ==
    \/ GitHubStep
    \/ RepoFilters \/ ToggleForks
    \/ SyncStep
    \/ ListingFails
    \/ \E i \in DOMAIN task : RepoFails(i)
    \/ MaintenanceReads \/ MaintenanceRemoves
    \/ Crash

(* The hourly sync and the weekly maintenance come again and again, and    *)
(* what has started goes on; between two syncs maintenance gets its turn.  *)
Spec ==
    /\ Init /\ [][Next]_vars
    /\ WF_vars(SyncStep) /\ WF_vars(MaintenanceReads) /\ SF_vars(MaintenanceRemoves)

----------------------------------------------------------------------------
(* Properties.                                                             *)

(* No surface shows a repository the filters rule out, unless a discovery  *)
(* under way during the edit went by the policy it had loaded before; the  *)
(* next discovery repairs that.  A repository GitHub no longer lists is    *)
(* only included again by an edit.                                         *)
InclusionFollowsPolicy ==
    ~stale => \A i \in DOMAIN rows : rows[i].included =>
        RepoIncluded(rows[i].name, policy.mode, policy.listed,
                     rows[i].node \in Forks, policy.forks)

(* A discovery that commits, its members read or not, leaves nothing       *)
(* included that GitHub did not list, whatever edits re-included in the    *)
(* meantime.                                                               *)
GoneStopsSyncing ==
    [][(phase = "discover" /\ (phase' = "repos" \/ (phase' = "idle" /\ rows' # rows))) =>
          \A i \in DOMAIN rows' : rows'[i].included =>
              listing[rows'[i].name] = rows'[i].node]_vars

(* What the filters rule out is shown nowhere, and what is gone from       *)
(* GitHub stops counting with the discovery that misses it.                *)
FiltersHold == []InclusionFollowsPolicy /\ GoneStopsSyncing

(* As long as GitHub never gives a name to a second repository, a rename   *)
(* keeps the row and its history: no discovery breaks on a unique key and  *)
(* no row holds commits of two repositories.                               *)
OnlyReuseConfuses ==
    ~reused => ~clash /\ \A i \in DOMAIN rows : rows[i].hist \subseteq {rows[i].node}

(* A clone that was killed before it was configured.                       *)
Frozen(m) ==
    /\ disk[m].at \in {"cloning", "raw"}
    /\ \A i \in DOMAIN task :
          task[i].at \in {"cloning", "configure"} => task[i].name # m

CaughtUp(n) ==
    \/ ~Exists(n)
    \/ ~RepoIncluded(name[n], policy.mode, policy.listed, n \in Forks, policy.forks)
    \/ Frozen(name[n])
    \/ \E i \in DOMAIN rows : rows[i].node = n /\ rows[i].cursor = <<n, pushed[n]>>

(* Whatever fails, crashes or is removed under its feet, every repository  *)
(* the filters admit is ingested up to its tip again and again, unless its *)
(* clone was killed half-way or its name has belonged to another one.      *)
CatchesUp == \A n \in Nodes : []<>(reused \/ CaughtUp(n))

(* The clone under the old name of a renamed repository does not stay.     *)
OrphansCollected ==
    \A m \in Names :
        []<>(DirExists(m) => \E i \in DOMAIN rows : rows[i].name = m)

(* Rows and clones keep following GitHub.                                  *)
KeepsUp == CatchesUp /\ OrphansCollected
=============================================================================
