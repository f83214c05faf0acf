------------------------------ MODULE OrgSync ------------------------------
(***************************************************************************)
(* Org-level synchronisation: who may sync an org, and how one sync runs.  *)
(*                                                                         *)
(* An org row carries a sync_status.  Runners (the worker's hourly job, the *)
(* worker's manual-request job, `gca sync run` processes) claim a row by an *)
(* atomic UPDATE, discover the repositories, run one task per repository    *)
(* under a semaphore, rebuild the rollups of the affected persons, and hand *)
(* the row back.  Admin requests (token update, revalidation, add, remove,  *)
(* pause) and worker restarts write the same row without taking the claim.  *)
(*                                                                         *)
(* A short transaction that loads a row and overwrites a column with a      *)
(* constant is one step: the ORM sends nothing when the loaded value was    *)
(* already that constant, which is the step taken at the load, and a blind  *)
(* UPDATE otherwise, which is the step taken at the commit.  Where a        *)
(* network call lies between the load and the commit the two are separate.  *)
(***************************************************************************)
EXTENDS Naturals, FiniteSets

CONSTANTS
    Orgs,          \* org ids, never reused
    Repos,         \* repositories an org may list
    ScheduledJob,  \* runners of sync_all_orgs (max_instances=1: one of them)
    ManualJob,     \* runners of check_sync_requests (likewise)
    CliRuns,       \* `gca sync run` processes
    Admins,        \* concurrent web requests that edit an org
    Concurrency,   \* sync_org's semaphore
    MaxCrashes,    \* bound on worker crashes and on claims that raise
    CliMayCrash,   \* whether a CLI process may be killed half-way
    NoOrg

ASSUME ConcurrencyAssumption == Concurrency \in Nat \ {0}
ASSUME MaxCrashesAssumption == MaxCrashes \in Nat
ASSUME CliMayCrashAssumption == CliMayCrash \in BOOLEAN
ASSUME NoOrgAssumption == NoOrg \notin Orgs
ASSUME RunnersAssumption ==
    /\ ScheduledJob \cap ManualJob = {}
    /\ (ScheduledJob \cup ManualJob) \cap CliRuns = {}

WorkerJobs == ScheduledJob \cup ManualJob
Runners == WorkerJobs \cup CliRuns

(* "unborn" and "removed" stand for the absence of the row.                *)
Status == {"unborn", "idle", "running", "degraded", "removed"}
Stage == {"off", "loop", "discover", "repos", "recompute", "attribute",
          "finish", "degrade"}
InSync == {"discover", "repos", "recompute", "attribute", "finish", "degrade"}
TaskState == {"none", "waiting", "running", "ok", "failed", "fatal", "skipped"}
Ended == {"none", "ok", "failed", "fatal", "skipped"}

VARIABLES
    status,   \* Org.sync_status
    enabled,  \* Org.sync_enabled
    up,       \* the worker process is running
    crashes,  \* worker crashes and claims that raised so far
    stage,    \* where each runner is
    cur,      \* the org it is syncing
    todo,     \* the org ids it still has to visit
    task,     \* its per-repository tasks
    stop,     \* its stop event
    affected, \* summary.affected_person_ids is not empty
    edit,     \* the org edit each admin request is in the middle of
    torn      \* ghost: a claim on the org was overwritten by a non-owner

rowVars == <<status, enabled>>
procVars == <<up, crashes>>
jobVars == <<stage, cur, todo>>
syncVars == <<task, stop, affected>>
vars == <<rowVars, procVars, jobVars, syncVars, edit, torn>>

NoEdit == [op |-> "none", org |-> NoOrg, seen |-> "unborn"]
NoTasks == [x \in Repos |-> "none"]

TypeOK ==
    /\ status \in [Orgs -> Status]
    /\ enabled \in [Orgs -> BOOLEAN]
    /\ up \in BOOLEAN
    /\ crashes \in 0..MaxCrashes
    /\ stage \in [Runners -> Stage]
    /\ cur \in [Runners -> Orgs \cup {NoOrg}]
    /\ todo \in [Runners -> SUBSET Orgs]
    /\ task \in [Runners -> [Repos -> TaskState]]
    /\ stop \in [Runners -> BOOLEAN]
    /\ affected \in [Runners -> BOOLEAN]
    /\ edit \in [Admins -> [op : {"none", "token", "revalidate"},
                            org : Orgs \cup {NoOrg}, seen : Status]]
    /\ torn \in [Orgs -> BOOLEAN]
    /\ \A a \in Admins : edit[a].op # "none" => edit[a].org \in Orgs
    /\ \A r \in Runners : stage[r] \in InSync <=> cur[r] \in Orgs

Init ==
    /\ status = [o \in Orgs |-> "unborn"]
    /\ enabled = [o \in Orgs |-> TRUE]
    /\ up = TRUE
    /\ crashes = 0
    /\ stage = [r \in Runners |-> "off"]
    /\ cur = [r \in Runners |-> NoOrg]
    /\ todo = [r \in Runners |-> {}]
    /\ task = [r \in Runners |-> NoTasks]
    /\ stop = [r \in Runners |-> FALSE]
    /\ affected = [r \in Runners |-> FALSE]
    /\ edit = [a \in Admins |-> NoEdit]
    /\ torn = [o \in Orgs |-> FALSE]

Present(o) == status[o] \in {"idle", "running", "degraded"}
(* Mutant: the claim's UPDATE without its WHERE on the status.             *)
ClaimableAlways(o) == Present(o)
Claimable(o) == status[o] \in {"idle", "degraded"}

(* The runners between their claim on o and the write that hands it back.  *)
Active(o) == {r \in Runners : cur[r] = o}

InFlight(r) == {x \in Repos : task[r][x] = "running"}

Live(r) == r \in WorkerJobs => up

----------------------------------------------------------------------------
(* The three ways a runner comes by its list of org ids.                   *)

Depart(r, targets) ==
    /\ Live(r)
    /\ stage[r] = "off"
    /\ targets # {}
    /\ stage' = [stage EXCEPT ![r] = "loop"]
    /\ todo' = [todo EXCEPT ![r] = targets]
    /\ UNCHANGED <<rowVars, procVars, cur, syncVars, edit, torn>>

(* sync_all_orgs: one SELECT of the enabled orgs that are not running.     *)
SyncAllOrgs(r) ==
    /\ r \in ScheduledJob
    /\ Depart(r, {o \in Orgs : enabled[o] /\ Claimable(o)})

(* check_sync_requests: whatever ids the request document held.            *)
CheckSyncRequests(r) ==
    /\ r \in ManualJob
    /\ \E requests \in SUBSET {o \in Orgs : status[o] # "unborn"} :
          Depart(r, requests)

(* `gca sync run [--org LOGIN]`: every org, or the one named.              *)
CliSyncRun(r) ==
    /\ r \in CliRuns
    /\ \E targets \in SUBSET {o \in Orgs : Present(o)} :
          /\ Cardinality(targets) = 1 \/ targets = {o \in Orgs : Present(o)}
          /\ Depart(r, targets)

(* The loop is over; suggest.generate runs and the job or process ends.    *)
JobEnds(r) ==
    /\ stage[r] = "loop"
    /\ todo[r] = {}
    /\ stage' = [stage EXCEPT ![r] = "off"]
    /\ UNCHANGED <<rowVars, procVars, cur, todo, syncVars, edit, torn>>

----------------------------------------------------------------------------
(* sync_org.                                                               *)

(* The atomic UPDATE ... WHERE sync_status != 'running'.  No row matches   *)
(* for an org that is running or gone, and sync_org returns.  The manual   *)
(* job's own look at the row before the call skips in the same states.     *)
Claim(r) ==
    /\ stage[r] = "loop"
    /\ \E o \in todo[r] :
          /\ todo' = [todo EXCEPT ![r] = @ \ {o}]
          /\ \/ /\ Claimable(o)
                /\ status' = [status EXCEPT ![o] = "running"]
                /\ stage' = [stage EXCEPT ![r] = "discover"]
                /\ cur' = [cur EXCEPT ![r] = o]
             \/ /\ ~Claimable(o)
                /\ UNCHANGED <<status, stage, cur>>
    /\ UNCHANGED <<enabled, procVars, syncVars, edit, torn>>

(* The claim stands before sync_org's try: an exception of it (the database *)
(* is away, the token cannot be decrypted) leaves the row as it was and    *)
(* ends the whole job, with the orgs it had still to visit.                *)
ClaimRaises(r) ==
    /\ stage[r] = "loop"
    /\ todo[r] # {}
    /\ crashes < MaxCrashes
    /\ crashes' = crashes + 1
    /\ stage' = [stage EXCEPT ![r] = "off"]
    /\ todo' = [todo EXCEPT ![r] = {}]
    /\ UNCHANGED <<rowVars, up, cur, syncVars, edit, torn>>

(* The discovery session: any repositories may end up included; it fails   *)
(* when GitHub does, and always when the row is gone.                      *)
Discover(r) ==
    /\ stage[r] = "discover"
    /\ \/ /\ Present(cur[r])
          /\ \E included \in SUBSET Repos :
                task' = [task EXCEPT ![r] =
                    [x \in Repos |-> IF x \in included THEN "waiting" ELSE "none"]]
          /\ stop' = [stop EXCEPT ![r] = FALSE]
          /\ affected' = [affected EXCEPT ![r] = FALSE]
          /\ stage' = [stage EXCEPT ![r] = "repos"]
       \/ /\ stage' = [stage EXCEPT ![r] = "degrade"]
          /\ UNCHANGED syncVars
    /\ UNCHANGED <<rowVars, procVars, cur, todo, edit, torn>>

(* Mutants: one task too many, and no second look at the stop event.       *)
AcquireSlotOffByOne(r, x) ==
    /\ stage[r] = "repos"
    /\ task[r][x] = "waiting"
    /\ Cardinality(InFlight(r)) <= Concurrency
    /\ task' = [task EXCEPT ![r][x] = IF stop[r] THEN "skipped" ELSE "running"]
    /\ UNCHANGED <<rowVars, procVars, jobVars, stop, affected, edit, torn>>

AcquireSlotUnstopped(r, x) ==
    /\ stage[r] = "repos"
    /\ task[r][x] = "waiting"
    /\ Cardinality(InFlight(r)) < Concurrency
    /\ task' = [task EXCEPT ![r][x] = "running"]
    /\ UNCHANGED <<rowVars, procVars, jobVars, stop, affected, edit, torn>>

(* _one: a task that gets the semaphore starts unless the stop event is set *)
AcquireSlot(r, x) ==
    /\ stage[r] = "repos"
    /\ task[r][x] = "waiting"
    /\ Cardinality(InFlight(r)) < Concurrency
    /\ task' = [task EXCEPT ![r][x] = IF stop[r] THEN "skipped" ELSE "running"]
    /\ UNCHANGED <<rowVars, procVars, jobVars, stop, affected, edit, torn>>

(* _sync_repo returns: the repo is committed and some persons may need     *)
(* their rollups rebuilt.                                                  *)
RepoSucceeds(r, x) ==
    /\ stage[r] = "repos"
    /\ task[r][x] = "running"
    /\ Present(cur[r])
    /\ task' = [task EXCEPT ![r][x] = "ok"]
    /\ \E some \in BOOLEAN : affected' = [affected EXCEPT ![r] = @ \/ some]
    /\ UNCHANGED <<rowVars, procVars, jobVars, stop, edit, torn>>

(* Any exception but a rate limit or a rejected token.                     *)
RepoFails(r, x) ==
    /\ stage[r] = "repos"
    /\ task[r][x] = "running"
    /\ task' = [task EXCEPT ![r][x] = "failed"]
    /\ UNCHANGED <<rowVars, procVars, jobVars, stop, affected, edit, torn>>

(* RateLimitError or AuthError: _one sets the stop event.  When the org is *)
(* gone _record_repo_error violates a foreign key, its IntegrityError takes *)
(* the place of the fatal error, and the stop event stays unset: RepoFails. *)
RepoFatal(r, x) ==
    /\ stage[r] = "repos"
    /\ task[r][x] = "running"
    /\ Present(cur[r])
    /\ task' = [task EXCEPT ![r][x] = "fatal"]
    /\ stop' = [stop EXCEPT ![r] = TRUE]
    /\ UNCHANGED <<rowVars, procVars, jobVars, affected, edit, torn>>

(* Mutant: the fatal error is not raised again after the recompute.        *)
AfterRecomputeSwallowed(r) == "attribute"

(* What follows the gather once the rollups are settled.                   *)
AfterRecompute(r) ==
    IF \E x \in Repos : task[r][x] = "fatal" THEN "degrade" ELSE "attribute"

(* asyncio.gather returns when every task has ended.                       *)
GatherReturns(r) ==
    /\ stage[r] = "repos"
    /\ \A x \in Repos : task[r][x] \in Ended
    /\ stage' = [stage EXCEPT ![r] =
          IF affected[r] THEN "recompute" ELSE AfterRecompute(r)]
    /\ UNCHANGED <<rowVars, procVars, cur, todo, syncVars, edit, torn>>

(* recompute_for_persons commits, or raises.                               *)
Recompute(r) ==
    /\ stage[r] = "recompute"
    /\ \E next \in {AfterRecompute(r), "degrade"} :
          stage' = [stage EXCEPT ![r] = next]
    /\ UNCHANGED <<rowVars, procVars, cur, todo, syncVars, edit, torn>>

(* reconcile_commit_attribution: its failures are swallowed.               *)
Attribute(r) ==
    /\ stage[r] = "attribute"
    /\ stage' = [stage EXCEPT ![r] = "finish"]
    /\ UNCHANGED <<rowVars, procVars, cur, todo, syncVars, edit, torn>>

(* Mutant: the runner keeps the org it has handed back.                    *)
LeaveLingering(r) ==
    /\ cur' = cur
    /\ task' = [task EXCEPT ![r] = NoTasks]
    /\ stop' = [stop EXCEPT ![r] = FALSE]
    /\ affected' = [affected EXCEPT ![r] = FALSE]
    /\ torn' = torn

(* A sync is over when its runner leaves the org; the ghost is cleared     *)
(* with the last one.                                                      *)
Leave(r) ==
    /\ cur' = [cur EXCEPT ![r] = NoOrg]
    /\ task' = [task EXCEPT ![r] = NoTasks]
    /\ stop' = [stop EXCEPT ![r] = FALSE]
    /\ affected' = [affected EXCEPT ![r] = FALSE]
    /\ torn' = [torn EXCEPT ![cur[r]] = @ /\ Active(cur[r]) # {r}]

(* The finishing session: it commits, or raises, which it always does when *)
(* the row is gone.                                                        *)
Finish(r) ==
    /\ stage[r] = "finish"
    /\ \/ /\ Present(cur[r])
          /\ status' = [status EXCEPT ![cur[r]] = "idle"]
          /\ stage' = [stage EXCEPT ![r] = "loop"]
          /\ Leave(r)
       \/ /\ stage' = [stage EXCEPT ![r] = "degrade"]
          /\ UNCHANGED <<status, cur, syncVars, torn>>
    /\ UNCHANGED <<enabled, procVars, todo, edit>>

(* Mutant: the error is recorded and the status left as it was.            *)
MarkDegradedSilently(r) ==
    /\ stage[r] = "degrade"
    /\ stage' = [stage EXCEPT ![r] = "loop"]
    /\ Leave(r)
    /\ UNCHANGED <<status, enabled, procVars, todo, edit>>

MarkDegraded(r) ==
    /\ stage[r] = "degrade"
    /\ status' = [status EXCEPT ![cur[r]] =
          IF Present(cur[r]) THEN "degraded" ELSE @]
    /\ stage' = [stage EXCEPT ![r] = "loop"]
    /\ Leave(r)
    /\ UNCHANGED <<enabled, procVars, todo, edit>>

----------------------------------------------------------------------------
(* Processes stop and start.                                               *)

(* Every runner in S vanishes where it is; its org row keeps its status.   *)
Vanish(S) ==
    /\ stage' = [r \in Runners |-> IF r \in S THEN "off" ELSE stage[r]]
    /\ cur' = [r \in Runners |-> IF r \in S THEN NoOrg ELSE cur[r]]
    /\ todo' = [r \in Runners |-> IF r \in S THEN {} ELSE todo[r]]
    /\ task' = [r \in Runners |-> IF r \in S THEN NoTasks ELSE task[r]]
    /\ stop' = [r \in Runners |-> IF r \in S THEN FALSE ELSE stop[r]]
    /\ affected' = [r \in Runners |-> IF r \in S THEN FALSE ELSE affected[r]]
    /\ torn' = [o \in Orgs |-> torn[o] /\ ~(Active(o) \subseteq S)]

WorkerCrash ==
    /\ up
    /\ crashes < MaxCrashes
    /\ up' = FALSE
    /\ crashes' = crashes + 1
    /\ Vanish(WorkerJobs)
    /\ UNCHANGED <<rowVars, edit>>

CliCrash(r) ==
    /\ CliMayCrash
    /\ r \in CliRuns
    /\ stage[r] # "off"
    /\ Vanish({r})
    /\ UNCHANGED <<rowVars, procVars, edit>>

(* A non-owner moves o away from "running" while somebody syncs it.        *)
Tears(o) == status[o] = "running" /\ Active(o) # {}

(* Mutant: the boot does not look at the orgs.                             *)
BootWithoutReset ==
    /\ ~up
    /\ up' = TRUE
    /\ UNCHANGED <<rowVars, crashes, jobVars, syncVars, edit, torn>>

(* The worker boots: reset_stale_runs, then the scheduler.                 *)
ResetStaleRuns ==
    /\ ~up
    /\ up' = TRUE
    /\ status' = [o \in Orgs |-> IF status[o] = "running" THEN "idle" ELSE status[o]]
    /\ torn' = [o \in Orgs |-> torn[o] \/ Tears(o)]
    /\ UNCHANGED <<enabled, crashes, jobVars, syncVars, edit>>

----------------------------------------------------------------------------
(* Admin requests.                                                         *)

(* POST /orgs/add, POST /setup/org, `gca org add`.                         *)
AddOrg(o) ==
    /\ status[o] = "unborn"
    /\ status' = [status EXCEPT ![o] = "idle"]
    /\ UNCHANGED <<enabled, procVars, jobVars, syncVars, edit, torn>>

(* POST /orgs/{id}/remove and remove_org: the row goes, its runners do not. *)
RemoveOrg(o) ==
    /\ Present(o)
    /\ status' = [status EXCEPT ![o] = "removed"]
    /\ UNCHANGED <<enabled, procVars, jobVars, syncVars, edit, torn>>

ToggleSync(o) ==
    /\ Present(o)
    /\ enabled' = [enabled EXCEPT ![o] = ~@]
    /\ UNCHANGED <<status, procVars, jobVars, syncVars, edit, torn>>

(* update_token and revalidate load the row, then call GitHub.             *)
LoadForEdit(a, o, op) ==
    /\ edit[a].op = "none"
    /\ Present(o)
    /\ edit' = [edit EXCEPT ![a] = [op |-> op, org |-> o, seen |-> status[o]]]
    /\ UNCHANGED <<rowVars, procVars, jobVars, syncVars, torn>>

(* The ORM writes v only where the loaded value differs from it, and the   *)
(* commit fails when the row is gone.                                      *)
SaveEdit(a, v) ==
    /\ LET o == edit[a].org
           written == Present(o) /\ edit[a].seen # v
       IN  /\ status' = [status EXCEPT ![o] = IF written THEN v ELSE @]
           /\ torn' = [torn EXCEPT ![o] = @ \/ (written /\ Tears(o))]
    /\ edit' = [edit EXCEPT ![a] = NoEdit]
    /\ UNCHANGED <<enabled, procVars, jobVars, syncVars>>

UpdateToken(a) ==
    /\ edit[a].op = "token"
    /\ SaveEdit(a, "idle")

RevalidateOk(a) ==
    /\ edit[a].op = "revalidate"
    /\ SaveEdit(a, IF edit[a].seen = "degraded" THEN "idle" ELSE edit[a].seen)

RevalidateFails(a) ==
    /\ edit[a].op = "revalidate"
    /\ SaveEdit(a, "degraded")

(* A rejected token: update_token raises and the router rolls back.        *)
UpdateTokenFails(a) ==
    /\ edit[a].op = "token"
    /\ edit' = [edit EXCEPT ![a] = NoEdit]
    /\ UNCHANGED <<rowVars, procVars, jobVars, syncVars, torn>>

----------------------------------------------------------------------------
TaskStep(r) ==
    \E x \in Repos :
        \/ AcquireSlot(r, x)
        \/ RepoSucceeds(r, x)
        \/ RepoFails(r, x)
        \/ RepoFatal(r, x)

SyncStep(r) ==
    \/ JobEnds(r) \/ Claim(r) \/ Discover(r) \/ TaskStep(r) \/ GatherReturns(r)
    \/ Recompute(r) \/ Attribute(r) \/ Finish(r) \/ MarkDegraded(r)

RunnerStep(r) ==
    \/ SyncAllOrgs(r) \/ CheckSyncRequests(r) \/ CliSyncRun(r) \/ SyncStep(r)
    \/ ClaimRaises(r) \/ CliCrash(r)

AdminStep(a) ==
    \/ \E o \in Orgs, op \in {"token", "revalidate"} : LoadForEdit(a, o, op)
    \/ UpdateToken(a) \/ UpdateTokenFails(a) \/ RevalidateOk(a) \/ RevalidateFails(a)

OrgEdit(o) == AddOrg(o) \/ RemoveOrg(o) \/ ToggleSync(o)

Next ==
    \/ \E r \in Runners : RunnerStep(r)
    \/ \E a \in Admins : AdminStep(a)
    \/ \E o \in Orgs : OrgEdit(o)
    \/ WorkerCrash
    \/ ResetStaleRuns

Spec == Init /\ [][Next]_vars

(* The hourly trigger fires, a started sync goes on to its end, and a      *)
(* crashed worker is restarted (the container's restart policy).  Nothing  *)
(* obliges a manual request, a CLI run or an admin to appear.              *)
Fairness ==
    /\ \A r \in ScheduledJob : WF_vars(SyncAllOrgs(r))
    /\ \A r \in Runners : WF_vars(SyncStep(r))
    /\ WF_vars(ResetStaleRuns)

FairSpec == Spec /\ Fairness

----------------------------------------------------------------------------
(* Properties.                                                             *)

(* Unless a claim was overwritten by somebody who does not hold it (a token *)
(* update, a revalidation, a worker restart), at most one runner syncs an   *)
(* org, and the org says so for as long as it runs.                         *)
ExclusiveClaim ==
    \A o \in Orgs : ~torn[o] =>
        /\ \A r1, r2 \in Active(o) : r1 = r2
        /\ Active(o) # {} => status[o] \in {"running", "removed"}

(* A rate limit or a rejected token ends a sync with the repositories then *)
(* in flight: no further one starts for as long as that sync lasts.        *)
StopIsFinal ==
    [][\A r \in Runners : stop[r] =>
          /\ InFlight(r)' \subseteq InFlight(r)
          /\ stop'[r] \/ cur'[r] = NoOrg]_vars

(* A sync some task of which hit a rate limit or a rejected token never    *)
(* hands its org back as "idle": it degrades it, unless the org is gone.    *)
FatalDegrades ==
    [][\A r \in Runners :
          (/\ cur[r] \in Orgs
           /\ \E x \in Repos : task[r][x] = "fatal"
           /\ cur'[r] = NoOrg
           /\ up' = up
           /\ stage'[r] = "loop")
          => status'[cur[r]] \in {"degraded", "removed"}]_vars

(* While the worker is up and no CLI process is ever killed, an org that    *)
(* says "running" has a runner: nothing is locked out of syncing for good.  *)
RunningHasRunner ==
    \A o \in Orgs : up /\ status[o] = "running" => Active(o) # {}

(* Every org with sync enabled keeps being synced.                         *)
KeepsSyncing ==
    \A o \in Orgs :
        (Present(o) /\ enabled[o]) ~> (Active(o) # {} \/ ~Present(o) \/ ~enabled[o])

(* No org stays in "running" for good.                                     *)
RunningEnds == \A o \in Orgs : (status[o] = "running") ~> (status[o] # "running")

(* Whatever fails or crashes, syncs come to an end and come again.         *)
SyncsRecur == KeepsSyncing /\ RunningEnds
=============================================================================
