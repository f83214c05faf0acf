----------------------------- MODULE SyncProofs ------------------------------
(* Proofs about OrgSync and SyncRequests: how an org is synced, and how a  *)
(* sync is asked for by hand.  About OrgSync, for any sets of orgs,        *)
(* repositories, runners and admins and any bounds: the types, the         *)
(* exclusivity of the claim, the stop event, the degradation after a fatal *)
(* error, and that whatever says running has a runner.  About SyncRequests, *)
(* for any sets of orgs and web requests: the types, and that only         *)
(* overlapping read-modify-write cycles and runs cut off after the clearing *)
(* lose a request.                                                         *)
EXTENDS OrgSync, SyncRequests, TLAPS

USE DEF WorkerJobs, Runners, Status, Stage, InSync, TaskState, NoEdit, NoTasks

(* Every step that belongs to one runner's sync keeps the types.           *)
LEMMA SyncStepTypes ==
    ASSUME TypeOK, NEW r \in Runners, SyncStep(r)
    PROVE  TypeOK'
<1> USE NoOrgAssumption DEF TypeOK, rowVars, procVars, jobVars, syncVars
<1>1. CASE JobEnds(r)
  BY <1>1 DEF JobEnds
<1>2. CASE Claim(r)
  BY <1>2 DEF Claim, Claimable
<1>3. CASE Discover(r)
  <2>1. CASE UNCHANGED syncVars /\ stage' = [stage EXCEPT ![r] = "degrade"]
    BY <1>3, <2>1 DEF Discover
  <2>2. ASSUME NEW included \in SUBSET Repos,
               task' = [task EXCEPT ![r] =
                   [x \in Repos |-> IF x \in included THEN "waiting" ELSE "none"]]
        PROVE  task' \in [Runners -> [Repos -> TaskState]]
    <3> DEFINE new == [x \in Repos |-> IF x \in included THEN "waiting" ELSE "none"]
    <3>1. new \in [Repos -> TaskState]
      OBVIOUS
    <3> HIDE DEF new
    <3> QED BY <2>2, <3>1 DEF new
  <2>3. CASE /\ stage' = [stage EXCEPT ![r] = "repos"]
             /\ stop' = [stop EXCEPT ![r] = FALSE]
             /\ affected' = [affected EXCEPT ![r] = FALSE]
             /\ task' \in [Runners -> [Repos -> TaskState]]
    BY <1>3, <2>3 DEF Discover
  <2> QED BY <1>3, <2>1, <2>2, <2>3 DEF Discover
<1>4. CASE TaskStep(r)
  <2> PICK x \in Repos : \/ AcquireSlot(r, x) \/ RepoSucceeds(r, x)
                         \/ RepoFails(r, x) \/ RepoFatal(r, x)
    BY <1>4 DEF TaskStep
  <2>1. CASE AcquireSlot(r, x)
    BY <2>1 DEF AcquireSlot
  <2>2. CASE RepoSucceeds(r, x)
    BY <2>2 DEF RepoSucceeds
  <2>3. CASE RepoFails(r, x)
    BY <2>3 DEF RepoFails
  <2>4. CASE RepoFatal(r, x)
    BY <2>4 DEF RepoFatal
  <2> QED BY <2>1, <2>2, <2>3, <2>4
<1>5. CASE GatherReturns(r)
  BY <1>5 DEF GatherReturns, AfterRecompute
<1>6. CASE Recompute(r)
  BY <1>6 DEF Recompute, AfterRecompute
<1>7. CASE Attribute(r)
  BY <1>7 DEF Attribute
<1>8. CASE Finish(r)
  <2>1. CASE /\ status' = [status EXCEPT ![cur[r]] = "idle"]
             /\ stage' = [stage EXCEPT ![r] = "loop"]
             /\ Leave(r)
    <3>1. UNCHANGED <<enabled, up, crashes, todo, edit>>
      BY <1>8 DEF Finish
    <3> QED BY <2>1, <3>1 DEF Leave
  <2>2. CASE /\ stage' = [stage EXCEPT ![r] = "degrade"]
             /\ UNCHANGED <<status, cur, syncVars, torn>>
    BY <1>8, <2>2 DEF Finish
  <2> QED BY <1>8, <2>1, <2>2 DEF Finish
<1>9. CASE MarkDegraded(r)
  BY <1>9 DEF MarkDegraded, Leave, Present
<1> QED BY <1>1, <1>2, <1>3, <1>4, <1>5, <1>6, <1>7, <1>8, <1>9 DEF SyncStep

LEMMA DepartTypes ==
    ASSUME TypeOK, NEW r \in Runners, NEW targets \in SUBSET Orgs, Depart(r, targets)
    PROVE  TypeOK'
BY NoOrgAssumption DEF TypeOK, Depart, rowVars, procVars, syncVars

LEMMA VanishTypes ==
    ASSUME TypeOK, NEW S \in SUBSET Runners, Vanish(S),
           UNCHANGED <<rowVars, edit>>, up' \in BOOLEAN, crashes' \in 0..MaxCrashes
    PROVE  TypeOK'
BY NoOrgAssumption DEF TypeOK, Vanish, rowVars

LEMMA AdminTypes ==
    ASSUME TypeOK, NEW a \in Admins, AdminStep(a)
    PROVE  TypeOK'
<1> USE NoOrgAssumption DEF TypeOK, rowVars, procVars, jobVars, syncVars
<1>1. ASSUME NEW o \in Orgs, NEW op \in {"token", "revalidate"}, LoadForEdit(a, o, op)
      PROVE  TypeOK'
  BY <1>1 DEF LoadForEdit
<1>2. ASSUME NEW v \in {"idle", "degraded", "running", "unborn", "removed"},
             edit[a].op # "none", SaveEdit(a, v)
      PROVE  TypeOK'
  BY <1>2 DEF SaveEdit, Present
<1>3. CASE UpdateTokenFails(a)
  BY <1>3 DEF UpdateTokenFails
<1>4. edit[a].seen \in Status
  OBVIOUS
<1> QED
  BY <1>1, <1>2, <1>3, <1>4
     DEF AdminStep, UpdateToken, RevalidateOk, RevalidateFails

(* The variables always hold values of their types, and a runner holds an  *)
(* org exactly while it is between its claim and the write that ends it.    *)
LEMMA TypeInductive == TypeOK /\ [Next]_vars => TypeOK'
<1> SUFFICES ASSUME TypeOK, [Next]_vars PROVE TypeOK'
  OBVIOUS
<1> USE DEF rowVars, procVars, jobVars, syncVars
<1>1. ASSUME NEW r \in Runners, RunnerStep(r) PROVE TypeOK'
  <2>1. CASE SyncAllOrgs(r)
    BY <2>1, DepartTypes DEF SyncAllOrgs
  <2>2. CASE CheckSyncRequests(r)
    BY <2>2, DepartTypes DEF CheckSyncRequests
  <2>3. CASE CliSyncRun(r)
    BY <2>3, DepartTypes DEF CliSyncRun
  <2>4. CASE CliCrash(r)
    BY <2>4, VanishTypes DEF CliCrash, TypeOK
  <2>5. CASE ClaimRaises(r)
    BY <2>5, MaxCrashesAssumption, NoOrgAssumption DEF ClaimRaises, TypeOK
  <2> QED BY <1>1, <2>1, <2>2, <2>3, <2>4, <2>5, SyncStepTypes DEF RunnerStep
<1>2. ASSUME NEW o \in Orgs, OrgEdit(o) PROVE TypeOK'
  BY <1>2 DEF OrgEdit, AddOrg, RemoveOrg, ToggleSync, TypeOK
<1>3. CASE WorkerCrash
  <2>1. /\ Vanish(WorkerJobs)
        /\ UNCHANGED <<rowVars, edit>>
    BY <1>3 DEF WorkerCrash
  <2>2. up' \in BOOLEAN /\ crashes' \in 0..MaxCrashes
    <3>1. up' = FALSE /\ crashes < MaxCrashes /\ crashes' = crashes + 1
      BY <1>3 DEF WorkerCrash
    <3>2. crashes \in 0..MaxCrashes
      BY DEF TypeOK
    <3>3. crashes' \in 0..MaxCrashes
      BY <3>1, <3>2, MaxCrashesAssumption, SMT DEF MaxCrashesAssumption
    <3>4. up' \in BOOLEAN
      BY <3>1
    <3> QED BY <3>3, <3>4
  <2>3. WorkerJobs \in SUBSET Runners
    OBVIOUS
  <2> QED BY <2>1, <2>2, <2>3, VanishTypes
<1>4. CASE ResetStaleRuns
  BY <1>4 DEF ResetStaleRuns, TypeOK
<1>5. CASE UNCHANGED vars
  BY <1>5 DEF vars, TypeOK
<1> QED BY <1>1, <1>2, <1>3, <1>4, <1>5, AdminTypes DEF Next

LEMMA TypeInit == Init => TypeOK
BY NoOrgAssumption, MaxCrashesAssumption DEF Init, TypeOK

(* The types hold in every state of every behaviour.                       *)
THEOREM TypeCorrect == Spec => []TypeOK
BY TypeInit, TypeInductive, PTL DEF Spec

----------------------------------------------------------------------------
(* A step of one runner inside its sync that neither hands the org back    *)
(* nor touches a row leaves the claims as they are.                        *)
LEMMA ClaimsUntouched ==
    ASSUME ExclusiveClaim, UNCHANGED <<status, cur, torn>>
    PROVE  ExclusiveClaim'
BY DEF ExclusiveClaim, Active

(* The claim itself: the row was not running, so nobody was active on it.  *)
LEMMA ClaimExclusive ==
    ASSUME TypeOK, ExclusiveClaim, NEW r \in Runners, Claim(r)
    PROVE  ExclusiveClaim'
<1> USE NoOrgAssumption DEF TypeOK, procVars, syncVars
<1>1. PICK o \in todo[r] :
        \/ /\ Claimable(o)
           /\ status' = [status EXCEPT ![o] = "running"]
           /\ cur' = [cur EXCEPT ![r] = o]
        \/ UNCHANGED <<status, cur>>
  BY DEF Claim
<1>2. torn' = torn /\ cur[r] = NoOrg
  BY DEF Claim
<1>3. CASE UNCHANGED <<status, cur>>
  BY <1>2, <1>3, ClaimsUntouched
<1>4. CASE /\ Claimable(o)
           /\ status' = [status EXCEPT ![o] = "running"]
           /\ cur' = [cur EXCEPT ![r] = o]
  <2> SUFFICES ASSUME NEW p \in Orgs, ~torn'[p]
               PROVE  /\ \A r1, r2 \in Active(p)' : r1 = r2
                      /\ Active(p)' # {} => status'[p] \in {"running", "removed"}
    BY DEF ExclusiveClaim
  <2>1. CASE p = o
    <3>1. Active(o) = {}
      BY <1>2, <1>4, <2>1 DEF ExclusiveClaim, Claimable
    <3>2. Active(o)' = {r}
      BY <1>4, <3>1 DEF Active
    <3> QED BY <1>4, <2>1, <3>2
  <2>2. CASE p # o
    <3>1. Active(p)' = Active(p)
      BY <1>2, <1>4, <2>2 DEF Active
    <3> QED BY <1>2, <1>4, <2>2, <3>1 DEF ExclusiveClaim
  <2> QED BY <2>1, <2>2
<1> QED BY <1>1, <1>3, <1>4

(* Handing the org back: either the runner was alone, or the claim was     *)
(* torn and stays so while somebody is left.                               *)
LEMMA LeaveExclusive ==
    ASSUME TypeOK, ExclusiveClaim, NEW r \in Runners, cur[r] \in Orgs, Leave(r),
           \A o \in Orgs \ {cur[r]} : status'[o] = status[o]
    PROVE  ExclusiveClaim'
<1> USE NoOrgAssumption DEF TypeOK
<1> SUFFICES ASSUME NEW p \in Orgs, ~torn'[p]
             PROVE  /\ \A r1, r2 \in Active(p)' : r1 = r2
                    /\ Active(p)' # {} => status'[p] \in {"running", "removed"}
  BY DEF ExclusiveClaim
<1>1. CASE p = cur[r]
  <2>1. r \in Active(p)
    BY <1>1 DEF Active
  <2>2. torn[p] => Active(p) = {r}
    BY <1>1 DEF Leave
  <2>3. Active(p) = {r}
    BY <2>1, <2>2 DEF ExclusiveClaim
  <2>4. Active(p)' = {}
    BY <1>1, <2>3 DEF Active, Leave
  <2> QED BY <2>4
<1>2. CASE p # cur[r]
  <2>1. Active(p)' = Active(p)
    BY <1>2 DEF Active, Leave
  <2>2. ~torn[p] /\ status'[p] = status[p]
    BY <1>2 DEF Leave
  <2> QED BY <2>1, <2>2 DEF ExclusiveClaim
<1> QED BY <1>1, <1>2

LEMMA SyncStepExclusive ==
    ASSUME TypeOK, ExclusiveClaim, NEW r \in Runners, SyncStep(r)
    PROVE  ExclusiveClaim'
<1> USE DEF rowVars, procVars, jobVars, syncVars
<1>1. CASE JobEnds(r)
  BY <1>1, ClaimsUntouched DEF JobEnds
<1>2. CASE Discover(r)
  BY <1>2, ClaimsUntouched DEF Discover
<1>3. CASE TaskStep(r)
  BY <1>3, ClaimsUntouched DEF TaskStep, AcquireSlot, RepoSucceeds, RepoFails, RepoFatal
<1>4. CASE GatherReturns(r)
  BY <1>4, ClaimsUntouched DEF GatherReturns
<1>5. CASE Recompute(r)
  BY <1>5, ClaimsUntouched DEF Recompute
<1>6. CASE Attribute(r)
  BY <1>6, ClaimsUntouched DEF Attribute
<1>7. CASE Finish(r)
  <2>1. CASE UNCHANGED <<status, cur, torn>>
    BY <2>1, ClaimsUntouched
  <2>2. CASE Leave(r) /\ status' = [status EXCEPT ![cur[r]] = "idle"]
    <3>1. cur[r] \in Orgs
      BY <1>7 DEF Finish, TypeOK
    <3>2. \A o \in Orgs \ {cur[r]} : status'[o] = status[o]
      BY <2>2 DEF TypeOK
    <3> QED BY <2>2, <3>1, <3>2, LeaveExclusive
  <2> QED BY <1>7, <2>1, <2>2 DEF Finish
<1>8. CASE MarkDegraded(r)
  <2>1. cur[r] \in Orgs /\ Leave(r)
    BY <1>8 DEF MarkDegraded, TypeOK
  <2>2. \A o \in Orgs \ {cur[r]} : status'[o] = status[o]
    BY <1>8 DEF MarkDegraded, TypeOK
  <2> QED BY <2>1, <2>2, LeaveExclusive
<1> QED
  BY <1>1, <1>2, <1>3, <1>4, <1>5, <1>6, <1>7, <1>8, ClaimExclusive DEF SyncStep

(* Runners that vanish only shrink the sets of active ones.                *)
LEMMA VanishExclusive ==
    ASSUME TypeOK, ExclusiveClaim, NEW S \in SUBSET Runners, Vanish(S), status' = status
    PROVE  ExclusiveClaim'
<1> SUFFICES ASSUME NEW p \in Orgs, ~torn'[p]
             PROVE  /\ \A r1, r2 \in Active(p)' : r1 = r2
                    /\ Active(p)' # {} => status'[p] \in {"running", "removed"}
  BY DEF ExclusiveClaim
<1>1. Active(p)' = Active(p) \ S
  BY NoOrgAssumption DEF Active, Vanish, TypeOK
<1>2. ~torn[p] \/ Active(p)' = {}
  BY <1>1 DEF Vanish, TypeOK
<1> QED BY <1>1, <1>2 DEF ExclusiveClaim

(* A writer that does not hold the claim tears it if anyone is active.     *)
LEMMA OverwriteExclusive ==
    ASSUME TypeOK, ExclusiveClaim, cur' = cur,
           \A o \in Orgs : \/ status'[o] = status[o] /\ torn'[o] = torn[o]
                           \/ torn'[o] = (torn[o] \/ Tears(o)) /\ status[o] # "removed"
    PROVE  ExclusiveClaim'
<1> SUFFICES ASSUME NEW p \in Orgs, ~torn'[p]
             PROVE  /\ \A r1, r2 \in Active(p)' : r1 = r2
                    /\ Active(p)' # {} => status'[p] \in {"running", "removed"}
  BY DEF ExclusiveClaim
<1>1. Active(p)' = Active(p)
  BY DEF Active
<1>2. CASE status'[p] = status[p] /\ torn'[p] = torn[p]
  BY <1>1, <1>2 DEF ExclusiveClaim
<1>3. CASE torn'[p] = (torn[p] \/ Tears(p)) /\ status[p] # "removed"
  <2>1. ~torn[p] /\ ~Tears(p)
    BY <1>3
  <2>2. Active(p) = {}
    BY <1>3, <2>1 DEF Tears, ExclusiveClaim
  <2> QED BY <1>1, <2>2
<1> QED BY <1>2, <1>3

LEMMA AdminExclusive ==
    ASSUME TypeOK, ExclusiveClaim, NEW a \in Admins, AdminStep(a)
    PROVE  ExclusiveClaim'
<1> USE DEF rowVars, procVars, jobVars, syncVars
<1>1. ASSUME NEW o \in Orgs, NEW op \in {"token", "revalidate"}, LoadForEdit(a, o, op)
      PROVE  ExclusiveClaim'
  BY <1>1, ClaimsUntouched DEF LoadForEdit
<1>2. CASE UpdateTokenFails(a)
  BY <1>2, ClaimsUntouched DEF UpdateTokenFails
<1>3. ASSUME NEW v, edit[a].op # "none", SaveEdit(a, v)
      PROVE  ExclusiveClaim'
  <2> DEFINE o == edit[a].org
             written == Present(o) /\ edit[a].seen # v
  <2>1. o \in Orgs
    BY <1>3 DEF TypeOK
  <2>2. /\ status' = [status EXCEPT ![o] = IF written THEN v ELSE @]
        /\ torn' = [torn EXCEPT ![o] = @ \/ (written /\ Tears(o))]
        /\ cur' = cur
    BY <1>3 DEF SaveEdit
  <2> HIDE DEF o
  <2>3. \A p \in Orgs \ {o} : status'[p] = status[p] /\ torn'[p] = torn[p]
    BY <2>2 DEF TypeOK
  <2>4. CASE written
    BY <2>1, <2>2, <2>3, <2>4, OverwriteExclusive DEF TypeOK, Present
  <2>5. CASE ~written
    BY <2>1, <2>2, <2>3, <2>5, OverwriteExclusive DEF TypeOK
  <2> QED BY <2>4, <2>5
<1> QED
  BY <1>1, <1>2, <1>3 DEF AdminStep, UpdateToken, RevalidateOk, RevalidateFails

LEMMA ExclusiveInductive == TypeOK /\ ExclusiveClaim /\ [Next]_vars => ExclusiveClaim'
<1> SUFFICES ASSUME TypeOK, ExclusiveClaim, [Next]_vars PROVE ExclusiveClaim'
  OBVIOUS
<1> USE DEF rowVars, procVars, jobVars, syncVars
<1>1. ASSUME NEW r \in Runners, RunnerStep(r) PROVE ExclusiveClaim'
  <2>1. CASE SyncAllOrgs(r) \/ CheckSyncRequests(r) \/ CliSyncRun(r)
    BY <2>1, ClaimsUntouched DEF SyncAllOrgs, CheckSyncRequests, CliSyncRun, Depart
  <2>2. CASE CliCrash(r)
    BY <2>2, VanishExclusive DEF CliCrash
  <2>3. CASE ClaimRaises(r)
    BY <2>3, ClaimsUntouched DEF ClaimRaises
  <2> QED BY <1>1, <2>1, <2>2, <2>3, SyncStepExclusive DEF RunnerStep
<1>2. ASSUME NEW o \in Orgs, OrgEdit(o) PROVE ExclusiveClaim'
  <2>1. CASE AddOrg(o)
    <3>1. \A p \in Orgs \ {o} : status'[p] = status[p]
      BY <2>1 DEF AddOrg, TypeOK
    <3>2. Active(o) = {} \/ torn[o]
      BY <2>1 DEF AddOrg, ExclusiveClaim
    <3> QED BY <2>1, <3>1, <3>2 DEF AddOrg, ExclusiveClaim, Active
  <2>2. CASE RemoveOrg(o)
    <3>1. \A p \in Orgs : status'[p] = status[p] \/ status'[p] = "removed"
      BY <2>2 DEF RemoveOrg, TypeOK
    <3> QED BY <2>2, <3>1 DEF RemoveOrg, ExclusiveClaim, Active
  <2>3. CASE ToggleSync(o)
    BY <2>3, ClaimsUntouched DEF ToggleSync
  <2> QED BY <1>2, <2>1, <2>2, <2>3 DEF OrgEdit
<1>3. CASE WorkerCrash
  BY <1>3, VanishExclusive DEF WorkerCrash
<1>4. CASE ResetStaleRuns
  <2>1. \A o \in Orgs : \/ status'[o] = status[o] /\ torn'[o] = torn[o]
                        \/ torn'[o] = (torn[o] \/ Tears(o)) /\ status[o] # "removed"
    BY <1>4 DEF ResetStaleRuns, Tears, TypeOK
  <2>2. cur' = cur
    BY <1>4 DEF ResetStaleRuns
  <2> QED BY <2>1, <2>2, OverwriteExclusive
<1>5. CASE UNCHANGED vars
  BY <1>5, ClaimsUntouched DEF vars
<1> QED BY <1>1, <1>2, <1>3, <1>4, <1>5, AdminExclusive DEF Next

LEMMA ExclusiveInit == Init => ExclusiveClaim
BY NoOrgAssumption DEF Init, ExclusiveClaim, Active

(* As long as no writer that does not hold the claim overwrites it, at most *)
(* one runner syncs an org, however many runners, orgs and edits there are. *)
THEOREM ClaimIsExclusive == Spec => []ExclusiveClaim
BY TypeInit, TypeInductive, ExclusiveInit, ExclusiveInductive, PTL DEF Spec

----------------------------------------------------------------------------
(* What a sync knows of its org and of its tasks.  An org that is synced   *)
(* has been added; the stop event is set only once the tasks have begun,   *)
(* and a task that ended in a fatal error leads to the degradation.        *)
SyncInv ==
    \A r \in Runners :
        /\ cur[r] \in Orgs => status[cur[r]] # "unborn"
        /\ stop[r] => stage[r] \in {"repos", "recompute", "attribute", "finish", "degrade"}
        /\ (\E x \in Repos : task[r][x] = "fatal") =>
              stage[r] \in {"repos", "recompute", "degrade"}

(* Where no org becomes unborn and no sync moves, nothing is to be shown.  *)
LEMMA SyncUntouched ==
    ASSUME TypeOK, SyncInv, UNCHANGED <<stage, cur, task, stop>>,
           \A o \in Orgs : status[o] # "unborn" => status'[o] # "unborn"
    PROVE  SyncInv'
BY DEF SyncInv

(* A runner at rest, or gone, has no tasks and no stop event.              *)
LEMMA SyncStepInv ==
    ASSUME TypeOK, SyncInv, NEW r \in Runners, SyncStep(r)
    PROVE  SyncInv'
<1> USE NoOrgAssumption DEF TypeOK, SyncInv, rowVars, procVars, jobVars, syncVars
<1>1. CASE JobEnds(r)
  BY <1>1 DEF JobEnds
<1>2. CASE Claim(r)
  BY <1>2 DEF Claim, Claimable
<1>3. CASE Discover(r)
  <2>1. CASE UNCHANGED syncVars /\ stage' = [stage EXCEPT ![r] = "degrade"]
    BY <1>3, <2>1 DEF Discover
  <2>2. ASSUME NEW included \in SUBSET Repos,
               task' = [task EXCEPT ![r] =
                   [x \in Repos |-> IF x \in included THEN "waiting" ELSE "none"]],
               stop' = [stop EXCEPT ![r] = FALSE],
               stage' = [stage EXCEPT ![r] = "repos"]
        PROVE  SyncInv'
    <3>1. \A x \in Repos : task'[r][x] # "fatal"
      BY <2>2
    <3>2. \A q \in Runners \ {r} : UNCHANGED <<task[q], stop[q], stage[q]>>
      BY <2>2
    <3>3. UNCHANGED <<status, cur>> /\ stage'[r] = "repos"
      BY <1>3, <2>2 DEF Discover
    <3> QED BY <2>2, <3>1, <3>2, <3>3
  <2> QED BY <1>3, <2>1, <2>2 DEF Discover
<1>4. ASSUME NEW x \in Repos,
             \/ AcquireSlot(r, x) \/ RepoSucceeds(r, x)
             \/ RepoFails(r, x) \/ RepoFatal(r, x)
      PROVE  SyncInv'
  <2>1. stage[r] = "repos" /\ UNCHANGED <<status, stage, cur>>
    BY <1>4 DEF AcquireSlot, RepoSucceeds, RepoFails, RepoFatal
  <2>2. \A q \in Runners \ {r} : UNCHANGED <<task[q], stop[q]>>
    BY <1>4 DEF AcquireSlot, RepoSucceeds, RepoFails, RepoFatal
  <2> QED BY <2>1, <2>2
<1>5. CASE GatherReturns(r)
  BY <1>5 DEF GatherReturns, AfterRecompute
<1>6. CASE Recompute(r)
  BY <1>6 DEF Recompute, AfterRecompute
<1>7. CASE Attribute(r)
  BY <1>7 DEF Attribute
<1>8. ASSUME Leave(r), stage[r] \in {"finish", "degrade"},
             stage' = [stage EXCEPT ![r] = "loop"],
             \A o \in Orgs : status[o] # "unborn" => status'[o] # "unborn"
      PROVE  SyncInv'
  <2>1. /\ \A x \in Repos : task'[r][x] # "fatal"
        /\ ~stop'[r] /\ cur'[r] = NoOrg
    BY <1>8 DEF Leave
  <2>2. \A q \in Runners \ {r} : UNCHANGED <<task[q], stop[q], stage[q], cur[q]>>
    BY <1>8 DEF Leave
  <2> QED BY <1>8, <2>1, <2>2
<1>9. CASE Finish(r)
  <2>1. CASE /\ stage' = [stage EXCEPT ![r] = "degrade"]
             /\ UNCHANGED <<status, cur, syncVars, torn>>
    BY <1>9, <2>1 DEF Finish
  <2>2. CASE /\ status' = [status EXCEPT ![cur[r]] = "idle"]
             /\ stage' = [stage EXCEPT ![r] = "loop"]
             /\ Leave(r)
    BY <1>8, <1>9, <2>2 DEF Finish
  <2> QED BY <1>9, <2>1, <2>2 DEF Finish
<1>10. CASE MarkDegraded(r)
  BY <1>8, <1>10 DEF MarkDegraded
<1> QED
  BY <1>1, <1>2, <1>3, <1>4, <1>5, <1>6, <1>7, <1>9, <1>10 DEF SyncStep, TaskStep

LEMMA VanishInv ==
    ASSUME TypeOK, SyncInv, NEW S \in SUBSET Runners, Vanish(S), status' = status
    PROVE  SyncInv'
<1>1. ASSUME NEW r \in Runners
      PROVE  IF r \in S THEN cur'[r] = NoOrg /\ ~stop'[r] /\ task'[r] = NoTasks
             ELSE UNCHANGED <<stage[r], cur[r], stop[r], task[r]>>
  BY DEF Vanish
<1> QED BY <1>1, NoOrgAssumption DEF SyncInv

LEMMA SyncInductive == TypeOK /\ SyncInv /\ [Next]_vars => SyncInv'
<1> SUFFICES ASSUME TypeOK, SyncInv, [Next]_vars PROVE SyncInv'
  OBVIOUS
<1> USE DEF rowVars, procVars, jobVars, syncVars
<1>1. ASSUME NEW r \in Runners, RunnerStep(r) PROVE SyncInv'
  <2>1. CASE SyncAllOrgs(r) \/ CheckSyncRequests(r) \/ CliSyncRun(r)
    <3>1. /\ stage[r] = "off" /\ stage' = [stage EXCEPT ![r] = "loop"]
          /\ UNCHANGED <<status, cur, task, stop>>
      BY <2>1 DEF SyncAllOrgs, CheckSyncRequests, CliSyncRun, Depart
    <3> QED BY <3>1 DEF SyncInv, TypeOK
  <2>2. CASE CliCrash(r)
    BY <2>2, VanishInv DEF CliCrash
  <2>3. CASE ClaimRaises(r)
    BY <2>3 DEF ClaimRaises, SyncInv, TypeOK
  <2> QED BY <1>1, <2>1, <2>2, <2>3, SyncStepInv DEF RunnerStep
<1>2. ASSUME NEW o \in Orgs, OrgEdit(o) PROVE SyncInv'
  BY <1>2, SyncUntouched DEF OrgEdit, AddOrg, RemoveOrg, ToggleSync, TypeOK
<1>3. CASE WorkerCrash
  BY <1>3, VanishInv DEF WorkerCrash
<1>4. CASE ResetStaleRuns
  BY <1>4, SyncUntouched DEF ResetStaleRuns
<1>5. ASSUME NEW a \in Admins, AdminStep(a) PROVE SyncInv'
  <2>1. UNCHANGED <<stage, cur, task, stop>>
    BY <1>5 DEF AdminStep, LoadForEdit, UpdateToken, UpdateTokenFails, RevalidateOk,
                RevalidateFails, SaveEdit
  <2>2. ASSUME NEW v, v # "unborn", SaveEdit(a, v)
        PROVE  \A o \in Orgs : status[o] # "unborn" => status'[o] # "unborn"
    BY <2>2 DEF SaveEdit, TypeOK
  <2>3. ASSUME NEW v, edit[a].seen = v, SaveEdit(a, v)
        PROVE  \A o \in Orgs : status[o] # "unborn" => status'[o] # "unborn"
    BY <2>3 DEF SaveEdit, TypeOK
  <2>4. \A o \in Orgs : status[o] # "unborn" => status'[o] # "unborn"
    BY <1>5, <2>2, <2>3
       DEF AdminStep, LoadForEdit, UpdateToken, UpdateTokenFails, RevalidateOk,
           RevalidateFails
  <2> QED BY <2>1, <2>4, SyncUntouched
<1>6. CASE UNCHANGED vars
  BY <1>6, SyncUntouched DEF vars
<1> QED BY <1>1, <1>2, <1>3, <1>4, <1>5, <1>6 DEF Next

LEMMA SyncInit == Init => SyncInv
BY NoOrgAssumption DEF Init, SyncInv

(* A task that did not run before is started only by AcquireSlot, which    *)
(* looks at the stop event.                                                *)
LEMMA StopHolds ==
    ASSUME TypeOK, SyncInv, [Next]_vars, NEW r \in Runners, stop[r]
    PROVE  /\ InFlight(r)' \subseteq InFlight(r)
           /\ stop'[r] \/ cur'[r] = NoOrg
<1> USE DEF TypeOK, SyncInv, InFlight, rowVars, procVars, jobVars, syncVars
<1>1. CASE UNCHANGED <<task, stop>>
  BY <1>1
<1>2. ASSUME NEW S \in SUBSET Runners, Vanish(S)
      PROVE  /\ InFlight(r)' \subseteq InFlight(r)
             /\ stop'[r] \/ cur'[r] = NoOrg
  <2>1. CASE r \in S
    BY <1>2, <2>1 DEF Vanish
  <2>2. CASE r \notin S
    BY <1>2, <2>2 DEF Vanish
  <2> QED BY <2>1, <2>2
<1>3. ASSUME NEW q \in Runners, TaskStep(q)
      PROVE  InFlight(r)' \subseteq InFlight(r) /\ stop'[r]
  <2>1. PICK x \in Repos : \/ AcquireSlot(q, x) \/ RepoSucceeds(q, x)
                           \/ RepoFails(q, x) \/ RepoFatal(q, x)
    BY <1>3 DEF TaskStep
  <2>2. stop'[r]
    BY <2>1 DEF AcquireSlot, RepoSucceeds, RepoFails, RepoFatal
  <2>3. CASE AcquireSlot(q, x)
    BY <2>3 DEF AcquireSlot
  <2>4. CASE RepoSucceeds(q, x) \/ RepoFails(q, x) \/ RepoFatal(q, x)
    <3>1. PICK end \in {"ok", "failed", "fatal"} : task' = [task EXCEPT ![q][x] = end]
      BY <2>4 DEF RepoSucceeds, RepoFails, RepoFatal
    <3>2. \A y \in Repos : task'[r][y] = "running" => task[r][y] = "running"
      BY <3>1
    <3> QED BY <2>2, <3>2
  <2> QED BY <2>1, <2>2, <2>3, <2>4
<1>4. ASSUME NEW q \in Runners, Discover(q)
      PROVE  InFlight(r)' \subseteq InFlight(r) /\ stop'[r]
  <2>1. q # r
    BY <1>4 DEF Discover
  <2>2. task'[r] = task[r] /\ stop'[r]
    BY <1>4, <2>1 DEF Discover
  <2> QED BY <2>2
<1>5. ASSUME NEW q \in Runners, Leave(q)
      PROVE  /\ InFlight(r)' \subseteq InFlight(r)
             /\ stop'[r] \/ cur'[r] = NoOrg
  <2>1. CASE q = r
    BY <1>5, <2>1 DEF Leave
  <2>2. CASE q # r
    BY <1>5, <2>2 DEF Leave
  <2> QED BY <2>1, <2>2
<1>6. ASSUME NEW q \in Runners, SyncStep(q)
      PROVE  /\ InFlight(r)' \subseteq InFlight(r)
             /\ stop'[r] \/ cur'[r] = NoOrg
  <2>1. CASE JobEnds(q) \/ Claim(q) \/ GatherReturns(q) \/ Recompute(q) \/ Attribute(q)
    BY <1>1, <2>1 DEF JobEnds, Claim, GatherReturns, Recompute, Attribute
  <2>2. CASE Finish(q)
    BY <1>1, <1>5, <2>2 DEF Finish
  <2>3. CASE MarkDegraded(q)
    BY <1>5, <2>3 DEF MarkDegraded
  <2> QED BY <1>3, <1>4, <1>6, <2>1, <2>2, <2>3 DEF SyncStep
<1>7. ASSUME NEW q \in Runners, RunnerStep(q)
      PROVE  /\ InFlight(r)' \subseteq InFlight(r)
             /\ stop'[r] \/ cur'[r] = NoOrg
  <2>1. CASE SyncAllOrgs(q) \/ CheckSyncRequests(q) \/ CliSyncRun(q) \/ ClaimRaises(q)
    BY <1>1, <2>1 DEF SyncAllOrgs, CheckSyncRequests, CliSyncRun, ClaimRaises, Depart
  <2>2. CASE CliCrash(q)
    BY <1>2, <2>2 DEF CliCrash
  <2> QED BY <1>6, <1>7, <2>1, <2>2 DEF RunnerStep
<1>8. CASE WorkerCrash
  BY <1>2, <1>8 DEF WorkerCrash, Runners
<1>9. CASE \E o \in Orgs : OrgEdit(o)
  BY <1>1, <1>9 DEF OrgEdit, AddOrg, RemoveOrg, ToggleSync
<1>10. CASE \E a \in Admins : AdminStep(a)
  BY <1>1, <1>10
  DEF AdminStep, LoadForEdit, UpdateToken, UpdateTokenFails, RevalidateOk,
      RevalidateFails, SaveEdit
<1>11. CASE ResetStaleRuns \/ UNCHANGED vars
  BY <1>1, <1>11 DEF ResetStaleRuns, vars
<1> QED
  BY <1>7, <1>8, <1>9, <1>10, <1>11 DEF Next

(* Once a rate limit or a rejected token has set the stop event of a sync, *)
(* no task of it starts, and the event stays set until the sync is over.   *)
THEOREM StopStopsTasks == Spec => StopIsFinal
<1>1. TypeOK /\ SyncInv /\ [Next]_vars =>
        [\A r \in Runners : stop[r] =>
            /\ InFlight(r)' \subseteq InFlight(r)
            /\ stop'[r] \/ cur'[r] = NoOrg]_vars
  BY StopHolds
<1> QED
  BY <1>1, TypeInit, TypeInductive, SyncInit, SyncInductive, PTL DEF Spec, StopIsFinal

(* The steps that move a runner to or from an org.                         *)
LEMMA OrgChangers ==
    ASSUME [Next]_vars, cur' # cur
    PROVE  \/ \E q \in Runners : Claim(q) \/ Finish(q) \/ MarkDegraded(q)
           \/ \E S \in SUBSET Runners : Vanish(S)
<1> USE DEF rowVars, procVars, jobVars, syncVars
<1>1. ASSUME NEW q \in Runners, SyncStep(q)
      PROVE  Claim(q) \/ Finish(q) \/ MarkDegraded(q)
  BY <1>1
  DEF SyncStep, JobEnds, Discover, TaskStep, AcquireSlot, RepoSucceeds, RepoFails,
      RepoFatal, GatherReturns, Recompute, Attribute
<1>2. ASSUME NEW q \in Runners, CliCrash(q)
      PROVE  \E S \in SUBSET Runners : Vanish(S)
  BY <1>2 DEF CliCrash
<1>3. ASSUME NEW q \in Runners, RunnerStep(q)
      PROVE  SyncStep(q) \/ CliCrash(q)
  BY <1>3
  DEF RunnerStep, SyncAllOrgs, CheckSyncRequests, CliSyncRun, ClaimRaises, Depart
<1>4. CASE WorkerCrash
  BY <1>4 DEF WorkerCrash, Runners
<1>5. ~ \E o \in Orgs : OrgEdit(o)
  BY DEF OrgEdit, AddOrg, RemoveOrg, ToggleSync
<1>6. ~ \E a \in Admins : AdminStep(a)
  BY DEF AdminStep, LoadForEdit, UpdateToken, UpdateTokenFails, RevalidateOk,
         RevalidateFails, SaveEdit
<1>7. ~ResetStaleRuns /\ ~UNCHANGED vars
  BY DEF ResetStaleRuns, vars
<1> QED
  BY <1>1, <1>2, <1>3, <1>4, <1>5, <1>6, <1>7 DEF Next

(* Who leaves an org with a fatal task has come through MarkDegraded.      *)
LEMMA FatalHolds ==
    ASSUME TypeOK, SyncInv, [Next]_vars, NEW r \in Runners, cur[r] \in Orgs,
           \E x \in Repos : task[r][x] = "fatal",
           cur'[r] = NoOrg, stage'[r] = "loop"
    PROVE  status'[cur[r]] \in {"degraded", "removed"}
<1> USE NoOrgAssumption DEF TypeOK, SyncInv, rowVars, procVars, jobVars, syncVars
<1>1. CASE UNCHANGED cur
  BY <1>1
<1>2. ASSUME NEW q \in Runners, Claim(q) PROVE FALSE
  BY <1>2 DEF Claim
<1>3. ASSUME NEW q \in Runners, Finish(q), cur' # cur PROVE FALSE
  <2>1. q = r
    BY <1>3 DEF Finish, Leave
  <2> QED BY <1>3, <2>1 DEF Finish
<1>4. ASSUME NEW q \in Runners, MarkDegraded(q)
      PROVE  status'[cur[r]] \in {"degraded", "removed"}
  <2>1. q = r
    BY <1>4 DEF MarkDegraded, Leave
  <2> QED BY <1>4, <2>1 DEF MarkDegraded, Present
<1>5. ASSUME NEW S \in SUBSET Runners, Vanish(S) PROVE FALSE
  BY <1>5 DEF Vanish
<1> QED BY <1>1, <1>2, <1>3, <1>4, <1>5, OrgChangers

(* A sync with a task that met a rate limit or a rejected token hands its  *)
(* org back as degraded, unless the org is gone.                           *)
THEOREM FatalsDegrade == Spec => FatalDegrades
<1>1. TypeOK /\ SyncInv /\ [Next]_vars =>
        [\A r \in Runners :
            (/\ cur[r] \in Orgs
             /\ \E x \in Repos : task[r][x] = "fatal"
             /\ cur'[r] = NoOrg
             /\ up' = up
             /\ stage'[r] = "loop")
            => status'[cur[r]] \in {"degraded", "removed"}]_vars
  BY FatalHolds
<1> QED
  BY <1>1, TypeInit, TypeInductive, SyncInit, SyncInductive, PTL DEF Spec, FatalDegrades

----------------------------------------------------------------------------
(* If no command-line process is killed half-way, an org that says running *)
(* while the worker is up has a runner, whatever admins write: a runner    *)
(* that leaves, leaves another status, and a boot resets what a crashed    *)
(* worker has left.                                                        *)
THEOREM RunnersHold ==
    ASSUME ~CliMayCrash
    PROVE  Spec => []RunningHasRunner
<1>1. Init => RunningHasRunner
  BY DEF Init, RunningHasRunner
<1>2. TypeOK /\ RunningHasRunner /\ [Next]_vars => RunningHasRunner'
  <2> SUFFICES ASSUME TypeOK, RunningHasRunner, [Next]_vars,
                      NEW o \in Orgs, up', status'[o] = "running"
               PROVE  Active(o)' # {}
    BY DEF RunningHasRunner
  <2> USE NoOrgAssumption DEF TypeOK, Active, rowVars, procVars, jobVars, syncVars
  <2>1. CASE UNCHANGED <<status, cur, up>>
    BY <2>1 DEF RunningHasRunner
  <2>2. ASSUME UNCHANGED <<cur, up>>, status[o] = "running" PROVE Active(o)' # {}
    BY <2>2 DEF RunningHasRunner
  <2>3. ASSUME NEW r \in Runners, Claim(r) PROVE Active(o)' # {}
    <3>1. CASE cur' = [cur EXCEPT ![r] = o]
      BY <3>1
    <3>2. CASE cur' # [cur EXCEPT ![r] = o]
      <4>1. status[o] = "running" /\ up
        BY <2>3, <3>2 DEF Claim
      <4>2. PICK q \in Runners : cur[q] = o
        BY <4>1 DEF RunningHasRunner
      <4>3. cur[r] = NoOrg
        BY <2>3 DEF Claim
      <4>4. cur'[q] = o
        BY <2>3, <4>2, <4>3 DEF Claim
      <4> QED BY <4>4
    <3> QED BY <3>1, <3>2
  <2>4. ASSUME NEW r \in Runners, Leave(r), status'[cur[r]] # "running",
               \A p \in Orgs \ {cur[r]} : status'[p] = status[p], up' = up
        PROVE  Active(o)' # {}
    <3>1. cur[r] # o
      BY <2>4
    <3>2. PICK q \in Runners : cur[q] = o
      BY <2>4, <3>1 DEF RunningHasRunner
    <3>3. cur'[q] = o
      BY <2>4, <3>1, <3>2 DEF Leave
    <3> QED BY <3>3
  <2>5. ASSUME NEW r \in Runners, Finish(r) PROVE Active(o)' # {}
    <3>1. CASE Leave(r) /\ status' = [status EXCEPT ![cur[r]] = "idle"]
      BY <2>4, <2>5, <3>1 DEF Finish
    <3>2. CASE UNCHANGED <<status, cur>>
      BY <2>1, <2>5, <3>2 DEF Finish
    <3> QED BY <2>5, <3>1, <3>2 DEF Finish
  <2>6. ASSUME NEW r \in Runners, MarkDegraded(r) PROVE Active(o)' # {}
    <3>1. cur[r] \in Orgs
      BY <2>6 DEF MarkDegraded
    <3>2. status'[cur[r]] # "running"
      BY <2>6, <3>1 DEF MarkDegraded, Present
    <3> QED BY <2>4, <2>6, <3>2 DEF MarkDegraded
  <2>7. CASE ResetStaleRuns
    BY <2>7 DEF ResetStaleRuns
  <2>8. ASSUME NEW a \in Admins, AdminStep(a) PROVE Active(o)' # {}
    <3>1. UNCHANGED <<cur, up>>
      BY <2>8 DEF AdminStep, LoadForEdit, UpdateToken, UpdateTokenFails, RevalidateOk,
                  RevalidateFails, SaveEdit
    <3>2. ASSUME NEW v, v # "running" \/ v = edit[a].seen, SaveEdit(a, v)
          PROVE  status[o] = "running"
      BY <3>2 DEF SaveEdit
    <3>3. status[o] = "running"
      BY <2>8, <3>2 DEF AdminStep, LoadForEdit, UpdateToken, UpdateTokenFails,
                        RevalidateOk, RevalidateFails
    <3> QED BY <2>2, <3>1, <3>3
  <2>9. ASSUME NEW p \in Orgs, OrgEdit(p) PROVE Active(o)' # {}
    BY <2>2, <2>9 DEF OrgEdit, AddOrg, RemoveOrg, ToggleSync
  <2>10. ~WorkerCrash /\ \A r \in Runners : ~CliCrash(r)
    BY DEF WorkerCrash, CliCrash
  <2>11. ASSUME NEW r \in Runners, SyncStep(r) PROVE Active(o)' # {}
    <3>1. CASE \/ JobEnds(r) \/ Discover(r) \/ GatherReturns(r) \/ Recompute(r)
               \/ Attribute(r)
      BY <2>1, <3>1 DEF JobEnds, Discover, GatherReturns, Recompute, Attribute
    <3>2. CASE TaskStep(r)
      BY <2>1, <3>2 DEF TaskStep, AcquireSlot, RepoSucceeds, RepoFails, RepoFatal
    <3> QED BY <2>3, <2>5, <2>6, <2>11, <3>1, <3>2 DEF SyncStep
  <2>12. ASSUME NEW r \in Runners, RunnerStep(r) PROVE Active(o)' # {}
    <3>1. CASE SyncAllOrgs(r) \/ CheckSyncRequests(r) \/ CliSyncRun(r) \/ ClaimRaises(r)
      BY <2>1, <3>1 DEF SyncAllOrgs, CheckSyncRequests, CliSyncRun, ClaimRaises, Depart
    <3> QED BY <2>10, <2>11, <2>12, <3>1 DEF RunnerStep
  <2>13. CASE UNCHANGED vars
    BY <2>1, <2>13 DEF vars
  <2> QED BY <2>7, <2>8, <2>9, <2>10, <2>12, <2>13 DEF Next
<1> QED BY <1>1, <1>2, TypeInit, TypeInductive, PTL DEF Spec

----------------------------------------------------------------------------
(* SyncRequests.                                                           *)

USE DEF Doc, NoDoc, Holding, JobIdle, Remaining, Asked, Overwritten

(* The types: the request document is never without its row once a request *)
(* was committed or the job is at work on it.                              *)
THEOREM RequestsTypeCorrect == RequestsSpec => []RequestsTypeOK
<1>1. RequestsInit => RequestsTypeOK
  <2> SUFFICES ASSUME RequestsInit PROVE RequestsTypeOK
    OBVIOUS
  <2>1. PICK target \in [Requests -> OrgIds] :
          web = [q \in Requests |-> [at |-> "new", org |-> target[q], seen |-> NoDoc,
                                    found |-> FALSE]]
    BY DEF RequestsInit
  <2>2. \A q \in Requests :
          web[q] \in [at : {"new", "read", "set", "done", "refused"}, org : OrgIds,
                     seen : Doc, found : BOOLEAN]
    BY <2>1
  <2>3. jobCrashes \in 0..MaxJobCrashes
    BY MaxJobCrashesAssumption DEF RequestsInit
  <2> QED BY <2>1, <2>2, <2>3 DEF RequestsInit, RequestsTypeOK
<1>2. RequestsTypeOK /\ [RequestsNext]_requestVars => RequestsTypeOK'
  <2> SUFFICES ASSUME RequestsTypeOK, [RequestsNext]_requestVars PROVE RequestsTypeOK'
    OBVIOUS
  <2> USE MaxJobCrashesAssumption DEF RequestsTypeOK
  <2>1. ASSUME NEW q \in Requests, ReadForRequest(q) PROVE RequestsTypeOK'
    <3>1. web' \in [Requests -> [at : {"new", "read", "set", "done", "refused"},
                                 org : OrgIds, seen : Doc, found : BOOLEAN]]
      <4> DEFINE w == [web[q] EXCEPT !.at = "read", !.seen = doc]
      <4>1. w \in [at : {"new", "read", "set", "done", "refused"}, org : OrgIds,
                  seen : Doc, found : BOOLEAN]
        OBVIOUS
      <4>2. web' = [web EXCEPT ![q] = w]
        BY <2>1 DEF ReadForRequest
      <4> HIDE DEF w
      <4> QED BY <4>1, <4>2
    <3>2. \A p \in Requests : web'[p].at = "done" => web[p].at = "done"
      BY <2>1 DEF ReadForRequest
    <3> QED BY <2>1, <3>1, <3>2 DEF ReadForRequest
  <2>2. ASSUME NEW q \in Requests, FileRequest(q) PROVE RequestsTypeOK'
    BY <2>2 DEF FileRequest
  <2>3. ASSUME NEW q \in Requests, RequestRefused(q) PROVE RequestsTypeOK'
    BY <2>3 DEF RequestRefused
  <2>4. CASE JobReads
    BY <2>4 DEF JobReads
  <2>5. CASE JobRereads
    BY <2>5 DEF JobRereads
  <2>6. CASE JobClears
    BY <2>6 DEF JobClears
  <2>7. CASE JobServes
    BY <2>7 DEF JobServes
  <2>8. CASE RequestsJobEnds
    BY <2>8 DEF RequestsJobEnds
  <2>9. CASE JobCrash
    BY <2>9 DEF JobCrash
  <2>10. ASSUME NEW q \in Requests, SetLooks(q) PROVE RequestsTypeOK'
    BY <2>10 DEF SetLooks
  <2>11. CASE UNCHANGED requestVars
    BY <2>11 DEF requestVars
  <2> QED
    BY <2>1, <2>2, <2>3, <2>4, <2>5, <2>6, <2>7, <2>8, <2>9, <2>10, <2>11
    DEF RequestsNext, JobStep
<1> QED BY <1>1, <1>2, PTL DEF RequestsSpec

(* Whatever the order of requests, re-reads, clearings and cut-off runs, a  *)
(* request that is neither in the document nor with the job, and whose org *)
(* has had no turn, was overwritten by a commit that had not read it, or    *)
(* was cleared by a run that was cut off.  The property is inductive as it *)
(* stands, relative to the types.                                          *)
THEOREM OnlyRacesAndCrashesLose == RequestsSpec => []NoSilentLoss
<1>1. RequestsInit => NoSilentLoss
  BY DEF RequestsInit, NoSilentLoss
<1>2. RequestsTypeOK /\ NoSilentLoss /\ [RequestsNext]_requestVars => NoSilentLoss'
  <2> SUFFICES ASSUME RequestsTypeOK, NoSilentLoss, [RequestsNext]_requestVars
               PROVE  NoSilentLoss'
    OBVIOUS
  <2> USE DEF RequestsTypeOK, NoSilentLoss
  <2>1. ASSUME NEW q \in Requests, FileRequest(q) PROVE NoSilentLoss'
    BY <2>1 DEF FileRequest
  <2>2. CASE JobClears
    BY <2>2 DEF JobClears
  <2>3. CASE JobServes
    BY <2>3 DEF JobServes
  <2>4. CASE JobCrash
    BY <2>4 DEF JobCrash
  <2>5. CASE UNCHANGED <<doc, job.pending, owed, lost, dropped>>
    BY <2>5
  <2>6. CASE JobReads \/ JobRereads
    BY <2>5, <2>6 DEF JobReads, JobRereads
  <2>7. CASE RequestsJobEnds
    BY <2>7 DEF RequestsJobEnds
  <2> QED
    BY <2>1, <2>2, <2>3, <2>4, <2>5, <2>6, <2>7 DEF RequestsNext, JobStep, ReadForRequest,
      SetLooks, RequestRefused, requestVars
<1> QED BY <1>1, <1>2, RequestsTypeCorrect, PTL DEF RequestsSpec
=============================================================================
