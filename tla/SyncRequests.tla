---------------------------- MODULE SyncRequests ----------------------------
(* Manual sync requests: a JSON document in the settings table, rewritten   *)
(* as a whole by the web app for every request and by the worker's job that *)
(* takes the requests out.  SettingsStore reads and writes the document in  *)
(* two statements, nothing locks it in between, and the last commit wins.   *)
(* The session keeps no reference to the row it read, so every get of the   *)
(* store is a query of its own, set()'s own get included.                   *)
EXTENDS Naturals, FiniteSets

CONSTANTS
    OrgIds,       \* ids that may be requested
    Requests,   \* web requests: POST /orgs/{id}/sync and /orgs/add
    MaxJobCrashes  \* bound on the job's runs that end in the middle

ASSUME MaxJobCrashesAssumption == MaxJobCrashes \in Nat

VARIABLES
    doc,      \* settings["sync_requests"]: whether the row exists, its keys
    web,      \* each web request: its stage, org, the document it read, and
              \* whether set() found the row
    job,      \* check_sync_requests: its stage, what it read, what is left
    jobCrashes,  \* the job's runs cut off so far
    owed,     \* ghost: orgs with a committed request and no turn of the job since
    lost,     \* ghost: orgs whose request a commit overwrote without having read it
    dropped   \* ghost: orgs whose request was cleared by a run then cut off

requestVars == <<doc, web, job, jobCrashes, owed, lost, dropped>>

JobIdle == [at |-> "idle", first |-> {}, latest |-> {}, pending |-> {}]

Doc == [row : BOOLEAN, keys : SUBSET OrgIds]
NoDoc == [row |-> FALSE, keys |-> {}]
Holding(keys) == [row |-> TRUE, keys |-> keys]

RequestsTypeOK ==
    /\ doc \in Doc
    /\ web \in [Requests -> [at : {"new", "read", "set", "done", "refused"},
                             org : OrgIds, seen : Doc, found : BOOLEAN]]
    /\ job \in [at : {"idle", "read", "reread", "serving"}, first : SUBSET OrgIds,
                latest : SUBSET OrgIds, pending : SUBSET OrgIds]
    /\ jobCrashes \in 0..MaxJobCrashes
    /\ owed \subseteq OrgIds
    /\ lost \subseteq OrgIds
    /\ dropped \subseteq OrgIds
    /\ doc.keys # {} \/ job.at \in {"read", "reread"} => doc.row
    /\ job.at \in {"read", "reread"} => job.first # {}
    /\ job.at # "serving" => job.pending = {}
    /\ \A q \in Requests : web[q].at = "done" => doc.row

RequestsInit ==
    /\ doc = NoDoc
    /\ \E target \in [Requests -> OrgIds] :
          web = [q \in Requests |-> [at |-> "new", org |-> target[q], seen |-> NoDoc,
                                    found |-> FALSE]]
    /\ job = JobIdle
    /\ jobCrashes = 0
    /\ owed = {}
    /\ lost = {}
    /\ dropped = {}

(* _request_sync reads the document ...                                    *)
ReadForRequest(q) ==
    /\ web[q].at = "new"
    /\ web' = [web EXCEPT ![q] = [@ EXCEPT !.at = "read", !.seen = doc]]
    /\ UNCHANGED <<doc, job, jobCrashes, owed, lost, dropped>>

(* ... set() gets the row once more, only to know whether it is there ...  *)
SetLooks(q) ==
    /\ web[q].at = "read"
    /\ web' = [web EXCEPT ![q] = [@ EXCEPT !.at = "set", !.found = doc.row]]
    /\ UNCHANGED <<doc, job, jobCrashes, owed, lost, dropped>>

Asked(q) == web[q].seen.keys \cup {web[q].org}
(* What the commit of q drops: keys that were not there when it read.      *)
Overwritten(q) == IF web[q].seen = doc THEN {} ELSE doc.keys \ Asked(q)

(* Mutant: the request does not create the row.                            *)
FileRequestUnrowed(q) ==
    /\ web[q].at = "set"
    /\ web[q].found \/ ~doc.row
    /\ doc' = [row |-> web[q].found, keys |-> Asked(q)]
    /\ web' = [web EXCEPT ![q].at = "done"]
    /\ owed' = owed \cup {web[q].org}
    /\ lost' = (lost \cup Overwritten(q)) \ {web[q].org}
    /\ dropped' = dropped \ {web[q].org}
    /\ UNCHANGED <<job, jobCrashes>>

(* ... and the router commits the document of the first read with one more *)
(* key: an UPDATE of the row set() found, whatever is in it now, or an     *)
(* INSERT of the row that still is not there.                              *)
FileRequest(q) ==
    /\ web[q].at = "set"
    /\ web[q].found \/ ~doc.row
    /\ doc' = Holding(Asked(q))
    /\ web' = [web EXCEPT ![q].at = "done"]
    /\ owed' = owed \cup {web[q].org}
    /\ lost' = (lost \cup Overwritten(q)) \ {web[q].org}
    /\ dropped' = dropped \ {web[q].org}
    /\ UNCHANGED <<job, jobCrashes>>

(* The row set() did not find was committed before its INSERT: the key is  *)
(* violated, and the admin sees the error.                                 *)
RequestRefused(q) ==
    /\ web[q].at = "set"
    /\ ~web[q].found /\ doc.row
    /\ web' = [web EXCEPT ![q].at = "refused"]
    /\ UNCHANGED <<doc, job, jobCrashes, owed, lost, dropped>>

(* check_sync_requests: nothing to do without requests.                    *)
JobReads ==
    /\ job.at = "idle"
    /\ doc.keys # {}
    /\ job' = [job EXCEPT !.at = "read", !.first = doc.keys]
    /\ UNCHANGED <<doc, web, jobCrashes, owed, lost, dropped>>

(* "Re-read before clearing so requests filed in between are kept."        *)
JobRereads ==
    /\ job.at = "read"
    /\ job' = [job EXCEPT !.at = "reread", !.latest = doc.keys]
    /\ UNCHANGED <<doc, web, jobCrashes, owed, lost, dropped>>

(* Mutant: everything is cleared.                                          *)
RemainingNone == {}

(* What the job writes back.                                               *)
Remaining == job.latest \ job.first

(* The write and its commit; the requests taken are now the job's alone.   *)
JobClears ==
    /\ job.at = "reread"
    /\ doc' = Holding(Remaining)
    /\ job' = [JobIdle EXCEPT !.at = "serving", !.pending = job.first]
    /\ lost' = lost \cup
          (IF job.latest = doc.keys THEN {} ELSE doc.keys \ (Remaining \cup job.first))
    /\ UNCHANGED <<web, jobCrashes, owed, dropped>>

(* Mutant: an org that is gone or running ends the job ("return" for       *)
(* "continue").                                                            *)
JobServesAndReturns ==
    /\ job.at = "serving"
    /\ \E o \in job.pending, on \in BOOLEAN :
          /\ job' = [job EXCEPT !.pending = IF on THEN @ \ {o} ELSE {}]
          /\ owed' = owed \ {o}
    /\ UNCHANGED <<doc, web, jobCrashes, lost, dropped>>

(* An org's turn: it is synced, or skipped when it is gone or running.     *)
JobServes ==
    /\ job.at = "serving"
    /\ \E o \in job.pending :
          /\ job' = [job EXCEPT !.pending = @ \ {o}]
          /\ owed' = owed \ {o}
    /\ UNCHANGED <<doc, web, jobCrashes, lost, dropped>>

RequestsJobEnds ==
    /\ job.at = "serving"
    /\ job.pending = {}
    /\ job' = JobIdle
    /\ UNCHANGED <<doc, web, jobCrashes, owed, lost, dropped>>

(* The worker stops where it is, or an exception leaves the job: the next  *)
(* run starts afresh, from the document.                                   *)
JobCrash ==
    /\ job.at # "idle"
    /\ jobCrashes < MaxJobCrashes
    /\ jobCrashes' = jobCrashes + 1
    /\ job' = JobIdle
    /\ dropped' = dropped \cup job.pending
    /\ UNCHANGED <<doc, web, owed, lost>>

JobStep == JobReads \/ JobRereads \/ JobClears \/ JobServes \/ RequestsJobEnds

RequestsNext ==
    \/ \E q \in Requests :
          ReadForRequest(q) \/ SetLooks(q) \/ FileRequest(q) \/ RequestRefused(q)
    \/ JobStep
    \/ JobCrash

RequestsSpec == RequestsInit /\ [][RequestsNext]_requestVars

(* The job is scheduled every 30 seconds and its syncs end.                *)
FairRequestsSpec == RequestsSpec /\ WF_requestVars(JobStep)

----------------------------------------------------------------------------
(* Properties.                                                             *)

(* An org that was asked for and has had no turn since is in the document   *)
(* or with the job, unless one of two things took its request: a commit     *)
(* that had not read it (two overlapping read-modify-write cycles), or the  *)
(* end of a run that had cleared it before (jobs.py:93).  No other order of *)
(* requests, re-reads, clearings and crashes loses a request.               *)
NoSilentLoss == owed \subseteq doc.keys \cup job.pending \cup lost \cup dropped

(* A filed request gets the org a turn of the job that comes after it, or   *)
(* is lost to one of the two causes; a later request for the org counts     *)
(* afresh.                                                                  *)
EveryRequestHasItsTurn ==
    \A o \in OrgIds : (o \in owed) ~> (o \notin owed \/ o \in lost \cup dropped)

=============================================================================
