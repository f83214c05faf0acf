---------------------------- MODULE ReportQueue ----------------------------
(* On-demand reports: the web app files rows, the worker's single drain job *)
(* claims, renders and settles them, `report generate` processes do request *)
(* and rendering in one transaction, and the web app mails documents.      *)
(* Rendering ends by writing a file whose name is the report's kind, its    *)
(* start month and the second of the clock; the row is committed after it.  *)
EXTENDS Naturals, FiniteSets

CONSTANTS
    Reports,     \* ids, allocated in increasing order
    Slots,       \* report kind and start year/month: the rest of a file name
    CliRuns,     \* `report generate` processes
    Mailers,     \* concurrent POST /reports/{id}/email requests
    MaxStamp,    \* bound on the clock, in seconds
    MaxCrashes,  \* bound on worker crashes
    NoReport, NoPath

ASSUME ReportsAssumption == Reports \subseteq Nat /\ IsFiniteSet(Reports)
ASSUME MaxStampAssumption == MaxStamp \in Nat
ASSUME MaxCrashesAssumption == MaxCrashes \in Nat
ASSUME NoReportAssumption == NoReport \notin Reports

Paths == Slots \X (0..MaxStamp)

ASSUME NoPathAssumption == NoPath \notin Paths

(* "absent": no row, or one whose transaction has not committed.           *)
Status == {"absent", "queued", "generating", "generated", "emailed", "unsent",
           "failed"}
Generated == {"generated", "emailed", "unsent"}

VARIABLES
    status,   \* Report.status
    slot,     \* Report.kind and period_start
    path,     \* Report.pdf_path
    taken,    \* the ids the sequence has handed out
    file,     \* the reports directory: whose document each path holds
    now,      \* the clock, in seconds
    up,       \* the worker process is running
    crashes,  \* worker crashes so far
    gen,      \* each generator's stage, its report and the path it wrote
    mail,     \* the report each email request loaded, and the status it saw
    mailed    \* ghost: the reports whose document reached a mail server

rowVars == <<status, slot, path, taken>>
procVars == <<up, crashes>>
vars == <<rowVars, file, now, procVars, gen, mail, mailed>>

Worker == "worker"
Generators == {Worker} \cup CliRuns
ASSUME CliRunsAssumption == Worker \notin CliRuns

Off == [stage |-> "off", rep |-> NoReport, path |-> NoPath]
NoMail == [rep |-> NoReport, seen |-> "absent"]

TypeOK ==
    /\ status \in [Reports -> Status]
    /\ slot \in [Reports -> Slots]
    /\ path \in [Reports -> Paths \cup {NoPath}]
    /\ taken \subseteq Reports
    /\ file \in [Paths -> Reports \cup {NoReport}]
    /\ now \in 0..MaxStamp
    /\ up \in BOOLEAN
    /\ crashes \in 0..MaxCrashes
    /\ gen \in [Generators -> [stage : {"off", "render", "written", "error"},
                               rep : Reports \cup {NoReport},
                               path : Paths \cup {NoPath}]]
    /\ mail \in [Mailers -> [rep : Reports \cup {NoReport}, seen : Status]]
    /\ mailed \subseteq Reports
    /\ \A r \in Reports : status[r] # "absent" => r \in taken
    /\ \A g \in Generators :
          /\ gen[g].stage = "off" <=> gen[g].rep = NoReport
          /\ gen[g].stage = "written" <=> gen[g].path # NoPath

Init ==
    /\ status = [r \in Reports |-> "absent"]
    /\ slot \in [Reports -> Slots]
    /\ path = [r \in Reports |-> NoPath]
    /\ taken = {}
    /\ file = [p \in Paths |-> NoReport]
    /\ now = 0
    /\ up = TRUE
    /\ crashes = 0
    /\ gen = [g \in Generators |-> Off]
    /\ mail = [m \in Mailers |-> NoMail]
    /\ mailed = {}

Free == Reports \ taken
Queued == {r \in Reports : status[r] = "queued"}
Oldest(r, ids) == r \in ids /\ \A q \in ids : r <= q

Tick ==
    /\ now < MaxStamp
    /\ now' = now + 1
    /\ UNCHANGED <<rowVars, file, procVars, gen, mail, mailed>>

----------------------------------------------------------------------------
(* request_report from the web: the row is committed as queued.            *)
RequestReport == \E r \in Reports :
    /\ Oldest(r, Free)
    /\ taken' = taken \cup {r}
    /\ status' = [status EXCEPT ![r] = "queued"]
    /\ UNCHANGED <<slot, path, file, now, procVars, gen, mail, mailed>>

(* generate_reports in a CLI process: the row gets its id and stays inside *)
(* the open transaction, invisible to everyone else.                       *)
CliRequest(g) == \E r \in Reports :
    /\ g \in CliRuns
    /\ gen[g].stage = "off"
    /\ Oldest(r, Free)
    /\ taken' = taken \cup {r}
    /\ gen' = [gen EXCEPT ![g] = [stage |-> "render", rep |-> r, path |-> NoPath]]
    /\ UNCHANGED <<status, slot, path, file, now, procVars, mail, mailed>>

(* process_report_queue: the oldest queued row, flipped by an UPDATE that  *)
(* names the status.  Only this job takes rows out of the queue, so the    *)
(* code's second look at the result of the UPDATE never finds it empty.    *)
ClaimReport == \E r \in Reports :
    /\ up
    /\ gen[Worker].stage = "off"
    /\ Oldest(r, Queued)
    /\ status' = [status EXCEPT ![r] = "generating"]
    /\ gen' = [gen EXCEPT ![Worker] = [stage |-> "render", rep |-> r, path |-> NoPath]]
    /\ UNCHANGED <<slot, path, taken, file, now, procVars, mail, mailed>>

(* _report_path *)
ReportPath(r) == <<slot[r], now>>

(* fulfill_report up to its file: whatever the path held is overwritten.   *)
WritePdf(g) ==
    /\ gen[g].stage = "render"
    /\ file' = [file EXCEPT ![ReportPath(gen[g].rep)] = gen[g].rep]
    /\ gen' = [gen EXCEPT ![g].stage = "written", ![g].path = ReportPath(gen[g].rep)]
    /\ UNCHANGED <<rowVars, now, procVars, mail, mailed>>

(* The rest of fulfill_report, and the caller's commit.                    *)
CommitGenerated(g) ==
    /\ gen[g].stage = "written"
    /\ status' = [status EXCEPT ![gen[g].rep] = "generated"]
    /\ path' = [path EXCEPT ![gen[g].rep] = gen[g].path]
    /\ gen' = [gen EXCEPT ![g] = Off]
    /\ UNCHANGED <<slot, taken, file, now, procVars, mail, mailed>>

(* Mutant: the worker's transaction is not rolled back.                    *)
GenerationFailsKeepingPath(g) ==
    /\ gen[g].stage \in {"render", "written"}
    /\ gen' = [gen EXCEPT ![g] =
          IF g = Worker THEN [@ EXCEPT !.stage = "error"] ELSE Off]
    /\ UNCHANGED <<rowVars, file, now, procVars, mail, mailed>>

(* Rendering, writing or committing raises: the transaction is rolled back *)
(* with all it held.  The worker has a row to mark, a CLI process has not. *)
GenerationFails(g) ==
    /\ gen[g].stage \in {"render", "written"}
    /\ gen' = [gen EXCEPT ![g] =
          IF g = Worker THEN [@ EXCEPT !.stage = "error", !.path = NoPath] ELSE Off]
    /\ UNCHANGED <<rowVars, file, now, procVars, mail, mailed>>

(* Mutants: the error is logged and the row not marked, or the claim undone. *)
MarkFailedNot ==
    /\ gen[Worker].stage = "error"
    /\ gen' = [gen EXCEPT ![Worker] = Off]
    /\ UNCHANGED <<rowVars, file, now, procVars, mail, mailed>>

MarkFailedRequeues ==
    /\ gen[Worker].stage = "error"
    /\ status' = [status EXCEPT ![gen[Worker].rep] = "queued"]
    /\ gen' = [gen EXCEPT ![Worker] = Off]
    /\ UNCHANGED <<slot, path, taken, file, now, procVars, mail, mailed>>

(* The worker's except branch, in a session of its own.                    *)
MarkFailed ==
    /\ gen[Worker].stage = "error"
    /\ status' = [status EXCEPT ![gen[Worker].rep] = "failed"]
    /\ gen' = [gen EXCEPT ![Worker] = Off]
    /\ UNCHANGED <<slot, path, taken, file, now, procVars, mail, mailed>>

----------------------------------------------------------------------------
WorkerCrash ==
    /\ up
    /\ crashes < MaxCrashes
    /\ up' = FALSE
    /\ crashes' = crashes + 1
    /\ gen' = [gen EXCEPT ![Worker] = Off]
    /\ UNCHANGED <<rowVars, file, now, mail, mailed>>

(* reset_stale_runs at boot.                                               *)
RequeueStale ==
    /\ ~up
    /\ up' = TRUE
    /\ status' = [r \in Reports |->
          IF status[r] = "generating" THEN "queued" ELSE status[r]]
    /\ UNCHANGED <<slot, path, taken, file, now, crashes, gen, mail, mailed>>

CliKilled(g) ==
    /\ g \in CliRuns
    /\ gen[g].stage # "off"
    /\ gen' = [gen EXCEPT ![g] = Off]
    /\ UNCHANGED <<rowVars, file, now, procVars, mail, mailed>>

----------------------------------------------------------------------------
(* Mutant: any row may be mailed.                                          *)
LoadAnyForMail(m, r) ==
    /\ mail[m] = NoMail
    /\ status[r] # "absent"
    /\ mail' = [mail EXCEPT ![m] = [rep |-> r, seen |-> status[r]]]
    /\ UNCHANGED <<rowVars, file, now, procVars, gen, mailed>>

(* reports_email loads the row and goes on only if it names a PDF.         *)
LoadForMail(m, r) ==
    /\ mail[m] = NoMail
    /\ status[r] # "absent"
    /\ path[r] # NoPath
    /\ mail' = [mail EXCEPT ![m] = [rep |-> r, seen |-> status[r]]]
    /\ UNCHANGED <<rowVars, file, now, procVars, gen, mailed>>

(* The ORM writes the status only where it differs from the loaded one.    *)
SaveMailStatus(m, v) ==
    /\ status' = [status EXCEPT ![mail[m].rep] = IF mail[m].seen = v THEN @ ELSE v]
    /\ mail' = [mail EXCEPT ![m] = NoMail]

(* send_report delivers and commits "emailed"; the request may also be     *)
(* lost between the delivery and the commit.                               *)
MailSent(m) ==
    /\ mail[m] # NoMail
    /\ mailed' = mailed \cup {mail[m].rep}
    /\ \/ SaveMailStatus(m, "emailed")
       \/ /\ mail' = [mail EXCEPT ![m] = NoMail]
          /\ UNCHANGED status
    /\ UNCHANGED <<slot, path, taken, file, now, procVars, gen>>

(* No backend, no recipients, no file, or a delivery error, which may hide *)
(* a delivery.                                                             *)
MailFails(m) ==
    /\ mail[m] # NoMail
    /\ mailed' \in {mailed, mailed \cup {mail[m].rep}}
    /\ SaveMailStatus(m, "unsent")
    /\ UNCHANGED <<slot, path, taken, file, now, procVars, gen>>

----------------------------------------------------------------------------
WorkerStep ==
    \/ ClaimReport
    \/ WritePdf(Worker)
    \/ CommitGenerated(Worker)
    \/ GenerationFails(Worker)
    \/ MarkFailed

CliStep(g) ==
    \/ CliRequest(g) \/ WritePdf(g) \/ CommitGenerated(g) \/ GenerationFails(g)
    \/ CliKilled(g)

MailStep(m) ==
    \/ \E r \in Reports : LoadForMail(m, r)
    \/ MailSent(m)
    \/ MailFails(m)

Next ==
    \/ Tick
    \/ RequestReport
    \/ WorkerStep
    \/ \E g \in CliRuns : CliStep(g)
    \/ \E m \in Mailers : MailStep(m)
    \/ WorkerCrash
    \/ RequeueStale

Spec == Init /\ [][Next]_vars

(* The drain job fires every 15 seconds, a rendering ends, and a crashed   *)
(* worker is restarted.                                                    *)
FairSpec == Spec /\ WF_vars(WorkerStep) /\ WF_vars(RequeueStale)

----------------------------------------------------------------------------
(* Properties.                                                             *)

(* A row that says "generating" has the worker on it, or a boot to come    *)
(* that puts it back in the queue: no report is stranded.                  *)
GeneratingIsOwned ==
    \A r \in Reports : status[r] = "generating" =>
        ~up \/ (gen[Worker].rep = r /\ gen[Worker].stage # "off")

(* A row that offers a download names a file that is there, through every  *)
(* crash between the file and the row.                                     *)
PdfOnDisk ==
    \A r \in Reports :
        (status[r] \in Generated <=> path[r] # NoPath)
            /\ (path[r] # NoPath => file[path[r]] # NoReport)

(* A row always tells what its report has come to: it is being generated,  *)
(* or there to download.                                                   *)
RowsTellTheTruth == GeneratingIsOwned /\ PdfOnDisk

(* The archive's promise, seen through the rows.                           *)
PhaseOf(s) ==
    CASE s = "absent" -> "none"
      [] s \in {"queued", "generating"} -> "pending"
      [] s \in Generated -> "ready"
      [] s = "failed" -> "failed"
Phases == [r \in Reports |-> PhaseOf(status[r])]

Lifecycle == INSTANCE ReportLifecycle WITH phase <- Phases

(* Every step of the queue, its worker, its command line and its mailings  *)
(* is one the archive promises or none that it can see.                    *)
KeepsLifecycle == Lifecycle!Spec

(* docs/configuration.md, "the worker renders it in the background": every *)
(* request is settled, through failures and worker restarts.               *)
SettlesRequests == Lifecycle!FairSpec
=============================================================================
