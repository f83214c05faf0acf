----------------------------- MODULE ReportProofs -----------------------------
(* Proofs about reports: on demand (ReportQueue), for any reports, file    *)
(* names, processes and bounds, and scheduled (PeriodWatcher), for any     *)
(* schedules, period lengths, days and troubles.                           *)
EXTENDS ReportQueue, PeriodWatcher, Integers, TLAPS

----------------------------------------------------------------------------
(* Reports on demand.                                                      *)


(* What the rows, the generators and the mailings know of each other.      *)
WorkerHoldsRow ==
    gen[Worker].stage # "off" => up /\ status[gen[Worker].rep] = "generating"
CliHoldsId ==
    \A g \in CliRuns : gen[g].stage # "off" =>
        gen[g].stage # "error" /\ gen[g].rep \in taken /\ status[gen[g].rep] = "absent"
CliIdsDiffer ==
    \A g, h \in CliRuns : gen[g].stage # "off" /\ gen[g].rep = gen[h].rep => g = h
WrittenIsThere ==
    \A g \in Generators : gen[g].path # NoPath => file[gen[g].path] # NoReport
MailHasDocument ==
    \A m \in Mailers : mail[m] # NoMail =>
        mail[m].rep \in Reports /\ status[mail[m].rep] \in Generated

QueueInv ==
    /\ TypeOK /\ GeneratingIsOwned /\ PdfOnDisk
    /\ WorkerHoldsRow /\ CliHoldsId /\ CliIdsDiffer /\ WrittenIsThere /\ MailHasDocument

LEMMA InvInit == Init => QueueInv
<1> SUFFICES ASSUME Init PROVE QueueInv
  OBVIOUS
<1> USE NoReportAssumption, NoPathAssumption, MaxStampAssumption, MaxCrashesAssumption
    DEF Init
<1>1. TypeOK
  BY DEF TypeOK, Status, Off, NoMail
<1>2. GeneratingIsOwned /\ PdfOnDisk
  BY DEF GeneratingIsOwned, PdfOnDisk, Generated
<1>3. WorkerHoldsRow /\ CliHoldsId /\ CliIdsDiffer /\ WrittenIsThere /\ MailHasDocument
  BY DEF WorkerHoldsRow, CliHoldsId, CliIdsDiffer, WrittenIsThere, MailHasDocument,
         Off, Generators
<1> QED BY <1>1, <1>2, <1>3 DEF QueueInv

----------------------------------------------------------------------------
(* Types.                                                                  *)

LEMMA TypeInductive == QueueInv /\ [Next]_vars => TypeOK'
<1> SUFFICES ASSUME QueueInv, [Next]_vars PROVE TypeOK'
  OBVIOUS
<1> TypeOK /\ WorkerHoldsRow /\ CliHoldsId /\ MailHasDocument
  BY DEF QueueInv
<1> USE NoReportAssumption, NoPathAssumption, MaxStampAssumption, MaxCrashesAssumption
    DEF TypeOK, rowVars, procVars, Generators, Status
<1>1. CASE Tick
  BY <1>1 DEF Tick
<1>2. CASE RequestReport
  BY <1>2 DEF RequestReport, Oldest, Free
<1>3. CASE ClaimReport
  BY <1>3 DEF ClaimReport, Oldest, Queued
<1>4. ASSUME NEW g \in Generators, WritePdf(g) PROVE TypeOK'
  <2>1. gen[g].rep \in Reports
    BY <1>4 DEF WritePdf
  <2>2. ReportPath(gen[g].rep) \in Paths
    BY <2>1 DEF ReportPath, Paths
  <2> QED BY <1>4, <2>1, <2>2 DEF WritePdf
<1>5. ASSUME NEW g \in Generators, CommitGenerated(g) PROVE TypeOK'
  <2>1. gen[g].rep \in Reports /\ gen[g].path \in Paths
    BY <1>5 DEF CommitGenerated
  <2>2. gen[g].rep \in taken
    BY <1>5, <2>1 DEF CommitGenerated, WorkerHoldsRow, CliHoldsId
  <2> QED BY <1>5, <2>1, <2>2 DEF CommitGenerated, Off
<1>6. ASSUME NEW g \in Generators, GenerationFails(g) PROVE TypeOK'
  <2> DEFINE next == IF g = Worker THEN [gen[g] EXCEPT !.stage = "error", !.path = NoPath]
                                   ELSE Off
  <2> DEFINE Gen == [stage : {"off", "render", "written", "error"},
                     rep : Reports \cup {NoReport}, path : Paths \cup {NoPath}]
  <2>0. gen[g] \in Gen
    OBVIOUS
  <2>1. next \in Gen
    <3>1. [gen[g] EXCEPT !.stage = "error", !.path = NoPath] \in Gen
      BY <2>0
    <3>2. Off \in Gen
      BY DEF Off
    <3> QED BY <3>1, <3>2
  <2>2. (next.stage = "off" <=> next.rep = NoReport) /\ next.stage # "written" /\ next.path = NoPath
    BY <1>6 DEF GenerationFails, Off
  <2>3. gen' = [gen EXCEPT ![g] = next]
    BY <1>6 DEF GenerationFails
  <2> HIDE DEF next
  <2> QED BY <1>6, <2>1, <2>2, <2>3 DEF GenerationFails
<1>7. CASE MarkFailed
  BY <1>7 DEF MarkFailed, Off, WorkerHoldsRow
<1>8. ASSUME NEW g \in CliRuns, CliRequest(g) PROVE TypeOK'
  BY <1>8 DEF CliRequest, Oldest, Free
<1>9. ASSUME NEW g \in CliRuns, CliKilled(g) PROVE TypeOK'
  BY <1>9 DEF CliKilled, Off
<1>10. ASSUME NEW m \in Mailers, MailStep(m) PROVE TypeOK'
  <2>1. CASE \E r \in Reports : LoadForMail(m, r)
    BY <2>1 DEF LoadForMail
  <2>2. ASSUME NEW v \in Generated, SaveMailStatus(m, v), mail[m] # NoMail
        PROVE  /\ status' \in [Reports -> Status] /\ mail' \in [Mailers -> [rep : Reports \cup {NoReport}, seen : Status]]
               /\ \A r \in Reports : status'[r] # "absent" => status[r] # "absent"
    BY <2>2 DEF SaveMailStatus, NoMail, MailHasDocument, Generated
  <2>3. CASE MailSent(m)
    BY <2>2, <2>3 DEF MailSent, NoMail, MailHasDocument, Generated
  <2>4. CASE MailFails(m)
    BY <2>2, <2>4 DEF MailFails, MailHasDocument, Generated
  <2> QED BY <1>10, <2>1, <2>3, <2>4 DEF MailStep
<1>11. CASE WorkerCrash
  <2>1. crashes' \in 0..MaxCrashes
    BY <1>11 DEF WorkerCrash
  <2> QED BY <1>11, <2>1 DEF WorkerCrash, Off
<1>12. CASE RequeueStale
  BY <1>12 DEF RequeueStale
<1>13. CASE UNCHANGED vars
  BY <1>13 DEF vars
<1> QED
  BY <1>1, <1>2, <1>3, <1>4, <1>5, <1>6, <1>7, <1>8, <1>9, <1>10, <1>11, <1>12, <1>13
  DEF Next, WorkerStep, CliStep

----------------------------------------------------------------------------
(* The rest of the invariant.                                              *)

(* An e-mail request turns one delivery status into another.               *)
LEMMA MailSaves ==
    ASSUME TypeOK, MailHasDocument, NEW m \in Mailers, mail[m] # NoMail,
           NEW v \in Generated, SaveMailStatus(m, v)
    PROVE  \A q \in Reports :
              status'[q] = status[q] \/ (status[q] \in Generated /\ status'[q] \in Generated)
<1>1. mail[m].rep \in Reports /\ status[mail[m].rep] \in Generated
  BY DEF MailHasDocument
<1>2. status' = [status EXCEPT ![mail[m].rep] = IF mail[m].seen = v THEN @ ELSE v]
  BY DEF SaveMailStatus
<1> QED BY <1>1, <1>2 DEF TypeOK

LEMMA RestInductive == QueueInv /\ [Next]_vars => QueueInv'
<1> SUFFICES ASSUME QueueInv, [Next]_vars PROVE QueueInv'
  OBVIOUS
<1> TypeOK'
  BY TypeInductive
<1> DEFINE Rest == /\ GeneratingIsOwned /\ PdfOnDisk
                   /\ WorkerHoldsRow /\ CliHoldsId /\ CliIdsDiffer
                   /\ WrittenIsThere /\ MailHasDocument
<1> SUFFICES Rest'
  BY DEF QueueInv
<1> TypeOK /\ Rest
  BY DEF QueueInv
<1> USE NoReportAssumption, NoPathAssumption, CliRunsAssumption
    DEF TypeOK, rowVars, procVars, Generators, Status, Generated,
        GeneratingIsOwned, PdfOnDisk, WorkerHoldsRow, CliHoldsId, CliIdsDiffer,
        WrittenIsThere, MailHasDocument
<1>1. CASE Tick
  BY <1>1 DEF Tick
<1>2. CASE RequestReport
  BY <1>2 DEF RequestReport, Oldest, Free
<1>3. CASE ClaimReport
  BY <1>3 DEF ClaimReport, Oldest, Queued
<1>4. ASSUME NEW g \in Generators, WritePdf(g) PROVE Rest'
  <2>1. gen[g].rep \in Reports
    BY <1>4 DEF WritePdf
  <2>2. ReportPath(gen[g].rep) \in Paths
    BY <2>1 DEF ReportPath, Paths
  <2>3. \A h \in Generators :
           /\ gen'[h].rep = gen[h].rep
           /\ gen'[h].stage = "off" <=> gen[h].stage = "off"
           /\ gen'[h].stage = "error" <=> gen[h].stage = "error"
           /\ gen'[h].path \in {gen[h].path, ReportPath(gen[g].rep)}
    <3>1. gen' = [gen EXCEPT ![g] =
              [stage |-> "written", rep |-> @.rep, path |-> ReportPath(gen[g].rep)]]
      BY <1>4 DEF WritePdf
    <3>2. gen[g].stage = "render"
      BY <1>4 DEF WritePdf
    <3> QED BY <3>1, <3>2
  <2>4. /\ file' = [file EXCEPT ![ReportPath(gen[g].rep)] = gen[g].rep]
        /\ UNCHANGED <<status, path, taken, up, mail>>
    BY <1>4 DEF WritePdf
  <2>5. \A p \in Paths : file[p] # NoReport => file'[p] # NoReport
    BY <2>1, <2>2, <2>4
  <2>6. PdfOnDisk'
    BY <2>4, <2>5
  <2>7. WrittenIsThere'
    BY <2>1, <2>2, <2>3, <2>4, <2>5
  <2>8. GeneratingIsOwned' /\ WorkerHoldsRow'
    BY <2>3, <2>4
  <2>9. CliHoldsId' /\ CliIdsDiffer' /\ MailHasDocument'
    BY <2>3, <2>4
  <2> QED BY <2>6, <2>7, <2>8, <2>9
<1>5. ASSUME NEW g \in Generators, CommitGenerated(g) PROVE Rest'
  BY <1>5 DEF CommitGenerated, Off
<1>6. ASSUME NEW g \in Generators, GenerationFails(g) PROVE Rest'
  BY <1>6 DEF GenerationFails, Off
<1>7. CASE MarkFailed
  BY <1>7 DEF MarkFailed, Off
<1>8. ASSUME NEW g \in CliRuns, CliRequest(g) PROVE Rest'
  BY <1>8 DEF CliRequest, Oldest, Free
<1>9. ASSUME NEW g \in CliRuns, CliKilled(g) PROVE Rest'
  BY <1>9 DEF CliKilled, Off
<1>10. ASSUME NEW m \in Mailers, MailStep(m) PROVE Rest'
  <2>1. CASE \E r \in Reports : LoadForMail(m, r)
    BY <2>1 DEF LoadForMail
  <2>2. ASSUME NEW v \in Generated, SaveMailStatus(m, v), mail[m] # NoMail,
               UNCHANGED <<slot, path, taken, file, now, procVars, gen>>
        PROVE  Rest'
    <3>1. \A q \in Reports :
             status'[q] = status[q] \/ (status[q] \in Generated /\ status'[q] \in Generated)
      BY <2>2, MailSaves
    <3>2. GeneratingIsOwned'
      BY <2>2, <3>1
    <3>3. PdfOnDisk'
      BY <2>2, <3>1
    <3>4. WorkerHoldsRow'
      BY <2>2, <3>1
    <3>5. CliHoldsId'
      BY <2>2, <3>1
    <3>6. CliIdsDiffer' /\ WrittenIsThere'
      BY <2>2
    <3>7. MailHasDocument'
      BY <2>2, <3>1 DEF SaveMailStatus
    <3> QED BY <3>2, <3>3, <3>4, <3>5, <3>6, <3>7
  <2>3. CASE MailSent(m)
    <3>1. CASE SaveMailStatus(m, "emailed")
      BY <2>2, <2>3, <3>1 DEF MailSent
    <3>2. CASE mail' = [mail EXCEPT ![m] = NoMail] /\ UNCHANGED status
      BY <2>3, <3>2 DEF MailSent
    <3> QED BY <2>3, <3>1, <3>2 DEF MailSent
  <2>4. CASE MailFails(m)
    BY <2>2, <2>4 DEF MailFails
  <2> QED BY <1>10, <2>1, <2>3, <2>4 DEF MailStep
<1>11. CASE WorkerCrash
  BY <1>11 DEF WorkerCrash, Off
<1>12. CASE RequeueStale
  BY <1>12 DEF RequeueStale
<1>13. CASE UNCHANGED vars
  BY <1>13 DEF vars
<1> QED
  BY <1>1, <1>2, <1>3, <1>4, <1>5, <1>6, <1>7, <1>8, <1>9, <1>10, <1>11, <1>12, <1>13
  DEF Next, WorkerStep, CliStep

(* The types, for every value of the constants.                            *)
THEOREM TypeCorrect == Spec => []TypeOK
<1>1. QueueInv => TypeOK
  BY DEF QueueInv
<1> QED BY <1>1, InvInit, RestInductive, PTL DEF Spec

(* No row is left in "generating" without the worker on it or a boot to    *)
(* come, and every document a row offers is on disk, however many command  *)
(* lines, mailings and crashes there are.                                  *)
THEOREM RowsAreTruthful == Spec => []RowsTellTheTruth
<1>1. QueueInv => RowsTellTheTruth
  BY DEF QueueInv, RowsTellTheTruth
<1> QED BY <1>1, InvInit, RestInductive, PTL DEF Spec

----------------------------------------------------------------------------
(* The queue implements the archive's promise.                             *)

LEMMA PhaseValues ==
    /\ PhaseOf("absent") = "none" /\ PhaseOf("failed") = "failed"
    /\ PhaseOf("queued") = "pending" /\ PhaseOf("generating") = "pending"
    /\ \A s \in Generated : PhaseOf(s) = "ready"
<1>1. PhaseOf("absent") = "none"
  BY Zenon DEF PhaseOf, Generated
<1>2. PhaseOf("queued") = "pending" /\ PhaseOf("generating") = "pending"
  BY Zenon DEF PhaseOf, Generated
<1>3. PhaseOf("failed") = "failed"
  BY Zenon DEF PhaseOf, Generated
<1>4. \A s \in Generated : PhaseOf(s) = "ready"
  BY Zenon DEF PhaseOf, Generated
<1> QED BY <1>1, <1>2, <1>3, <1>4

(* A step that changes the status of one report changes that one's phase.  *)
LEMMA PhaseMoves ==
    ASSUME NEW r \in Reports, NEW s, status \in [Reports -> Status],
           status' = [status EXCEPT ![r] = s]
    PROVE  Phases' = [Phases EXCEPT ![r] = PhaseOf(s)]
BY DEF Phases

LEMMA SamePhases ==
    ASSUME \A q \in Reports :
               \/ status'[q] = status[q]
               \/ status[q] \in Generated /\ status'[q] \in Generated
               \/ status[q] = "generating" /\ status'[q] = "queued"
    PROVE  UNCHANGED Phases
<1>1. \A q \in Reports : PhaseOf(status'[q]) = PhaseOf(status[q])
  BY PhaseValues
<1> QED BY <1>1 DEF Phases

LEMMA StepRefines == QueueInv /\ [Next]_vars => [Lifecycle!Next]_<<Phases, mailed>>
<1> SUFFICES ASSUME QueueInv, [Next]_vars
             PROVE  Lifecycle!Next \/ UNCHANGED <<Phases, mailed>>
  OBVIOUS
<1> TypeOK /\ WorkerHoldsRow /\ CliHoldsId /\ MailHasDocument
  BY DEF QueueInv
<1> USE NoReportAssumption DEF TypeOK
<1>1. ASSUME NEW r \in Reports, Oldest(r, Free), UNCHANGED mailed,
             status' = [status EXCEPT ![r] = "queued"]
      PROVE  Lifecycle!Submit(r)
  <2>1. status[r] = "absent"
    BY <1>1 DEF Oldest, Free
  <2>2. Phases' = [Phases EXCEPT ![r] = "pending"] /\ Phases[r] = "none"
    BY <1>1, <2>1, PhaseMoves, PhaseValues DEF Phases
  <2> QED BY <1>1, <2>2 DEF Lifecycle!Submit
<1>2. CASE RequestReport
  BY <1>1, <1>2 DEF RequestReport, Lifecycle!Next
<1>3. CASE ClaimReport
  <2>1. PICK r \in Reports : /\ status[r] = "queued"
                             /\ status' = [status EXCEPT ![r] = "generating"]
    BY <1>3 DEF ClaimReport, Oldest, Queued
  <2>2. UNCHANGED Phases
    BY <2>1, PhaseMoves, PhaseValues DEF Phases
  <2> QED BY <1>3, <2>2 DEF ClaimReport
<1>4. ASSUME NEW g \in Generators, CommitGenerated(g) PROVE Lifecycle!Next
  <2> DEFINE r == gen[g].rep
  <2>1. r \in Reports /\ status[r] \in {"absent", "generating"}
    BY <1>4 DEF CommitGenerated, Generators, WorkerHoldsRow, CliHoldsId
  <2>2. status' = [status EXCEPT ![r] = "generated"] /\ UNCHANGED mailed
    BY <1>4 DEF CommitGenerated
  <2>3. Phases' = [Phases EXCEPT ![r] = "ready"] /\ Phases[r] \in {"none", "pending"}
    BY <2>1, <2>2, PhaseMoves, PhaseValues DEF Phases, Generated
  <2>4. Lifecycle!Publish(r)
    BY <2>2, <2>3 DEF Lifecycle!Publish
  <2> QED BY <2>1, <2>4 DEF Lifecycle!Next
<1>5. CASE MarkFailed
  <2> DEFINE r == gen[Worker].rep
  <2>1. r \in Reports /\ status[r] = "generating"
    BY <1>5 DEF MarkFailed, Generators, WorkerHoldsRow
  <2>2. status' = [status EXCEPT ![r] = "failed"] /\ UNCHANGED mailed
    BY <1>5 DEF MarkFailed
  <2>3. Phases' = [Phases EXCEPT ![r] = "failed"] /\ Phases[r] = "pending"
    BY <2>1, <2>2, PhaseMoves, PhaseValues DEF Phases
  <2>4. Lifecycle!Reject(r)
    BY <2>2, <2>3 DEF Lifecycle!Reject
  <2> QED BY <2>1, <2>4 DEF Lifecycle!Next
<1>6. CASE RequeueStale
  BY <1>6, SamePhases DEF RequeueStale
<1>7. ASSUME NEW m \in Mailers, MailStep(m)
      PROVE  Lifecycle!Next \/ UNCHANGED <<Phases, mailed>>
  <2>1. CASE \E r \in Reports : LoadForMail(m, r)
    BY <2>1, SamePhases DEF LoadForMail, rowVars
  <2> DEFINE r == mail[m].rep
  <2>2. CASE mail[m] # NoMail /\ mailed' \in {mailed, mailed \cup {r}}
             /\ (UNCHANGED status \/ SaveMailStatus(m, "emailed") \/ SaveMailStatus(m, "unsent"))
    <3>1. r \in Reports /\ status[r] \in Generated
      BY <2>2 DEF MailHasDocument
    <3>2. UNCHANGED Phases
      BY <2>2, <3>1, SamePhases DEF SaveMailStatus, Generated
    <3>3. Phases[r] = "ready"
      BY <3>1, PhaseValues DEF Phases
    <3>4. CASE mailed' = mailed \cup {r}
      BY <3>1, <3>2, <3>3, <3>4 DEF Lifecycle!Deliver, Lifecycle!Next
    <3> QED BY <2>2, <3>2, <3>4
  <2> QED BY <1>7, <2>1, <2>2 DEF MailStep, MailSent, MailFails
<1>8. CASE UNCHANGED <<status, mailed>>
  BY <1>8, SamePhases
<1> QED
  BY <1>2, <1>3, <1>4, <1>5, <1>6, <1>7, <1>8
  DEF Next, WorkerStep, CliStep, Tick, WritePdf, GenerationFails, CliRequest, CliKilled,
      WorkerCrash, Generators, rowVars, vars

(* Every step of the queue, its worker, its command lines and its mailings *)
(* is one the archive promises, or one it does not see: a request is       *)
(* settled once, a document is never withdrawn, and only documents leave.  *)
THEOREM QueueKeepsLifecycle == Spec => KeepsLifecycle
<1>1. Init => Lifecycle!Init
  BY PhaseValues DEF Init, Lifecycle!Init, Phases
<1>2. QueueInv /\ [Next]_vars => [Lifecycle!Next]_<<Phases, mailed>>
  BY StepRefines
<1> QED
  BY <1>1, <1>2, InvInit, RestInductive, PTL DEF Spec, KeepsLifecycle, Lifecycle!Spec, Lifecycle!vars

----------------------------------------------------------------------------
(* The watcher of periods.                                                 *)


(* A schedule's first day lies past its first period, so there is a period *)
(* that closed last.                                                       *)
LEMMA PeriodBefore ==
    ASSUME NEW s \in Schedules, NEW day \in Days
    PROVE  PreviousPeriod(s, day) \in Periods
<1>1. /\ Length[s] \in Nat /\ Length[s] > 0 /\ Length[s] <= day
      /\ day \in Nat /\ day <= LastDay /\ LastDay \in Nat
  BY LengthAssumption, DaysAssumption DEF Days
<1> DEFINE q == day \div Length[s]
<1>2. q \in Int /\ q >= 1 /\ q <= day
  BY <1>1, SMTT(30)
<1> QED BY <1>1, <1>2 DEF PreviousPeriod, Periods

(* What a claim does: it takes a slot that is not done, or passes one by.  *)
LEMMA ClaimTakesSlot ==
    ASSUME WatcherTypeOK, Claim
    PROVE  \/ \E x \in JobSlots : /\ ledger[x] # "done"
                               /\ ledger' = [ledger EXCEPT ![x] = "running"]
                               /\ run'.at = "claimed" /\ run'.slot = x
           \/ ledger' = ledger /\ run'.at = "loop"
<1>1. run.day \in Days
  BY DEF WatcherTypeOK, Claim
<1>2. PICK s \in run.todo :
        LET x == <<s, PreviousPeriod(s, run.day)>>
        IN  \/ /\ Takeable(x)
               /\ ledger' = [ledger EXCEPT ![x] = "running"]
               /\ run' = [run EXCEPT !.at = "claimed", !.slot = x,
                                     !.todo = @ \ {s}]
            \/ /\ ~Takeable(x)
               /\ run' = [run EXCEPT !.todo = @ \ {s}]
               /\ UNCHANGED ledger
  BY DEF Claim
<1> DEFINE x == <<s, PreviousPeriod(s, run.day)>>
<1>3. x \in JobSlots
  BY <1>1, PeriodBefore DEF JobSlots, WatcherTypeOK
<1>4. \/ ledger[x] # "done" /\ ledger' = [ledger EXCEPT ![x] = "running"]
         /\ run' = [run EXCEPT !.at = "claimed", !.slot = x, !.todo = @ \ {s}]
      \/ ledger' = ledger /\ run' = [run EXCEPT !.todo = @ \ {s}]
  BY <1>2 DEF Takeable
<1> HIDE DEF x
<1> QED BY <1>3, <1>4 DEF WatcherTypeOK, Claim

LEMMA WatcherTypeInductive == WatcherTypeOK /\ [WatcherNext]_watcherVars => WatcherTypeOK'
<1> SUFFICES ASSUME WatcherTypeOK, [WatcherNext]_watcherVars PROVE WatcherTypeOK'
  OBVIOUS
<1> USE DaysAssumption, MaxTroublesAssumption
    DEF WatcherTypeOK, dbVars, NotRunning, Exposed, Working
<1>1. CASE NextDay
  <2>1. today' \in Days
    BY <1>1 DEF NextDay, Days
  <2>2. troubles' \in 0..MaxTroubles
    BY <1>1 DEF NextDay, Trouble
  <2>3. due' \in BOOLEAN /\ (~alive' => ~due') /\ UNCHANGED <<alive, dbVars, delivered, run, lost>>
    BY <1>1 DEF NextDay
  <2> QED BY <2>1, <2>2, <2>3
<1>2. CASE Fire
  BY <1>2 DEF Fire
<1>3. CASE Claim
  <2>1. run.day \in Days /\ alive
    BY <1>3 DEF Claim
  <2>2. PICK s \in run.todo :
          LET x == <<s, PreviousPeriod(s, run.day)>>
          IN  \/ /\ Takeable(x)
                 /\ ledger' = [ledger EXCEPT ![x] = "running"]
                 /\ run' = [run EXCEPT !.at = "claimed", !.slot = x,
                                       !.todo = @ \ {s}]
              \/ /\ ~Takeable(x)
                 /\ run' = [run EXCEPT !.todo = @ \ {s}]
                 /\ UNCHANGED ledger
    BY <1>3 DEF Claim
  <2>3. <<s, PreviousPeriod(s, run.day)>> \in JobSlots
    BY <2>1, PeriodBefore DEF JobSlots
  <2> DEFINE x == <<s, PreviousPeriod(s, run.day)>>
  <2>4. UNCHANGED <<today, due, alive, enabled, kept, archived, delivered, troubles, lost>>
    BY <1>3 DEF Claim
  <2> HIDE DEF x
  <2>5. CASE /\ ledger' = [ledger EXCEPT ![x] = "running"]
             /\ run' = [run EXCEPT !.at = "claimed", !.slot = x, !.todo = @ \ {s}]
    BY <2>1, <2>3, <2>4, <2>5 DEF x
  <2>6. CASE run' = [run EXCEPT !.todo = @ \ {s}] /\ UNCHANGED ledger
    BY <2>1, <2>4, <2>6
  <2> QED BY <2>2, <2>5, <2>6 DEF x
<1>4. CASE Render
  BY <1>4 DEF Render
<1>5. CASE Deliver
  BY <1>5 DEF Deliver
<1>6. CASE CommitReports
  BY <1>6 DEF CommitReports
<1>7. CASE ReportsFail
  BY <1>7 DEF ReportsFail, Trouble
<1>8. CASE FinishDone \/ FinishFailed
  <2>1. run.at \in {"committed", "error"}
    BY <1>8 DEF FinishDone, FinishFailed
  <2>2. PICK st \in {"done", "failed"} : FinishWith(st)
    BY <1>8 DEF FinishDone, FinishFailed
  <2>3. run.slot \in JobSlots /\ alive /\ run.day \in Days
    BY <2>1
  <2> QED BY <2>2, <2>3 DEF FinishWith
<1>9. CASE RunEnds
  BY <1>9 DEF RunEnds
<1>10. CASE LedgerFails
  BY <1>10 DEF LedgerFails, RunDies, Trouble
<1>11. CASE Crash
  <2>1. troubles' \in 0..MaxTroubles /\ run' = NotRunning /\ due' = FALSE /\ alive' = FALSE
    BY <1>11 DEF Crash, RunDies, Trouble
  <2>2. lost' \subseteq JobSlots /\ UNCHANGED <<today, dbVars, delivered>>
    BY <1>11 DEF Crash, RunDies
  <2> QED BY <2>1, <2>2
<1>12. CASE Boot
  BY <1>12 DEF Boot
<1>13. ASSUME NEW s \in Schedules, SaveSchedule(s) PROVE WatcherTypeOK'
  BY <1>13 DEF SaveSchedule
<1>14. CASE UNCHANGED watcherVars
  BY <1>14 DEF watcherVars
<1> QED
  BY <1>1, <1>2, <1>3, <1>4, <1>5, <1>6, <1>7, <1>8, <1>9, <1>10, <1>11, <1>12, <1>13, <1>14
  DEF WatcherNext, RunStep

LEMMA WatcherTypeInit == WatcherInit => WatcherTypeOK
<1>1. FirstDay \in Days
  BY DaysAssumption DEF Days
<1> QED BY <1>1, DaysAssumption, MaxTroublesAssumption DEF WatcherInit, WatcherTypeOK, NotRunning, Exposed, Working

(* The types, for every value of the constants.                            *)
THEOREM WatcherTypeCorrect == WatcherSpec => []WatcherTypeOK
BY WatcherTypeInit, WatcherTypeInductive, PTL DEF WatcherSpec

----------------------------------------------------------------------------
(* What the ledger, the archive and the run know of each other.            *)

CommittedIsArchived == run.at = "committed" => archived[run.slot] >= 1

(* The ledger never says done of a period that has no report, wherever a   *)
(* run fails or the worker dies.                                           *)
THEOREM DoneMeansArchived == WatcherSpec => []DoneIsArchived
<1> DEFINE Inv == DoneIsArchived /\ CommittedIsArchived
<1>1. WatcherInit => Inv
  BY DEF WatcherInit, DoneIsArchived, CommittedIsArchived, NotRunning
<1>2. WatcherTypeOK /\ Inv /\ [WatcherNext]_watcherVars => Inv'
  <2> SUFFICES ASSUME WatcherTypeOK, Inv, [WatcherNext]_watcherVars PROVE Inv'
    OBVIOUS
  <2> USE DEF WatcherTypeOK, dbVars, NotRunning, Exposed, Working, DoneIsArchived, CommittedIsArchived
  <2>1. CASE Claim
    <3>1. UNCHANGED archived /\ run'.at # "committed"
      BY <2>1 DEF Claim
    <3>2. ledger' = ledger \/ \E x \in JobSlots : ledger' = [ledger EXCEPT ![x] = "running"]
      BY <2>1, ClaimTakesSlot
    <3> QED BY <3>1, <3>2
  <2>2. CASE CommitReports
    BY <2>2 DEF CommitReports
  <2>3. CASE FinishDone \/ FinishFailed
    BY <2>3 DEF FinishDone, FinishFailed, FinishWith
  <2>4. CASE UNCHANGED <<ledger, archived>> /\ (UNCHANGED run \/ run'.at # "committed")
    BY <2>4
  <2>5. CASE Fire \/ Render \/ Deliver \/ ReportsFail \/ RunEnds \/ LedgerFails \/ Crash
    <3>1. UNCHANGED <<ledger, archived>>
      BY <2>5 DEF Fire, Render, Deliver, ReportsFail, RunEnds, LedgerFails, Crash, RunDies
    <3>2. CASE Fire \/ RunEnds \/ LedgerFails \/ Crash
      <4>1. CASE Fire
        BY <2>4, <3>1, <4>1 DEF Fire
      <4>2. CASE RunEnds \/ LedgerFails \/ Crash
        <5>1. run' = NotRunning
          BY ONLY <4>2 DEF RunEnds, LedgerFails, Crash, RunDies
        <5> QED BY <2>4, <3>1, <5>1
      <4> QED BY <3>2, <4>1, <4>2
    <3>3. CASE Render \/ Deliver \/ ReportsFail
      BY <2>4, <3>1, <3>3 DEF Render, Deliver, ReportsFail
    <3> QED BY <2>5, <3>2, <3>3
  <2> QED
    BY <2>1, <2>2, <2>3, <2>4, <2>5
    DEF WatcherNext, RunStep, NextDay, Boot, SaveSchedule, watcherVars
<1> QED BY <1>1, <1>2, WatcherTypeCorrect, PTL DEF WatcherSpec

(* A period nothing went wrong on after its mails had left is untouched    *)
(* until it is claimed, and settled once.                                  *)
UntouchedUntilDone ==
    \A x \in JobSlots \ lost :
        /\ archived[x] <= 1 /\ delivered[x] <= 1
        /\ ledger[x] # "done" /\ ~(run.at \in Exposed /\ run.slot = x) =>
              archived[x] = 0 /\ delivered[x] = 0
        /\ run.at = "mailed" /\ run.slot = x => archived[x] = 0

(* A period is archived and mailed at most once, unless a run died on it   *)
(* between its mails and its settlement, however often it is retried.      *)
THEOREM ReportedOnce == WatcherSpec => []OncePerPeriod
<1>1. WatcherInit => UntouchedUntilDone
  BY DEF WatcherInit, UntouchedUntilDone, NotRunning
<1>2. WatcherTypeOK /\ UntouchedUntilDone /\ [WatcherNext]_watcherVars => UntouchedUntilDone'
  <2> SUFFICES ASSUME WatcherTypeOK, UntouchedUntilDone, [WatcherNext]_watcherVars PROVE UntouchedUntilDone'
    OBVIOUS
  <2> USE DEF WatcherTypeOK, dbVars, NotRunning, Exposed, Working, UntouchedUntilDone
  <2>1. CASE Claim
    <3>1. UNCHANGED <<archived, delivered, lost>> /\ run.at = "loop"
      BY <2>1 DEF Claim
    <3>2. CASE ledger' = ledger /\ run'.at = "loop"
      BY <3>1, <3>2
    <3>3. CASE \E x \in JobSlots : /\ ledger[x] # "done"
                                /\ ledger' = [ledger EXCEPT ![x] = "running"]
                                /\ run'.at = "claimed" /\ run'.slot = x
      BY <3>1, <3>3
    <3> QED BY <2>1, <3>2, <3>3, ClaimTakesSlot
  <2>2. CASE Deliver
    BY <2>2 DEF Deliver
  <2>3. CASE CommitReports
    BY <2>3 DEF CommitReports
  <2>4. CASE FinishDone \/ FinishFailed
    BY <2>4 DEF FinishDone, FinishFailed, FinishWith
  <2>5. CASE ReportsFail
    BY <2>5 DEF ReportsFail
  <2>6. CASE RunDies
    BY <2>6 DEF RunDies
  <2>7. CASE UNCHANGED <<ledger, archived, delivered, lost>>
             /\ (UNCHANGED run \/ {run.at, run'.at} \cap Exposed = {})
    BY <2>7
  <2> QED
    BY <2>1, <2>2, <2>3, <2>4, <2>5, <2>6, <2>7
    DEF WatcherNext, RunStep, NextDay, Fire, Render, RunEnds,
        LedgerFails, Crash, Boot, SaveSchedule, watcherVars
<1>3. UntouchedUntilDone => OncePerPeriod
  BY DEF UntouchedUntilDone, OncePerPeriod
<1> QED BY <1>1, <1>2, <1>3, WatcherTypeCorrect, PTL DEF WatcherSpec

----------------------------------------------------------------------------
(* Why a trouble a day is needed to lose a period.                          *)

LEMMA Quotient ==
    ASSUME NEW d \in Nat, NEW n \in Nat \ {0}
    PROVE  /\ d \div n \in Nat
           /\ (d \div n) * n <= d
           /\ d < (d \div n) * n + n
BY SMTT(30)

LEMMA QuotientUnique ==
    ASSUME NEW d \in Nat, NEW n \in Nat \ {0}, NEW p \in Nat,
           p * n <= d, d < p * n + n
    PROVE  d \div n = p
<1> DEFINE q == d \div n
<1>1. q \in Nat /\ q * n <= d /\ d < q * n + n
  BY Quotient
<1> HIDE DEF q
<1>2. \A a, b \in Nat : a < b => a * n + n <= b * n
  BY SMTT(30)
<1>3. ~ q < p /\ ~ p < q
  BY <1>1, <1>2
<1> QED BY <1>1, <1>3 DEF q

(* Period p is the one that closed last until the next one closes.         *)
LEMMA LastClosed ==
    ASSUME NEW s \in Schedules, NEW p \in Periods, NEW day \in Days,
           ClosingDay(s, p) <= day
    PROVE  /\ ClosingDay(s, p) \in Nat
           /\ day < ClosingDay(s, p) + Length[s] => PreviousPeriod(s, day) = p
           /\ p < PreviousPeriod(s, day) => ClosingDay(s, p) + Length[s] <= day
<1> DEFINE n == Length[s]
<1>1. n \in Nat \ {0} /\ p \in Nat /\ day \in Nat
  BY LengthAssumption, DaysAssumption DEF Days, Periods
<1>2. ClosingDay(s, p) = (p + 1) * n
  BY DEF ClosingDay
<1> HIDE DEF n
<1>3. (p + 1) * n \in Nat /\ p + 1 \in Nat
  BY <1>1
<1>4. ASSUME day < (p + 1) * n + n PROVE day \div n = p + 1
  <2> DEFINE k == p + 1
  <2>1. k \in Nat /\ k * n <= day /\ day < k * n + n
    BY <1>2, <1>3, <1>4
  <2> HIDE DEF k
  <2>2. day \div n = k
    BY <1>1, <2>1, QuotientUnique
  <2> QED BY <2>2 DEF k
<1>5. ASSUME p + 1 < day \div n PROVE (p + 1) * n + n <= day
  <2> DEFINE q == day \div n
  <2>1. q \in Nat /\ q * n <= day
    BY <1>1, Quotient
  <2> HIDE DEF q
  <2>2. \A a, b \in Nat : a < b => a * n + n <= b * n
    BY <1>1, SMTT(30)
  <2>3. p + 1 < q
    BY <1>5 DEF q
  <2> QED BY <1>1, <1>3, <2>1, <2>2, <2>3
<1>6. PreviousPeriod(s, day) = (day \div n) - 1 /\ day \div n \in Nat
  BY <1>1, Quotient DEF PreviousPeriod, n
<1> QED BY <1>1, <1>2, <1>3, <1>4, <1>5, <1>6 DEF n

(* The report of period p may still come without a trigger on a later day. *)
Pending(s, p) ==
    \/ due
    \/ /\ run.at # "off"
       /\ PreviousPeriod(s, run.day) = p
       /\ \/ s \in run.todo
          \/ run.at \in Working \cup {"committed"} /\ run.slot = <<s, p>>

(* A period that is not reported has cost a trouble for every day since it *)
(* closed, but for the day on which its report may still come.             *)
DaysCharged ==
    \A s \in kept, p \in Periods :
        (/\ FirstDay <= ClosingDay(s, p) /\ ClosingDay(s, p) <= today
         /\ ledger[<<s, p>>] # "done"
         /\ troubles < Length[s])
        => /\ today <= ClosingDay(s, p) + troubles
           /\ Pending(s, p) \/ today < ClosingDay(s, p) + troubles

KeptEnabled == \A s \in kept : enabled[s]

(* A step that leaves the days alone keeps the account, when the period is *)
(* as pending as it was, or reported, or has cost one trouble more.        *)
LEMMA SameDay ==
    ASSUME WatcherTypeOK, DaysCharged, UNCHANGED today, kept' \subseteq kept, WatcherTypeOK',
           \A s \in kept, p \in Periods :
              ledger'[<<s, p>>] # "done" => ledger[<<s, p>>] # "done",
           \/ troubles' = troubles + 1
           \/ /\ UNCHANGED troubles
              /\ \A s \in kept, p \in Periods :
                    (/\ ClosingDay(s, p) <= today /\ today < ClosingDay(s, p) + Length[s]
                     /\ Pending(s, p) /\ ledger'[<<s, p>>] # "done") => Pending(s, p)'
    PROVE  DaysCharged'
<1> SUFFICES ASSUME NEW s \in kept', NEW p \in Periods,
                    FirstDay <= ClosingDay(s, p), ClosingDay(s, p) <= today,
                    ledger'[<<s, p>>] # "done", troubles' < Length[s]
             PROVE  /\ today <= ClosingDay(s, p) + troubles'
                    /\ Pending(s, p)' \/ today < ClosingDay(s, p) + troubles'
  BY DEF DaysCharged, ClosingDay
<1>1. s \in kept /\ s \in Schedules /\ ledger[<<s, p>>] # "done"
  BY DEF WatcherTypeOK
<1>2. /\ Length[s] \in Nat /\ today \in Nat /\ today \in Days
      /\ troubles \in Nat /\ troubles' \in Nat
  BY <1>1, LengthAssumption, DaysAssumption, MaxTroublesAssumption DEF WatcherTypeOK, Days
<1>3. ClosingDay(s, p) \in Nat
  BY <1>1, <1>2, LastClosed
<1>4. /\ today <= ClosingDay(s, p) + troubles
      /\ Pending(s, p) \/ today < ClosingDay(s, p) + troubles
  BY <1>1, <1>2, <1>3 DEF DaysCharged
<1> QED BY <1>1, <1>2, <1>3, <1>4

LEMMA SameDayStep ==
    ASSUME WatcherTypeOK, KeptEnabled, DaysCharged, [WatcherNext]_watcherVars, WatcherTypeOK', ~NextDay
    PROVE  DaysCharged'
<1> USE DEF dbVars
<1>1. UNCHANGED today /\ kept' \subseteq kept
  BY DEF WatcherNext, Fire, RunStep, Claim, Render, Deliver, CommitReports, FinishDone,
         FinishFailed, FinishWith, RunEnds, ReportsFail, LedgerFails, Crash, RunDies,
         Boot, SaveSchedule, watcherVars
<1>2. CASE ReportsFail \/ LedgerFails \/ Crash
  <2>1. UNCHANGED ledger /\ troubles' = troubles + 1
    BY <1>2 DEF ReportsFail, LedgerFails, Crash, RunDies, Trouble
  <2> QED BY <1>1, <2>1, SameDay
<1>3. CASE UNCHANGED <<ledger, due, run, troubles>>
  BY <1>1, <1>3, SameDay DEF Pending
<1>4. CASE Fire
  <2>1. UNCHANGED <<ledger, troubles>> /\ today \in Days
    BY <1>4 DEF Fire, WatcherTypeOK
  <2>2. ASSUME NEW s \in kept, NEW p \in Periods,
               ClosingDay(s, p) <= today, today < ClosingDay(s, p) + Length[s]
        PROVE  Pending(s, p)'
    <3>1. s \in Schedules /\ enabled[s]
      BY DEF WatcherTypeOK, KeptEnabled
    <3>2. run'.at = "loop" /\ run'.day = today /\ s \in run'.todo
      BY <1>4, <3>1 DEF Fire, NotRunning
    <3>3. PreviousPeriod(s, today) = p
      BY <2>1, <2>2, <3>1, LastClosed
    <3> QED BY <3>2, <3>3 DEF Pending, PreviousPeriod
  <2> QED BY <1>1, <2>1, <2>2, SameDay
<1>5. CASE Claim
  <2>1. run.at = "loop" /\ run \in [at : {"off", "loop", "error"} \cup Working \cup Exposed,
            day : Days \cup {0}, todo : SUBSET Schedules, slot : JobSlots \cup {NoSlot}]
    BY <1>5 DEF Claim, WatcherTypeOK
  <2>2. PICK q \in run.todo :
          \/ /\ ledger[<<q, PreviousPeriod(q, run.day)>>] # "done"
             /\ ledger' = [ledger EXCEPT ![<<q, PreviousPeriod(q, run.day)>>] = "running"]
             /\ run' = [run EXCEPT !.at = "claimed",
                                   !.slot = <<q, PreviousPeriod(q, run.day)>>,
                                   !.todo = @ \ {q}]
          \/ /\ ledger[<<q, PreviousPeriod(q, run.day)>>] = "done"
             /\ run' = [run EXCEPT !.todo = @ \ {q}]
             /\ UNCHANGED ledger
    BY <1>5 DEF Claim, Takeable
  <2>3. UNCHANGED <<due, troubles>> /\ run'.day = run.day
        /\ run'.todo = run.todo \ {q}
    BY <1>5, <2>1, <2>2 DEF Claim
  <2>4. \A x \in JobSlots : ledger'[x] # "done" => ledger[x] # "done"
    BY <2>2 DEF WatcherTypeOK
  <2>5. ASSUME NEW s \in kept, NEW p \in Periods, Pending(s, p),
               ledger'[<<s, p>>] # "done", ~due
        PROVE  Pending(s, p)'
    <3>1. PreviousPeriod(s, run.day) = p /\ s \in run.todo
      BY <2>1, <2>5 DEF Pending, Working
    <3>2. CASE s # q
      <4>1. run'.at # "off"
        BY <2>1, <2>2
      <4> QED BY <2>3, <3>1, <3>2, <4>1 DEF Pending, PreviousPeriod
    <3>3. CASE s = q
      <4>1. <<q, PreviousPeriod(q, run.day)>> = <<s, p>>
        BY <3>1, <3>3
      <4>2. run' = [run EXCEPT !.at = "claimed", !.slot = <<s, p>>, !.todo = @ \ {q}]
        BY <2>2, <2>5, <4>1
      <4>3. run'.at = "claimed" /\ run'.slot = <<s, p>>
        BY <2>1, <2>2, <4>1, <4>2
      <4> QED BY <2>3, <3>1, <4>3 DEF Pending, PreviousPeriod, Working
    <3> QED BY <3>2, <3>3
  <2>6. \A s \in kept, p \in Periods : <<s, p>> \in JobSlots
    BY DEF JobSlots, WatcherTypeOK
  <2>7. \A s \in kept, p \in Periods : due => Pending(s, p)'
    BY <2>3 DEF Pending
  <2> QED BY <1>1, <2>3, <2>4, <2>5, <2>6, <2>7, SameDay
<1>6. CASE Render \/ Deliver \/ CommitReports
  <2>1. /\ UNCHANGED <<ledger, troubles, due>>
        /\ run.at \in Working
        /\ \E at \in {"rendered", "mailed", "committed"} : run' = [run EXCEPT !.at = at]
    BY <1>6 DEF Render, Deliver, CommitReports, Working
  <2>2. /\ run'.at \in Working \cup {"committed"} /\ run'.at # "off"
        /\ run'.day = run.day /\ run'.todo = run.todo /\ run'.slot = run.slot
    BY <2>1 DEF WatcherTypeOK, Working
  <2>3. \A s \in kept, p \in Periods : Pending(s, p) => Pending(s, p)'
    BY <2>1, <2>2 DEF Pending, PreviousPeriod
  <2> QED BY <1>1, <2>1, <2>3, SameDay
<1>7. CASE FinishDone \/ FinishFailed
  <2>1. /\ UNCHANGED <<troubles, due>>
        /\ run.slot \in JobSlots /\ ledger[run.slot] = "running"
        /\ run'.at = "loop" /\ run'.day = run.day /\ run'.todo = run.todo
    BY <1>7 DEF FinishDone, FinishFailed, FinishWith, WatcherTypeOK, Exposed
  <2>2. \A x \in JobSlots : ledger'[x] # "done" => ledger[x] # "done"
    BY <1>7, <2>1 DEF FinishDone, FinishFailed, FinishWith, WatcherTypeOK
  <2>3. ASSUME NEW s \in kept, NEW p \in Periods, Pending(s, p),
               ledger'[<<s, p>>] # "done"
        PROVE  Pending(s, p)'
    <3>1. <<s, p>> \in JobSlots
      BY DEF JobSlots, WatcherTypeOK
    <3>2. CASE run.at \in Working \cup {"committed"} /\ run.slot = <<s, p>>
      <4>1. FinishDone
        BY <1>7, <3>2 DEF FinishFailed, Working
      <4>2. ledger' = [ledger EXCEPT ![<<s, p>>] = "done"]
        BY <3>2, <4>1 DEF FinishDone, FinishWith
      <4> QED BY <2>3, <3>1, <4>2 DEF WatcherTypeOK
    <3>3. CASE due
      BY <2>1, <3>3 DEF Pending
    <3>4. CASE s \in run.todo /\ PreviousPeriod(s, run.day) = p
      BY <2>1, <3>4 DEF Pending, PreviousPeriod
    <3> QED BY <2>3, <3>2, <3>3, <3>4 DEF Pending
  <2>4. \A s \in kept, p \in Periods : <<s, p>> \in JobSlots
    BY DEF JobSlots, WatcherTypeOK
  <2> QED BY <1>1, <2>1, <2>2, <2>3, <2>4, SameDay
<1>8. CASE RunEnds
  <2>1. UNCHANGED <<ledger, troubles, due>> /\ run.at = "loop" /\ run.todo = {}
    BY <1>8 DEF RunEnds
  <2>2. \A s \in kept, p \in Periods : Pending(s, p) => Pending(s, p)'
    BY <2>1 DEF Pending, Working
  <2> QED BY <1>1, <2>1, <2>2, SameDay
<1>9. CASE Boot \/ (\E s \in Schedules : SaveSchedule(s)) \/ UNCHANGED watcherVars
  BY <1>3, <1>9 DEF Boot, SaveSchedule, watcherVars
<1> QED
  BY <1>2, <1>4, <1>5, <1>6, <1>7, <1>8, <1>9 DEF WatcherNext, RunStep

(* A day goes by: the trigger fires, or a trouble is charged for it.       *)
LEMMA NextDayStep ==
    ASSUME WatcherTypeOK, DaysCharged, NextDay
    PROVE  DaysCharged'
<1> SUFFICES ASSUME NEW s \in kept, NEW p \in Periods,
                    FirstDay <= ClosingDay(s, p), ClosingDay(s, p) <= today + 1,
                    ledger[<<s, p>>] # "done", troubles' < Length[s]
             PROVE  /\ today + 1 <= ClosingDay(s, p) + troubles'
                    /\ Pending(s, p)' \/ today + 1 < ClosingDay(s, p) + troubles'
  BY DEF DaysCharged, ClosingDay, NextDay, dbVars
<1>1. s \in Schedules /\ Length[s] \in Nat \ {0} /\ p \in Nat
  BY LengthAssumption DEF WatcherTypeOK, Periods
<1>2. today \in Nat /\ troubles \in Nat /\ ClosingDay(s, p) \in Nat
  BY <1>1, DaysAssumption, MaxTroublesAssumption DEF WatcherTypeOK, Days, ClosingDay
<1>3. \/ /\ ~due /\ run = NotRunning /\ due' /\ UNCHANGED troubles
      \/ /\ ~due /\ ~due' /\ UNCHANGED run /\ troubles' = troubles + 1
  BY DEF NextDay, Trouble
<1>4. CASE ClosingDay(s, p) = today + 1
  BY <1>2, <1>3, <1>4 DEF Pending
<1>5. CASE ClosingDay(s, p) <= today
  <2>1. troubles < Length[s]
    BY <1>1, <1>2, <1>3
  <2>2. /\ today <= ClosingDay(s, p) + troubles
        /\ Pending(s, p) \/ today < ClosingDay(s, p) + troubles
    BY <1>5, <2>1 DEF DaysCharged
  <2>3. CASE ~due /\ run = NotRunning /\ due' /\ UNCHANGED troubles
    BY <1>2, <2>2, <2>3 DEF Pending, NotRunning
  <2>4. CASE ~due /\ ~due' /\ UNCHANGED run /\ troubles' = troubles + 1
    <3>1. Pending(s, p) => Pending(s, p)'
      BY <2>4 DEF Pending, PreviousPeriod
    <3> QED BY <1>2, <2>2, <2>4, <3>1
  <2> QED BY <1>3, <2>3, <2>4
<1> QED BY <1>2, <1>4, <1>5

(* Fewer troubles than a period has days never lose one: as long as a      *)
(* period is not reported, every day since it closed has cost a failure, a *)
(* crash or a missed trigger, for periods of any length.                   *)
THEOREM PeriodsReported == WatcherSpec => []EveryPeriodReported
<1>1. WatcherInit => KeptEnabled /\ DaysCharged
  <2> SUFFICES ASSUME WatcherInit PROVE KeptEnabled /\ DaysCharged
    OBVIOUS
  <2>1. KeptEnabled
    BY DEF WatcherInit, KeptEnabled
  <2>2. ASSUME NEW s \in kept, NEW p \in Periods,
               FirstDay <= ClosingDay(s, p), ClosingDay(s, p) <= today
        PROVE  /\ today <= ClosingDay(s, p) + troubles
               /\ Pending(s, p)
    <3>1. Length[s] \in Nat /\ p \in Nat
      BY LengthAssumption DEF WatcherInit, Periods
    <3>2. ClosingDay(s, p) \in Nat
      BY <3>1 DEF ClosingDay
    <3> QED BY <2>2, <3>2, DaysAssumption DEF WatcherInit, Pending
  <2> QED BY <2>1, <2>2 DEF DaysCharged
<1>2. WatcherTypeOK /\ KeptEnabled /\ [WatcherNext]_watcherVars => KeptEnabled'
  <2> SUFFICES ASSUME WatcherTypeOK, KeptEnabled, [WatcherNext]_watcherVars PROVE KeptEnabled'
    OBVIOUS
  <2>1. ASSUME NEW s \in Schedules, SaveSchedule(s) PROVE KeptEnabled'
    BY <2>1 DEF SaveSchedule, KeptEnabled, WatcherTypeOK
  <2>2. UNCHANGED <<enabled, kept>> \/ \E s \in Schedules : SaveSchedule(s)
    BY DEF dbVars, WatcherNext, NextDay, Fire, RunStep, Claim, Render, Deliver, CommitReports,
           FinishDone, FinishFailed, FinishWith, RunEnds, ReportsFail, LedgerFails,
           Crash, RunDies, Boot, watcherVars
  <2> QED BY <2>1, <2>2 DEF KeptEnabled
<1>3. WatcherTypeOK /\ KeptEnabled /\ DaysCharged /\ [WatcherNext]_watcherVars => DaysCharged'
  BY WatcherTypeInductive, SameDayStep, NextDayStep
<1>4. WatcherTypeOK /\ DaysCharged => EveryPeriodReported
  <2> SUFFICES ASSUME WatcherTypeOK, DaysCharged, NEW s \in kept, NEW p \in Periods,
                      troubles < Length[s], FirstDay <= ClosingDay(s, p),
                      p < PreviousPeriod(s, today)
               PROVE  ledger[<<s, p>>] = "done"
    BY DEF EveryPeriodReported
  <2>1. /\ s \in Schedules /\ Length[s] \in Nat \ {0} /\ p \in Nat
        /\ today \in Nat /\ today \in Days /\ troubles \in Nat
    BY LengthAssumption, DaysAssumption, MaxTroublesAssumption DEF WatcherTypeOK, Periods, Days
  <2>2. ClosingDay(s, p) <= today
    <3> DEFINE n == Length[s]
               q == today \div n
    <3>1. n \in Nat \ {0} /\ q \in Nat /\ q * n <= today
      BY <2>1, Quotient
    <3>2. p + 1 < q /\ ClosingDay(s, p) = (p + 1) * n
      BY <2>1, <3>1 DEF PreviousPeriod, ClosingDay
    <3> HIDE DEF n, q
    <3>3. \A a, b \in Nat : a < b => a * n <= b * n
      BY <3>1, SMTT(30)
    <3> QED BY <2>1, <3>1, <3>2, <3>3
  <2>3. ClosingDay(s, p) \in Nat /\ ClosingDay(s, p) + Length[s] <= today
    BY <2>1, <2>2, LastClosed
  <2> QED BY <2>1, <2>2, <2>3 DEF DaysCharged
<1> QED BY <1>1, <1>2, <1>3, <1>4, WatcherTypeCorrect, PTL DEF WatcherSpec
=============================================================================
