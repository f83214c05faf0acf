--------------------------- MODULE PeriodWatcher ---------------------------
(* Scheduled reports: once a day the worker's watcher looks at the period   *)
(* that closed last under each enabled schedule, claims it in a ledger,     *)
(* renders and mails its report, commits, and settles the ledger.  The      *)
(* claim, the work and the settlement are three transactions; mails leave   *)
(* before the second one commits.                                           *)
(*                                                                          *)
(* Days are counted from a day on which a period of every schedule begins,  *)
(* and a schedule's periods are of equal length.                            *)
EXTENDS Naturals, FiniteSets

CONSTANTS
    Schedules,   \* period and report kinds
    Length,      \* days in a period of each schedule
    FirstDay,    \* the day on which the model begins
    LastDay,     \* bound on the days
    MaxTroubles, \* bound on failures, crashes and days missed by the trigger
    NoSlot

ASSUME LengthAssumption == Length \in [Schedules -> Nat \ {0}]
ASSUME DaysAssumption ==
    /\ FirstDay \in Nat /\ LastDay \in Nat
    /\ \A s \in Schedules : Length[s] <= FirstDay
    /\ FirstDay <= LastDay
ASSUME MaxTroublesAssumption == MaxTroubles \in Nat

Days == FirstDay..LastDay
Periods == 0..LastDay
JobSlots == Schedules \X Periods
ASSUME NoSlotAssumption == NoSlot \notin JobSlots

VARIABLES
    today,
    due,       \* the trigger of today has not fired yet
    alive,     \* the worker process is running
    enabled,   \* ReportSchedule.enabled
    ledger,    \* JobLedger.status by job and period
    archived,  \* committed reports by schedule and period
    delivered, \* deliveries by schedule and period
    run,       \* the watcher's run
    troubles,
    lost,      \* ghost: the periods on which a run died with mails or rows out
    kept       \* ghost: the schedules that were never disabled

dbVars == <<enabled, kept, ledger, archived>>
watcherVars == <<today, due, alive, dbVars, delivered, run, troubles, lost>>

NotRunning == [at |-> "off", day |-> 0, todo |-> {}, slot |-> NoSlot]
(* The report is out of the worker's hands, the ledger does not say so.    *)
Exposed == {"mailed", "committed"}
Working == {"claimed", "rendered", "mailed"}

WatcherTypeOK ==
    /\ today \in Days
    /\ due \in BOOLEAN /\ alive \in BOOLEAN
    /\ enabled \in [Schedules -> BOOLEAN]
    /\ ledger \in [JobSlots -> {"none", "running", "failed", "done"}]
    /\ archived \in [JobSlots -> Nat] /\ delivered \in [JobSlots -> Nat]
    /\ run \in [at : {"off", "loop", "error"} \cup Working \cup Exposed,
               day : Days \cup {0}, todo : SUBSET Schedules, slot : JobSlots \cup {NoSlot}]
    /\ run.at # "off" => run.day \in Days
    /\ run.at \in Working \cup Exposed \cup {"error"} =>
          run.slot \in JobSlots /\ ledger[run.slot] = "running"
    /\ troubles \in 0..MaxTroubles
    /\ lost \subseteq JobSlots /\ kept \subseteq Schedules
    /\ ~alive => run = NotRunning /\ ~due

(* previous_period: the last period that has closed by that day.           *)
PreviousPeriod(s, day) == (day \div Length[s]) - 1

WatcherInit ==
    /\ today = FirstDay
    /\ due = TRUE /\ alive = TRUE
    /\ enabled = [s \in Schedules |-> TRUE]
    /\ ledger = [x \in JobSlots |-> "none"]
    /\ archived = [x \in JobSlots |-> 0]
    /\ delivered = [x \in JobSlots |-> 0]
    /\ run = NotRunning
    /\ troubles = 0
    /\ lost = {}
    /\ kept = Schedules

Trouble == troubles < MaxTroubles /\ troubles' = troubles + 1

----------------------------------------------------------------------------
(* The trigger fires once a day.  A day on which the worker is down at that *)
(* time, or still at work on an earlier run (max_instances=1), is missed.  *)
NextDay ==
    /\ today < LastDay
    /\ ~due
    /\ today' = today + 1
    /\ \/ /\ alive /\ run = NotRunning
          /\ due' = TRUE
          /\ UNCHANGED troubles
       \/ /\ ~alive \/ run # NotRunning
          /\ due' = FALSE
          /\ Trouble
    /\ UNCHANGED <<alive, dbVars, delivered, run, lost>>

(* period_watcher reads the schedules.                                     *)
Fire ==
    /\ due
    /\ due' = FALSE
    /\ run' = [NotRunning EXCEPT !.at = "loop", !.day = today,
                          !.todo = {s \in Schedules : enabled[s]}]
    /\ UNCHANGED <<today, alive, dbVars, delivered, troubles, lost>>

(* Mutants: a settled period is taken again, or a tried one is not.        *)
TakeableAlways(x) == TRUE
TakeableOnce(x) == ledger[x] = "none"
(* _claim: only status done blocks a re-run.                               *)
Takeable(x) == ledger[x] # "done"

Claim ==
    /\ run.at = "loop"
    /\ \E s \in run.todo :
          LET x == <<s, PreviousPeriod(s, run.day)>>
          IN  \/ /\ Takeable(x)
                 /\ ledger' = [ledger EXCEPT ![x] = "running"]
                 /\ run' = [run EXCEPT !.at = "claimed", !.slot = x,
                                       !.todo = @ \ {s}]
              \/ /\ ~Takeable(x)
                 /\ run' = [run EXCEPT !.todo = @ \ {s}]
                 /\ UNCHANGED ledger
    /\ UNCHANGED <<today, due, alive, enabled, kept, archived, delivered, troubles, lost>>

(* generate_reports                                                        *)
Render ==
    /\ run.at = "claimed"
    /\ run' = [run EXCEPT !.at = "rendered"]
    /\ UNCHANGED <<today, due, alive, dbVars, delivered, troubles, lost>>

(* send_report, if there are recipients; whatever goes wrong with the mail *)
(* is recorded on the report and does not stop the run.                    *)
Deliver ==
    /\ run.at = "rendered"
    /\ \E n \in {0, 1} : delivered' = [delivered EXCEPT ![run.slot] = @ + n]
    /\ run' = [run EXCEPT !.at = "mailed"]
    /\ UNCHANGED <<today, due, alive, dbVars, troubles, lost>>

(* Mutant: the ledger is settled along with the reports.                   *)
CommitReportsSettled ==
    /\ run.at = "mailed"
    /\ archived' = [archived EXCEPT ![run.slot] = @ + 1]
    /\ ledger' = [ledger EXCEPT ![run.slot] = "done"]
    /\ run' = [run EXCEPT !.at = "committed"]
    /\ UNCHANGED <<today, due, alive, enabled, kept, delivered, troubles, lost>>

(* The reports' transaction commits.                                       *)
CommitReports ==
    /\ run.at = "mailed"
    /\ archived' = [archived EXCEPT ![run.slot] = @ + 1]
    /\ run' = [run EXCEPT !.at = "committed"]
    /\ UNCHANGED <<today, due, alive, enabled, kept, ledger, delivered, troubles, lost>>

(* An exception in the try block: the reports' transaction is rolled back. *)
ReportsFail ==
    /\ run.at \in Working
    /\ Trouble
    /\ run' = [run EXCEPT !.at = "error"]
    /\ lost' = IF run.at \in Exposed THEN lost \cup {run.slot} ELSE lost
    /\ UNCHANGED <<today, due, alive, dbVars, delivered>>

FinishWith(st) ==
    /\ ledger' = [ledger EXCEPT ![run.slot] = st]
    /\ run' = [run EXCEPT !.at = "loop", !.slot = NoSlot]
    /\ UNCHANGED <<today, due, alive, enabled, kept, archived, delivered, troubles, lost>>

(* Mutant: a failure is settled like a success.                            *)
FinishFailedAsDone == run.at = "error" /\ FinishWith("done")

FinishDone == run.at = "committed" /\ FinishWith("done")
FinishFailed == run.at = "error" /\ FinishWith("failed")

RunEnds ==
    /\ run.at = "loop"
    /\ run.todo = {}
    /\ run' = NotRunning
    /\ UNCHANGED <<today, due, alive, dbVars, delivered, troubles, lost>>

----------------------------------------------------------------------------
RunDies ==
    /\ run' = NotRunning
    /\ lost' = IF run.at \in Exposed THEN lost \cup {run.slot} ELSE lost
    /\ UNCHANGED <<today, dbVars, delivered>>

(* The ledger's own sessions are outside the try block: an error there     *)
(* ends the run for the schedules that are left as well.                   *)
LedgerFails ==
    /\ run.at \in {"loop", "committed", "error"}
    /\ Trouble
    /\ RunDies
    /\ UNCHANGED <<due, alive>>

Crash ==
    /\ alive
    /\ Trouble
    /\ alive' = FALSE
    /\ due' = FALSE
    /\ RunDies

(* The scheduler keeps nothing: a trigger missed while down stays missed.  *)
Boot ==
    /\ ~alive
    /\ alive' = TRUE
    /\ UNCHANGED <<today, due, dbVars, delivered, run, troubles, lost>>

(* POST /reports/schedules                                                 *)
SaveSchedule(s) ==
    /\ enabled' = [enabled EXCEPT ![s] = ~@]
    /\ kept' = kept \ {s}
    /\ UNCHANGED <<today, due, alive, ledger, archived, delivered, run, troubles, lost>>

RunStep ==
    \/ Claim \/ Render \/ Deliver \/ CommitReports \/ FinishDone \/ FinishFailed
    \/ RunEnds

WatcherNext ==
    \/ NextDay \/ Fire \/ RunStep
    \/ ReportsFail \/ LedgerFails \/ Crash \/ Boot
    \/ \E s \in Schedules : SaveSchedule(s)

WatcherSpec == WatcherInit /\ [][WatcherNext]_watcherVars

----------------------------------------------------------------------------
(* Properties.                                                             *)

(* A period is archived and mailed at most once, unless a run died on it   *)
(* after its mails had left and before the ledger said so.                 *)
OncePerPeriod == \A x \in JobSlots \ lost : archived[x] <= 1 /\ delivered[x] <= 1

(* The ledger never says done of a period without a report.                *)
DoneIsArchived == \A x \in JobSlots : ledger[x] = "done" => archived[x] >= 1

(* The day on which a period of s has closed.                              *)
ClosingDay(s, p) == (p + 1) * Length[s]

(* A schedule left enabled has a report for every period before the next   *)
(* one closes, retried on the days in between: fewer troubles than the     *)
(* period has days are never enough to lose one.  A period that closed     *)
(* before the model begins has lost some of those days already.            *)
EveryPeriodReported ==
    \A s \in kept, p \in Periods :
        (/\ troubles < Length[s]
         /\ FirstDay <= ClosingDay(s, p)
         /\ p < PreviousPeriod(s, today))
        => ledger[<<s, p>>] = "done"
=============================================================================
