-------------------------- MODULE ReportLifecycle --------------------------
(* What the report archive promises for each report, whoever generates it: *)
(* a request is settled exactly once, as a document or as a failure; a     *)
(* document is never withdrawn; and only documents are ever mailed.        *)
CONSTANT Reports

VARIABLES
    phase,   \* where each report is in its life
    mailed   \* the reports whose document was mailed to somebody

vars == <<phase, mailed>>

Phase == {"none", "pending", "ready", "failed"}

Init ==
    /\ phase = [r \in Reports |-> "none"]
    /\ mailed = {}

Submit(r) ==
    /\ phase[r] = "none"
    /\ phase' = [phase EXCEPT ![r] = "pending"]
    /\ UNCHANGED mailed

(* A report made to order by a command appears as a document at once.      *)
Publish(r) ==
    /\ phase[r] \in {"none", "pending"}
    /\ phase' = [phase EXCEPT ![r] = "ready"]
    /\ UNCHANGED mailed

Reject(r) ==
    /\ phase[r] = "pending"
    /\ phase' = [phase EXCEPT ![r] = "failed"]
    /\ UNCHANGED mailed

Deliver(r) ==
    /\ phase[r] = "ready"
    /\ mailed' = mailed \cup {r}
    /\ UNCHANGED phase

Settle(r) == phase[r] = "pending" /\ (Publish(r) \/ Reject(r))

Next == \E r \in Reports : Submit(r) \/ Publish(r) \/ Reject(r) \/ Deliver(r)

Spec == Init /\ [][Next]_vars

(* Every request is settled.                                               *)
FairSpec == Spec /\ \A r \in Reports : WF_vars(Settle(r))
=============================================================================
