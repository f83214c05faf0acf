------------------------------ MODULE MCIngest ------------------------------
(* Instances of Ingest for TLC: two repositories sharing an author, one of  *)
(* them with an author who turns up after a commit of somebody else.        *)
EXTENDS Ingest, TLC

CONSTANTS r1, r2, ann, bob

TwoLogs == r1 :> <<ann, bob, ann>> @@ r2 :> <<bob>>
OneLog == r1 :> <<ann, bob>>
=============================================================================
