----------------------------- MODULE MCOrgSync -----------------------------
(* Instances of OrgSync for TLC; repositories are interchangeable.         *)
EXTENDS OrgSync, TLC

RepoSymmetry == Permutations(Repos)
=============================================================================
