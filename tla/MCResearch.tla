------------------------------ MODULE MCResearch ------------------------------
(* Three identities, two repositories of one org and one of another, and   *)
(* facts on days that fall before, into the middle and after the end of    *)
(* the periods, in weeks of three days.                                    *)
EXTENDS Research

CONSTANTS core, tools, site, acme, beta

MCOrgOf == [r \in Repos |-> IF r = site THEN beta ELSE acme]

Commit(id, by, repo, day, size, churned) ==
    [kind |-> "commit", id |-> id, by |-> by, repo |-> repo, day |-> day,
     size |-> size, churned |-> churned]
Pull(id, by, repo, day, merged) ==
    [kind |-> "pull", id |-> id, by |-> by, repo |-> repo, day |-> day, merged |-> merged]
Review(id, by, repo, day, author) ==
    [kind |-> "review", id |-> id, by |-> by, repo |-> repo, day |-> day, author |-> author]

MCFactPool == {Commit(1, 1, core, 2, 2, 0), Commit(2, 1, tools, 5, 1, 1),
               Commit(3, 2, core, 4, 1, 0), Commit(4, 3, site, 4, 0, 0),
               Pull(5, 2, core, 3, 7), Review(6, 1, core, 5, 2)}

MCScopes == {[orgs |-> {}, start |-> 1, end |-> 8],
             [orgs |-> {acme}, start |-> 3, end |-> 6]}
=============================================================================
