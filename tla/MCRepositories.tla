--------------------------- MODULE MCRepositories ---------------------------
(* Two nodes, the second a fork, two names, two lists a filter may name.    *)
EXTENDS Repositories

CONSTANTS n1, n2

MCNodes == {n1, n2}
MCForks == {n2}
MCInitially == {[n \in MCNodes |-> IF n = n1 THEN 1 ELSE second] : second \in {0, 2}}
MCFilters == {[mode |-> "whitelist", listed |-> {1}],
              [mode |-> "blacklist", listed |-> {1}]}
=============================================================================
