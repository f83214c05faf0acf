------------------------------- MODULE Ingest -------------------------------
(* Commit ingestion and the daily rollups.  One ingest per repository runs  *)
(* in one database session; creating an unknown author identity commits     *)
(* that session half-way (commit_on_create), while the rollup deltas and    *)
(* the cursor last_ingested_oid are written once, at its end.  Merges,      *)
(* unmerges and recomputes rebuild the rollups of some persons from the     *)
(* commits that are visible to them.                                        *)
(*                                                                          *)
(* Days and metrics are abstracted to one counter per person and repository. *)
(* Row locks of PostgreSQL (READ COMMITTED) appear as guards: a statement   *)
(* that would wait is not enabled.                                          *)
EXTENDS Naturals, Sequences, FiniteSets, FiniteSetsExt

CONSTANTS
    Repos,
    Idents,     \* author identities: (name_norm, email_norm)
    Persons,    \* person ids, handed out in increasing order
    Log,        \* the branch of each repository: who wrote each commit
    Editors,    \* transactions that merge, unmerge or recompute persons
    MaxFails,   \* bound on failed or crashed ingests
    MaxEdits,   \* bound on edits
    NoPerson

ASSUME ReposAssumption == IsFiniteSet(Repos)
ASSUME LogAssumption == Log \in [Repos -> Seq(Idents)]
ASSUME PersonsAssumption == Persons \subseteq Nat /\ IsFiniteSet(Persons)
ASSUME BoundsAssumption == MaxFails \in Nat /\ MaxEdits \in Nat
ASSUME NoPersonAssumption == NoPerson \notin Persons

VARIABLES
    owner,   \* Identity.person_id, NoPerson where the row does not exist
    alive,   \* the person rows
    used,    \* the person ids the sequence has handed out
    tip,     \* the length of each branch as GitHub has it
    stored,  \* the committed commits of each repository, by position
    cursor,  \* Repo.last_ingested_oid, by position
    rollup,  \* person_repo_day_stats: commits per person and repository
    ing,     \* the ingest session of each repository
    edit,    \* the open edit transactions
    fails, edits,
    overlapped \* ghost: an edit and an ingest have been open together

dbVars == <<owner, alive, used, stored, cursor, rollup>>
bounds == <<fails, edits>>
vars == <<dbVars, tip, ing, edit, bounds, overlapped>>

Positions == UNION {1..Len(Log[r]) : r \in Repos}
Counts == [Persons -> 0..Cardinality(Positions)]
Idle == [at |-> "idle", pos |-> 0, upto |-> 0, known |-> {}, pending |-> {},
         cache |-> [i \in Idents |-> NoPerson], delta |-> [p \in Persons |-> 0]]
Closed == [open |-> FALSE, moved |-> {}, to |-> NoPerson, gone |-> {},
           rebuilt |-> {}, held |-> {}, snap |-> [x \in Persons \X Repos |-> 0]]

TypeOK ==
    /\ owner \in [Idents -> Persons \cup {NoPerson}]
    /\ alive \subseteq used /\ used \subseteq Persons
    /\ tip \in [Repos -> Nat]
    /\ stored \in [Repos -> SUBSET Positions]
    /\ cursor \in [Repos -> Nat]
    /\ rollup \in [Persons \X Repos -> Nat]
    /\ ing \in [Repos -> [at : {"idle", "insert", "applied"}, pos : Nat, upto : Nat,
                          known : SUBSET Positions, pending : SUBSET Positions,
                          cache : [Idents -> Persons \cup {NoPerson}], delta : Counts]]
    /\ edit \in [Editors -> [open : BOOLEAN, moved : SUBSET Idents,
                             to : Persons \cup {NoPerson}, gone : SUBSET Persons,
                             rebuilt : SUBSET Persons,
                             held : SUBSET (Persons \X Repos),
                             snap : [Persons \X Repos -> Nat]]]
    /\ fails \in 0..MaxFails /\ edits \in 0..MaxEdits /\ overlapped \in BOOLEAN
    /\ \A r \in Repos : cursor[r] <= tip[r] /\ tip[r] <= Len(Log[r])
    /\ \A i \in Idents : owner[i] # NoPerson => owner[i] \in alive

Init ==
    /\ owner = [i \in Idents |-> NoPerson]
    /\ alive = {} /\ used = {}
    /\ tip = [r \in Repos |-> 0]
    /\ stored = [r \in Repos |-> {}]
    /\ cursor = [r \in Repos |-> 0]
    /\ rollup = [x \in Persons \X Repos |-> 0]
    /\ ing = [r \in Repos |-> Idle]
    /\ edit = [e \in Editors |-> Closed]
    /\ fails = 0 /\ edits = 0 /\ overlapped = FALSE

NobodyIngests == \A r \in Repos : ing[r].at = "idle"
NobodyEdits == \A e \in Editors : ~edit[e].open
NextPerson == Min(Persons \ used)

(* The commits of r that the identity mapping o gives to person p.         *)
Authored(o, r, p) == {c \in stored[r] : o[Log[r][c]] = p}

(* Rollup rows an ingest has written and not yet committed.                *)
Written(r) == IF ing[r].at = "applied"
              THEN {p \in Persons : ing[r].delta[p] > 0} ELSE {}

----------------------------------------------------------------------------
(* Authors push; the next fetch moves the tip.                             *)
Push(r) ==
    /\ tip[r] < Len(Log[r])
    /\ \E n \in (tip[r] + 1)..Len(Log[r]) : tip' = [tip EXCEPT ![r] = n]
    /\ UNCHANGED <<dbVars, ing, edit, bounds, overlapped>>

(* _sync_repo reads the cursor, logs the commits after it, and ingest_repo *)
(* asks which of them are known.                                           *)
BeginIngest(r) ==
    /\ ing[r].at = "idle"
    /\ tip[r] # cursor[r]
    /\ overlapped' = (overlapped \/ ~NobodyEdits)
    /\ ing' = [ing EXCEPT ![r] = [Idle EXCEPT
          !.at = "insert", !.pos = cursor[r], !.upto = tip[r], !.known = stored[r]]]
    /\ UNCHANGED <<dbVars, tip, edit, bounds>>

SkipKnown(r) ==
    /\ ing[r].at = "insert"
    /\ ing[r].pos < ing[r].upto
    /\ ing[r].pos + 1 \in ing[r].known
    /\ ing' = [ing EXCEPT ![r].pos = @ + 1]
    /\ UNCHANGED <<dbVars, tip, edit, bounds, overlapped>>

(* The session after it added commit c, written by i, credited to p.       *)
WithCommit(s, c, i, p) ==
    [s EXCEPT !.pos = c, !.pending = @ \cup {c}, !.cache[i] = p, !.delta[p] = @ + 1]

(* The author's identity exists or is cached: its person is the one it had *)
(* when the session first loaded it.                                       *)
InsertKnownAuthor(r) ==
    LET c == ing[r].pos + 1
        i == Log[r][c]
        p == IF ing[r].cache[i] # NoPerson THEN ing[r].cache[i] ELSE owner[i]
    IN  /\ ing[r].at = "insert"
        /\ ing[r].pos < ing[r].upto
        /\ c \notin ing[r].known
        /\ p # NoPerson
        /\ ing' = [ing EXCEPT ![r] = WithCommit(@, c, i, p)]
        /\ UNCHANGED <<dbVars, tip, edit, bounds, overlapped>>

(* Mutants: the person row is not added, or the half-way commit also moves *)
(* the cursor to the commit at hand.                                       *)
InsertNewAuthorOrphan(r) ==
    LET c == ing[r].pos + 1
        i == Log[r][c]
    IN  /\ ing[r].at = "insert" /\ ing[r].pos < ing[r].upto
        /\ c \notin ing[r].known /\ ing[r].cache[i] = NoPerson
        /\ owner[i] = NoPerson /\ Persons # used
        /\ owner' = [owner EXCEPT ![i] = NextPerson]
        /\ used' = used \cup {NextPerson}
        /\ ing' = [ing EXCEPT ![r] = WithCommit(@, c, i, NextPerson)]
        /\ UNCHANGED <<alive, stored, cursor, rollup, tip, edit, bounds, overlapped>>

InsertNewAuthorMovesCursor(r) ==
    LET c == ing[r].pos + 1
        i == Log[r][c]
    IN  /\ ing[r].at = "insert" /\ ing[r].pos < ing[r].upto
        /\ c \notin ing[r].known /\ ing[r].cache[i] = NoPerson
        /\ owner[i] = NoPerson /\ Persons # used
        /\ owner' = [owner EXCEPT ![i] = NextPerson]
        /\ alive' = alive \cup {NextPerson}
        /\ used' = used \cup {NextPerson}
        /\ stored' = [stored EXCEPT ![r] = @ \cup ing[r].pending]
        /\ cursor' = [cursor EXCEPT ![r] = c]
        /\ ing' = [ing EXCEPT ![r] =
              WithCommit([@ EXCEPT !.pending = {}], c, i, NextPerson)]
        /\ UNCHANGED <<rollup, tip, edit, bounds, overlapped>>

(* The author is new: identity and person are inserted and the session is  *)
(* committed with every commit it had pending.                             *)
InsertNewAuthor(r) ==
    LET c == ing[r].pos + 1
        i == Log[r][c]
    IN  /\ ing[r].at = "insert"
        /\ ing[r].pos < ing[r].upto
        /\ c \notin ing[r].known
        /\ ing[r].cache[i] = NoPerson
        /\ owner[i] = NoPerson
        /\ Persons # used
        /\ owner' = [owner EXCEPT ![i] = NextPerson]
        /\ alive' = alive \cup {NextPerson}
        /\ used' = used \cup {NextPerson}
        /\ stored' = [stored EXCEPT ![r] = @ \cup ing[r].pending]
        /\ ing' = [ing EXCEPT ![r] =
              WithCommit([@ EXCEPT !.pending = {}], c, i, NextPerson)]
        /\ UNCHANGED <<cursor, rollup, tip, edit, bounds, overlapped>>

(* Persons an edit has deleted and not yet committed, and rows it deleted. *)
Locked(r, p) ==
    \E e \in Editors : edit[e].open /\ (p \in edit[e].gone \/ <<p, r>> \in edit[e].held)

(* apply_deltas: one additive upsert; it waits for rows being rebuilt.     *)
ApplyDeltas(r) ==
    /\ ing[r].at = "insert"
    /\ ing[r].pos = ing[r].upto
    /\ \A p \in Persons : ing[r].delta[p] > 0 => p \in alive /\ ~Locked(r, p)
    /\ ing' = [ing EXCEPT ![r].at = "applied"]
    /\ UNCHANGED <<dbVars, tip, edit, bounds, overlapped>>

(* Mutant: the failing upsert is tried again for ever.                     *)
ApplyToGoneRetried(r) == ing[r].at = "insert" /\ UNCHANGED vars

(* The same upsert when a person it credits is gone: a foreign key fails.  *)
ApplyToGone(r) ==
    /\ ing[r].at = "insert"
    /\ ing[r].pos = ing[r].upto
    /\ \E p \in Persons : ing[r].delta[p] > 0 /\ p \notin alive
    /\ ing' = [ing EXCEPT ![r] = Idle]
    /\ UNCHANGED <<dbVars, tip, edit, bounds, overlapped>>

(* Mutant: the deltas replace the rows instead of adding to them.          *)
CommitIngestReplacing(r) ==
    /\ ing[r].at = "applied"
    /\ stored' = [stored EXCEPT ![r] = @ \cup ing[r].pending]
    /\ cursor' = [cursor EXCEPT ![r] = ing[r].upto]
    /\ rollup' = [x \in Persons \X Repos |->
          IF x[2] = r /\ ing[r].delta[x[1]] > 0 THEN ing[r].delta[x[1]] ELSE rollup[x]]
    /\ ing' = [ing EXCEPT ![r] = Idle]
    /\ UNCHANGED <<owner, alive, used, tip, edit, bounds, overlapped>>

(* The pull requests are in, and _sync_repo commits.                       *)
CommitIngest(r) ==
    /\ ing[r].at = "applied"
    /\ stored' = [stored EXCEPT ![r] = @ \cup ing[r].pending]
    /\ cursor' = [cursor EXCEPT ![r] = ing[r].upto]
    /\ rollup' = [x \in Persons \X Repos |->
          rollup[x] + (IF x[2] = r THEN ing[r].delta[x[1]] ELSE 0)]
    /\ ing' = [ing EXCEPT ![r] = Idle]
    /\ UNCHANGED <<owner, alive, used, tip, edit, bounds, overlapped>>

(* Any error of the repository's task before its commit (a rate limit on   *)
(* its pull requests, say), or a crash of the worker: what the session had  *)
(* not committed is rolled back.                                            *)
IngestFails(r) ==
    /\ ing[r].at # "idle"
    /\ fails < MaxFails
    /\ fails' = fails + 1
    /\ ing' = [ing EXCEPT ![r] = Idle]
    /\ UNCHANGED <<dbVars, tip, edit, edits, overlapped>>

----------------------------------------------------------------------------
(* recompute_for_persons deletes the rows of some persons and counts the   *)
(* commits it sees under the mapping of its own transaction; the deletes   *)
(* wait for ingests that have written those rows.                          *)
OpenEdit(e, moved, to, gone, rebuilt) ==
    LET rows == {x \in (gone \cup rebuilt) \X Repos : rollup[x] > 0}
        mapping == [i \in Idents |-> IF i \in moved THEN to ELSE owner[i]]
    IN  /\ edits < MaxEdits
        /\ edits' = edits + 1
        /\ ~edit[e].open
        /\ overlapped' = (overlapped \/ ~NobodyIngests)
        /\ \A x \in rows : x[1] \notin Written(x[2]) /\ ~Locked(x[2], x[1])
        /\ \A r \in Repos : gone \cap Written(r) = {}
        /\ \A f \in Editors : edit[f].open =>
              (gone \cup rebuilt) \cap (edit[f].gone \cup edit[f].rebuilt) = {}
        /\ edit' = [edit EXCEPT ![e] =
              [open |-> TRUE, moved |-> moved, to |-> to, gone |-> gone,
               rebuilt |-> rebuilt, held |-> rows,
               snap |-> [x \in Persons \X Repos |->
                   IF x[1] \in rebuilt
                   THEN Cardinality(Authored(mapping, x[2], x[1])) ELSE 0]]]

(* merge_persons *)
BeginMerge(e) ==
    \E target, source \in alive :
        /\ target # source
        /\ OpenEdit(e, {i \in Idents : owner[i] = source}, target, {source}, {target})
        /\ UNCHANGED <<dbVars, tip, ing, fails>>

(* unmerge_identity: only where the person has another identity left.      *)
BeginUnmerge(e) ==
    \E i \in Idents :
        /\ owner[i] # NoPerson
        /\ \E j \in Idents \ {i} : owner[j] = owner[i]
        /\ Persons # used
        /\ used' = used \cup {NextPerson}
        /\ OpenEdit(e, {i}, NextPerson, {}, {owner[i], NextPerson})
        /\ UNCHANGED <<owner, alive, stored, cursor, rollup, tip, ing, fails>>

(* The rebuild at the end of an org sync, for persons with new pull        *)
(* requests; another org's ingests may be under way.                       *)
BeginRecompute(e) ==
    \E p \in alive :
        /\ OpenEdit(e, {}, NoPerson, {}, {p})
        /\ UNCHANGED <<dbVars, tip, ing, fails>>

(* Mutants: the rebuilt counts are added, or the old rows are not deleted. *)
CommitEditAdding(e) ==
    /\ edit[e].open
    /\ \A x \in Persons \X Repos : edit[e].snap[x] > 0 => x[1] \notin Written(x[2])
    /\ owner' = [i \in Idents |->
          IF i \in edit[e].moved THEN edit[e].to ELSE owner[i]]
    /\ alive' = (alive \ edit[e].gone)
          \cup (IF edit[e].to = NoPerson THEN {} ELSE {edit[e].to})
    /\ rollup' = [x \in Persons \X Repos |->
          IF x[1] \in edit[e].gone THEN 0 ELSE rollup[x] + edit[e].snap[x]]
    /\ edit' = [edit EXCEPT ![e] = Closed]
    /\ UNCHANGED <<used, stored, cursor, tip, ing, bounds, overlapped>>

CommitEditKeepingRows(e) ==
    /\ edit[e].open
    /\ \A x \in Persons \X Repos : edit[e].snap[x] > 0 => x[1] \notin Written(x[2])
    /\ owner' = [i \in Idents |->
          IF i \in edit[e].moved THEN edit[e].to ELSE owner[i]]
    /\ alive' = (alive \ edit[e].gone)
          \cup (IF edit[e].to = NoPerson THEN {} ELSE {edit[e].to})
    /\ rollup' = [x \in Persons \X Repos |->
          IF x[1] \in edit[e].gone THEN 0
          ELSE IF edit[e].snap[x] > 0 THEN edit[e].snap[x] ELSE rollup[x]]
    /\ edit' = [edit EXCEPT ![e] = Closed]
    /\ UNCHANGED <<used, stored, cursor, tip, ing, bounds, overlapped>>

(* The rebuilt rows replace what is there, once no ingest is writing them; *)
(* rows that were not there and get no commits stay as others leave them.  *)
CommitEdit(e) ==
    /\ edit[e].open
    /\ \A x \in Persons \X Repos : edit[e].snap[x] > 0 => x[1] \notin Written(x[2])
    /\ owner' = [i \in Idents |->
          IF i \in edit[e].moved THEN edit[e].to ELSE owner[i]]
    /\ alive' = (alive \ edit[e].gone)
          \cup (IF edit[e].to = NoPerson THEN {} ELSE {edit[e].to})
    /\ rollup' = [x \in Persons \X Repos |->
          IF x[1] \in edit[e].gone THEN 0
          ELSE IF x \in edit[e].held \/ edit[e].snap[x] > 0 THEN edit[e].snap[x]
          ELSE rollup[x]]
    /\ edit' = [edit EXCEPT ![e] = Closed]
    /\ UNCHANGED <<used, stored, cursor, tip, ing, bounds, overlapped>>

----------------------------------------------------------------------------
IngestStep(r) ==
    \/ BeginIngest(r) \/ SkipKnown(r) \/ InsertKnownAuthor(r) \/ InsertNewAuthor(r)
    \/ ApplyDeltas(r) \/ ApplyToGone(r) \/ CommitIngest(r)

EditStep(e) ==
    BeginMerge(e) \/ BeginUnmerge(e) \/ BeginRecompute(e) \/ CommitEdit(e)

Next ==
    \/ \E r \in Repos : Push(r) \/ IngestStep(r) \/ IngestFails(r)
    \/ \E e \in Editors : EditStep(e)

Spec == Init /\ [][Next]_vars

(* Every hourly sync takes a repository on; open transactions end.         *)
FairSpec ==
    /\ Spec
    /\ \A r \in Repos : WF_vars(IngestStep(r))
    /\ \A e \in Editors : WF_vars(CommitEdit(e))

----------------------------------------------------------------------------
(* Properties.                                                             *)

(* docs/metrics.md and the design document: with nothing under way, every  *)
(* person's rollup is the number of stored commits the identity mapping    *)
(* gives them.  That is too much to ask after a failed ingest.             *)
RollupAttributed ==
    NobodyIngests /\ NobodyEdits =>
        \A p \in alive, r \in Repos :
            rollup[<<p, r>>] = Cardinality(Authored(owner, r, p))

(* That holds for as long as no ingest has failed and no edit has been     *)
(* open next to an ingest.                                                 *)
RollupExact == fails = 0 /\ ~overlapped => RollupAttributed

(* Short of such an overlap a rollup never claims commits that are not     *)
(* stored, whatever fails.                                                 *)
NeverOvercounts ==
    ~overlapped =>
        \A p \in alive, r \in Repos :
            rollup[<<p, r>>] <= Cardinality(Authored(owner, r, p))

(* What a rollup says of a person, wherever an overlap has not spoiled it. *)
RollupSound == RollupExact /\ NeverOvercounts

(* Everything up to the cursor is stored: a failed ingest, half committed  *)
(* or not, is taken up again from a point that loses no commit.            *)
CursorCovered == \A r \in Repos : 1..cursor[r] \subseteq stored[r]

(* Short of it, too, a merge, unmerge or recompute leaves the persons it   *)
(* rebuilds exact, however far failed ingests had left them behind.        *)
EditsRepair ==
    [][\A e \in Editors : ~overlapped /\ edit[e].open /\ ~edit'[e].open =>
          \A p \in edit[e].rebuilt, r \in Repos :
              rollup'[<<p, r>>] = Cardinality(Authored(owner, r, p)')]_vars

(* Whatever is pushed is stored in the end.                                *)
AllIngested ==
    \A r \in Repos : \A n \in 1..Len(Log[r]) : (tip[r] >= n) ~> (n \in stored[r])
=============================================================================
