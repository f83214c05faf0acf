---------------------------- MODULE Suggestions ----------------------------
(* Who is who: identities, the persons that own them, and the merges that   *)
(* bring the identities of one human together.  Scans of the worker (and of *)
(* the manage page and the command line) merge pairs that carry an identity *)
(* proof and queue the others; GitHub's attribution of commits merges more  *)
(* after every sync; people accept, dismiss, merge, split and rename.       *)
(*                                                                          *)
(* A session that reads, works for long and writes is two steps, so that    *)
(* others fall between; a short request is one.  Texts are model values     *)
(* with the features the scoring tells apart.  SQL leaves the order of      *)
(* pairs open; here it is that of their ids.  Rollups: see Ingest.          *)
EXTENDS Naturals, Sequences, FiniteSets, FiniteSetsExt, SequencesExt

CONSTANTS
    Idents, NameOf, EmailOf, LoginOf,  \* the identities that may be observed
    Names, Emails,
    Handles,       \* logins, which are names too
    Full,          \* the names of several words
    Squash,        \* a name without its spaces, as a handle
    Similarity,    \* of two names with their words sorted, in hundredths
    NoreplyLogin,  \* the account a GitHub noreply address embeds
    Local,         \* an address's local part: None if generic or too short
    NewNames,      \* what people rename persons to
    Excluded,      \* identities active in excluded repositories only
    MemberLogins,  \* the members of the organization
    Initially,     \* who is known at first, in the order of their ids
    MaxPersons,    \* person ids are 1..MaxPersons, handed out in order
    MaxEdits,      \* bound on what people and GitHub do
    None

ASSUME IdentsAssumption ==
    /\ IsFiniteSet(Idents) /\ NameOf \in [Idents -> Names \cup {None}]
    /\ EmailOf \in [Idents -> Emails \cup {None}]
    /\ LoginOf \in [Idents -> Handles \cup {None}]
    /\ \A i \in Idents : NameOf[i] # None \/ LoginOf[i] # None
    /\ Initially \in Seq(Idents) /\ IsInjective(Initially)
ASSUME TextsAssumption ==
    /\ Full \cup NewNames \subseteq Names /\ Handles \subseteq Names \ Full
    /\ None \notin Names /\ IsFiniteSet(Emails) /\ IsFiniteSet(Handles)
    /\ Squash \in [Names -> Handles] /\ \A h \in Handles : Squash[h] = h
    /\ Similarity \in [Names \X Names -> 0..100]
    /\ NoreplyLogin \in [Emails -> Handles \cup {None}]
    /\ DOMAIN Local = Emails
ASSUME SuggestionsBounds ==
    MaxPersons \in Nat /\ MaxEdits \in Nat /\ Cardinality(Idents) <= MaxPersons

Persons == 1..MaxPersons
Accounts == {i \in Idents : LoginOf[i] # None}
SharedNameOwnerCap == 2
FullNameOwnerCap == 5
Threshold == 55

VARIABLES
    db,          \* the tables, see TypeOK
    membersOnly, \* Org.members_only
    registered,  \* GitHub: the account an address is registered on
    checked,     \* the attribution cache: addresses found unresolved lately
    scan,        \* generate: what it has read
    ask,         \* reconcile_commit_attribution: the addresses it asks about
    edits

vars == <<db, membersOnly, registered, checked, scan, ask, edits>>

Pairs == {{x[1], x[2]} : x \in {x \in Persons \X Persons : x[1] < x[2]}}
NoScan == [on |-> FALSE, views |-> {}, relevant |-> {}, pending |-> {}]
NoAsk == [on |-> FALSE, emails |-> {}]
Live(d) == {d.owner[i] : i \in Idents} \ {0}
Unseen(d) == {i \in Idents : d.owner[i] = 0}
DefaultName(i) == IF NameOf[i] # None THEN NameOf[i] ELSE LoginOf[i]
AccountOf(login) == IF \E i \in Accounts : LoginOf[i] = login
                    THEN CHOOSE i \in Accounts : LoginOf[i] = login ELSE None
Edit == edits < MaxEdits /\ edits' = edits + 1

Databases == [owner : [Idents -> 0..MaxPersons], last : 0..MaxPersons,
              display : [Persons -> Names \cup {None}], pending : SUBSET Pairs,
              dismissed : SUBSET Pairs, filtered : SUBSET Persons]
Consistent(d) ==
    /\ \A i \in Idents : d.owner[i] <= d.last
    /\ d.last + Cardinality(Unseen(d)) <= MaxPersons
    /\ {p \in Persons : d.display[p] # None} = Live(d)
    /\ d.pending \cap d.dismissed = {}
    /\ \A pr \in d.pending \cup d.dismissed : pr \subseteq Live(d)
    /\ d.filtered \subseteq Live(d)

PersonViews == [id : Persons, display : Names, names : SUBSET Names,
                emails : SUBSET Emails, logins : SUBSET Handles]
OnePerPerson(views) == \A v, w \in views : v.id = w.id => v = w

TypeOK ==
    /\ db \in Databases /\ Consistent(db)
    /\ membersOnly \in BOOLEAN
    /\ registered \in [Emails -> Accounts \cup {None}]
    /\ checked \subseteq Emails
    /\ scan \in [on : BOOLEAN, views : SUBSET PersonViews,
                 relevant : SUBSET Persons, pending : SUBSET Pairs]
    /\ OnePerPerson(scan.views)
    /\ ask \in [on : BOOLEAN, emails : SUBSET Emails]
    /\ edits \in 0..MaxEdits

Init ==
    /\ db = [owner |-> [i \in Idents |->
                          Max({k \in DOMAIN Initially : Initially[k] = i} \cup {0})],
             last |-> Len(Initially),
             display |-> [p \in Persons |-> IF p <= Len(Initially)
                                            THEN DefaultName(Initially[p]) ELSE None],
             pending |-> {}, dismissed |-> {}, filtered |-> {}]
    /\ membersOnly = FALSE
    /\ registered = [e \in Emails |-> AccountOf(NoreplyLogin[e])]
    /\ checked = {}
    /\ scan = NoScan /\ ask = NoAsk /\ edits = 0

----------------------------------------------------------------------------
(* What the scoring sees of a person.                                      *)
Identities(d, p) == {i \in Idents : d.owner[i] = p}
RawView(d, p) ==
    [id |-> p, display |-> d.display[p],
     names |-> ({NameOf[i] : i \in Identities(d, p)} \cup {d.display[p]}) \cap Names,
     emails |-> {EmailOf[i] : i \in Identities(d, p)} \ {None},
     logins |-> {LoginOf[i] : i \in Identities(d, p)} \ {None}]

(* A name that too many persons carry is no evidence.                      *)
OwnerCap(n) == IF n \in Full THEN FullNameOwnerCap ELSE SharedNameOwnerCap
PruneSharedNames(views) ==
    {[v EXCEPT !.names =
        {n \in @ : Cardinality({w \in views : n \in w.names}) <= OwnerCap(n)}] : v \in views}
Views(d) == PruneSharedNames({RawView(d, p) : p \in Live(d)})

Squashed(v) == {Squash[n] : n \in v.names}
Noreply(v) == {NoreplyLogin[e] : e \in v.emails} \ {None}
Mailboxes(v) == {e \in v.emails : NoreplyLogin[e] = None}
Locals(v) == {Local[e] : e \in Mailboxes(v)} \ {None}
NameSimilarity(v, w) == Max({Similarity[x] : x \in v.names \X w.names} \cup {0})

(* The contributions to a pair's score, by reason, in hundredths.  An      *)
(* identity proof weighs 95 or more.                                       *)
Certain(v, w) ==
    \/ v.emails \cap Mailboxes(w) # {}
    \/ Noreply(v) \cap (w.logins \cup Squashed(w)) # {}
    \/ Noreply(w) \cap (v.logins \cup Squashed(v)) # {}
    \/ v.names \cap w.names \cap Full # {}
    \/ v.logins \cap Squashed(w) # {} \/ w.logins \cap Squashed(v) # {}
Heuristics(v, w) ==
    {<<60, l>> : l \in Locals(v) \cap Locals(w)}
    \cup {<<s \div 2, "name">> : s \in {NameSimilarity(v, w)} \cap 80..100}
Missing(v, w) == FoldSet(LAMBDA c, m : (m * (100 - c[1])) \div 100, 100, Heuristics(v, w))
Scores(v, w) ==
    \/ Certain(v, w)
    \/ Heuristics(v, w) # {} /\ 100 - Missing(v, w) >= Threshold

PairsOf(views) == {x \in views \X views : x[1].id < x[2].id}
CertainPairs(views) == {{x[1].id, x[2].id} : x \in {x \in PairsOf(views) : Certain(x[1], x[2])}}
ScoringPairs(views) == {{x[1].id, x[2].id} : x \in {x \in PairsOf(views) : Scores(x[1], x[2])}}

(* member_person_sets, visible_person_ids and relevant_person_ids: the     *)
(* persons that identity surfaces show.                                    *)
IsMember(i) ==
    \/ LoginOf[i] \in MemberLogins
    \/ EmailOf[i] # None /\ NoreplyLogin[EmailOf[i]] \in MemberLogins
    \/ NameOf[i] # None /\ Squash[NameOf[i]] \in MemberLogins
MemberPersons(d) == {p \in Live(d) : \E i \in Identities(d, p) : IsMember(i)}
Visible(d) ==
    {p \in Live(d) : /\ Identities(d, p) \ Excluded # {}
                     /\ membersOnly => p \in MemberPersons(d)}
Relevant(d) ==
    IF ~membersOnly /\ Excluded = {} THEN Persons
    ELSE Visible(d) \cup IF membersOnly THEN MemberPersons(d) ELSE {}

----------------------------------------------------------------------------
(* merge_persons and generate_for_person.                                  *)
NewSuggestions(d, p) ==
    LET views == Views(d)
        scored == {w \in views : w.id # p /\ \E v \in views : v.id = p /\ Scores(v, w)}
        relevant == Relevant(d)
    IN {pr \in {{p, w.id} : w \in scored} \ (d.pending \cup d.dismissed) :
           pr \cap relevant # {}}

MergedKeepingSuggestions(d, target, source) == \* mutant: only source's go
    [d EXCEPT
        !.owner = [i \in Idents |-> IF @[i] = source THEN target ELSE @[i]],
        !.filtered = {IF p = source THEN target ELSE p : p \in @},
        !.display[source] = None]
Merged(d, target, source) ==
    LET moved == [d EXCEPT
            !.owner = [i \in Idents |-> IF @[i] = source THEN target ELSE @[i]],
            !.filtered = {IF p = source THEN target ELSE p : p \in @},
            !.pending = {pr \in @ : pr \cap {target, source} = {}},
            !.dismissed = {pr \in @ : pr \cap {target, source} = {}},
            !.display[source] = None]
    IN [moved EXCEPT !.pending = @ \cup NewSuggestions(moved, target)]

(* An automatic merge lets the survivor adopt a full name over a handle.   *)
AutoMerged(d, target, source, name) ==
    LET m == Merged(d, target, source)
    IN IF m.display[target] \notin Full /\ name \in Full
       THEN [m EXCEPT !.display[target] = name] ELSE m

Rank(v) == <<IF v.logins # {} THEN 1 ELSE 0, IF v.display \in Full THEN 1 ELSE 0,
             Cardinality(v.emails) + Cardinality(v.logins), MaxPersons - v.id>>
RankLess(r, s) == \E k \in 1..4 : r[k] < s[k] /\ \A l \in 1..(k - 1) : r[l] = s[l]

(* _auto_merge, one queued pair after the other.  "into" follows the       *)
(* merges so far; a person that is gone by now fails the whole scan.       *)
MergeNext(views, acc, pair) ==
    LET ids == {acc.into[pair[1]], acc.into[pair[2]]}
        target == CHOOSE v \in views : v.id \in ids /\ \A w \in views :
                     w.id \in ids \ {v.id} => RankLess(Rank(w), Rank(v))
        source == CHOOSE w \in views : w.id \in ids \ {target.id}
    IN IF Cardinality(ids) = 1 \/ ~acc.ok THEN acc
       ELSE IF ids \subseteq Live(acc.db)
       THEN [acc EXCEPT
               !.db = AutoMerged(@, target.id, source.id, source.display),
               !.into = [x \in Persons |-> IF @[x] = source.id THEN target.id ELSE @[x]]]
       ELSE [acc EXCEPT !.ok = FALSE]
Squares == [k \in 1..(MaxPersons * MaxPersons) |->
               <<1 + ((k - 1) \div MaxPersons), 1 + ((k - 1) % MaxPersons)>>]
Queued(queue, x) == x[1] < x[2] /\ {x[1], x[2]} \in queue
MergeAll(views, acc, queue) ==
    LET after[k \in 0..(MaxPersons * MaxPersons)] ==
            IF k = 0 THEN acc
            ELSE IF Queued(queue, Squares[k]) THEN MergeNext(views, after[k-1], Squares[k])
            ELSE after[k-1]
    IN after[MaxPersons * MaxPersons]
MergeStart(d) == [db |-> d, into |-> [x \in Persons |-> x], ok |-> TRUE]

----------------------------------------------------------------------------
(* An ingest or a pull request brings an identity nobody knew, or a person *)
(* is split: a fresh person owns it.                                       *)
WithOwnPerson(d, i) ==
    [d EXCEPT !.owner[i] = d.last + 1, !.last = @ + 1,
              !.display[d.last + 1] = DefaultName(i)]

Appear(i) ==
    /\ i \in Unseen(db)
    /\ db' = WithOwnPerson(db, i)
    /\ UNCHANGED <<membersOnly, registered, checked, scan, ask, edits>>

(* generate starts: views, the visible persons and the pending rows.  One   *)
(* scan at a time, though the worker's job, the manage page and gca suggest *)
(* do not wait for each other.                                             *)
ScanReads ==
    /\ ~scan.on
    /\ scan' = [on |-> TRUE, views |-> Views(db), relevant |-> Relevant(db),
                pending |-> db.pending]
    /\ UNCHANGED <<db, membersOnly, registered, checked, ask, edits>>

(* generate, once it has scored: pending rows are revalidated, pairs       *)
(* without a row get one or are queued, and the queue is merged.  A pair   *)
(* that names a person deleted since fails the transaction.                *)
Surfaced(prs) == {pr \in prs : pr \cap scan.relevant # {}}
RevalidatedWithDismissed(d, valid) == \* mutant: every row is revalidated
    LET removed == (d.pending \cup d.dismissed) \ valid
    IN [d EXCEPT !.pending = @ \ removed, !.dismissed = @ \ removed]
Revalidated(d, valid) ==
    LET removed == scan.pending \ valid
    IN [d EXCEPT !.pending = @ \ removed, !.dismissed = @ \ removed]
ScannedNewOnly(d) == \* mutant: a pending pair is not merged
    LET proven == CertainPairs(scan.views)
        plausible == Surfaced(ScoringPairs(scan.views)) \ proven
        kept == Revalidated(d, proven \cup plausible)
        existing == kept.pending \cup kept.dismissed
        created == plausible \ existing
        queued == MergeStart([kept EXCEPT !.pending = @ \cup created])
    IN IF UNION created \subseteq Live(d) THEN MergeAll(scan.views, queued, proven \ existing)
       ELSE [queued EXCEPT !.ok = FALSE]
Scanned(d) ==
    LET proven == CertainPairs(scan.views)
        plausible == Surfaced(ScoringPairs(scan.views)) \ proven
        kept == Revalidated(d, proven \cup plausible)
        existing == kept.pending \cup kept.dismissed
        created == plausible \ existing
        queued == MergeStart([kept EXCEPT !.pending = @ \cup created])
        first == MergeAll(scan.views, queued, proven \cap scan.pending)
    IN IF UNION created \subseteq Live(d) THEN MergeAll(scan.views, first, proven \ existing)
       ELSE [queued EXCEPT !.ok = FALSE]
ScanEnds ==
    /\ scan.on
    /\ scan' = NoScan
    /\ UNCHANGED <<membersOnly, registered, checked, ask, edits>>
    /\ LET result == Scanned(db) IN db' = IF result.ok THEN result.db ELSE db

----------------------------------------------------------------------------
(* reconcile_commit_attribution, after a sync: asks GitHub about addresses *)
(* of persons without a login, unless it has done so lately.               *)
UnlinkedEmails(d) ==
    {EmailOf[i] : i \in {i \in Idents \ Accounts :
        d.owner[i] # 0 /\ RawView(d, d.owner[i]).logins = {}}} \ {None}
Lookups(d) == UnlinkedEmails(d) \ checked
AttributionAsks ==
    /\ ~ask.on /\ Lookups(db) # {}
    /\ ask' = [on |-> TRUE, emails |-> Lookups(db)]
    /\ UNCHANGED <<db, membersOnly, registered, checked, scan, edits>>

(* One proven address: its account gets a person if it has none, and every *)
(* person who writes from it is merged into the account's, unless that     *)
(* pair has been dismissed.                                                *)
WithAccount(d, i) == IF d.owner[i] = 0 THEN WithOwnPerson(d, i) ELSE d
Attribute(d, p, i) ==
    IF p = d.owner[i] \/ {p, d.owner[i]} \in d.dismissed THEN d
    ELSE AutoMerged(d, d.owner[i], p, d.display[p])
Sources(d, e) == {d.owner[i] : i \in {i \in Idents \ Accounts : EmailOf[i] = e}} \ {0}
AttributeEmail(d, e) ==
    LET known == WithAccount(d, registered[e])
        after[p \in 0..MaxPersons] ==
            IF p = 0 THEN known
            ELSE IF p \in Sources(known, e) THEN Attribute(after[p-1], p, registered[e])
            ELSE after[p-1]
    IN after[MaxPersons]
AttributeAll(d, emails) ==
    LET order == SetToSeq(emails)
        after[k \in 0..Cardinality(emails)] ==
            IF k = 0 THEN d ELSE AttributeEmail(after[k-1], order[k])
    IN after[Cardinality(emails)]
AttributionEnds ==
    /\ ask.on
    /\ ask' = NoAsk
    /\ UNCHANGED <<membersOnly, registered, scan, edits>>
    /\ LET resolved == {e \in ask.emails : registered[e] # None}
       IN /\ checked' = (checked \cup ask.emails) \ resolved
          /\ db' = AttributeAll(db, resolved)

(* RECHECK_DAYS have passed.  (CACHE_RETENTION_DAYS later the entry goes,  *)
(* which is the same to a lookup.)                                         *)
RecheckNever(e) == FALSE /\ UNCHANGED vars \* mutant: cached for good
Recheck(e) ==
    /\ e \in checked /\ checked' = checked \ {e}
    /\ UNCHANGED <<db, membersOnly, registered, scan, ask, edits>>

(* A scan or an attribution fails or its process dies: a rollback.         *)
SessionLost ==
    /\ scan' \in {scan, NoScan} /\ ask' \in {ask, NoAsk}
    /\ scan' # scan \/ ask' # ask
    /\ Edit
    /\ UNCHANGED <<db, membersOnly, registered, checked>>

----------------------------------------------------------------------------
(* The manage page, and what it acts on.                                   *)
ByHand(d) ==
    /\ Edit
    /\ db' = d
    /\ UNCHANGED <<membersOnly, registered, checked, scan, ask>>

AcceptSuggestion == \E pr \in db.pending \cup db.dismissed, keep \in Persons :
    keep \in pr /\ ByHand(Merged(db, keep, CHOOSE p \in pr : p # keep))
ManualMerge == \E target, source \in Live(db) :
    target # source /\ ByHand(Merged(db, target, source))
DismissSuggestion == \E pr \in db.pending :
    ByHand([db EXCEPT !.pending = @ \ {pr}, !.dismissed = @ \cup {pr}])
Unmerge == \E i \in Idents :
    /\ db.owner[i] # 0 /\ Cardinality(Identities(db, db.owner[i])) > 1
    /\ db.last + Cardinality(Unseen(db)) < MaxPersons
    /\ ByHand(WithOwnPerson(db, i))
Rename == \E p \in Live(db), n \in NewNames :
    db.display[p] # n /\ ByHand([db EXCEPT !.display[p] = n])
ListPerson == \E p \in Live(db) \ db.filtered :
    ByHand([db EXCEPT !.filtered = @ \cup {p}])
Register(e) == \E i \in Accounts :
    /\ registered[e] = None /\ NoreplyLogin[e] = None
    /\ registered' = [registered EXCEPT ![e] = i]
    /\ Edit
    /\ UNCHANGED <<db, membersOnly, checked, scan, ask>>
ToggleMembersOnly ==
    /\ membersOnly' = ~membersOnly
    /\ Edit
    /\ UNCHANGED <<db, registered, checked, scan, ask>>

Next ==
    \/ \E i \in Idents : Appear(i)
    \/ ScanReads \/ ScanEnds
    \/ AttributionAsks \/ AttributionEnds \/ SessionLost
    \/ \E e \in Emails : Recheck(e) \/ Register(e)
    \/ AcceptSuggestion \/ DismissSuggestion \/ ManualMerge \/ Unmerge \/ Rename
    \/ ListPerson \/ ToggleMembersOnly

(* The worker scans every two hours and attributes after every sync; both  *)
(* end one way or the other; days pass.                                    *)
Spec ==
    /\ Init /\ [][Next]_vars
    /\ WF_scan(ScanReads) /\ WF_scan(scan.on /\ scan' = NoScan)
    /\ WF_ask(AttributionAsks) /\ WF_ask(ask.on /\ ask' = NoAsk)
    /\ \A e \in Emails : WF_checked(Recheck(e))

----------------------------------------------------------------------------
(* An identity proof is acted upon: two persons who carry one do not stay  *)
(* apart, whether the pair is new to a scan or an earlier merge has put it *)
(* in the queue, unless somebody has dismissed it (suggest.generate).      *)
ProofsMerge == []<>(CertainPairs(Views(db)) \subseteq db.dismissed)

(* The queue shrinks: a pending pair that no longer scores, or that nobody *)
(* may see any more, does not stay pending (revalidation in generate).     *)
StaleLeaveQueue ==
    []<>(LET views == Views(db)
             relevant == Relevant(db)
         IN db.pending = {} \/
            \A pr \in db.pending \ CertainPairs(views) :
               pr \in ScoringPairs(views) /\ pr \cap relevant # {})

(* The queue comes to rest: what is proven is merged, what is stale leaves. *)
QueueSettles == ProofsMerge /\ StaleLeaveQueue

(* GitHub's word counts, whenever the owner of an address registers it:    *)
(* somebody who writes from it under no login becomes the account's person *)
(* (attribution.py: unresolved addresses are asked about again).           *)
Unattributed(i) ==
    /\ i \notin Accounts /\ db.owner[i] # 0 /\ EmailOf[i] # None
    /\ registered[EmailOf[i]] # None
    /\ EmailOf[i] \in UnlinkedEmails(db)
    /\ {db.owner[i], db.owner[registered[EmailOf[i]]]} \notin db.dismissed
AttributionHappens == []<>(\A i \in Idents : ~Unattributed(i))

(* A dismissal is forgotten only when one of the two persons takes part in *)
(* a merge, or by a scan that had read the pair while it was pending.      *)
DismissalsKept ==
    [][\A pr \in db.dismissed \ db'.dismissed :
          \/ \E i \in Idents : db.owner[i] # 0 /\ db'.owner[i] # db.owner[i]
                               /\ {db.owner[i], db'.owner[i]} \cap pr # {}
          \/ scan.on /\ pr \in scan.pending]_vars

(* A person somebody has put on the list of the person filter stays on it  *)
(* under whatever person its identities are merged into (merge_persons).   *)
ListedStayListed ==
    [][\A i \in Idents : db.owner[i] \in db.filtered =>
          db'.owner[i] \in db'.filtered \/ db'.owner[i] > db.last]_vars

(* What somebody has decided about a person survives the merges it is not  *)
(* about.                                                                  *)
DecisionsKept == DismissalsKept /\ ListedStayListed

(* suggest.py:308: "Dismissed suggestions are never resurrected, never     *)
(* deleted and never auto-merged."  A scan leaves two persons apart whose   *)
(* pair was dismissed before it began (suggest._auto_merge).               *)
DismissedNeverMerged ==
    [][scan.on /\ ~scan'.on => \A i, j \in Idents :
          {db.owner[i], db.owner[j]} \in db.dismissed \ scan.pending =>
             db'.owner[i] # db'.owner[j]]_vars
=============================================================================
