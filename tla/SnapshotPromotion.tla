-------------------------- MODULE SnapshotPromotion --------------------------
(***************************************************************************)
(* How an institution snapshot is built, approved and made current         *)
(* (app/institutions/sync.py, run by scripts/sync-institutions.py and      *)
(* scripts/approve-institution-snapshot.py).                               *)
(*                                                                         *)
(* A promotion is a chain of atomic file operations: a rename of the       *)
(* candidate directory, an atomic rewrite of its manifest, one of          *)
(* current.json, and between them a signed transaction file that says how  *)
(* far it has come.  It can stop after any of them; the same command run   *)
(* again goes on from what it finds.  Promotions exclude each other with   *)
(* flock, builders take no lock.  Every operation is made durable before   *)
(* the next, so losing power is stopping between two operations.           *)
(*                                                                         *)
(* Left out: the contents of the files and the checks of them, which give  *)
(* the same verdict each time.  A digest that is not the candidate's, a    *)
(* wrong role, and a check that fails change nothing.                      *)
(***************************************************************************)
EXTENDS Naturals

CONSTANTS
    Snapshot,  \* snapshot ids
    None,
    Builder,   \* sync-institutions processes
    Approver,  \* approve-institution-snapshot processes
    Time       \* values approvedAt may take

VARIABLES
    key,         \* .snapshot-transaction-key: created empty, then filled
    candidates,  \* ids with a candidate directory
    final,       \* the manifest in each final directory
    txn,         \* the signed transaction of each id
    current,     \* current.json
    builders,
    approvers

vars == <<key, candidates, final, txn, current, builders, approvers>>

Phases == <<"BUILT", "MOVED", "APPROVAL_PREPARED", "VERIFIED", "POINTER_PREPARED", "PUBLISHED">>
Phase == {Phases[i] : i \in 1 .. 6}
\* The phases from p on.
From(p) == {q \in Phase : \E i, j \in 1 .. 6 : i <= j /\ Phases[i] = p /\ Phases[j] = q}

Version == Snapshot \cup {None}
\* previous: what the candidate was compared with; clean: without issues.
Transaction == [phase: Phase, previous: Version, clean: BOOLEAN, approvedAt: Time \cup {None}]

ASSUME NoneAssumption ==
    None \notin Snapshot /\ None \notin Time /\ None \notin Transaction

ASSUME TimeAssumption ==
    "absent" \notin Time /\ "unapproved" \notin Time /\ "candidate" \notin Time

ASSUME VersionAssumption == "not offered" \notin Version

Idle == [stage |-> "idle"]
Building == [stage: {"read", "made", "keyed"}, id: Snapshot, previous: Version]
\* What a promotion has in memory: the directory and manifest it selected, and
\* the transaction it last read or wrote.
Promoting == [stage: {"promoting"}, id: Snapshot, manifest: {"candidate", "unapproved"} \cup Time,
              txn: Transaction, pointed: BOOLEAN]

TypeOK ==
    /\ key \in {"absent", "short", "whole"}
    /\ candidates \subseteq Snapshot
    /\ final \in [Snapshot -> {"absent", "unapproved"} \cup Time]
    /\ txn \in [Snapshot -> {None} \cup Transaction]
    /\ current \in Version
    /\ builders \in [Builder -> {Idle} \cup Building]
    /\ approvers \in [Approver -> {Idle} \cup Promoting]

Init ==
    /\ key = "absent"
    /\ candidates = {}
    /\ final = [s \in Snapshot |-> "absent"]
    /\ txn = [s \in Snapshot |-> None]
    /\ current = None
    /\ builders = [b \in Builder |-> Idle]
    /\ approvers = [r \in Approver |-> Idle]

-----------------------------------------------------------------------------
(* Building a candidate *)

\* verify_snapshot of the current version, and the check that the id is free;
\* fetching, geocoding and the quality checks take a while after it.
StartBuild(b, s) ==
    /\ builders[b] = Idle
    /\ s \notin candidates /\ final[s] = "absent"
    /\ builders' = [builders EXCEPT ![b] = [stage |-> "read", id |-> s, previous |-> current]]
    /\ UNCHANGED <<key, candidates, final, txn, current, approvers>>

\* mkdir refuses a candidate another builder made meanwhile, but not an id
\* whose candidate was moved to its final directory meanwhile.
MakeCandidate(b) ==
    /\ builders[b].stage = "read"
    /\ builders[b].id \notin candidates
    /\ candidates' = candidates \cup {builders[b].id}
    /\ builders' = [builders EXCEPT ![b].stage = "made"]
    /\ UNCHANGED <<key, final, txn, current, approvers>>

\* The first transaction of a root creates the signing key, with O_EXCL, and
\* fills it; another process may find it short in between.
CreateKey(b) ==
    /\ builders[b].stage = "made"
    /\ txn[builders[b].id] = None
    /\ key = "absent"
    /\ key' = "short"
    /\ builders' = [builders EXCEPT ![b].stage = "keyed"]
    /\ UNCHANGED <<candidates, final, txn, current, approvers>>

FillKey(b) ==
    /\ builders[b].stage = "keyed"
    /\ key = "short"
    /\ key' = "whole"
    /\ UNCHANGED <<candidates, final, txn, current, builders, approvers>>

WriteTransaction(b) ==
    /\ builders[b].stage \in {"made", "keyed"}
    /\ key = "whole"
    /\ txn[builders[b].id] = None
    /\ \E clean \in BOOLEAN :
         txn' = [txn EXCEPT ![builders[b].id] =
           [phase |-> "BUILT", previous |-> builders[b].previous, clean |-> clean,
            approvedAt |-> None]]
    /\ builders' = [builders EXCEPT ![b] = Idle]
    /\ UNCHANGED <<key, candidates, final, current, approvers>>

\* The builder fails or is killed: what it has written stays.
StopBuild(b) ==
    /\ builders[b] # Idle
    /\ builders' = [builders EXCEPT ![b] = Idle]
    /\ UNCHANGED <<key, candidates, final, txn, current, approvers>>

-----------------------------------------------------------------------------
(* Promoting a candidate *)

\* _load_reviewable_candidate and the comparison with the current version of
\* _recheck_promotion_quality.
Reviewable_withIssues(s) ==
    /\ key = "whole"
    /\ txn[s] # None
    /\ \/ s \in candidates /\ final[s] = "absent" /\ txn[s].phase = "BUILT"
       \/ /\ s \notin candidates /\ final[s] = "unapproved"
          /\ txn[s].phase \in {"BUILT", "MOVED", "APPROVAL_PREPARED"}
       \/ /\ s \notin candidates /\ final[s] = txn[s].approvedAt
          /\ txn[s].phase \in From("APPROVAL_PREPARED")
    /\ current = s \/ current = txn[s].previous
    /\ current # None => final[current] \in Time
Reviewable_noRecovery(s) ==
    /\ key = "whole"
    /\ txn[s] # None
    /\ txn[s].clean
    /\ s \in candidates /\ final[s] = "absent" /\ txn[s].phase = "BUILT"
    /\ current = s \/ current = txn[s].previous
    /\ current # None => final[current] \in Time
Reviewable(s) ==
    /\ key = "whole"
    /\ txn[s] # None
    /\ txn[s].clean
    /\ \/ s \in candidates /\ final[s] = "absent" /\ txn[s].phase = "BUILT"
       \/ /\ s \notin candidates /\ final[s] = "unapproved"
          /\ txn[s].phase \in {"BUILT", "MOVED", "APPROVAL_PREPARED"}
       \/ /\ s \notin candidates /\ final[s] = txn[s].approvedAt
          /\ txn[s].phase \in From("APPROVAL_PREPARED")
    /\ current = s \/ current = txn[s].previous
    /\ current # None => final[current] \in Time

Load(r, s) ==
    /\ approvers[r] = Idle
    /\ Reviewable(s)
    /\ approvers' = [approvers EXCEPT ![r] =
         [stage |-> "promoting", id |-> s, pointed |-> FALSE, txn |-> txn[s],
          manifest |-> IF s \in candidates THEN "candidate" ELSE final[s]]]
    /\ UNCHANGED <<key, candidates, final, txn, current, builders>>

Begin_noLock(r, s) == Load(r, s)
\* flock is taken first, and waits: a promotion loads what the one before left.
Begin(r, s) ==
    /\ \A q \in Approver : approvers[q] = Idle
    /\ Load(r, s)

IsPromoting(r, s) == approvers[r].stage = "promoting" /\ approvers[r].id = s

Move(r, s) ==
    /\ IsPromoting(r, s)
    /\ approvers[r].manifest = "candidate"
    /\ candidates' = candidates \ {s}
    /\ final' = [final EXCEPT ![s] = "unapproved"]
    /\ approvers' = [approvers EXCEPT ![r].manifest = "unapproved"]
    /\ UNCHANGED <<key, txn, current, builders>>

\* _advance_build_transaction: the transaction in memory, changed, replaces the
\* one on disk.
Advance(r, s, new) ==
    /\ txn' = [txn EXCEPT ![s] = new]
    /\ approvers' = [approvers EXCEPT ![r].txn = new]
    /\ UNCHANGED <<key, candidates, final, current, builders>>

MarkMoved_beforeMove(r, s) ==
    /\ IsPromoting(r, s)
    /\ approvers[r].txn.phase = "BUILT"
    /\ Advance(r, s, [approvers[r].txn EXCEPT !.phase = "MOVED"])
MarkMoved(r, s) ==
    /\ IsPromoting(r, s)
    /\ approvers[r].manifest = "unapproved"
    /\ approvers[r].txn.phase = "BUILT"
    /\ Advance(r, s, [approvers[r].txn EXCEPT !.phase = "MOVED"])

PrepareApproval_again(r, s) ==
    /\ IsPromoting(r, s)
    /\ approvers[r].manifest = "unapproved"
    /\ approvers[r].txn.phase \in {"MOVED", "APPROVAL_PREPARED"}
    /\ \E now \in Time :
         Advance(r, s, [approvers[r].txn EXCEPT !.phase = "APPROVAL_PREPARED", !.approvedAt = now])
\* The time of the approval is recorded before the manifest has it; a promotion
\* that finds it recorded uses it again.
PrepareApproval(r, s) ==
    /\ IsPromoting(r, s)
    /\ approvers[r].manifest = "unapproved"
    /\ approvers[r].txn.phase = "MOVED"
    /\ \E now \in Time :
         Advance(r, s, [approvers[r].txn EXCEPT !.phase = "APPROVAL_PREPARED", !.approvedAt = now])

WriteApproval(r, s) ==
    /\ IsPromoting(r, s)
    /\ approvers[r].manifest = "unapproved"
    /\ approvers[r].txn.phase = "APPROVAL_PREPARED"
    /\ final' = [final EXCEPT ![s] = approvers[r].txn.approvedAt]
    /\ approvers' = [approvers EXCEPT ![r].manifest = approvers[r].txn.approvedAt]
    /\ UNCHANGED <<key, candidates, txn, current, builders>>

\* The strict verification of the final directory, then VERIFIED.
MarkVerified(r, s) ==
    /\ IsPromoting(r, s)
    /\ approvers[r].manifest = approvers[r].txn.approvedAt
    /\ final[s] \in Time
    /\ approvers[r].txn.phase = "APPROVAL_PREPARED"
    /\ Advance(r, s, [approvers[r].txn EXCEPT !.phase = "VERIFIED"])

PreparePointer(r, s) ==
    /\ IsPromoting(r, s)
    /\ approvers[r].txn.phase = "VERIFIED"
    /\ final[s] \in Time
    /\ Advance(r, s, [approvers[r].txn EXCEPT !.phase = "POINTER_PREPARED"])

WritePointer(r, s) ==
    /\ IsPromoting(r, s)
    /\ approvers[r].txn.phase = "POINTER_PREPARED"
    /\ ~approvers[r].pointed
    /\ final[s] \in Time
    /\ current' = s
    /\ approvers' = [approvers EXCEPT ![r].pointed = TRUE]
    /\ UNCHANGED <<key, candidates, final, txn, builders>>

MarkPublished(r, s) ==
    /\ IsPromoting(r, s)
    /\ approvers[r].txn.phase = "POINTER_PREPARED"
    /\ approvers[r].pointed
    /\ Advance(r, s, [approvers[r].txn EXCEPT !.phase = "PUBLISHED"])

\* The command ends, fails or is killed, and the lock is free.
Leave(r) ==
    /\ approvers[r] # Idle
    /\ approvers' = [approvers EXCEPT ![r] = Idle]
    /\ UNCHANGED <<key, candidates, final, txn, current, builders>>

Promote(r, s) ==
    \/ Move(r, s)
    \/ MarkMoved(r, s)
    \/ PrepareApproval(r, s)
    \/ WriteApproval(r, s)
    \/ MarkVerified(r, s)
    \/ PreparePointer(r, s)
    \/ WritePointer(r, s)
    \/ MarkPublished(r, s)

Build(b) ==
    \/ \E s \in Snapshot : StartBuild(b, s)
    \/ MakeCandidate(b)
    \/ CreateKey(b)
    \/ FillKey(b)
    \/ WriteTransaction(b)
    \/ StopBuild(b)

Next ==
    \/ \E b \in Builder : Build(b)
    \/ \E r \in Approver, s \in Snapshot : Begin(r, s) \/ Promote(r, s)
    \/ \E r \in Approver : Leave(r)

Spec == Init /\ [][Next]_vars

\* The data steward runs the command again after each failure, and it is not
\* interrupted every time before its first file operation or before its last.
FairSpec ==
    /\ Spec
    /\ \A r \in Approver : WF_vars(Leave(r))
    /\ \A s \in Snapshot :
         /\ SF_vars(\E r \in Approver : Begin(r, s))
         /\ SF_vars(\E r \in Approver : Promote(r, s))
         /\ SF_vars(\E r \in Approver : MarkPublished(r, s))

-----------------------------------------------------------------------------
(* Properties *)

\* Approved once and for all: what the manifest says is what the steward's
\* transaction recorded, without open issues.
IsApproved(s) ==
    /\ txn[s] # None
    /\ txn[s].clean
    /\ txn[s].phase \in {"POINTER_PREPARED", "PUBLISHED"}
    /\ final[s] \in Time
    /\ final[s] = txn[s].approvedAt

\* The versions somebody relies on: the current one, which the web service loads,
\* and the older ones builders have compared their candidates with.
ReliedOn ==
    {current} \cup {builders[b].previous : b \in {c \in Builder : builders[c] # Idle}}
              \cup {txn[s].previous : s \in {q \in Snapshot : txn[q] # None}}

\* Whoever has read current.json finds an approved snapshot there, also after
\* the pointer has moved on, and wherever promotions were interrupted.
OnlyApprovedIsReliedOn == \A s \in ReliedOn \ {None} : IsApproved(s)

\* A transaction never runs ahead of the files: what a retry skips because of
\* the phase it finds has been done.  A snapshot that was published is current
\* or was followed by one compared with it.
TransactionsDoNotRunAhead ==
    \A s \in Snapshot : txn[s] # None =>
        /\ txn[s].phase \in From("MOVED") => final[s] # "absent"
        /\ txn[s].phase \in From("VERIFIED") => final[s] = txn[s].approvedAt
        /\ txn[s].phase = "PUBLISHED" =>
             current = s \/ \E q \in Snapshot : txn[q] # None /\ txn[q].previous = s /\ IsApproved(q)

\* An approval is given once: no retry dates it again, whichever file it had
\* reached when it was interrupted.
ApprovalIsGivenOnce ==
    [][\A s \in Snapshot :
         /\ txn[s] # None /\ txn[s].approvedAt # None
              => txn'[s].approvedAt = txn[s].approvedAt
         /\ final[s] \in Time => final'[s] = final[s]]_vars

Register == INSTANCE PublishedPointer WITH
    basis <- [s \in Snapshot |->
                IF txn[s] # None /\ txn[s].clean THEN txn[s].previous ELSE "not offered"]

\* current.json is a compare-and-swap register: a candidate built from an older
\* version is never published over a newer one.
ImplementsPublishedPointer == Register!Spec

\* The transaction of s says it is published, or cannot come to say so: another
\* version was published, or a second builder of the same id left a candidate
\* beside the final directory.
Over(s) ==
    /\ txn[s] # None
    /\ \/ txn[s].phase = "PUBLISHED"
       \/ current \notin {s, txn[s].previous}
       \/ s \in candidates /\ final[s] # "absent"

\* A promotion interrupted anywhere is completed by running it again, unless
\* it was overtaken.
InterruptedPromotionsComplete ==
    \A s \in Snapshot : final[s] # "absent" ~> Over(s)
=============================================================================
