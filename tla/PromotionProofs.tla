-------------------------- MODULE PromotionProofs --------------------------
(***************************************************************************)
(* Proofs about SnapshotPromotion, for any ids, builders and approvers.    *)
(*                                                                         *)
(* The invariant ties the four places an approval is recorded in: the      *)
(* transaction file, the manifest, current.json and the memory of the one  *)
(* running promotion.  FileOf says what each phase of a transaction tells  *)
(* of the final directory, Holding that the memory of a promotion is what  *)
(* is on disk and that the version it was compared with is still current;  *)
(* that needs the lock (OneAtATime).                                       *)
(***************************************************************************)
EXTENDS SnapshotPromotion, TLAPS

FileOf(s) ==
    /\ final[s] # "absent" => txn[s] # None
    /\ txn[s] # None =>
         /\ txn[s].phase \in {"BUILT", "MOVED"}
              => txn[s].approvedAt = None /\ final[s] \in {"absent", "unapproved"}
         /\ txn[s].phase \notin {"BUILT", "MOVED"}
              => txn[s].approvedAt \in Time /\ final[s] \in {"unapproved", txn[s].approvedAt}
         /\ txn[s].phase # "BUILT" => final[s] # "absent"
         /\ txn[s].phase \in {"VERIFIED", "POINTER_PREPARED", "PUBLISHED"}
              => final[s] = txn[s].approvedAt
         /\ ~txn[s].clean => txn[s].phase = "BUILT" /\ final[s] = "absent"

Files == \A s \in Snapshot : FileOf(s)

OneAtATime ==
    \A r, q \in Approver : approvers[r] # Idle /\ approvers[q] # Idle => r = q

HoldingOf(r) ==
    approvers[r] # Idle =>
        /\ txn[approvers[r].id] = approvers[r].txn
        /\ approvers[r].txn.clean
        /\ current \in {approvers[r].id, approvers[r].txn.previous}
        /\ approvers[r].manifest = "candidate"
             => final[approvers[r].id] = "absent" /\ approvers[r].txn.phase = "BUILT"
        /\ approvers[r].manifest # "candidate" => final[approvers[r].id] = approvers[r].manifest
        /\ approvers[r].pointed
             => /\ current = approvers[r].id
                /\ approvers[r].txn.phase \in {"POINTER_PREPARED", "PUBLISHED"}

Holding == \A r \in Approver : HoldingOf(r)

FollowedOf(s) ==
    txn[s] # None /\ txn[s].phase = "PUBLISHED" =>
        current = s \/ \E q \in Snapshot : txn[q] # None /\ txn[q].previous = s /\ IsApproved(q)

Followed == \A s \in Snapshot : FollowedOf(s)

Inv == TypeOK /\ Files /\ OneAtATime /\ Holding /\ OnlyApprovedIsReliedOn /\ Followed

-----------------------------------------------------------------------------
(* The phases, listed *)

LEMMA PhasesListed ==
    /\ Phase = {"BUILT", "MOVED", "APPROVAL_PREPARED", "VERIFIED", "POINTER_PREPARED", "PUBLISHED"}
    /\ From("MOVED") = Phase \ {"BUILT"}
    /\ From("APPROVAL_PREPARED") = Phase \ {"BUILT", "MOVED"}
    /\ From("VERIFIED") = {"VERIFIED", "POINTER_PREPARED", "PUBLISHED"}
<1>1. 1 .. 6 = {1, 2, 3, 4, 5, 6}
  OBVIOUS
<1>2. /\ Phases[1] = "BUILT" /\ Phases[2] = "MOVED" /\ Phases[3] = "APPROVAL_PREPARED"
      /\ Phases[4] = "VERIFIED" /\ Phases[5] = "POINTER_PREPARED" /\ Phases[6] = "PUBLISHED"
  BY DEF Phases
<1>3. Phase = {"BUILT", "MOVED", "APPROVAL_PREPARED", "VERIFIED", "POINTER_PREPARED", "PUBLISHED"}
  BY <1>1, <1>2 DEF Phase
<1>4. From("MOVED") = Phase \ {"BUILT"}
  BY <1>1, <1>2, <1>3 DEF From
<1>5. From("APPROVAL_PREPARED") = Phase \ {"BUILT", "MOVED"}
  BY <1>1, <1>2, <1>3 DEF From
<1>6. From("VERIFIED") = {"VERIFIED", "POINTER_PREPARED", "PUBLISHED"}
  BY <1>1, <1>2, <1>3 DEF From
<1> QED
  BY <1>3, <1>4, <1>5, <1>6

-----------------------------------------------------------------------------
(* Steps of the builders: they touch neither final directories nor the     *)
(* pointer, and no transaction but a new one.                              *)

LEMMA BuilderType ==
  ASSUME TypeOK, NEW b \in Builder
  PROVE  /\ builders[b] # Idle <=> builders[b].stage # "idle"
         /\ builders[b] # Idle =>
              /\ builders[b] \in Building
              /\ builders[b].id \in Snapshot
              /\ builders[b].previous \in Version
<1>1. builders[b] \in {Idle} \cup Building
  BY DEF TypeOK
<1> QED
  BY <1>1 DEF Idle, Building

LEMMA ReliedOnType ==
  ASSUME TypeOK, NEW v \in ReliedOn
  PROVE  v \in Version
<1>1. CASE v = current
  BY <1>1 DEF TypeOK
<1>2. CASE \E b \in Builder : builders[b] # Idle /\ v = builders[b].previous
  BY <1>2, BuilderType
<1>3. CASE \E s \in Snapshot : txn[s] # None /\ v = txn[s].previous
  <2>1. PICK s \in Snapshot : txn[s] # None /\ v = txn[s].previous
    BY <1>3
  <2>2. txn[s] \in Transaction
    BY <2>1 DEF TypeOK
  <2> QED
    BY <2>1, <2>2 DEF Transaction
<1> QED
  BY <1>1, <1>2, <1>3 DEF ReliedOn

\* A builder relies on nothing new when it only changes its own stage.
LEMMA ReliedOnByBuilders ==
  ASSUME NEW b \in Builder, UNCHANGED <<current, txn>>,
         \A c \in Builder \ {b} : builders'[c] = builders[c],
         builders'[b] # Idle => builders'[b].previous \in ReliedOn
  PROVE  ReliedOn' \subseteq ReliedOn
<1> SUFFICES ASSUME NEW v \in ReliedOn' PROVE v \in ReliedOn
  OBVIOUS
<1>1. CASE v = current' \/ \E s \in Snapshot : txn'[s] # None /\ v = txn'[s].previous
  BY <1>1 DEF ReliedOn
<1>2. CASE \E c \in Builder : builders'[c] # Idle /\ v = builders'[c].previous
  <2>1. PICK c \in Builder : builders'[c] # Idle /\ v = builders'[c].previous
    BY <1>2
  <2>2. CASE c = b
    BY <2>1, <2>2
  <2>3. CASE c # b
    <3>1. builders[c] # Idle /\ v = builders[c].previous
      BY <2>1, <2>3
    <3> QED
      BY <3>1 DEF ReliedOn
  <2> QED
    BY <2>2, <2>3
<1> QED
  BY <1>1, <1>2 DEF ReliedOn

LEMMA InitInv == Init => Inv
<1> SUFFICES ASSUME Init PROVE Inv
  OBVIOUS
<1> USE DEF Init
<1>1. TypeOK
  BY DEF TypeOK, Version
<1>2. ReliedOn = {None}
  BY DEF ReliedOn
<1>3. OnlyApprovedIsReliedOn
  BY <1>2 DEF OnlyApprovedIsReliedOn
<1>4. Files /\ Followed
  BY DEF Files, FileOf, Followed, FollowedOf
<1>5. OneAtATime /\ Holding
  BY DEF OneAtATime, Holding, HoldingOf
<1> QED
  BY <1>1, <1>3, <1>4, <1>5 DEF Inv

\* A builder step other than the writing of its transaction.
LEMMA BuilderKeepsInv ==
  ASSUME Inv, NEW b \in Builder, UNCHANGED <<final, txn, current, approvers>>,
         TypeOK', ReliedOn' \subseteq ReliedOn
  PROVE  Inv'
<1>1. OnlyApprovedIsReliedOn'
  BY DEF Inv, OnlyApprovedIsReliedOn, IsApproved
<1>2. Files'
  BY DEF Inv, Files, FileOf
<1>3. Followed'
  <2>1. ASSUME NEW s \in Snapshot PROVE FollowedOf(s)'
    <3>1. FollowedOf(s)
      BY DEF Inv, Followed
    <3>2. \A q \in Snapshot : IsApproved(q)' <=> IsApproved(q)
      BY DEF IsApproved
    <3>3. txn' = txn /\ current' = current
      OBVIOUS
    <3> QED
      BY <3>1, <3>2, <3>3 DEF FollowedOf
  <2> QED
    BY <2>1 DEF Followed
<1>4. OneAtATime' /\ Holding'
  BY DEF Inv, OneAtATime, Holding, HoldingOf
<1> QED
  BY <1>1, <1>2, <1>3, <1>4 DEF Inv

LEMMA StartBuildStep ==
  ASSUME Inv, NEW b \in Builder, NEW s \in Snapshot, StartBuild(b, s)
  PROVE  Inv'
<1> DEFINE w == [stage |-> "read", id |-> s, previous |-> current]
<1>1. TypeOK /\ builders' = [builders EXCEPT ![b] = w]
  BY DEF Inv, StartBuild
<1>2. w \in Building
  BY <1>1 DEF TypeOK, Building
<1>3. TypeOK'
  BY <1>1, <1>2 DEF TypeOK, StartBuild
<1>4. builders'[b] = w /\ \A c \in Builder \ {b} : builders'[c] = builders[c]
  BY <1>1 DEF TypeOK
<1>5. ReliedOn' \subseteq ReliedOn
  <2>1. w.previous \in ReliedOn
    BY DEF ReliedOn
  <2>2. UNCHANGED <<current, txn>>
    BY DEF StartBuild
  <2> QED
    BY <1>4, <2>1, <2>2, ReliedOnByBuilders
<1> QED
  BY <1>3, <1>5, BuilderKeepsInv DEF StartBuild

LEMMA BuildStep ==
  ASSUME Inv, NEW b \in Builder,
         MakeCandidate(b) \/ CreateKey(b) \/ FillKey(b) \/ StopBuild(b)
  PROVE  Inv'
<1>1. TypeOK
  BY DEF Inv
<1>2. builders[b] # Idle
  BY <1>1, BuilderType DEF MakeCandidate, CreateKey, FillKey, StopBuild
<1>3. /\ builders[b] \in Building
      /\ builders[b].id \in Snapshot
  BY <1>1, <1>2, BuilderType
<1>4. \/ builders' = [builders EXCEPT ![b].stage = "made"]
      \/ builders' = [builders EXCEPT ![b].stage = "keyed"]
      \/ builders' = [builders EXCEPT ![b] = Idle]
      \/ builders' = builders
  BY DEF MakeCandidate, CreateKey, FillKey, StopBuild
<1>5. /\ builders' \in [Builder -> {Idle} \cup Building]
      /\ \A c \in Builder \ {b} : builders'[c] = builders[c]
      /\ builders'[b] # Idle => builders'[b].previous = builders[b].previous
  <2>1. \/ builders'[b] = [builders[b] EXCEPT !.stage = "made"]
        \/ builders'[b] = [builders[b] EXCEPT !.stage = "keyed"]
        \/ builders'[b] = Idle
        \/ builders'[b] = builders[b]
    BY <1>1, <1>4 DEF TypeOK
  <2>2. builders'[b] \in {Idle} \cup Building
    BY <2>1, <1>3 DEF Building
  <2>3. builders'[b] # Idle => builders'[b].previous = builders[b].previous
    BY <2>1, <1>3 DEF Building
  <2> QED
    BY <1>1, <1>4, <2>2, <2>3 DEF TypeOK
<1>6. TypeOK'
  BY <1>1, <1>3, <1>5 DEF TypeOK, MakeCandidate, CreateKey, FillKey, StopBuild
<1>7. builders[b].previous \in ReliedOn
  BY <1>2 DEF ReliedOn
<1>8. UNCHANGED <<final, txn, current, approvers>>
  BY DEF MakeCandidate, CreateKey, FillKey, StopBuild
<1>9. ReliedOn' \subseteq ReliedOn
  BY <1>5, <1>7, <1>8, ReliedOnByBuilders
<1> QED
  BY <1>6, <1>8, <1>9, BuilderKeepsInv

LEMMA WriteTransactionStep ==
  ASSUME Inv, NEW b \in Builder, WriteTransaction(b)
  PROVE  Inv'
<1>0. TypeOK /\ builders[b] # Idle
  BY BuilderType DEF Inv, WriteTransaction
<1> PICK id \in Snapshot : id = builders[b].id
  BY <1>0, BuilderType
<1> PICK prev \in Version : prev = builders[b].previous
  BY <1>0, BuilderType
<1>1. TypeOK /\ builders[b] # Idle
  BY <1>0
<1>2. PICK clean \in BOOLEAN :
        txn' = [txn EXCEPT ![id] = [phase |-> "BUILT", previous |-> prev, clean |-> clean,
                                    approvedAt |-> None]]
  BY DEF WriteTransaction
<1> DEFINE new == [phase |-> "BUILT", previous |-> prev, clean |-> clean, approvedAt |-> None]
<1>3. new \in Transaction
  BY <1>1, PhasesListed DEF Transaction
<1>4. txn[id] = None /\ final[id] = "absent"
  BY <1>1 DEF Inv, Files, FileOf, WriteTransaction
<1>5. txn'[id] = new /\ \A q \in Snapshot \ {id} : txn'[q] = txn[q]
  BY <1>1, <1>2 DEF TypeOK
<1>6. UNCHANGED <<key, candidates, final, current, approvers>>
  BY DEF WriteTransaction
<1>7. TypeOK'
  BY <1>1, <1>2, <1>3, <1>6 DEF TypeOK, WriteTransaction
<1>8. \A q \in Snapshot : IsApproved(q) => IsApproved(q)'
  BY <1>4, <1>5, <1>6 DEF IsApproved
<1>9. ReliedOn' \subseteq ReliedOn
  <2>1. builders' = [builders EXCEPT ![b] = Idle]
    BY DEF WriteTransaction
  <2>2. prev \in ReliedOn
    BY <1>1 DEF ReliedOn
  <2> SUFFICES ASSUME NEW v \in ReliedOn' PROVE v \in ReliedOn
    OBVIOUS
  <2>3. CASE v = current'
    BY <2>3, <1>6 DEF ReliedOn
  <2>4. CASE \E c \in Builder : builders'[c] # Idle /\ v = builders'[c].previous
    BY <2>4, <2>1, <1>1 DEF ReliedOn, TypeOK
  <2>5. CASE \E q \in Snapshot : txn'[q] # None /\ v = txn'[q].previous
    <3>1. PICK q \in Snapshot : txn'[q] # None /\ v = txn'[q].previous
      BY <2>5
    <3>2. CASE q = id
      BY <3>1, <3>2, <2>2, <1>5
    <3>3. CASE q # id
      BY <3>1, <3>3, <1>5 DEF ReliedOn
    <3> QED
      BY <3>2, <3>3
  <2> QED
    BY <2>3, <2>4, <2>5 DEF ReliedOn
<1>10. OnlyApprovedIsReliedOn'
  <2>1. ASSUME NEW q \in ReliedOn', q # None PROVE IsApproved(q)'
    <3>1. q \in ReliedOn
      BY <2>1, <1>9
    <3>2. IsApproved(q)
      BY <2>1, <3>1 DEF Inv, OnlyApprovedIsReliedOn
    <3>3. q \in Snapshot
      BY <2>1, <3>1, <1>1, ReliedOnType DEF Version
    <3> QED
      BY <3>2, <3>3, <1>8
  <2> QED
    BY <2>1 DEF OnlyApprovedIsReliedOn
<1>11. Files'
  <2>1. ASSUME NEW q \in Snapshot \ {id} PROVE FileOf(q)'
    BY <1>5, <1>6 DEF Inv, Files, FileOf
  <2>2. FileOf(id)'
    <3>1. txn'[id] = new /\ final'[id] = "absent" /\ new.phase = "BUILT" /\ new.approvedAt = None
      BY <1>4, <1>5, <1>6
    <3> HIDE DEF new
    <3> QED
      BY <3>1 DEF FileOf
  <2> QED
    BY <2>1, <2>2 DEF Files
<1>12. OneAtATime'
  BY <1>6 DEF Inv, OneAtATime
<1>13. Holding'
  <2>1. ASSUME NEW r \in Approver, approvers[r] # Idle PROVE approvers[r].id \in Snapshot \ {id}
    <3>1. approvers[r].id \in Snapshot /\ approvers[r].txn \in Transaction
      BY <2>1 DEF Inv, TypeOK, Promoting
    <3>2. txn[approvers[r].id] # None
      BY <2>1, <3>1, NoneAssumption DEF Inv, Holding, HoldingOf
    <3> QED
      BY <3>1, <3>2, <1>4
  <2> QED
    BY <2>1, <1>5, <1>6 DEF Inv, Holding, HoldingOf
<1>14. Followed'
  <2> SUFFICES ASSUME NEW q \in Snapshot, txn'[q] # None, txn'[q].phase = "PUBLISHED",
                      current # q
               PROVE  \E p \in Snapshot : txn'[p] # None /\ txn'[p].previous = q /\ IsApproved(p)'
    BY <1>6 DEF Followed, FollowedOf
  <2>1. q # id
    <3>1. new.phase = "BUILT"
      OBVIOUS
    <3> QED
      BY <3>1, <1>5
  <2>2. PICK p \in Snapshot : txn[p] # None /\ txn[p].previous = q /\ IsApproved(p)
    BY <2>1, <1>5 DEF Inv, Followed, FollowedOf
  <2>3. p # id
    BY <2>2, <1>4
  <2> QED
    BY <2>2, <2>3, <1>5, <1>8
<1> QED
  BY <1>7, <1>10, <1>11, <1>12, <1>13, <1>14 DEF Inv

-----------------------------------------------------------------------------
(* Steps of a promotion *)

LEMMA Holds ==
  ASSUME Inv, NEW r \in Approver, NEW s \in Snapshot, IsPromoting(r, s)
  PROVE  /\ approvers[r] # Idle
         /\ approvers[r] \in Promoting
         /\ approvers[r].id = s
         /\ txn[s] \in Transaction
         /\ txn[s] # None
         /\ txn[s] = approvers[r].txn
         /\ txn[s].clean
         /\ current \in {s, txn[s].previous}
         /\ approvers[r].manifest = "candidate" => final[s] = "absent" /\ txn[s].phase = "BUILT"
         /\ approvers[r].manifest # "candidate" => final[s] = approvers[r].manifest
         /\ approvers[r].pointed
              => current = s /\ txn[s].phase \in {"POINTER_PREPARED", "PUBLISHED"}
         /\ \A q \in Approver \ {r} : approvers[q] = Idle
<1>1. approvers[r] # Idle /\ approvers[r].id = s
  BY DEF IsPromoting, Idle
<1>2. approvers[r] \in Promoting
  BY <1>1 DEF Inv, TypeOK
<1>3. approvers[r].txn \in Transaction
  BY <1>2 DEF Promoting
<1>4. HoldingOf(r) /\ OneAtATime
  BY DEF Inv, Holding
<1> QED
  BY <1>1, <1>2, <1>3, <1>4, NoneAssumption DEF HoldingOf, OneAtATime

\* Nobody else is promoting, so a step of r need only keep what r holds.
LEMMA HoldingStep ==
  ASSUME TypeOK, NEW r \in Approver, \A q \in Approver \ {r} : approvers[q] = Idle,
         NEW w \in {Idle} \cup Promoting, approvers' = [approvers EXCEPT ![r] = w],
         HoldingOf(r)'
  PROVE  /\ approvers' \in [Approver -> {Idle} \cup Promoting]
         /\ OneAtATime'
         /\ Holding'
<1>1. /\ approvers' \in [Approver -> {Idle} \cup Promoting]
      /\ \A q \in Approver \ {r} : approvers'[q] = Idle
  BY DEF TypeOK
<1>2. OneAtATime'
  BY <1>1 DEF OneAtATime
<1>3. ASSUME NEW q \in Approver PROVE HoldingOf(q)'
  BY <1>1 DEF HoldingOf
<1>4. Holding'
  BY <1>3 DEF Holding
<1> QED
  BY <1>1, <1>2, <1>4

LEMMA BeginStep ==
  ASSUME Inv, NEW r \in Approver, NEW s \in Snapshot, Begin(r, s)
  PROVE  Inv'
<1> DEFINE w == [stage |-> "promoting", id |-> s, pointed |-> FALSE, txn |-> txn[s],
                 manifest |-> IF s \in candidates THEN "candidate" ELSE final[s]]
<1>1. /\ TypeOK /\ Reviewable(s)
      /\ \A q \in Approver : approvers[q] = Idle
      /\ approvers' = [approvers EXCEPT ![r] = w]
      /\ UNCHANGED <<key, candidates, final, txn, current, builders>>
  BY DEF Inv, Begin, Load
<1>2. txn[s] \in Transaction
  BY <1>1 DEF TypeOK, Reviewable
<1>3. s \notin candidates => final[s] \in {"unapproved"} \cup Time
  <2>1. FileOf(s)
    BY DEF Inv, Files
  <2> QED
    BY <1>1, <1>2, <2>1, PhasesListed, NoneAssumption DEF Reviewable, FileOf
<1>4. w \in Promoting
  BY <1>2, <1>3 DEF Promoting
<1>5. approvers'[r] = w
  BY <1>1 DEF TypeOK
<1>6. HoldingOf(r)'
  <2>1. /\ txn[s].clean
        /\ current \in {s, txn[s].previous}
        /\ s \in candidates => final[s] = "absent" /\ txn[s].phase = "BUILT"
    BY <1>1 DEF Reviewable
  <2>2. /\ w.id = s /\ w.txn = txn[s] /\ ~w.pointed
        /\ w.manifest = "candidate" => s \in candidates
        /\ w.manifest # "candidate" => w.manifest = final[s]
    <3>1. s \notin candidates => final[s] # "candidate"
      BY <1>3, TimeAssumption
    <3> QED
      BY <3>1
  <2> HIDE DEF w
  <2> QED
    BY <1>1, <1>5, <2>1, <2>2 DEF HoldingOf
<1>7. approvers' \in [Approver -> {Idle} \cup Promoting] /\ OneAtATime' /\ Holding'
  BY <1>1, <1>4, <1>6, HoldingStep
<1>8. TypeOK'
  BY <1>1, <1>7 DEF TypeOK
<1>9. Files' /\ Followed'
  BY <1>1 DEF Inv, Files, FileOf, Followed, FollowedOf, IsApproved
<1>10. OnlyApprovedIsReliedOn'
  BY <1>1 DEF Inv, OnlyApprovedIsReliedOn, ReliedOn, IsApproved
<1> QED
  BY <1>7, <1>8, <1>9, <1>10 DEF Inv

LEMMA LeaveStep ==
  ASSUME Inv, NEW r \in Approver, Leave(r)
  PROVE  Inv'
<1>1. /\ TypeOK
      /\ approvers[r] # Idle
      /\ approvers' = [approvers EXCEPT ![r] = Idle]
      /\ UNCHANGED <<key, candidates, final, txn, current, builders>>
  BY DEF Inv, Leave
<1>2. \A q \in Approver \ {r} : approvers[q] = Idle
  BY <1>1 DEF Inv, OneAtATime
<1>3. HoldingOf(r)'
  BY <1>1 DEF TypeOK, HoldingOf
<1>4. approvers' \in [Approver -> {Idle} \cup Promoting] /\ OneAtATime' /\ Holding'
  BY <1>1, <1>2, <1>3, HoldingStep
<1>5. TypeOK'
  BY <1>1, <1>4 DEF TypeOK
<1>6. Files' /\ Followed'
  BY <1>1 DEF Inv, Files, FileOf, Followed, FollowedOf, IsApproved
<1>7. OnlyApprovedIsReliedOn'
  BY <1>1 DEF Inv, OnlyApprovedIsReliedOn, ReliedOn, IsApproved
<1> QED
  BY <1>4, <1>5, <1>6, <1>7 DEF Inv

\* What a step of the promotion of s must show: that s itself stays in order.
LEMMA PromotionKeepsInv ==
  ASSUME Inv, NEW r \in Approver, NEW s \in Snapshot, IsPromoting(r, s),
         NEW w \in Promoting, approvers' = [approvers EXCEPT ![r] = w],
         candidates' \subseteq Snapshot, UNCHANGED <<key, builders>>,
         final' \in [Snapshot -> {"absent", "unapproved"} \cup Time],
         txn' \in [Snapshot -> {None} \cup Transaction],
         txn'[s] # None, txn'[s].previous = txn[s].previous,
         \A q \in Snapshot \ {s} : final'[q] = final[q] /\ txn'[q] = txn[q],
         current' \in {current, s}, current' # current => IsApproved(s)',
         IsApproved(s) => IsApproved(s)', FileOf(s)', HoldingOf(r)',
         txn'[s].phase = "PUBLISHED" => current' = s \/ txn[s].phase = "PUBLISHED"
  PROVE  Inv'
<1>1. TypeOK /\ \A q \in Approver \ {r} : approvers[q] = Idle
  BY Holds DEF Inv
<1>2. approvers' \in [Approver -> {Idle} \cup Promoting] /\ OneAtATime' /\ Holding'
  BY <1>1, HoldingStep
<1>3. TypeOK'
  BY <1>1, <1>2 DEF TypeOK, Version
<1>4. \A q \in Snapshot : IsApproved(q) => IsApproved(q)'
  BY DEF IsApproved
<1>5. Files'
  <2>1. ASSUME NEW q \in Snapshot \ {s} PROVE FileOf(q)'
    BY DEF Inv, Files, FileOf
  <2> QED
    BY <2>1 DEF Files
<1>6. ASSUME NEW v \in ReliedOn', v # None PROVE IsApproved(v)'
  <2>1. CASE v \in ReliedOn
    <3>1. v \in Snapshot
      BY <1>1, <1>6, <2>1, ReliedOnType DEF Version
    <3> QED
      BY <1>4, <1>6, <2>1, <3>1 DEF Inv, OnlyApprovedIsReliedOn
  <2>2. CASE v = current'
    BY <2>1, <2>2 DEF ReliedOn
  <2>3. CASE \E b \in Builder : builders'[b] # Idle /\ v = builders'[b].previous
    BY <2>1, <2>3 DEF ReliedOn
  <2>4. CASE \E q \in Snapshot : txn'[q] # None /\ v = txn'[q].previous
    <3>1. PICK q \in Snapshot : txn'[q] # None /\ v = txn'[q].previous
      BY <2>4
    <3>2. txn[q] # None /\ v = txn[q].previous
      BY <3>1, Holds
    <3> QED
      BY <2>1, <3>2 DEF ReliedOn
  <2> QED
    BY <2>2, <2>3, <2>4 DEF ReliedOn
<1>7. OnlyApprovedIsReliedOn'
  BY <1>6 DEF OnlyApprovedIsReliedOn
<1>8. ASSUME NEW p \in Snapshot, txn'[p] # None, txn'[p].phase = "PUBLISHED", current' # p
      PROVE  \E q \in Snapshot : txn'[q] # None /\ txn'[q].previous = p /\ IsApproved(q)'
  <2>1. txn[p] # None /\ txn[p].phase = "PUBLISHED"
    BY <1>8, Holds
  <2>2. CASE current = p
    <3>1. current' = s /\ s # p /\ IsApproved(s)'
      BY <1>8, <2>2
    <3>2. txn[s].previous = p
      BY <2>2, <3>1, Holds
    <3> QED
      BY <3>1, <3>2
  <2>3. CASE current # p
    <3>1. FollowedOf(p)
      BY DEF Inv, Followed
    <3>2. PICK q \in Snapshot : txn[q] # None /\ txn[q].previous = p /\ IsApproved(q)
      BY <2>1, <2>3, <3>1 DEF FollowedOf
    <3>3. txn'[q] # None /\ txn'[q].previous = p /\ IsApproved(q)'
      BY <1>4, <3>2
    <3> QED
      BY <3>3
  <2> QED
    BY <2>2, <2>3
<1>9. Followed'
  BY <1>8 DEF Followed, FollowedOf
<1> QED
  BY <1>2, <1>3, <1>5, <1>7, <1>9 DEF Inv

LEMMA MoveStep ==
  ASSUME Inv, NEW r \in Approver, NEW s \in Snapshot, Move(r, s)
  PROVE  Inv'
<1> DEFINE w == [approvers[r] EXCEPT !.manifest = "unapproved"]
<1>1. /\ IsPromoting(r, s) /\ TypeOK
      /\ approvers' = [approvers EXCEPT ![r] = w]
      /\ candidates' \subseteq Snapshot
      /\ final' = [final EXCEPT ![s] = "unapproved"]
      /\ UNCHANGED <<key, txn, current, builders>>
  BY DEF Inv, TypeOK, Move
<1>2. approvers[r].manifest = "candidate" /\ final[s] = "absent" /\ txn[s].phase = "BUILT"
  BY <1>1, Holds DEF Move
<1>3. w \in Promoting
  BY <1>1, Holds DEF Promoting
<1>4. /\ approvers'[r] = w
      /\ final'[s] = "unapproved"
      /\ \A q \in Snapshot \ {s} : final'[q] = final[q]
      /\ final' \in [Snapshot -> {"absent", "unapproved"} \cup Time]
  BY <1>1 DEF TypeOK
<1>5. FileOf(s)'
  <2>1. FileOf(s)
    BY DEF Inv, Files
  <2> QED
    BY <1>1, <1>2, <1>4, <2>1, Holds DEF FileOf
<1>6. HoldingOf(r)'
  <2>1. w.id = s /\ w.txn = approvers[r].txn /\ w.manifest = "unapproved" /\ w.pointed = approvers[r].pointed
    BY <1>1, Holds DEF Promoting
  <2> HIDE DEF w
  <2> QED
    BY <1>1, <1>2, <1>4, <2>1, Holds DEF HoldingOf
<1>7. IsApproved(s) => IsApproved(s)'
  BY <1>2 DEF IsApproved
<1> HIDE DEF w
<1>8. /\ Inv /\ IsPromoting(r, s) /\ candidates' \subseteq Snapshot /\ UNCHANGED <<key, builders>>
      /\ approvers' = [approvers EXCEPT ![r] = w]
  BY <1>1
<1>9. /\ txn' \in [Snapshot -> {None} \cup Transaction]
      /\ txn'[s] # None /\ txn'[s].previous = txn[s].previous
      /\ \A q \in Snapshot \ {s} : final'[q] = final[q] /\ txn'[q] = txn[q]
      /\ txn'[s].phase = "PUBLISHED" => current' = s \/ txn[s].phase = "PUBLISHED"
  <2>1. txn[s] # None
    BY <1>1, Holds
  <2>2. txn \in [Snapshot -> {None} \cup Transaction] /\ UNCHANGED txn
    BY <1>1 DEF TypeOK
  <2> QED
    BY <1>4, <2>1, <2>2
<1>10. current' \in {current, s} /\ (current' # current => IsApproved(s)')
  BY <1>1
<1> QED
  BY <1>3, <1>4, <1>5, <1>6, <1>7, <1>8, <1>9, <1>10, PromotionKeepsInv

\* The steps that write the transaction only.
LEMMA AdvanceStep ==
  ASSUME Inv, NEW r \in Approver, NEW s \in Snapshot, IsPromoting(r, s),
         NEW new \in Transaction, Advance(r, s, new),
         new.previous = txn[s].previous, new.clean,
         approvers[r].manifest # "candidate",
         IsApproved(s) => IsApproved(s)', FileOf(s)',
         new.phase = "PUBLISHED" => current = s,
         approvers[r].pointed => new.phase \in {"POINTER_PREPARED", "PUBLISHED"}
  PROVE  Inv'
<1> DEFINE w == [approvers[r] EXCEPT !.txn = new]
<1>1. /\ TypeOK
      /\ approvers' = [approvers EXCEPT ![r] = w]
      /\ txn' = [txn EXCEPT ![s] = new]
      /\ UNCHANGED <<key, candidates, final, current, builders>>
  BY DEF Inv, Advance
<1>2. w \in Promoting
  BY Holds DEF Promoting
<1>3. /\ approvers'[r] = w
      /\ txn'[s] = new
      /\ \A q \in Snapshot \ {s} : txn'[q] = txn[q]
      /\ txn' \in [Snapshot -> {None} \cup Transaction]
  BY <1>1 DEF TypeOK
<1>4. HoldingOf(r)'
  <2>1. /\ w.id = s /\ w.txn = new /\ w.manifest = approvers[r].manifest
        /\ w.pointed = approvers[r].pointed
    BY Holds DEF Promoting
  <2> HIDE DEF w
  <2> QED
    BY <1>1, <1>3, <2>1, Holds DEF HoldingOf
<1>5. txn'[s] # None
  BY <1>3, NoneAssumption
<1> HIDE DEF w
<1>6. /\ candidates' \subseteq Snapshot /\ UNCHANGED <<key, builders>>
      /\ final' \in [Snapshot -> {"absent", "unapproved"} \cup Time]
      /\ current' \in {current, s} /\ (current' # current => IsApproved(s)')
  BY <1>1 DEF TypeOK
<1>7. /\ txn'[s].previous = txn[s].previous
      /\ \A q \in Snapshot \ {s} : final'[q] = final[q] /\ txn'[q] = txn[q]
      /\ txn'[s].phase = "PUBLISHED" => current' = s \/ txn[s].phase = "PUBLISHED"
  BY <1>1, <1>3
<1>8. approvers' = [approvers EXCEPT ![r] = w]
  BY <1>1
<1> QED
  BY <1>2, <1>3, <1>4, <1>5, <1>6, <1>7, <1>8, PromotionKeepsInv

LEMMA MarkMovedStep ==
  ASSUME Inv, NEW r \in Approver, NEW s \in Snapshot, MarkMoved(r, s)
  PROVE  Inv'
<1> DEFINE new == [txn[s] EXCEPT !.phase = "MOVED"]
<1>1. /\ IsPromoting(r, s) /\ Advance(r, s, new)
      /\ approvers[r].manifest = "unapproved" /\ txn[s].phase = "BUILT"
  BY Holds DEF MarkMoved
<1>2. /\ new \in Transaction /\ new.previous = txn[s].previous /\ new.clean
      /\ new.phase = "MOVED" /\ new.approvedAt = txn[s].approvedAt
  BY <1>1, Holds, PhasesListed DEF Transaction
<1>3. txn'[s] = new /\ UNCHANGED final
  BY <1>1 DEF Inv, TypeOK, Advance
<1>4. FileOf(s) /\ final[s] = "unapproved" /\ ~approvers[r].pointed
  BY <1>1, Holds DEF Inv, Files
<1> HIDE DEF new
<1>5. FileOf(s)'
  BY <1>1, <1>2, <1>3, <1>4, Holds, NoneAssumption DEF FileOf
<1>6. ~IsApproved(s)
  BY <1>1 DEF IsApproved
<1> QED
  BY <1>1, <1>2, <1>4, <1>5, <1>6, AdvanceStep

LEMMA PrepareApprovalStep ==
  ASSUME Inv, NEW r \in Approver, NEW s \in Snapshot, PrepareApproval(r, s)
  PROVE  Inv'
<1>1. PICK now \in Time :
        Advance(r, s, [txn[s] EXCEPT !.phase = "APPROVAL_PREPARED", !.approvedAt = now])
  <2>1. IsPromoting(r, s)
    BY DEF PrepareApproval
  <2>2. approvers[r].txn = txn[s]
    BY <2>1, Holds
  <2>3. PICK now \in Time :
          Advance(r, s, [approvers[r].txn EXCEPT !.phase = "APPROVAL_PREPARED",
                                                 !.approvedAt = now])
    BY DEF PrepareApproval
  <2> QED
    BY <2>2, <2>3
<1> DEFINE new == [txn[s] EXCEPT !.phase = "APPROVAL_PREPARED", !.approvedAt = now]
<1>2. /\ IsPromoting(r, s) /\ Advance(r, s, new)
      /\ approvers[r].manifest = "unapproved" /\ txn[s].phase = "MOVED"
  BY <1>1, Holds DEF PrepareApproval
<1>3. /\ new \in Transaction /\ new.previous = txn[s].previous /\ new.clean
      /\ new.phase = "APPROVAL_PREPARED" /\ new.approvedAt = now
  <2>1. txn[s] \in Transaction /\ txn[s].clean
    BY <1>2, Holds
  <2>2. "APPROVAL_PREPARED" \in Phase /\ now \in Time \cup {None}
    BY PhasesListed
  <2> QED
    BY <2>1, <2>2 DEF Transaction
<1>4. txn'[s] = new /\ UNCHANGED final
  BY <1>2 DEF Inv, TypeOK, Advance
<1>5. final[s] = "unapproved" /\ ~approvers[r].pointed
  BY <1>2, Holds
<1> HIDE DEF new
<1>6. FileOf(s)'
  BY <1>3, <1>4, <1>5, NoneAssumption DEF FileOf
<1>7. ~IsApproved(s)
  BY <1>2 DEF IsApproved
<1> QED
  BY <1>2, <1>3, <1>5, <1>6, <1>7, AdvanceStep

LEMMA WriteApprovalStep ==
  ASSUME Inv, NEW r \in Approver, NEW s \in Snapshot, WriteApproval(r, s)
  PROVE  Inv'
<1> DEFINE w == [approvers[r] EXCEPT !.manifest = txn[s].approvedAt]
<1>1. /\ IsPromoting(r, s) /\ TypeOK
      /\ txn[s].phase = "APPROVAL_PREPARED" /\ approvers[r].manifest = "unapproved"
      /\ approvers' = [approvers EXCEPT ![r] = w]
      /\ final' = [final EXCEPT ![s] = txn[s].approvedAt]
      /\ UNCHANGED <<key, candidates, txn, current, builders>>
  <2>1. IsPromoting(r, s) /\ TypeOK
    BY DEF Inv, WriteApproval
  <2>2. txn[s] = approvers[r].txn
    BY <2>1, Holds
  <2> QED
    BY <2>1, <2>2 DEF WriteApproval
<1>2. FileOf(s) /\ txn[s].approvedAt \in Time /\ ~approvers[r].pointed
  BY <1>1, Holds DEF Inv, Files, FileOf
<1>3. w \in Promoting
  BY <1>1, <1>2, Holds DEF Promoting
<1>4. /\ approvers'[r] = w
      /\ final'[s] = txn[s].approvedAt
      /\ \A q \in Snapshot \ {s} : final'[q] = final[q]
      /\ final' \in [Snapshot -> {"absent", "unapproved"} \cup Time]
  BY <1>1, <1>2 DEF TypeOK
<1>5. FileOf(s)'
  BY <1>1, <1>2, <1>4, Holds, TimeAssumption DEF FileOf
<1>6. HoldingOf(r)'
  <2>1. /\ w.id = s /\ w.txn = txn[s] /\ w.manifest = txn[s].approvedAt
        /\ w.pointed = approvers[r].pointed
    BY <1>1, Holds DEF Promoting
  <2> HIDE DEF w
  <2> QED
    BY <1>1, <1>2, <1>4, <2>1, Holds, TimeAssumption DEF HoldingOf
<1>7. ~IsApproved(s)
  BY <1>1 DEF IsApproved
<1> HIDE DEF w
<1> QED
  <2>1. /\ candidates' \subseteq Snapshot /\ UNCHANGED <<key, builders, txn, current>>
        /\ txn \in [Snapshot -> {None} \cup Transaction]
    BY <1>1 DEF TypeOK
  <2>2. txn[s] # None
    BY <1>1, Holds
  <2>3. FileOf(s)' /\ HoldingOf(r)' /\ approvers' = [approvers EXCEPT ![r] = w]
    BY <1>1, <1>5, <1>6
  <2> QED BY ONLY Inv, <1>1, <1>3, <1>4, <1>7, <2>1, <2>2, <2>3, PromotionKeepsInv

LEMMA MarkVerifiedStep ==
  ASSUME Inv, NEW r \in Approver, NEW s \in Snapshot, MarkVerified(r, s)
  PROVE  Inv'
<1> DEFINE new == [txn[s] EXCEPT !.phase = "VERIFIED"]
<1>1. /\ IsPromoting(r, s) /\ Advance(r, s, new)
      /\ final[s] \in Time /\ txn[s].phase = "APPROVAL_PREPARED"
  BY Holds DEF MarkVerified
<1>2. /\ new \in Transaction /\ new.previous = txn[s].previous /\ new.clean
      /\ new.phase = "VERIFIED" /\ new.approvedAt = txn[s].approvedAt
  BY <1>1, Holds, PhasesListed DEF Transaction
<1>3. txn'[s] = new /\ UNCHANGED final
  BY <1>1 DEF Inv, TypeOK, Advance
<1>4. FileOf(s) /\ approvers[r].manifest # "candidate" /\ ~approvers[r].pointed
  BY <1>1, Holds DEF Inv, Files
<1> HIDE DEF new
<1>5. FileOf(s)'
  BY <1>1, <1>2, <1>3, <1>4, Holds, NoneAssumption, TimeAssumption DEF FileOf
<1>6. ~IsApproved(s)
  BY <1>1 DEF IsApproved
<1> QED
  BY <1>1, <1>2, <1>4, <1>5, <1>6, AdvanceStep

LEMMA PreparePointerStep ==
  ASSUME Inv, NEW r \in Approver, NEW s \in Snapshot, PreparePointer(r, s)
  PROVE  Inv'
<1> DEFINE new == [txn[s] EXCEPT !.phase = "POINTER_PREPARED"]
<1>1. /\ IsPromoting(r, s) /\ Advance(r, s, new)
      /\ final[s] \in Time /\ txn[s].phase = "VERIFIED"
  BY Holds DEF PreparePointer
<1>2. /\ new \in Transaction /\ new.previous = txn[s].previous /\ new.clean
      /\ new.phase = "POINTER_PREPARED" /\ new.approvedAt = txn[s].approvedAt
  BY <1>1, Holds, PhasesListed DEF Transaction
<1>3. txn'[s] = new /\ UNCHANGED final
  BY <1>1 DEF Inv, TypeOK, Advance
<1>4. FileOf(s) /\ approvers[r].manifest # "candidate"
  BY <1>1, Holds DEF Inv, Files
<1> HIDE DEF new
<1>5. FileOf(s)'
  BY <1>1, <1>2, <1>3, <1>4, Holds, NoneAssumption, TimeAssumption DEF FileOf
<1>6. ~IsApproved(s)
  BY <1>1 DEF IsApproved
<1> QED
  BY <1>1, <1>2, <1>4, <1>5, <1>6, AdvanceStep

LEMMA MarkPublishedStep ==
  ASSUME Inv, NEW r \in Approver, NEW s \in Snapshot, MarkPublished(r, s)
  PROVE  Inv'
<1> DEFINE new == [txn[s] EXCEPT !.phase = "PUBLISHED"]
<1>1. /\ IsPromoting(r, s) /\ Advance(r, s, new)
      /\ approvers[r].pointed /\ txn[s].phase = "POINTER_PREPARED"
  BY Holds DEF MarkPublished
<1>2. /\ new \in Transaction /\ new.previous = txn[s].previous /\ new.clean
      /\ new.phase = "PUBLISHED" /\ new.approvedAt = txn[s].approvedAt
  BY <1>1, Holds, PhasesListed DEF Transaction
<1>3. txn'[s] = new /\ UNCHANGED final
  BY <1>1 DEF Inv, TypeOK, Advance
<1>4. FileOf(s) /\ approvers[r].manifest # "candidate" /\ current = s
  BY <1>1, Holds DEF Inv, Files
<1> HIDE DEF new
<1>5. FileOf(s)'
  BY <1>1, <1>2, <1>3, <1>4, Holds, NoneAssumption, TimeAssumption DEF FileOf
<1>6. IsApproved(s) => IsApproved(s)'
  BY <1>2, <1>3, NoneAssumption DEF IsApproved
<1> QED
  BY <1>1, <1>2, <1>4, <1>5, <1>6, AdvanceStep

LEMMA WritePointerStep ==
  ASSUME Inv, NEW r \in Approver, NEW s \in Snapshot, WritePointer(r, s)
  PROVE  Inv' /\ IsApproved(s)
<1> DEFINE w == [approvers[r] EXCEPT !.pointed = TRUE]
<1>1. /\ IsPromoting(r, s) /\ TypeOK
      /\ txn[s].phase = "POINTER_PREPARED" /\ final[s] \in Time
      /\ approvers' = [approvers EXCEPT ![r] = w]
      /\ current' = s
      /\ UNCHANGED <<key, candidates, final, txn, builders>>
  BY Holds DEF Inv, WritePointer
<1>2. FileOf(s) /\ approvers[r].manifest # "candidate"
  BY <1>1, Holds DEF Inv, Files
<1>3. w \in Promoting
  <2>1. approvers[r] \in Promoting /\ TRUE \in BOOLEAN
    BY <1>1, Holds
  <2> QED
    BY <2>1 DEF Promoting
<1>4. approvers'[r] = w
  BY <1>1 DEF TypeOK
<1>5. FileOf(s)'
  BY <1>1, <1>2 DEF FileOf
<1>6. HoldingOf(r)'
  <2>1. /\ w.id = s /\ w.txn = txn[s] /\ w.manifest = approvers[r].manifest
        /\ w.pointed
    BY <1>1, Holds DEF Promoting
  <2> HIDE DEF w
  <2> QED
    BY <1>1, <1>2, <1>4, <2>1, Holds DEF HoldingOf
<1>7. IsApproved(s)
  BY <1>1, <1>2, Holds DEF FileOf, IsApproved
<1>8. IsApproved(s)'
  BY <1>1, <1>7 DEF IsApproved
<1> HIDE DEF w
<1> QED
  BY <1>1, <1>3, <1>4, <1>5, <1>6, <1>7, <1>8, Holds, PromotionKeepsInv DEF TypeOK

LEMMA StepInv == Inv /\ [Next]_vars => Inv'
<1> SUFFICES ASSUME Inv, [Next]_vars PROVE Inv'
  OBVIOUS
<1>1. ASSUME NEW b \in Builder, Build(b) PROVE Inv'
  BY <1>1, StartBuildStep, BuildStep, WriteTransactionStep DEF Build
<1>2. ASSUME NEW r \in Approver, NEW s \in Snapshot, Promote(r, s) PROVE Inv'
  BY <1>2, MoveStep, MarkMovedStep, PrepareApprovalStep, WriteApprovalStep, MarkVerifiedStep,
     PreparePointerStep, WritePointerStep, MarkPublishedStep DEF Promote
<1>3. CASE UNCHANGED vars
  BY <1>3 DEF vars, Inv, TypeOK, Files, FileOf, OneAtATime, Holding, HoldingOf,
     OnlyApprovedIsReliedOn, ReliedOn, Followed, FollowedOf, IsApproved
<1> QED
  BY <1>1, <1>2, <1>3, BeginStep, LeaveStep DEF Next

-----------------------------------------------------------------------------
(* Theorems *)

\* The invariant holds throughout.
THEOREM Invariance == Spec => []Inv
BY InitInv, StepInv, PTL DEF Spec

\* Every variable keeps its form, for any ids and any number of processes.
THEOREM TypeCorrect == Spec => []TypeOK
<1>1. Inv => TypeOK
  BY DEF Inv
<1> QED
  BY <1>1, Invariance, PTL

\* current.json and the versions builders started from are approved snapshots,
\* and stay so.
THEOREM PointerIntegrity == Spec => []OnlyApprovedIsReliedOn
<1>1. Inv => OnlyApprovedIsReliedOn
  BY DEF Inv
<1> QED
  BY <1>1, Invariance, PTL

\* What a transaction says has been done has been done.
THEOREM PhasesAreTrue == Spec => []TransactionsDoNotRunAhead
<1>1. Inv => TransactionsDoNotRunAhead
  <2> SUFFICES ASSUME Inv, NEW s \in Snapshot, txn[s] # None
               PROVE  /\ txn[s].phase \in From("MOVED") => final[s] # "absent"
                      /\ txn[s].phase \in From("VERIFIED") => final[s] = txn[s].approvedAt
                      /\ txn[s].phase = "PUBLISHED" =>
                           current = s \/ \E q \in Snapshot : txn[q] # None /\ txn[q].previous = s /\ IsApproved(q)
    BY DEF TransactionsDoNotRunAhead
  <2>1. FileOf(s) /\ FollowedOf(s)
    BY DEF Inv, Files, Followed
  <2> QED
    BY <2>1, PhasesListed DEF FileOf, FollowedOf
<1> QED
  BY <1>1, Invariance, PTL

-----------------------------------------------------------------------------
(* The action property and the refinement *)

LEMMA ApprovalStep ==
  ASSUME Inv, [Next]_vars, NEW s \in Snapshot
  PROVE  /\ txn[s] # None /\ txn[s].approvedAt # None
              => txn'[s].approvedAt = txn[s].approvedAt
         /\ final[s] \in Time => final'[s] = final[s]
<1> DEFINE Kept == /\ txn[s] # None /\ txn[s].approvedAt # None
                        => txn'[s].approvedAt = txn[s].approvedAt
                   /\ final[s] \in Time => final'[s] = final[s]
<1> SUFFICES Kept
  OBVIOUS
<1>1. CASE UNCHANGED <<final, txn>>
  BY <1>1
<1>2. ASSUME NEW b \in Builder, WriteTransaction(b) PROVE Kept
  BY <1>2, BuilderType DEF WriteTransaction, Inv, TypeOK
<1>3. ASSUME NEW r \in Approver, NEW q \in Snapshot, Promote(r, q) PROVE Kept
  <2>1. IsPromoting(r, q) /\ TypeOK /\ FileOf(q)
    BY <1>3 DEF Promote, Move, MarkMoved, PrepareApproval, WriteApproval, MarkVerified,
       PreparePointer, WritePointer, MarkPublished, Inv, Files
  <2>2. txn[q] \in Transaction /\ txn[q] = approvers[r].txn
    BY <2>1, Holds
  <2>3. CASE Move(r, q)
    BY <2>1, <2>3, Holds, TimeAssumption DEF Move, TypeOK
  <2>4. CASE WriteApproval(r, q)
    BY <2>1, <2>4, Holds, TimeAssumption DEF WriteApproval, TypeOK
  <2>5. CASE PrepareApproval(r, q)
    <3>1. txn[q].approvedAt = None
      BY <2>1, <2>2, <2>5, Holds DEF PrepareApproval, FileOf
    <3>2. UNCHANGED final /\ (s # q => txn'[s] = txn[s])
      BY <2>1, <2>5 DEF PrepareApproval, Advance, TypeOK
    <3> QED
      BY <3>1, <3>2
  <2>6. CASE \/ MarkMoved(r, q) \/ MarkVerified(r, q)
             \/ PreparePointer(r, q) \/ MarkPublished(r, q)
    <3>1. PICK p \in {"MOVED", "VERIFIED", "POINTER_PREPARED", "PUBLISHED"} :
            txn' = [txn EXCEPT ![q] = [txn[q] EXCEPT !.phase = p]]
      BY <2>2, <2>6 DEF MarkMoved, MarkVerified, PreparePointer, MarkPublished, Advance
    <3>2. [txn[q] EXCEPT !.phase = p].approvedAt = txn[q].approvedAt
      BY <2>2 DEF Transaction
    <3>3. txn'[s] = IF s = q THEN [txn[q] EXCEPT !.phase = p] ELSE txn[s]
      BY <2>1, <3>1 DEF TypeOK
    <3>4. UNCHANGED final
      BY <2>6 DEF MarkMoved, MarkVerified, PreparePointer, MarkPublished, Advance
    <3> QED
      BY <3>2, <3>3, <3>4
  <2>7. CASE WritePointer(r, q)
    BY <2>7 DEF WritePointer
  <2> QED
    BY <1>3, <2>3, <2>4, <2>5, <2>6, <2>7 DEF Promote
<1> HIDE DEF Kept
<1> QED
  BY <1>1, <1>2, <1>3 DEF Next, vars, Build, StartBuild, MakeCandidate, CreateKey, FillKey,
     StopBuild, Begin, Load, Leave

\* An approval is dated once, however often its promotion is interrupted.
THEOREM ApprovedOnce == Spec => ApprovalIsGivenOnce
<1>1. Inv /\ [Next]_vars =>
        [\A s \in Snapshot :
           /\ txn[s] # None /\ txn[s].approvedAt # None
                => txn'[s].approvedAt = txn[s].approvedAt
           /\ final[s] \in Time => final'[s] = final[s]]_vars
  BY ApprovalStep
<1> QED
  BY <1>1, Invariance, PTL DEF Spec, ApprovalIsGivenOnce

Basis == [s \in Snapshot |->
            IF txn[s] # None /\ txn[s].clean THEN txn[s].previous ELSE "not offered"]

LEMMA SameBasis ==
  ASSUME \A s \in Snapshot :
           /\ txn[s] # None /\ txn[s].clean <=> txn'[s] # None /\ txn'[s].clean
           /\ txn[s] # None /\ txn[s].clean => txn'[s].previous = txn[s].previous
  PROVE  Basis' = Basis
BY DEF Basis

LEMMA ApprovedIsOffered ==
  ASSUME Inv, NEW v \in ReliedOn
  PROVE  v = None \/ (v \in Snapshot /\ Basis[v] # "not offered")
<1>1. v \in Version
  BY ReliedOnType DEF Inv
<1>2. CASE v = None
  BY <1>2
<1>3. CASE v # None
  <2>1. v \in Snapshot /\ IsApproved(v)
    BY <1>1, <1>3 DEF Inv, OnlyApprovedIsReliedOn, Version
  <2>2. txn[v] \in Transaction
    BY <2>1 DEF Inv, TypeOK, IsApproved
  <2>3. txn[v].previous \in Version
    BY <2>2 DEF Transaction
  <2> QED
    BY <2>1, <2>3, VersionAssumption DEF Basis, IsApproved
<1> QED
  BY <1>2, <1>3

LEMMA OfferStep ==
  ASSUME Inv, NEW b \in Builder, WriteTransaction(b), Basis' # Basis
  PROVE  \E s \in Snapshot :
           /\ Basis[s] = "not offered"
           /\ \E v \in Version :
                /\ v = None \/ Basis[v] # "not offered"
                /\ Basis' = [Basis EXCEPT ![s] = v]
           /\ UNCHANGED current
<1>1. TypeOK /\ builders[b] # Idle /\ builders[b].id \in Snapshot /\ builders[b].previous \in Version
  BY BuilderType DEF Inv, WriteTransaction
<1>2. builders[b].previous \in ReliedOn
  BY <1>1 DEF ReliedOn
<1> PICK s \in Snapshot : s = builders[b].id
  BY <1>1
<1> PICK v \in Version : v = builders[b].previous
  BY <1>1
<1>3. v = None \/ (v \in Snapshot /\ Basis[v] # "not offered")
  BY <1>2, ApprovedIsOffered
<1>4. PICK clean \in BOOLEAN :
        txn' = [txn EXCEPT ![s] = [phase |-> "BUILT", previous |-> v, clean |-> clean,
                                   approvedAt |-> None]]
  BY DEF WriteTransaction
<1> DEFINE new == [phase |-> "BUILT", previous |-> v, clean |-> clean, approvedAt |-> None]
<1>5. new \in Transaction /\ new.previous = v /\ new.clean = clean
  BY PhasesListed DEF Transaction
<1>6. txn[s] = None /\ txn'[s] = new /\ \A q \in Snapshot \ {s} : txn'[q] = txn[q]
  BY <1>1, <1>4 DEF TypeOK, WriteTransaction
<1>7. new # None
  BY <1>5, NoneAssumption
<1> HIDE DEF new
<1>8. CASE ~clean
  <2>1. Basis' = Basis
    BY <1>5, <1>6, <1>8, SameBasis
  <2> QED
    BY <2>1
<1>9. CASE clean
  <2>1. Basis[s] = "not offered"
    BY <1>6 DEF Basis
  <2>2. Basis' = [Basis EXCEPT ![s] = v]
    BY <1>5, <1>6, <1>7, <1>9 DEF Basis
  <2>3. UNCHANGED current
    BY DEF WriteTransaction
  <2> QED
    BY <1>3, <2>1, <2>2, <2>3
<1> QED
  BY <1>8, <1>9

LEMMA PublishStep ==
  ASSUME Inv, NEW r \in Approver, NEW s \in Snapshot, WritePointer(r, s)
  PROVE  /\ Basis' = Basis
         /\ \/ UNCHANGED current
            \/ Basis[s] # "not offered" /\ Basis[s] = current /\ current' = s
<1>1. IsPromoting(r, s) /\ current' = s /\ txn' = txn
  BY DEF WritePointer
<1>2. txn[s] \in Transaction /\ txn[s] # None /\ txn[s].clean /\ current \in {s, txn[s].previous}
  BY <1>1, Holds
<1>3. Basis[s] = txn[s].previous
  BY <1>2 DEF Basis
<1>4. txn[s].previous # "not offered"
  BY <1>2, VersionAssumption DEF Transaction
<1>5. Basis' = Basis
  BY <1>1 DEF Basis
<1> QED
  BY <1>1, <1>2, <1>3, <1>4, <1>5

\* Every other step leaves the register alone.
LEMMA QuietStep ==
  ASSUME Inv, [Next]_vars,
         \A b \in Builder : ~WriteTransaction(b),
         \A r \in Approver, s \in Snapshot : ~WritePointer(r, s)
  PROVE  UNCHANGED <<current, Basis>>
<1>1. CASE UNCHANGED <<txn, current>>
  BY <1>1 DEF Basis
<1>2. ASSUME NEW r \in Approver, NEW q \in Snapshot, NEW new,
             IsPromoting(r, q), Advance(r, q, new),
             new # None, new.clean, new.previous = txn[q].previous
      PROVE  UNCHANGED <<current, Basis>>
  <2>1. txn[q] # None /\ txn[q].clean
    BY <1>2, Holds
  <2>2. txn'[q] = new /\ UNCHANGED current /\ \A s \in Snapshot \ {q} : txn'[s] = txn[s]
    BY <1>2 DEF Advance, Inv, TypeOK
  <2> QED
    BY <1>2, <2>1, <2>2, SameBasis
<1>3. ASSUME NEW r \in Approver, NEW q \in Snapshot, Promote(r, q), ~WritePointer(r, q)
      PROVE  UNCHANGED <<current, Basis>>
  <2>1. CASE Move(r, q) \/ WriteApproval(r, q)
    BY <2>1, <1>1 DEF Move, WriteApproval
  <2>2. CASE ~(Move(r, q) \/ WriteApproval(r, q))
    <3>1. IsPromoting(r, q)
      BY <1>3, <2>2 DEF Promote, MarkMoved, PrepareApproval, MarkVerified, PreparePointer,
         MarkPublished
    <3>2. txn[q] \in Transaction /\ txn[q] = approvers[r].txn /\ txn[q].clean
      BY <3>1, Holds
    <3>3. PICK p \in Phase, t \in Time \cup {None} :
            Advance(r, q, [txn[q] EXCEPT !.phase = p, !.approvedAt = t])
      <4>1. ASSUME NEW p \in Phase, Advance(r, q, [txn[q] EXCEPT !.phase = p])
            PROVE  Advance(r, q, [txn[q] EXCEPT !.phase = p, !.approvedAt = txn[q].approvedAt])
        <5>1. [txn[q] EXCEPT !.phase = p]
                = [txn[q] EXCEPT !.phase = p, !.approvedAt = txn[q].approvedAt]
          BY <3>2 DEF Transaction
        <5> QED
          BY <4>1, <5>1
      <4>2. txn[q].approvedAt \in Time \cup {None}
        BY <3>2 DEF Transaction
      <4>3. CASE MarkMoved(r, q) \/ MarkVerified(r, q) \/ PreparePointer(r, q) \/ MarkPublished(r, q)
        <5>1. \E p \in Phase : Advance(r, q, [txn[q] EXCEPT !.phase = p])
          BY <4>3, <3>2, PhasesListed DEF MarkMoved, MarkVerified, PreparePointer, MarkPublished
        <5> QED
          BY <5>1, <4>1, <4>2
      <4>4. CASE PrepareApproval(r, q)
        BY <4>4, <3>2, PhasesListed DEF PrepareApproval
      <4> QED
        BY <1>3, <2>2, <4>3, <4>4 DEF Promote
    <3> DEFINE new == [txn[q] EXCEPT !.phase = p, !.approvedAt = t]
    <3>4. new \in Transaction /\ new.clean /\ new.previous = txn[q].previous
      BY <3>2 DEF Transaction
    <3>5. new # None
      BY <3>4, NoneAssumption
    <3> HIDE DEF new
    <3> QED
      BY <1>2, <3>1, <3>3, <3>4, <3>5 DEF new
  <2> QED
    BY <2>1, <2>2
<1> QED
  BY <1>1, <1>3 DEF Next, vars, Build, StartBuild, MakeCandidate, CreateKey, FillKey,
     StopBuild, Begin, Load, Leave

\* current.json is a compare-and-swap register, whatever is interrupted.
THEOREM PointerIsARegister == Spec => ImplementsPublishedPointer
<1>1. Init => Register!Init
  BY DEF Init, Register!Init, Register!NotOffered
<1>2. Inv /\ [Next]_vars => [Register!Next]_<<current, Basis>>
  <2> SUFFICES ASSUME Inv, [Next]_vars, ~UNCHANGED <<current, Basis>>
               PROVE  Register!Next
    OBVIOUS
  <2>1. CASE \E b \in Builder : WriteTransaction(b)
    <3>1. PICK b \in Builder : WriteTransaction(b)
      BY <2>1
    <3>2. UNCHANGED current
      BY <3>1 DEF WriteTransaction
    <3>3. \E s \in Snapshot : Register!Offer(s)
      BY <3>1, <3>2, OfferStep DEF Register!Offer, Register!Offered, Register!NotOffered, Basis, Version
    <3> QED
      BY <3>3 DEF Register!Next
  <2>2. CASE \E r \in Approver, s \in Snapshot : WritePointer(r, s)
    <3>1. PICK r \in Approver, s \in Snapshot : WritePointer(r, s)
      BY <2>2
    <3>2. Register!Publish(s)
      BY <3>1, PublishStep DEF Register!Publish, Register!NotOffered, Basis
    <3> QED
      BY <3>2 DEF Register!Next
  <2> QED
    BY <2>1, <2>2, QuietStep
<1> QED
  BY <1>1, <1>2, Invariance, PTL DEF Spec, ImplementsPublishedPointer, Register!Spec, Basis
=============================================================================
