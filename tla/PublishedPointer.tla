-------------------------- MODULE PublishedPointer --------------------------
(***************************************************************************)
(* What current.json promises, without directories, transactions or        *)
(* crashes: it is a compare-and-swap register.  A snapshot is offered as   *)
(* the successor of one version, and becomes current only while that       *)
(* version is: nothing is published over a change it was not compared      *)
(* with, and nothing comes back.  SnapshotPromotion implements it.         *)
(***************************************************************************)
CONSTANTS Snapshot, None

VARIABLES
    current,  \* the version in force, None before the first
    basis     \* what each offered snapshot was compared with

NotOffered == "not offered"

Init ==
    /\ current = None
    /\ basis = [s \in Snapshot |-> NotOffered]

Offered(v) == v = None \/ basis[v] # NotOffered

Offer(s) ==
    /\ basis[s] = NotOffered
    /\ \E v \in Snapshot \cup {None} :
         Offered(v) /\ basis' = [basis EXCEPT ![s] = v]
    /\ UNCHANGED current

Publish(s) ==
    /\ basis[s] # NotOffered
    /\ basis[s] = current
    /\ current' = s
    /\ UNCHANGED basis

Next == \E s \in Snapshot : Offer(s) \/ Publish(s)

Spec == Init /\ [][Next]_<<current, basis>>
=============================================================================
