------------------------ MODULE MCSnapshotPromotion ------------------------
(* TLC instance of SnapshotPromotion. *)
EXTENDS SnapshotPromotion, TLC

\* Ids, processes and times are interchangeable (not used where liveness is
\* checked).
Symmetry == Permutations(Snapshot) \cup Permutations(Builder)
              \cup Permutations(Approver) \cup Permutations(Time)
=============================================================================
