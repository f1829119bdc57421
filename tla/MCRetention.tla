---------------------------- MODULE MCRetention ----------------------------
(* TLC instance of Retention: liveness, hence no symmetry. *)
EXTENDS Retention
=============================================================================
