----------------------------- MODULE MCJwksCache -----------------------------
(* TLC instance of JwksCache; no symmetry, since it checks liveness. *)
EXTENDS JwksCache
=============================================================================
