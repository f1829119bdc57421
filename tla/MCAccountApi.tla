---------------------------- MODULE MCAccountApi ----------------------------
(* TLC instance of AccountApi. *)
EXTENDS AccountApi, TLC

\* The visitors, tokens, history ids and requests are interchangeable.
Symmetry == Permutations(Subject) \cup Permutations(Token)
              \cup Permutations(HistoryId) \cup Permutations(Request)
=============================================================================
