----------------------------- MODULE MCLoginFlow -----------------------------
(* TLC instance of LoginFlow. *)
EXTENDS LoginFlow, TLC

\* Visitors, browsers, tokens, attempts and requests are interchangeable.
Symmetry == Permutations(Subject) \cup Permutations(Browser) \cup Permutations(Token)
              \cup Permutations(Attempt) \cup Permutations(Callback)
=============================================================================
