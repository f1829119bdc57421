------------------------------ MODULE MCTripPage ------------------------------
(***************************************************************************)
(* TLC instance of TripPage in two kinds of scenes, since the page and the *)
(* list together are too many states: "list" has the whole history panel   *)
(* and leaves the form alone, "form" has the form with everything of the   *)
(* panel that touches it, while the pages of the list it asks for fail.    *)
(* No symmetry, since the history is checked for liveness.                 *)
(***************************************************************************)
EXTENDS TripPage

\* Settings whose parking cost is no step of the form, and that name no origin.
MCFits(s) == s # "odd"
MCDefaultOrigin(s) == IF s = "odd" THEN None ELSE "b"

VARIABLE scene

ListInit == scene = "list" /\ Init /\ PageInit /\ kept = "even"

FilledIn ==
    [FirstPage EXCEPT !.origin = [site |-> "a", from |-> "typed"], !.destination = "p",
                      !.enabled = TRUE]

\* The form was filled in before the first answer; or a draft was asked for in
\* the list by a visitor whose settings are still on their way.
FormInit ==
    /\ scene = "form"
    /\ newest = MaxRow /\ stored = {MaxRow} /\ gone = {} /\ saved = {}
    /\ kept \in Settings /\ edits = 0
    /\ \/ /\ session = "asked" /\ panel = FirstPanel /\ begun = 0
          /\ calls = [c \in Call |-> Idle]
          /\ page = FilledIn
       \/ /\ session = "answered" /\ begun = newest
          /\ panel = [FirstPanel EXCEPT !.authenticated = TRUE, !.listOpen = TRUE,
                                        !.loadedOnce = TRUE, !.rows = <<MaxRow>>]
          /\ calls = [c \in Call |-> [stage |-> "done", kind |-> "draft", rows |-> {MaxRow}]]
          /\ page = LoadSettings(FilledIn)

MCInit == ListInit \/ FormInit

ListScene == scene = "list" /\ Next /\ UNCHANGED <<pageVars, scene>>
FormScene == scene = "form" /\ FormNext /\ UNCHANGED scene
RowScene == scene = "form" /\ FailPage /\ UNCHANGED <<pageVars, scene>>

MCNext == ListScene \/ FormScene \/ RowScene

MCSpec == MCInit /\ [][MCNext]_<<vars, pageVars, scene>> /\ Answered
=============================================================================
