------------------------------- MODULE MCPickers -------------------------------
(* TLC instance of Pickers.  The second snapshot has a site more, in front. *)
EXTENDS Pickers

MCFound(t, f, v) ==
    IF t \in Site THEN <<t>>
    ELSE IF t = Blank /\ f = "all" THEN IF v = 1 THEN <<"x", "y">> ELSE <<"z", "x", "y">>
    ELSE IF t = Blank \/ v = 2 THEN <<"x">>
    ELSE <<>>
=============================================================================
