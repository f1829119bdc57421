---------------------------- MODULE OneTimeLogin ----------------------------
(***************************************************************************)
(* What the login attempts of /auth/kakao promise, without the database,   *)
(* the browsers or Kakao: an attempt is opened once, spent at most once,   *)
(* by one callback, and leads to at most one login; a dead one stays dead. *)
(* LoginFlow implements it.                                                *)
(*                                                                         *)
(* Callbacks and logins are kept as sets, so that a second callback on a   *)
(* spent attempt, or a second login from it, is a change no step allows.   *)
(***************************************************************************)
CONSTANTS Attempt, Callback, Token

VARIABLES
    phase,    \* where each attempt is in its life
    holders,  \* the callbacks that go on from having spent it
    granted   \* the sessions its callbacks handed out

TypeOK ==
    /\ phase \in [Attempt -> {"new", "open", "spent", "done", "dead"}]
    /\ holders \in [Attempt -> SUBSET Callback]
    /\ granted \in [Attempt -> SUBSET Token]

Init ==
    /\ phase = [a \in Attempt |-> "new"]
    /\ holders = [a \in Attempt |-> {}]
    /\ granted = [a \in Attempt |-> {}]

\* Attempts die without a login: they expire, their exchange fails, or the
\* process stops between the two.
Dying(S, p) == [a \in Attempt |-> IF a \in S /\ p[a] \in {"open", "spent"}
                                  THEN "dead" ELSE p[a]]

Die(S) ==
    /\ phase' = Dying(S, phase)
    /\ holders' = [a \in Attempt |-> IF a \in S THEN {} ELSE holders[a]]
    /\ UNCHANGED granted

\* Opening an attempt also clears expired ones away.
Open(a, S) ==
    /\ phase[a] = "new" /\ \A c \in S : phase[c] = "open"
    /\ phase' = [Dying(S, phase) EXCEPT ![a] = "open"]
    /\ UNCHANGED <<holders, granted>>

Spend(a, r) ==
    /\ phase[a] = "open" /\ holders[a] = {}
    /\ phase' = [phase EXCEPT ![a] = "spent"]
    /\ holders' = [holders EXCEPT ![a] = {r}]
    /\ UNCHANGED granted

\* The callback that spent the attempt is over with the login.
Complete(a, r, t) ==
    /\ phase[a] = "spent" /\ holders[a] = {r} /\ granted[a] = {}
    /\ phase' = [phase EXCEPT ![a] = "done"]
    /\ holders' = [holders EXCEPT ![a] = {}]
    /\ granted' = [granted EXCEPT ![a] = {t}]

Next ==
    \/ \E S \in SUBSET Attempt : Die(S)
    \/ \E a \in Attempt, S \in SUBSET Attempt : Open(a, S)
    \/ \E a \in Attempt, r \in Callback : Spend(a, r)
    \/ \E a \in Attempt, r \in Callback, t \in Token : Complete(a, r, t)

Spec == Init /\ [][Next]_<<phase, holders, granted>>
=============================================================================
