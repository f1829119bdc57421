----------------------------- MODULE JwksProofs -----------------------------
(***************************************************************************)
(* What holds of JwksCache for any number of keys and of callbacks.        *)
(***************************************************************************)
EXTENDS JwksCache, TLAPS

USE JwksAssumption

\* A token's key has been published, and an answer that came after the token
\* lacks its key only if the key was withdrawn since.
AnswersAreRecent ==
    \A l \in Login :
        /\ verifying[l] # Idle => verifying[l].kid \in published \cup withdrawn
        /\ verifying[l].stage = "answered"
             => verifying[l].kid \in verifying[l].keys \cup withdrawn

IInv == TypeOK /\ AnswersAreRecent

LEMMA InitIInv == Init => IInv
<1>1. Idle.stage # "answered"
  BY DEF Idle
<1> QED BY <1>1 DEF Init, IInv, TypeOK, AnswersAreRecent

\* A callback moves on to w, and the cache stays well formed.
LEMMA CallbackStep ==
    ASSUME IInv, NEW l \in Login, NEW w \in {Idle} \cup Working,
           verifying' = [verifying EXCEPT ![l] = w],
           w # Idle => w.kid \in published \cup withdrawn,
           w.stage = "answered" => w.kid \in w.keys \cup withdrawn,
           UNCHANGED <<published, withdrawn>>,
           cached' \subseteq Key, left' \in 0 .. Ttl,
           outcome' \in {"none", "key", "refused", "failed"}
    PROVE  IInv'
<1>1. TypeOK'
  BY DEF IInv, TypeOK
<1>2. ASSUME NEW m \in Login
      PROVE  /\ verifying'[m] # Idle => verifying'[m].kid \in published \cup withdrawn
             /\ verifying'[m].stage = "answered"
                  => verifying'[m].kid \in verifying'[m].keys \cup withdrawn
  <2>1. CASE m = l
    BY <2>1 DEF IInv, TypeOK
  <2>2. CASE m # l
    BY <2>2 DEF IInv, TypeOK, AnswersAreRecent
  <2> QED BY <2>1, <2>2
<1> QED BY <1>1, <1>2 DEF IInv, AnswersAreRecent

LEMMA WorkingType ==
    ASSUME TypeOK, NEW l \in Login
    PROVE  /\ verifying[l] = Idle \/ verifying[l] \in Working
           /\ verifying[l] = Idle => verifying[l].stage = "idle"
           /\ verifying[l] # Idle => verifying[l].kid \in Key
           /\ verifying[l].stage \in {"asked", "answered"} => verifying[l].last \in BOOLEAN
           /\ verifying[l].stage = "answered" => verifying[l].keys \subseteq Key
<1>1. verifying[l] \in {Idle} \cup Working
  BY DEF TypeOK
<1> QED BY <1>1 DEF Idle, Working

LEMMA AskingStep ==
    ASSUME IInv, NEW l \in Login, NEW last \in BOOLEAN, verifying[l] # Idle,
           Asking(l, last), UNCHANGED <<published, withdrawn>>,
           cached' \subseteq Key, left' \in 0 .. Ttl
    PROVE  IInv'
<1> DEFINE w == [stage |-> "asked", kid |-> verifying[l].kid, last |-> last]
<1>1. w \in Working /\ w.stage = "asked" /\ w.kid = verifying[l].kid
  BY WorkingType DEF IInv, Working
<1>2. verifying' = [verifying EXCEPT ![l] = w] /\ outcome' = "none"
  BY DEF Asking
<1>3. w.kid \in published \cup withdrawn
  BY <1>1 DEF IInv, AnswersAreRecent
<1> HIDE DEF w
<1> QED BY <1>1, <1>2, <1>3, CallbackStep

LEMMA DoneStep ==
    ASSUME IInv, NEW l \in Login, NEW o \in {"key", "refused", "failed"},
           Done(l, o), UNCHANGED <<published, withdrawn>>,
           cached' \subseteq Key, left' \in 0 .. Ttl
    PROVE  IInv'
BY CallbackStep DEF Done, Idle

LEMMA NextIInv == IInv /\ [Next]_vars => IInv'
<1> SUFFICES ASSUME IInv, [Next]_vars PROVE IInv'
  OBVIOUS
<1>0. cached \subseteq Key /\ left \in 0 .. Ttl /\ Ttl \in 0 .. Ttl
  BY DEF IInv, TypeOK
<1>1. CASE Tick
  BY <1>1 DEF Tick, IInv, TypeOK, AnswersAreRecent
<1>2. ASSUME NEW k \in Key, Publish(k) \/ Withdraw(k) PROVE IInv'
  BY <1>2 DEF Publish, Withdraw, IInv, TypeOK, AnswersAreRecent
<1>3. ASSUME NEW l \in Login, NEW k \in Key, Begin(l, k) PROVE IInv'
  <2> DEFINE w == [stage |-> "look", kid |-> k]
  <2>1. w \in Working /\ w.stage = "look" /\ w.kid = k
    BY DEF Working
  <2>2. verifying' = [verifying EXCEPT ![l] = w] /\ k \in published
    BY <1>3 DEF Begin
  <2> HIDE DEF w
  <2> QED BY <1>0, <1>3, <2>1, <2>2, CallbackStep DEF Begin
<1>4. ASSUME NEW l \in Login, Look(l) PROVE IInv'
  <2>1. verifying[l] # Idle
    BY <1>4 DEF Look, Idle
  <2> QED BY <1>0, <1>4, <2>1, AskingStep, DoneStep DEF Look
<1>5. ASSUME NEW l \in Login, KakaoAnswers(l) PROVE IInv'
  <2> DEFINE w == [stage |-> "answered", kid |-> verifying[l].kid,
                   last |-> verifying[l].last, keys |-> published]
  <2>1. verifying[l].stage = "asked" /\ verifying[l] # Idle
    BY <1>5 DEF KakaoAnswers, Idle
  <2>2. w \in Working /\ w.stage = "answered" /\ w.kid = verifying[l].kid /\ w.keys = published
    BY <2>1, WorkingType DEF IInv, TypeOK, Working
  <2>3. verifying' = [verifying EXCEPT ![l] = w]
    BY <1>5 DEF KakaoAnswers, IInv, TypeOK
  <2>4. w.kid \in published \cup withdrawn
    BY <2>1, <2>2 DEF IInv, AnswersAreRecent
  <2> HIDE DEF w
  <2> QED BY <1>0, <1>5, <2>2, <2>3, <2>4, CallbackStep DEF KakaoAnswers
<1>6. ASSUME NEW l \in Login, Refreshed(l) PROVE IInv'
  <2>1. verifying[l] # Idle /\ cached' \subseteq Key /\ left' \in 0 .. Ttl
    BY <1>0, <1>6, WorkingType DEF Refreshed, Idle, IInv
  <2> QED BY <1>6, <2>1, AskingStep, DoneStep DEF Refreshed
<1>7. ASSUME NEW l \in Login, RefreshFails(l) PROVE IInv'
  BY <1>0, <1>7, DoneStep DEF RefreshFails
<1>8. CASE UNCHANGED vars
  BY <1>8 DEF vars, IInv, TypeOK, AnswersAreRecent
<1> QED BY <1>1, <1>2, <1>3, <1>4, <1>5, <1>6, <1>7, <1>8 DEF Next

\* Only Refreshed refuses, and it looks the kid up in the answer it waited for.
LEMMA RefusalStep ==
    ASSUME IInv, [Next]_vars, NEW l \in Login,
           verifying[l] # Idle, verifying'[l] = Idle, outcome' = "refused"
    PROVE  verifying[l].kid \in withdrawn
<1>1. PICK m \in Login : Refreshed(m) /\ verifying[m].kid \notin verifying[m].keys
  BY DEF IInv, TypeOK, Next, vars, Tick, Publish, Withdraw, Begin, Look, KakaoAnswers,
         Refreshed, RefreshFails, Asking, Done, Idle
<1>2. m = l
  BY <1>1 DEF IInv, TypeOK, Refreshed, Done, Asking, Idle
<1> QED BY <1>1, <1>2 DEF IInv, AnswersAreRecent, Refreshed

-----------------------------------------------------------------------------

\* The cache and the callbacks keep their form.
THEOREM TypeCorrect == Spec => []TypeOK
<1>1. IInv => TypeOK
  BY DEF IInv
<1> QED BY <1>1, InitIInv, NextIInv, PTL DEF Spec

\* No interleaving of refreshes refuses a login whose key Kakao still serves.
THEOREM RefusalsAreJust == Spec => OnlyWithdrawnKeysAreRefused
<1>1. Spec => []IInv
  BY InitIInv, NextIInv, PTL DEF Spec
<1>2. IInv /\ [Next]_vars
        => [\A l \in Login :
              verifying[l] # Idle /\ verifying'[l] = Idle /\ outcome' = "refused"
                => verifying[l].kid \in withdrawn]_vars
  BY RefusalStep
<1> QED BY <1>1, <1>2, PTL DEF Spec, OnlyWithdrawnKeysAreRefused
=============================================================================
