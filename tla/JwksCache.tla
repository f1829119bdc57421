------------------------------ MODULE JwksCache ------------------------------
(***************************************************************************)
(* The keys KakaoOidcClient checks an id_token with (auth/oauth.py):       *)
(* _jwk_for_kid and _refresh_jwks.  Nothing serialises the refreshes of    *)
(* concurrent callbacks: each awaits Kakao's answer and then overwrites    *)
(* the cache with it, so an older answer can land on a newer one.  Kakao,  *)
(* which publishes and withdraws keys, is external.                        *)
(***************************************************************************)
EXTENDS Naturals, FiniteSets

CONSTANTS
    Key,    \* key ids Kakao may use
    Login,  \* callbacks verifying a token at a time
    Ttl     \* _JWKS_CACHE_SECONDS

ASSUME JwksAssumption == Ttl \in Nat \ {0}

VARIABLES
    published,  \* the keys Kakao serves now
    withdrawn,  \* the keys it served once
    cached,     \* _jwks_by_kid
    left,       \* time until _jwks_expires_at, 0 once past
    verifying,  \* per callback, where its _jwk_for_kid stands
    outcome     \* how the verification that ended in the last step ended

vars == <<published, withdrawn, cached, left, verifying, outcome>>

Idle == [stage |-> "idle"]
\* last: this is the one refresh an unknown kid gets.
Working ==
    [stage: {"look"}, kid: Key]
      \cup [stage: {"asked"}, kid: Key, last: BOOLEAN]
      \cup [stage: {"answered"}, kid: Key, last: BOOLEAN, keys: SUBSET Key]

TypeOK ==
    /\ published \subseteq Key /\ withdrawn \subseteq Key
    /\ cached \subseteq Key
    /\ left \in 0 .. Ttl
    /\ verifying \in [Login -> {Idle} \cup Working]
    /\ outcome \in {"none", "key", "refused", "failed"}

Init ==
    /\ \E k \in Key : published = {k}
    /\ withdrawn = {} /\ cached = {} /\ left = 0
    /\ verifying = [l \in Login |-> Idle]
    /\ outcome = "none"

Tick ==
    /\ left > 0
    /\ left' = left - 1
    /\ outcome' = "none"
    /\ UNCHANGED <<published, withdrawn, cached, verifying>>

Publish(k) ==
    /\ k \notin published \cup withdrawn
    /\ published' = published \cup {k}
    /\ outcome' = "none"
    /\ UNCHANGED <<withdrawn, cached, left, verifying>>

Withdraw(k) ==
    /\ k \in published /\ published # {k}
    /\ published' = published \ {k}
    /\ withdrawn' = withdrawn \cup {k}
    /\ outcome' = "none"
    /\ UNCHANGED <<cached, left, verifying>>

\* Kakao has answered the code with a token signed by one of its keys.
Begin(l, k) ==
    /\ verifying[l] = Idle
    /\ k \in published
    /\ verifying' = [verifying EXCEPT ![l] = [stage |-> "look", kid |-> k]]
    /\ outcome' = "none"
    /\ UNCHANGED <<published, withdrawn, cached, left>>

Asking(l, last) ==
    /\ verifying' = [verifying EXCEPT ![l] =
         [stage |-> "asked", kid |-> verifying[l].kid, last |-> last]]
    /\ outcome' = "none"

Done(l, o) ==
    /\ verifying' = [verifying EXCEPT ![l] = Idle]
    /\ outcome' = o

Look_neverRefreshes(l) ==
    /\ verifying[l].stage = "look"
    /\ \/ left = 0 /\ Asking(l, FALSE)
       \/ left > 0 /\ Done(l, IF verifying[l].kid \in cached THEN "key" ELSE "refused")
    /\ UNCHANGED <<published, withdrawn, cached, left>>
\* An expired cache is refreshed first; an unknown kid is a reason to refresh.
Look(l) ==
    /\ verifying[l].stage = "look"
    /\ \/ left = 0 /\ Asking(l, FALSE)
       \/ left > 0 /\ verifying[l].kid \notin cached /\ Asking(l, TRUE)
       \/ left > 0 /\ verifying[l].kid \in cached /\ Done(l, "key")
    /\ UNCHANGED <<published, withdrawn, cached, left>>

KakaoAnswers(l) ==
    /\ verifying[l].stage = "asked"
    /\ verifying' = [verifying EXCEPT ![l] =
         [stage |-> "answered", kid |-> @.kid, last |-> @.last, keys |-> published]]
    /\ outcome' = "none"
    /\ UNCHANGED <<published, withdrawn, cached, left>>

\* The refresh ends and the kid is looked up, with no await between: a kid the
\* answer has not is refreshed for once more, or refused.
Refreshed(l) ==
    /\ verifying[l].stage = "answered"
    /\ cached' = verifying[l].keys
    /\ left' = Ttl
    /\ \/ verifying[l].kid \in cached' /\ Done(l, "key")
       \/ verifying[l].kid \notin cached' /\ verifying[l].last /\ Done(l, "refused")
       \/ verifying[l].kid \notin cached' /\ ~verifying[l].last /\ Asking(l, TRUE)
    /\ UNCHANGED <<published, withdrawn>>

RefreshFails_keepsOld(l) ==
    /\ verifying[l].stage \in {"asked", "answered"}
    /\ left' = Ttl
    /\ Done(l, "failed")
    /\ UNCHANGED <<published, withdrawn, cached>>
\* A transport or schema failure refuses the login and leaves the cache alone.
RefreshFails(l) ==
    /\ verifying[l].stage \in {"asked", "answered"}
    /\ Done(l, "failed")
    /\ UNCHANGED <<published, withdrawn, cached, left>>

Next ==
    \/ Tick
    \/ \E k \in Key : Publish(k) \/ Withdraw(k)
    \/ \E l \in Login, k \in Key : Begin(l, k)
    \/ \E l \in Login : Look(l) \/ KakaoAnswers(l) \/ Refreshed(l) \/ RefreshFails(l)

Spec == Init /\ [][Next]_vars

\* Time passes, and the provider timeout ends every refresh one way or another.
FairSpec ==
    /\ Spec
    /\ WF_vars(Tick)
    /\ \A l \in Login : WF_vars(KakaoAnswers(l) \/ Refreshed(l) \/ RefreshFails(l))

-----------------------------------------------------------------------------
(* Properties *)

\* A login is refused for its key only if Kakao has withdrawn that key since it
\* signed the token, whatever older answers other logins put in the cache.
OnlyWithdrawnKeysAreRefused ==
    [][\A l \in Login :
         verifying[l] # Idle /\ verifying'[l] = Idle /\ outcome' = "refused"
           => verifying[l].kid \in withdrawn]_vars

\* A withdrawn key is eventually trusted no more, for good: an answer on its
\* way may bring it back, but not again and again, and a failing provider does
\* not keep it in use.
WithdrawnKeysAgeOut ==
    \A k \in Key : k \in withdrawn ~> [](left = 0 \/ k \notin cached)
=============================================================================
