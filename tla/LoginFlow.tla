------------------------------ MODULE LoginFlow ------------------------------
(***************************************************************************)
(* The Kakao login: GET /auth/kakao/start and GET /auth/kakao/callback     *)
(* (api/auth.py) over the attempts of auth/oauth.py.                       *)
(*                                                                         *)
(* start opens an attempt and leaves it in a cookie; Kakao sends the       *)
(* browser back with the attempt's state and a code; the callback spends   *)
(* the attempt, exchanges the code, checks the nonce and issues a session, *)
(* three awaits apart.  Tabs share one cookie jar, redirects are reloaded, *)
(* the process restarts.  Kakao and the browsers are external.  The keys   *)
(* the id_token is checked with are in JwksCache.                          *)
(***************************************************************************)
EXTENDS UserDatabase

CONSTANTS
    Browser,
    Callback,  \* callback requests in flight
    NoCookie,
    MaxApprovals,  \* bound: approvals Kakao sends back
    MaxClock   \* bound: the clock stops here

ASSUME LoginAssumption == NoCookie \notin Attempt

VARIABLES
    cookie,     \* the attempt cookie in each browser's jar
    startedIn,  \* attempts started so far, with the browser of each
    redirects,  \* what Kakao handed out: whose approval of which attempt
    usedCodes,  \* the codes Kakao has exchanged, which it does once
    handlers,   \* callbacks between their steps
    logins      \* sessions issued, with the attempt each came from

loginVars == <<cookie, startedIn, redirects, usedCodes, handlers, logins>>
vars == <<clock, tables, loginVars>>

\* A code stands for the approval it was given for: the id_token it buys has
\* the subject of that visitor and the nonce of that attempt.
Code == [attempt: Attempt, subject: Subject]
Idle == [stage |-> "idle"]
Exchanging == [stage: {"exchange"}, browser: Browser, attempt: Attempt, code: Code]
Issuing == [stage: {"issue"}, browser: Browser, attempt: Attempt, subject: Subject]

TypeOK ==
    /\ DatabaseTypeOK
    /\ cookie \in [Browser -> Attempt \cup {NoCookie}]
    /\ startedIn \subseteq [attempt: Attempt, browser: Browser]
    /\ redirects \subseteq Code
    /\ usedCodes \subseteq redirects
    /\ handlers \in [Callback -> {Idle} \cup Exchanging \cup Issuing]
    /\ logins \subseteq [attempt: Attempt, browser: Browser, subject: Subject, token: Token]

Init ==
    /\ DatabaseInit
    /\ cookie = [b \in Browser |-> NoCookie]
    /\ startedIn = {} /\ redirects = {} /\ usedCodes = {} /\ logins = {}
    /\ handlers = [r \in Callback |-> Idle]

\* What a handler may have read from the clock before it waited for the
\* connection.
Now == {n \in {clock, clock - 1} : n >= 0}

Tick ==
    /\ clock < MaxClock
    /\ clock' = clock + 1
    /\ UNCHANGED <<tables, loginVars>>

-----------------------------------------------------------------------------

Started(a) == \E x \in startedIn : x.attempt = a

\* A refused start (the cap) changes nothing and leads home; one that fails
\* after its commit leaves a row and no cookie.
Start(b, a) ==
    /\ ~Started(a)
    /\ \E now \in Now : CreateAttempt(a, now)
    /\ cookie' \in {cookie, [cookie EXCEPT ![b] = a]}
    /\ startedIn' = startedIn \cup {[attempt |-> a, browser |-> b]}
    /\ UNCHANGED <<clock, redirects, usedCodes, handlers, logins>>

\* Kakao, in the tab that was sent there: visitor s approves the login.
Approve(a, s) ==
    /\ Started(a)
    /\ Cardinality(redirects) < MaxApprovals
    /\ redirects' = redirects \cup {[attempt |-> a, subject |-> s]}
    /\ UNCHANGED <<clock, tables, cookie, startedIn, usedCodes, handlers, logins>>

\* Every answer of the callback clears the attempt cookie of the jar, which may
\* by then hold another tab's newer attempt.
Answer(r, b) ==
    /\ handlers' = [handlers EXCEPT ![r] = Idle]
    /\ cookie' = [cookie EXCEPT ![b] = NoCookie]

\* The callback of browser b arrives with the state and the code of its query;
\* the handler spends the attempt of the cookie, if state is its state.
Consume(r, b, state, code) ==
    /\ handlers[r] = Idle
    /\ cookie[b] = state
    /\ \E now \in Now : ConsumeAttempt(state, now)
    /\ handlers' = [handlers EXCEPT ![r] =
         [stage |-> "exchange", browser |-> b, attempt |-> state, code |-> code]]
    /\ UNCHANGED <<clock, cookie, startedIn, redirects, usedCodes, logins>>

\* No such open attempt, no code (the visitor declined), or a storage error: no
\* attempt is spent.  The check of the file modes can also fail after the
\* commit that spent it.
Reject(r, b) ==
    /\ handlers[r] = Idle
    /\ \/ UNCHANGED tables
       \/ \E now \in Now : cookie[b] # NoCookie /\ ConsumeAttempt(cookie[b], now)
    /\ Answer(r, b)
    /\ UNCHANGED <<clock, startedIn, redirects, usedCodes, logins>>

Exchange_noNonce(r) ==
    /\ handlers[r].stage = "exchange"
    /\ handlers[r].code \notin usedCodes
    /\ usedCodes' = usedCodes \cup {handlers[r].code}
    /\ handlers' = [handlers EXCEPT ![r] =
         [stage |-> "issue", browser |-> @.browser, attempt |-> @.attempt,
          subject |-> @.code.subject]]
    /\ UNCHANGED <<clock, tables, cookie, startedIn, redirects, logins>>
\* Kakao exchanges the code once; the nonce in the id_token must be the one of
\* the attempt that was spent.
Exchange(r) ==
    /\ handlers[r].stage = "exchange"
    /\ handlers[r].code \notin usedCodes
    /\ usedCodes' = usedCodes \cup {handlers[r].code}
    /\ \/ /\ handlers[r].code.attempt = handlers[r].attempt
          /\ handlers' = [handlers EXCEPT ![r] =
               [stage |-> "issue", browser |-> @.browser, attempt |-> @.attempt,
                subject |-> @.code.subject]]
          /\ UNCHANGED cookie
       \/ /\ handlers[r].code.attempt # handlers[r].attempt
          /\ Answer(r, handlers[r].browser)
    /\ UNCHANGED <<clock, tables, startedIn, redirects, logins>>

\* Kakao refuses, answers something else or does not answer, before or after
\* it used the code; or the id_token does not verify.  The attempt stays spent.
ExchangeFails(r) ==
    /\ handlers[r].stage = "exchange"
    /\ usedCodes' \in {usedCodes, usedCodes \cup {handlers[r].code}}
    /\ Answer(r, handlers[r].browser)
    /\ UNCHANGED <<clock, tables, startedIn, redirects, logins>>

\* The session row and, with the answer, the session cookie.
Issue(r, t) ==
    /\ handlers[r].stage = "issue"
    /\ \A l \in logins : l.token # t
    /\ \E now \in Now : UpsertUserAndInsertSession(handlers[r].subject, t, now)
    /\ logins' = logins \cup {[attempt |-> handlers[r].attempt, browser |-> handlers[r].browser,
                               subject |-> handlers[r].subject, token |-> t]}
    /\ Answer(r, handlers[r].browser)
    /\ UNCHANGED <<clock, startedIn, redirects, usedCodes>>

\* 503 AUTH_UNAVAILABLE, before the commit or after it; no cookie then names
\* the session.
IssueFails(r) ==
    /\ handlers[r].stage = "issue"
    /\ \/ UNCHANGED tables
       \/ \E t \in Token, now \in Now :
            /\ \A l \in logins : l.token # t
            /\ UpsertUserAndInsertSession(handlers[r].subject, t, now)
    /\ Answer(r, handlers[r].browser)
    /\ UNCHANGED <<clock, startedIn, redirects, usedCodes, logins>>

CleanUp(now) ==
    /\ RunOnce(now)
    /\ UNCHANGED <<clock, loginVars>>

\* The process stops and starts again: rows stay, handlers are gone.
Restart ==
    /\ \E r \in Callback : handlers[r] # Idle
    /\ handlers' = [r \in Callback |-> Idle]
    /\ UNCHANGED <<clock, tables, cookie, startedIn, redirects, usedCodes, logins>>

Next ==
    \/ Tick
    \/ \E b \in Browser, a \in Attempt : Start(b, a)
    \/ \E a \in Attempt, s \in Subject : Approve(a, s)
    \/ \E r \in Callback, b \in Browser, x \in startedIn, code \in redirects :
         Consume(r, b, x.attempt, code)
    \/ \E r \in Callback, b \in Browser : Reject(r, b)
    \/ \E r \in Callback : Exchange(r) \/ ExchangeFails(r) \/ IssueFails(r)
    \/ \E r \in Callback, t \in Token : Issue(r, t)
    \/ \E now \in Now : CleanUp(now)
    \/ Restart

Spec == Init /\ [][Next]_vars

-----------------------------------------------------------------------------
(* Properties *)

\* A login is of the visitor whose approval of that very attempt the code
\* stands for, and its cookies go to the browser that started the attempt:
\* neither another tab's redirect, nor another attempt's code, nor a reload
\* signs a browser in as somebody else.
LoginsAreApproved ==
    \A l \in logins :
        /\ [attempt |-> l.attempt, subject |-> l.subject] \in redirects
        /\ [attempt |-> l.attempt, browser |-> l.browser] \in startedIn

\* However logins are started, spent, expired and cleaned up, with clocks read
\* before the wait for the connection, the table stays within its cap.
AttemptsStayBounded == Cardinality(attempts) <= MaxActiveAttempts

\* Where an attempt is in its life (Started is above).
OpenRow(a) == \E x \in attempts : x.attempt = a /\ ~x.consumed
Held(a) == \E r \in Callback : handlers[r] # Idle /\ handlers[r].attempt = a
LoggedIn(a) == \E l \in logins : l.attempt = a

Phase(a) ==
    IF LoggedIn(a) THEN "done"
    ELSE IF Held(a) THEN "spent"
    ELSE IF OpenRow(a) THEN "open"
    ELSE IF Started(a) THEN "dead"
    ELSE "new"

\* The callbacks that go on from having spent attempt a, and the sessions that
\* came of it: as many as there are, so that the promise can refuse a second.
Holders(a) == {r \in Callback : handlers[r] # Idle /\ handlers[r].attempt = a}
Granted(a) == {l.token : l \in {x \in logins : x.attempt = a}}

Promise == INSTANCE OneTimeLogin WITH
    phase <- [a \in Attempt |-> Phase(a)],
    holders <- [a \in Attempt |-> Holders(a)],
    granted <- [a \in Attempt |-> Granted(a)]

\* An attempt is spent by one callback at most and gives one login at most,
\* whatever is reloaded, whichever tabs race, and wherever a restart or a
\* failed exchange leaves it: no second callback ever goes on from it, and no
\* second session is handed out.
ImplementsOneTimeLogin == Promise!Spec
=============================================================================
