----------------------------- MODULE LoginProofs -----------------------------
(***************************************************************************)
(* What holds of LoginFlow for any number of attempts, browsers, visitors  *)
(* and callbacks: the cap on attempts, whose login a session is, and that  *)
(* it implements OneTimeLogin.                                             *)
(***************************************************************************)
EXTENDS LoginFlow, FiniteSetTheorems, TLAPS

USE DatabaseAssumption, LoginAssumption

\* attempt_hash is the primary key of the table.
AttemptsAreKeyed == \A x, y \in attempts : x.attempt = y.attempt => x = y

AttemptsAreStarted == \A x \in attempts : Started(x.attempt)

\* A handler spent an attempt its browser had started, and one that has its
\* id_token verified has the visitor's approval of that attempt.
HandlersAreApproved ==
    \A r \in Callback : handlers[r] # Idle =>
        /\ [attempt |-> handlers[r].attempt, browser |-> handlers[r].browser] \in startedIn
        /\ handlers[r].stage = "exchange" => handlers[r].code \in redirects
        /\ handlers[r].stage = "issue" =>
             [attempt |-> handlers[r].attempt, subject |-> handlers[r].subject] \in redirects

CookiesAreStarted ==
    \A b \in Browser : cookie[b] # NoCookie =>
        [attempt |-> cookie[b], browser |-> b] \in startedIn

\* An attempt is open, spent or done, and no two of them; it is spent by one
\* handler.
OnePhase ==
    /\ \A a \in Attempt : Held(a) => ~OpenRow(a) /\ ~LoggedIn(a)
    /\ \A a \in Attempt : LoggedIn(a) => ~OpenRow(a)
    /\ \A r, q \in Callback :
         handlers[r] # Idle /\ handlers[q] # Idle /\ handlers[r].attempt = handlers[q].attempt
           => r = q

AttemptsAreFew == IsFiniteSet(attempts) /\ AttemptsStayBounded

\* The inductive invariant.  OnePhase is what makes a spent attempt useless to
\* every other callback; it needs the rows keyed and started, since a row of a
\* fresh attempt must not bring an old one back.
IInv ==
    /\ TypeOK
    /\ AttemptsAreKeyed
    /\ AttemptsAreStarted
    /\ AttemptsAreFew
    /\ HandlersAreApproved
    /\ CookiesAreStarted
    /\ LoginsAreApproved
    /\ OnePhase

-----------------------------------------------------------------------------
(* The repository calls *)

LEMMA NowIsNat == ASSUME TypeOK, NEW now \in Now PROVE now \in Nat
BY DEF Now, TypeOK, DatabaseTypeOK

LEMMA UpsertTypes ==
    ASSUME DatabaseTypeOK, NEW s \in Subject, NEW t \in Token, NEW now \in Nat,
           UpsertUserAndInsertSession(s, t, now), UNCHANGED clock
    PROVE  DatabaseTypeOK' /\ UNCHANGED attempts
BY DEF DatabaseTypeOK, UpsertUserAndInsertSession, User, Session

LEMMA RunOnceTypes ==
    ASSUME DatabaseTypeOK, NEW now, RunOnce(now), UNCHANGED clock
    PROVE  DatabaseTypeOK' /\ attempts' \subseteq attempts
BY DEF DatabaseTypeOK, RunOnce

\* Opening an attempt keeps the table within its cap.
LEMMA CreateKeeps ==
    ASSUME DatabaseTypeOK, IsFiniteSet(attempts), NEW a \in Attempt, NEW now \in Nat,
           CreateAttempt(a, now), UNCHANGED clock
    PROVE  /\ DatabaseTypeOK'
           /\ IsFiniteSet(attempts') /\ Cardinality(attempts') <= MaxActiveAttempts
           /\ \E y \in AttemptRow :
                /\ y.attempt = a /\ ~y.consumed /\ y \in attempts'
                /\ \A x \in attempts' : x = y \/ x \in attempts
<1> DEFINE live == {x \in attempts : x.expires > now}
           row == [attempt |-> a, expires |-> now + AttemptTtl, consumed |-> FALSE]
<1>1. row \in AttemptRow
  BY DEF AttemptRow
<1>2. attempts' = live \cup {row} /\ Cardinality(live) < MaxActiveAttempts
  BY DEF CreateAttempt
<1>3. IsFiniteSet(live)
  BY FS_Subset
<1>4. /\ IsFiniteSet(attempts')
      /\ Cardinality(attempts') = IF row \in live THEN Cardinality(live) ELSE Cardinality(live) + 1
  BY <1>2, <1>3, FS_AddElement
<1>5. Cardinality(live) \in Nat
  BY <1>3, FS_CardinalityType
<1>6. Cardinality(attempts') <= MaxActiveAttempts
  BY <1>2, <1>4, <1>5
<1>7. DatabaseTypeOK'
  BY <1>1, <1>2 DEF DatabaseTypeOK, CreateAttempt
<1>8. row.attempt = a /\ ~row.consumed /\ row \in attempts'
  BY <1>2
<1>9. \A x \in attempts' : x = row \/ x \in attempts
  BY <1>2
<1>10. \E y \in AttemptRow :
         /\ y.attempt = a /\ ~y.consumed /\ y \in attempts'
         /\ \A x \in attempts' : x = y \/ x \in attempts
  <2> HIDE DEF row
  <2> QED BY <1>1, <1>8, <1>9
<1> QED BY <1>4, <1>6, <1>7, <1>10

\* Spending an attempt marks its one row.
LEMMA ConsumeKeeps ==
    ASSUME DatabaseTypeOK, AttemptsAreKeyed, IsFiniteSet(attempts),
           NEW a \in Attempt, NEW now \in Nat, ConsumeAttempt(a, now), UNCHANGED clock
    PROVE  /\ DatabaseTypeOK'
           /\ IsFiniteSet(attempts') /\ Cardinality(attempts') <= Cardinality(attempts)
           /\ \E x \in attempts, y \in AttemptRow :
                /\ x.attempt = a /\ ~x.consumed
                /\ y.attempt = a /\ y.consumed
                /\ attempts' = (attempts \ {x}) \cup {y}
<1>1. PICK x \in OpenAttempt(a, now) : TRUE
  BY DEF ConsumeAttempt
<1> DEFINE y == [x EXCEPT !.consumed = TRUE]
<1>2. x \in attempts /\ x.attempt = a /\ ~x.consumed /\ x \in AttemptRow
  BY <1>1 DEF OpenAttempt, DatabaseTypeOK
<1>3. OpenAttempt(a, now) = {x}
  BY <1>1, <1>2 DEF OpenAttempt, AttemptsAreKeyed
<1>4. y \in AttemptRow /\ y.attempt = a /\ y.consumed
  BY <1>2 DEF AttemptRow
<1>5. attempts' = (attempts \ {x}) \cup {y}
  BY <1>3 DEF ConsumeAttempt
<1>6. /\ IsFiniteSet(attempts \ {x})
      /\ Cardinality(attempts \ {x}) = Cardinality(attempts) - 1
      /\ Cardinality(attempts) \in Nat
  BY <1>2, FS_RemoveElement, FS_CardinalityType
<1>7. /\ IsFiniteSet(attempts')
      /\ \/ Cardinality(attempts') = Cardinality(attempts \ {x})
         \/ Cardinality(attempts') = Cardinality(attempts \ {x}) + 1
  BY <1>5, <1>6, FS_AddElement
<1>8. DatabaseTypeOK'
  BY <1>2, <1>4, <1>5 DEF DatabaseTypeOK, ConsumeAttempt
<1>9. Cardinality(attempts') <= Cardinality(attempts)
  BY <1>6, <1>7
<1>10. \E z \in AttemptRow :
         z.attempt = a /\ z.consumed /\ attempts' = (attempts \ {x}) \cup {z}
  <2>1. y \in AttemptRow
    BY <1>4
  <2> HIDE DEF y
  <2> QED BY <1>4, <1>5, <2>1
<1> HIDE DEF y
<1> QED BY <1>2, <1>7, <1>8, <1>9, <1>10

-----------------------------------------------------------------------------
(* Lemmas about the handlers *)

LEMMA HandlerType ==
    ASSUME TypeOK, NEW r \in Callback
    PROVE  /\ handlers[r] \in {Idle} \cup Exchanging \cup Issuing
           /\ handlers[r] = Idle <=> handlers[r].stage = "idle"
           /\ handlers[r] # Idle => handlers[r].attempt \in Attempt /\ handlers[r].browser \in Browser
           /\ handlers[r].stage = "exchange" => handlers[r] \in Exchanging /\ handlers[r].code \in Code
           /\ handlers[r].stage = "issue" => handlers[r] \in Issuing /\ handlers[r].subject \in Subject
<1>1. handlers[r] \in {Idle} \cup Exchanging \cup Issuing
  BY DEF TypeOK
<1> QED BY <1>1 DEF Idle, Exchanging, Issuing

\* A handler that answers holds its attempt no more, and clears a cookie.
LEMMA AnswerEnds ==
    ASSUME TypeOK, NEW r \in Callback, NEW b \in Browser, Answer(r, b)
    PROVE  /\ handlers' \in [Callback -> {Idle} \cup Exchanging \cup Issuing]
           /\ handlers'[r] = Idle
           /\ \A q \in Callback : handlers'[q] # Idle => handlers'[q] = handlers[q]
           /\ cookie' \in [Browser -> Attempt \cup {NoCookie}]
           /\ \A c \in Browser : cookie'[c] = NoCookie \/ cookie'[c] = cookie[c]
BY DEF TypeOK, Answer

\* No handler starts, and no row, login or cookie comes in: what a step that
\* ends, loses or cleans up something leaves of the invariant.
LEMMA ShrinkingIInv ==
    ASSUME IInv, TypeOK', AttemptsAreFew', AttemptsAreKeyed',
           \A x \in attempts' : \E y \in attempts :
               x.attempt = y.attempt /\ (~x.consumed => ~y.consumed),
           \A q \in Callback : handlers'[q] # Idle => handlers'[q] = handlers[q],
           \A b \in Browser : cookie'[b] = NoCookie \/ cookie'[b] = cookie[b],
           redirects \subseteq redirects', UNCHANGED <<startedIn, logins>>
    PROVE  IInv'
<1>1. AttemptsAreStarted'
  BY DEF IInv, AttemptsAreStarted, Started
<1>2. HandlersAreApproved'
  BY DEF IInv, HandlersAreApproved
<1>3. CookiesAreStarted'
  BY DEF IInv, CookiesAreStarted
<1>4. LoginsAreApproved'
  BY DEF IInv, LoginsAreApproved
<1>5. \A a : OpenRow(a)' => OpenRow(a)
  BY DEF OpenRow
<1>6. \A a : Held(a)' => Held(a)
  BY DEF Held
<1>7. \A a : LoggedIn(a)' <=> LoggedIn(a)
  BY DEF LoggedIn
<1>8. OnePhase'
  BY <1>5, <1>6, <1>7 DEF IInv, OnePhase
<1> QED BY <1>1, <1>2, <1>3, <1>4, <1>8 DEF IInv

-----------------------------------------------------------------------------
(* The invariant, action by action *)

LEMMA InitIInv == Init => IInv
<1> SUFFICES ASSUME Init PROVE IInv
  OBVIOUS
<1> USE DEF Init, DatabaseInit
<1>1. TypeOK
  BY DEF TypeOK, DatabaseTypeOK
<1>2. AttemptsAreFew
  BY FS_EmptySet DEF AttemptsAreFew, AttemptsStayBounded
<1> QED BY <1>1, <1>2 DEF IInv, AttemptsAreKeyed, AttemptsAreStarted, HandlersAreApproved,
           CookiesAreStarted, LoginsAreApproved, OnePhase, Held, LoggedIn

LEMMA StartIInv ==
    ASSUME IInv, NEW b \in Browser, NEW a \in Attempt, Start(b, a)
    PROVE  IInv'
<1>1. PICK now \in Now : CreateAttempt(a, now)
  BY DEF Start
<1>2. /\ DatabaseTypeOK'
      /\ IsFiniteSet(attempts') /\ Cardinality(attempts') <= MaxActiveAttempts
      /\ \E y \in AttemptRow :
           /\ y.attempt = a /\ ~y.consumed /\ y \in attempts'
           /\ \A x \in attempts' : x = y \/ x \in attempts
  BY <1>1, NowIsNat, CreateKeeps DEF IInv, TypeOK, AttemptsAreFew, Start
<1>3. PICK y \in AttemptRow :
           /\ y.attempt = a /\ ~y.consumed /\ y \in attempts'
           /\ \A x \in attempts' : x = y \/ x \in attempts
  BY <1>2
<1> HIDE DEF AttemptRow
<1>4. ~Started(a)
  BY DEF Start
<1>5. TypeOK'
  BY <1>2 DEF IInv, TypeOK, Start
<1>6. \A x \in attempts : x.attempt # a
  BY <1>4 DEF IInv, AttemptsAreStarted
<1>7. AttemptsAreKeyed'
  BY <1>3, <1>6 DEF IInv, AttemptsAreKeyed
<1>8. AttemptsAreStarted'
  <2>1. startedIn \subseteq startedIn' /\ [attempt |-> a, browser |-> b] \in startedIn'
    BY DEF Start
  <2>2. Started(a)' /\ \A c : Started(c) => Started(c)'
    BY <2>1 DEF Started
  <2> QED BY <1>3, <2>2 DEF IInv, AttemptsAreStarted, Started
<1>9. HandlersAreApproved'
  BY DEF IInv, HandlersAreApproved, Start
<1>10. CookiesAreStarted'
  BY DEF IInv, TypeOK, CookiesAreStarted, Start
<1>11. LoginsAreApproved'
  BY DEF IInv, LoginsAreApproved, Start
<1>12. ~Held(a) /\ ~LoggedIn(a)
  BY <1>4 DEF IInv, Started, Held, HandlersAreApproved, LoggedIn, LoginsAreApproved
<1>13. \A x : /\ Held(x)' <=> Held(x)
              /\ LoggedIn(x)' <=> LoggedIn(x)
              /\ OpenRow(x)' => OpenRow(x) \/ x = a
  BY <1>3 DEF Held, LoggedIn, OpenRow, Start
<1>14. OnePhase'
  BY <1>12, <1>13 DEF IInv, OnePhase, Start
<1> QED BY <1>2, <1>5, <1>7, <1>8, <1>9, <1>10, <1>11, <1>14
        DEF IInv, AttemptsAreFew, AttemptsStayBounded

\* Spending the attempt of x leaves the rows keyed, and no open row of it.
LEMMA SpentRows ==
    ASSUME IInv, UNCHANGED clock, NEW a \in Attempt, NEW now \in Now, ConsumeAttempt(a, now)
    PROVE  /\ DatabaseTypeOK' /\ AttemptsAreKeyed' /\ AttemptsAreFew'
           /\ OpenRow(a) /\ ~OpenRow(a)'
           /\ \A x \in attempts' : \E y \in attempts :
                x.attempt = y.attempt /\ (~x.consumed => ~y.consumed)
           /\ \A c : c # a => (OpenRow(c)' <=> OpenRow(c))
<1>1. /\ DatabaseTypeOK'
      /\ IsFiniteSet(attempts') /\ Cardinality(attempts') <= Cardinality(attempts)
      /\ \E x \in attempts, y \in AttemptRow :
           /\ x.attempt = a /\ ~x.consumed
           /\ y.attempt = a /\ y.consumed
           /\ attempts' = (attempts \ {x}) \cup {y}
  BY NowIsNat, ConsumeKeeps DEF IInv, TypeOK, AttemptsAreFew
<1>2. PICK x \in attempts, y \in AttemptRow :
           /\ x.attempt = a /\ ~x.consumed
           /\ y.attempt = a /\ y.consumed
           /\ attempts' = (attempts \ {x}) \cup {y}
  BY <1>1
<1>3. \A z \in attempts : z.attempt = a => z = x
  BY <1>2 DEF IInv, AttemptsAreKeyed
<1>4. AttemptsAreKeyed'
  BY <1>2, <1>3 DEF IInv, AttemptsAreKeyed
<1>5. AttemptsAreFew'
  <2>1. Cardinality(attempts) \in Nat /\ Cardinality(attempts') \in Nat
    BY <1>1, FS_CardinalityType DEF IInv, AttemptsAreFew
  <2> QED BY <1>1, <2>1 DEF IInv, AttemptsAreFew, AttemptsStayBounded
<1>6. OpenRow(a) /\ ~OpenRow(a)'
  BY <1>2, <1>3 DEF OpenRow
<1>7. \A c : c # a => (OpenRow(c)' <=> OpenRow(c))
  BY <1>2 DEF OpenRow
<1>8. \A z \in attempts' : \E w \in attempts :
        z.attempt = w.attempt /\ (~z.consumed => ~w.consumed)
  BY <1>2
<1> QED BY <1>1, <1>4, <1>5, <1>6, <1>7, <1>8

LEMMA ConsumeIInv ==
    ASSUME IInv, NEW r \in Callback, NEW b \in Browser, NEW state \in Attempt,
           NEW code \in redirects, Consume(r, b, state, code)
    PROVE  IInv'
<1> DEFINE w == [stage |-> "exchange", browser |-> b, attempt |-> state, code |-> code]
<1>1. PICK now \in Now : ConsumeAttempt(state, now)
  BY DEF Consume
<1>2. /\ DatabaseTypeOK' /\ AttemptsAreKeyed' /\ AttemptsAreFew'
      /\ OpenRow(state) /\ ~OpenRow(state)'
      /\ \A x \in attempts' : \E y \in attempts :
           x.attempt = y.attempt /\ (~x.consumed => ~y.consumed)
      /\ \A c : c # state => (OpenRow(c)' <=> OpenRow(c))
  BY <1>1, SpentRows DEF Consume
<1>3. /\ handlers' = [handlers EXCEPT ![r] = w]
      /\ handlers[r] = Idle /\ cookie[b] = state /\ state # NoCookie
  BY DEF Consume
<1>4. /\ w \in Exchanging /\ w # Idle /\ w.attempt = state /\ w.browser = b
      /\ w.code = code /\ w.stage = "exchange"
  BY DEF Exchanging, Idle, IInv, TypeOK
<1> HIDE DEF w
<1>5. /\ handlers'[r] = w
      /\ \A q \in Callback : q # r => handlers'[q] = handlers[q]
  BY <1>3 DEF IInv, TypeOK
<1>6. TypeOK'
  BY <1>2, <1>3, <1>4 DEF IInv, TypeOK, Consume
<1>7. AttemptsAreStarted'
  BY <1>2 DEF IInv, AttemptsAreStarted, Started, Consume
<1>8. HandlersAreApproved'
  BY <1>3, <1>4, <1>5 DEF IInv, HandlersAreApproved, CookiesAreStarted, Consume
<1>9. CookiesAreStarted' /\ LoginsAreApproved'
  BY DEF IInv, CookiesAreStarted, LoginsAreApproved, Consume
<1>10. ~Held(state) /\ ~LoggedIn(state)
  BY <1>2 DEF IInv, OnePhase
<1>11. \A c : /\ Held(c)' <=> Held(c) \/ c = state
              /\ LoggedIn(c)' <=> LoggedIn(c)
  BY <1>3, <1>4, <1>5 DEF Held, LoggedIn, Consume
<1>12. OnePhase'
  <2>1. \A c \in Attempt : Held(c)' => ~OpenRow(c)' /\ ~LoggedIn(c)'
    BY <1>2, <1>10, <1>11 DEF IInv, OnePhase
  <2>2. \A c \in Attempt : LoggedIn(c)' => ~OpenRow(c)'
    BY <1>2, <1>11 DEF IInv, OnePhase
  <2>3. \A q \in Callback : handlers[q] # Idle => handlers[q].attempt # state
    BY <1>10 DEF Held
  <2>4. \A q, p \in Callback :
          handlers'[p] # Idle /\ handlers'[q] # Idle /\ handlers'[p].attempt = handlers'[q].attempt
            => p = q
    BY <1>4, <1>5, <2>3 DEF IInv, OnePhase
  <2> QED BY <2>1, <2>2, <2>4 DEF OnePhase
<1> QED BY <1>2, <1>6, <1>7, <1>8, <1>9, <1>12 DEF IInv

LEMMA RejectIInv ==
    ASSUME IInv, NEW r \in Callback, NEW b \in Browser, Reject(r, b)
    PROVE  IInv'
<1>1. /\ handlers' \in [Callback -> {Idle} \cup Exchanging \cup Issuing]
      /\ \A q \in Callback : handlers'[q] # Idle => handlers'[q] = handlers[q]
      /\ cookie' \in [Browser -> Attempt \cup {NoCookie}]
      /\ \A c \in Browser : cookie'[c] = NoCookie \/ cookie'[c] = cookie[c]
  BY AnswerEnds DEF Reject, IInv
<1>2. /\ DatabaseTypeOK' /\ AttemptsAreKeyed' /\ AttemptsAreFew'
      /\ \A x \in attempts' : \E y \in attempts :
           x.attempt = y.attempt /\ (~x.consumed => ~y.consumed)
  <2>1. CASE UNCHANGED tables
    BY <2>1 DEF tables, Reject, IInv, TypeOK, DatabaseTypeOK, AttemptsAreKeyed,
                AttemptsAreFew, AttemptsStayBounded
  <2>2. CASE \E now \in Now : cookie[b] # NoCookie /\ ConsumeAttempt(cookie[b], now)
    BY <2>2, SpentRows DEF Reject, IInv, TypeOK
  <2> QED BY <2>1, <2>2 DEF Reject
<1>3. TypeOK'
  BY <1>1, <1>2 DEF Reject, IInv, TypeOK
<1> QED BY <1>1, <1>2, <1>3, ShrinkingIInv DEF Reject

LEMMA ExchangeIInv ==
    ASSUME IInv, NEW r \in Callback, Exchange(r)
    PROVE  IInv'
<1>1. /\ handlers[r].stage = "exchange" /\ handlers[r] # Idle
      /\ handlers[r].code \in Code /\ handlers[r].attempt \in Attempt
      /\ handlers[r].browser \in Browser /\ handlers[r] \in Exchanging
  BY HandlerType DEF Exchange, IInv, Idle
<1>2. handlers[r].code \in redirects
  BY <1>1 DEF IInv, HandlersAreApproved
<1>3. CASE /\ handlers[r].code.attempt # handlers[r].attempt
           /\ Answer(r, handlers[r].browser)
  <2>1. /\ handlers' \in [Callback -> {Idle} \cup Exchanging \cup Issuing]
        /\ \A q \in Callback : handlers'[q] # Idle => handlers'[q] = handlers[q]
        /\ cookie' \in [Browser -> Attempt \cup {NoCookie}]
        /\ \A c \in Browser : cookie'[c] = NoCookie \/ cookie'[c] = cookie[c]
    BY <1>1, <1>3, AnswerEnds DEF IInv
  <2>2. TypeOK' /\ AttemptsAreKeyed' /\ AttemptsAreFew'
    BY <1>2, <2>1 DEF Exchange, tables, IInv, TypeOK, DatabaseTypeOK, AttemptsAreKeyed,
                      AttemptsAreFew, AttemptsStayBounded
  <2> QED BY <2>1, <2>2, ShrinkingIInv DEF Exchange, tables
<1>4. CASE /\ handlers[r].code.attempt = handlers[r].attempt
           /\ handlers' = [handlers EXCEPT ![r] =
                [stage |-> "issue", browser |-> @.browser, attempt |-> @.attempt,
                 subject |-> @.code.subject]]
           /\ UNCHANGED cookie
  <2> DEFINE w == [stage |-> "issue", browser |-> handlers[r].browser,
                   attempt |-> handlers[r].attempt, subject |-> handlers[r].code.subject]
  <2>1. handlers' = [handlers EXCEPT ![r] = w]
    BY <1>4 DEF IInv, TypeOK
  <2>2. /\ w \in Issuing /\ w # Idle /\ w.attempt = handlers[r].attempt
        /\ w.browser = handlers[r].browser /\ w.stage = "issue"
        /\ [attempt |-> w.attempt, subject |-> w.subject] = handlers[r].code
    BY <1>1, <1>4 DEF Issuing, Idle, Code
  <2> HIDE DEF w
  <2>3. /\ handlers'[r] = w
        /\ \A q \in Callback : q # r => handlers'[q] = handlers[q]
    BY <2>1 DEF IInv, TypeOK
  <2>4. TypeOK'
    BY <1>2, <1>4, <2>1, <2>2 DEF Exchange, tables, IInv, TypeOK, DatabaseTypeOK
  <2>5. AttemptsAreKeyed' /\ AttemptsAreStarted' /\ AttemptsAreFew' /\ CookiesAreStarted'
         /\ LoginsAreApproved'
    BY <1>4 DEF Exchange, tables, IInv, AttemptsAreKeyed, AttemptsAreStarted, Started,
                AttemptsAreFew, AttemptsStayBounded, CookiesAreStarted, LoginsAreApproved
  <2>6. HandlersAreApproved'
    BY <1>1, <1>2, <2>2, <2>3 DEF Exchange, IInv, HandlersAreApproved
  <2>7. \A c : /\ Held(c)' <=> Held(c)
               /\ LoggedIn(c)' <=> LoggedIn(c)
               /\ OpenRow(c)' <=> OpenRow(c)
    BY <1>1, <2>2, <2>3 DEF Held, LoggedIn, OpenRow, Exchange, tables
  <2>8. OnePhase'
    BY <1>1, <2>2, <2>3, <2>7 DEF IInv, OnePhase
  <2> QED BY <2>4, <2>5, <2>6, <2>8 DEF IInv
<1> QED BY <1>3, <1>4 DEF Exchange

LEMMA FailIInv ==
    ASSUME IInv, NEW r \in Callback, ExchangeFails(r) \/ IssueFails(r)
    PROVE  IInv'
<1>1. handlers[r] # Idle /\ handlers[r].browser \in Browser
  BY HandlerType DEF ExchangeFails, IssueFails, IInv, Idle
<1>2. /\ handlers' \in [Callback -> {Idle} \cup Exchanging \cup Issuing]
      /\ \A q \in Callback : handlers'[q] # Idle => handlers'[q] = handlers[q]
      /\ cookie' \in [Browser -> Attempt \cup {NoCookie}]
      /\ \A c \in Browser : cookie'[c] = NoCookie \/ cookie'[c] = cookie[c]
  BY <1>1, AnswerEnds DEF ExchangeFails, IssueFails, IInv
<1>3. DatabaseTypeOK' /\ UNCHANGED attempts
  <2>1. CASE UNCHANGED tables /\ UNCHANGED clock
    BY <2>1 DEF tables, IInv, TypeOK, DatabaseTypeOK
  <2>2. CASE IssueFails(r)
    BY <2>1, <2>2, NowIsNat, UpsertTypes, HandlerType DEF IssueFails, IInv, TypeOK
  <2> QED BY <2>1, <2>2 DEF ExchangeFails
<1>4. usedCodes' \subseteq redirects
  <2>1. usedCodes \subseteq redirects
    BY DEF IInv, TypeOK
  <2>2. handlers[r].stage = "exchange" => handlers[r].code \in redirects
    BY <1>1 DEF IInv, HandlersAreApproved
  <2> QED BY <2>1, <2>2 DEF ExchangeFails, IssueFails
<1>5. TypeOK' /\ AttemptsAreKeyed' /\ AttemptsAreFew'
  BY <1>2, <1>3, <1>4 DEF ExchangeFails, IssueFails, IInv, TypeOK, AttemptsAreKeyed,
                         AttemptsAreFew, AttemptsStayBounded
<1> QED BY <1>2, <1>3, <1>5, ShrinkingIInv DEF ExchangeFails, IssueFails

LEMMA IssueIInv ==
    ASSUME IInv, NEW r \in Callback, NEW t \in Token, Issue(r, t)
    PROVE  IInv'
<1> DEFINE l == [attempt |-> handlers[r].attempt, browser |-> handlers[r].browser,
                 subject |-> handlers[r].subject, token |-> t]
<1>1. /\ handlers[r].stage = "issue" /\ handlers[r] # Idle
      /\ handlers[r].browser \in Browser /\ handlers[r].attempt \in Attempt
      /\ handlers[r].subject \in Subject
  BY HandlerType DEF Issue, IInv, Idle
<1>2. /\ handlers' \in [Callback -> {Idle} \cup Exchanging \cup Issuing]
      /\ handlers'[r] = Idle
      /\ \A q \in Callback : handlers'[q] # Idle => handlers'[q] = handlers[q]
      /\ cookie' \in [Browser -> Attempt \cup {NoCookie}]
      /\ \A c \in Browser : cookie'[c] = NoCookie \/ cookie'[c] = cookie[c]
  BY <1>1, AnswerEnds DEF Issue, IInv
<1>3. DatabaseTypeOK' /\ UNCHANGED attempts
  BY <1>1, NowIsNat, UpsertTypes DEF Issue, IInv, TypeOK
<1>4. /\ logins' = logins \cup {l}
      /\ l.attempt = handlers[r].attempt /\ l.browser = handlers[r].browser
      /\ l.subject = handlers[r].subject
      /\ l \in [attempt: Attempt, browser: Browser, subject: Subject, token: Token]
  BY <1>1 DEF Issue
<1> HIDE DEF l
<1>5. TypeOK'
  BY <1>1, <1>2, <1>3, <1>4 DEF Issue, IInv, TypeOK
<1>6. AttemptsAreKeyed' /\ AttemptsAreStarted' /\ AttemptsAreFew' /\ CookiesAreStarted'
       /\ HandlersAreApproved'
  BY <1>2, <1>3 DEF Issue, IInv, AttemptsAreKeyed, AttemptsAreStarted, Started, AttemptsAreFew,
                    AttemptsStayBounded, CookiesAreStarted, HandlersAreApproved
<1>7. LoginsAreApproved'
  BY <1>1, <1>4 DEF Issue, IInv, LoginsAreApproved, HandlersAreApproved
<1>8. \A c : /\ Held(c)' => Held(c) /\ c # handlers[r].attempt
             /\ LoggedIn(c)' <=> LoggedIn(c) \/ c = handlers[r].attempt
             /\ OpenRow(c)' <=> OpenRow(c)
  <2>1. \A c : LoggedIn(c)' <=> LoggedIn(c) \/ c = handlers[r].attempt
    BY <1>4 DEF LoggedIn
  <2>2. \A c : Held(c)' => Held(c) /\ c # handlers[r].attempt
    BY <1>1, <1>2 DEF Held, IInv, OnePhase
  <2>3. \A c : OpenRow(c)' <=> OpenRow(c)
    BY <1>3 DEF OpenRow
  <2> QED BY <2>1, <2>2, <2>3
<1>9. Held(handlers[r].attempt)
  BY <1>1 DEF Held
<1>10. OnePhase'
  BY <1>1, <1>2, <1>8, <1>9 DEF IInv, OnePhase
<1> QED BY <1>5, <1>6, <1>7, <1>10 DEF IInv

LEMMA CleanUpIInv ==
    ASSUME IInv, NEW now \in Now, CleanUp(now)
    PROVE  IInv'
<1>1. DatabaseTypeOK' /\ attempts' \subseteq attempts
  BY RunOnceTypes DEF CleanUp, IInv, TypeOK
<1>2. IsFiniteSet(attempts') /\ Cardinality(attempts') <= Cardinality(attempts)
  BY <1>1, FS_Subset DEF IInv, AttemptsAreFew
<1>3. AttemptsAreFew'
  <2>1. Cardinality(attempts) \in Nat /\ Cardinality(attempts') \in Nat
    BY <1>2, FS_CardinalityType DEF IInv, AttemptsAreFew
  <2> QED BY <1>2, <2>1 DEF IInv, AttemptsAreFew, AttemptsStayBounded
<1>4. TypeOK' /\ AttemptsAreKeyed'
  BY <1>1 DEF CleanUp, loginVars, IInv, TypeOK, AttemptsAreKeyed
<1> QED BY <1>1, <1>3, <1>4, ShrinkingIInv DEF CleanUp, loginVars

LEMMA NextIInv == IInv /\ [Next]_vars => IInv'
<1> SUFFICES ASSUME IInv, [Next]_vars PROVE IInv'
  OBVIOUS
<1> USE DEF tables, loginVars
<1>1. ASSUME /\ TypeOK' /\ UNCHANGED <<attempts, cookie, startedIn, logins>>
             /\ \A q \in Callback : handlers'[q] # Idle => handlers'[q] = handlers[q]
             /\ redirects \subseteq redirects'
      PROVE  IInv'
  <2>1. AttemptsAreFew' /\ AttemptsAreKeyed'
    BY <1>1 DEF IInv, AttemptsAreFew, AttemptsStayBounded, AttemptsAreKeyed
  <2> QED BY <1>1, <2>1, ShrinkingIInv
<1>2. CASE Tick
  BY <1>1, <1>2 DEF Tick, IInv, TypeOK, DatabaseTypeOK
<1>3. ASSUME NEW b \in Browser, NEW a \in Attempt, Start(b, a) PROVE IInv'
  BY <1>3, StartIInv
<1>4. ASSUME NEW a \in Attempt, NEW s \in Subject, Approve(a, s) PROVE IInv'
  <2>1. TypeOK'
    BY <1>4 DEF Approve, IInv, TypeOK, DatabaseTypeOK, Code
  <2> QED BY <1>1, <1>4, <2>1 DEF Approve
<1>5. ASSUME NEW r \in Callback, NEW b \in Browser, NEW x \in startedIn, NEW code \in redirects,
             Consume(r, b, x.attempt, code)
      PROVE  IInv'
  BY <1>5, ConsumeIInv DEF IInv, TypeOK
<1>6. ASSUME NEW r \in Callback, NEW b \in Browser, Reject(r, b) PROVE IInv'
  BY <1>6, RejectIInv
<1>7. ASSUME NEW r \in Callback, Exchange(r) \/ ExchangeFails(r) \/ IssueFails(r) PROVE IInv'
  BY <1>7, ExchangeIInv, FailIInv
<1>8. ASSUME NEW r \in Callback, NEW t \in Token, Issue(r, t) PROVE IInv'
  BY <1>8, IssueIInv
<1>9. ASSUME NEW now \in Now, CleanUp(now) PROVE IInv'
  BY <1>9, CleanUpIInv
<1>10. CASE Restart
  <2>1. TypeOK' /\ \A q \in Callback : handlers'[q] = Idle
    BY <1>10 DEF Restart, IInv, TypeOK, DatabaseTypeOK
  <2> QED BY <1>1, <1>10, <2>1 DEF Restart
<1>11. CASE UNCHANGED vars
  BY <1>1, <1>11 DEF vars, IInv, TypeOK, DatabaseTypeOK
<1> QED BY <1>2, <1>3, <1>4, <1>5, <1>6, <1>7, <1>8, <1>9, <1>10, <1>11 DEF Next

-----------------------------------------------------------------------------
(* The refinement *)

LEMMA ActiveIsStarted ==
    ASSUME IInv, NEW a \in Attempt, Held(a) \/ OpenRow(a) \/ LoggedIn(a)
    PROVE  Started(a)
BY DEF Held, OpenRow, LoggedIn, Started, IInv, HandlersAreApproved, AttemptsAreStarted,
       LoginsAreApproved

Mapped == <<[a \in Attempt |-> Phase(a)], [a \in Attempt |-> Holders(a)],
            [a \in Attempt |-> Granted(a)]>>

\* A spent attempt has one holder, no other has any, and only a finished one has
\* a session.
LEMMA OneHolder ==
    ASSUME IInv, NEW a \in Attempt
    PROVE  /\ Phase(a) = "spent" <=> Held(a)
           /\ Held(a) <=> Holders(a) # {}
           /\ \A r \in Holders(a) : Holders(a) = {r}
           /\ ~LoggedIn(a) => Granted(a) = {}
<1>1. Phase(a) = "spent" <=> Held(a)
  BY DEF Phase, IInv, OnePhase
<1>2. Held(a) <=> Holders(a) # {}
  BY DEF Held, Holders
<1>3. \A r \in Holders(a) : Holders(a) = {r}
  BY DEF Holders, IInv, OnePhase
<1>4. ~LoggedIn(a) => Granted(a) = {}
  BY DEF LoggedIn, Granted
<1> QED BY <1>1, <1>2, <1>3, <1>4

\* Where the attempts stand follows from the four questions Phase asks; a step
\* after which nothing new is started, open, held or logged in only ends some.
LEMMA DyingStep ==
    ASSUME IInv, IInv', UNCHANGED logins,
           \A a \in Attempt : /\ Started(a)' <=> Started(a)
                              /\ Holders(a)' \subseteq Holders(a)
                              /\ OpenRow(a)' => OpenRow(a)
    PROVE  Promise!Next
<1> DEFINE S == {a \in Attempt : Phase(a) \in {"open", "spent"} /\ Phase(a)' = "dead"}
<1>1. \A a \in Attempt : Held(a) \/ OpenRow(a) => Started(a)
  BY ActiveIsStarted
<1>2. \A a \in Attempt : /\ LoggedIn(a)' <=> LoggedIn(a)
                         /\ Granted(a)' = Granted(a)
                         /\ Held(a)' <=> Holders(a)' # {}
                         /\ Held(a)' => Held(a)
  BY DEF LoggedIn, Granted, Held, Holders
<1>3. \A a \in Attempt : Phase(a)' = IF a \in S THEN "dead" ELSE Phase(a)
  BY <1>1, <1>2 DEF Phase, IInv, OnePhase
<1>4. \A a \in Attempt : Holders(a)' = IF a \in S THEN {} ELSE Holders(a)
  <2> SUFFICES ASSUME NEW a \in Attempt
               PROVE  Holders(a)' = IF a \in S THEN {} ELSE Holders(a)
    OBVIOUS
  <2>1. CASE a \in S
    <3>1. ~Held(a)'
      BY <2>1 DEF Phase
    <3> QED BY <1>2, <2>1, <3>1
  <2>2. CASE a \notin S /\ Held(a)
    <3>1. Phase(a)' = "spent"
      BY <1>3, <2>2, OneHolder
    <3>2. Holders(a)' # {}
      BY <1>2, <3>1 DEF Phase
    <3>3. PICK r \in Holders(a)' : TRUE
      BY <3>2
    <3>4. r \in Holders(a) /\ Holders(a) = {r}
      BY <3>3, OneHolder
    <3> QED BY <2>2, <3>3, <3>4
  <2>3. CASE a \notin S /\ ~Held(a)
    BY <2>3, OneHolder
  <2> QED BY <2>1, <2>2, <2>3
<1> HIDE DEF S
<1>5. Promise!Die(S)
  BY <1>2, <1>3, <1>4 DEF S, Promise!Die, Promise!Dying
<1>6. S \in SUBSET Attempt
  BY DEF S
<1> QED BY <1>5, <1>6 DEF Promise!Next

LEMMA StartStep ==
    ASSUME IInv, IInv', NEW b \in Browser, NEW a \in Attempt, Start(b, a)
    PROVE  Promise!Next
<1> DEFINE S == {c \in Attempt : Phase(c) = "open" /\ Phase(c)' = "dead"}
<1>1. PICK now \in Now : CreateAttempt(a, now)
  BY DEF Start
<1>2. PICK y \in AttemptRow :
           /\ y.attempt = a /\ ~y.consumed /\ y \in attempts'
           /\ \A x \in attempts' : x = y \/ x \in attempts
  BY <1>1, NowIsNat, CreateKeeps DEF IInv, TypeOK, AttemptsAreFew, Start
<1>3. \A c : /\ Held(c)' <=> Held(c)
             /\ LoggedIn(c)' <=> LoggedIn(c)
             /\ OpenRow(c)' => OpenRow(c) \/ c = a
  BY <1>2 DEF Held, LoggedIn, OpenRow, Start
<1>4. OpenRow(a)'
  BY <1>2 DEF OpenRow
<1>5. \A c : Started(c)' <=> Started(c) \/ c = a
  <2>1. startedIn' = startedIn \cup {[attempt |-> a, browser |-> b]}
    BY DEF Start
  <2>2. [attempt |-> a, browser |-> b].attempt = a
    OBVIOUS
  <2> QED BY <2>1, <2>2 DEF Started
<1>6. \A c \in Attempt : Held(c) \/ OpenRow(c) \/ LoggedIn(c) => Started(c)
  BY ActiveIsStarted
<1>7. ~Started(a)
  BY DEF Start
<1>8. Phase(a) = "new" /\ Phase(a)' = "open"
  BY <1>3, <1>4, <1>6, <1>7 DEF Phase
<1>9. \A c \in Attempt \ {a} : Phase(c)' = IF c \in S THEN "dead" ELSE Phase(c)
  BY <1>3, <1>5, <1>6 DEF Phase
<1>10. \A c \in Attempt : Holders(c)' = Holders(c) /\ Granted(c)' = Granted(c)
  BY DEF Holders, Granted, Start
<1>11. \A c \in S : c \in Attempt /\ Phase(c) = "open"
  OBVIOUS
<1>12. S \in SUBSET Attempt
  OBVIOUS
<1> HIDE DEF S
<1>13. \A c \in Attempt \ {a} :
         Phase(c)' = IF c \in S /\ Phase(c) \in {"open", "spent"} THEN "dead" ELSE Phase(c)
  BY <1>9, <1>11
<1>14. Promise!Open(a, S)
  BY <1>8, <1>10, <1>11, <1>13 DEF Promise!Open, Promise!Dying
<1> QED BY <1>12, <1>14 DEF Promise!Next

LEMMA ConsumeStep ==
    ASSUME IInv, IInv', NEW r \in Callback, NEW b \in Browser, NEW state \in Attempt,
           NEW code \in redirects, Consume(r, b, state, code)
    PROVE  Promise!Next
<1>1. PICK now \in Now : ConsumeAttempt(state, now)
  BY DEF Consume
<1>2. OpenRow(state) /\ \A c : c # state => (OpenRow(c)' <=> OpenRow(c))
  BY <1>1, SpentRows DEF Consume
<1> DEFINE w == [stage |-> "exchange", browser |-> b, attempt |-> state, code |-> code]
<1>3. /\ w # Idle /\ w.attempt = state
      /\ handlers' = [handlers EXCEPT ![r] = w] /\ handlers[r] = Idle
  BY DEF Consume, Idle
<1> HIDE DEF w
<1>4. handlers'[r] = w /\ \A q \in Callback : q # r => handlers'[q] = handlers[q]
  BY <1>3 DEF IInv, TypeOK
<1>5. \A c : Held(c)' <=> Held(c) \/ c = state
  BY <1>3, <1>4 DEF Held
<1>6. \A c : (LoggedIn(c)' <=> LoggedIn(c)) /\ (Started(c)' <=> Started(c))
  BY DEF LoggedIn, Started, Consume
<1>7. Phase(state) = "open" /\ Phase(state)' = "spent"
  BY <1>2, <1>5, <1>6 DEF Phase, IInv, OnePhase
<1>8. \A c \in Attempt \ {state} : Phase(c)' = Phase(c)
  BY <1>2, <1>5, <1>6 DEF Phase
<1>9. ~Held(state)
  BY <1>2 DEF IInv, OnePhase
<1>10. Holders(state) = {} /\ Holders(state)' = {r}
  BY <1>3, <1>4, <1>9 DEF Held, Holders
<1>11. \A c \in Attempt \ {state} : Holders(c)' = Holders(c)
  BY <1>3, <1>4 DEF Holders
<1>12. \A c \in Attempt : Granted(c)' = Granted(c)
  BY DEF Granted, Consume
<1>13. Promise!Spend(state, r)
  BY <1>7, <1>8, <1>10, <1>11, <1>12 DEF Promise!Spend
<1> QED BY <1>13 DEF Promise!Next

LEMMA IssueStep ==
    ASSUME IInv, IInv', NEW r \in Callback, NEW t \in Token, Issue(r, t)
    PROVE  Promise!Next
<1> PICK a \in Attempt : a = handlers[r].attempt
  BY HandlerType DEF Issue, IInv, Idle
<1>1. handlers[r] # Idle
  BY HandlerType DEF Issue, IInv, Idle
<1>2. /\ handlers'[r] = Idle
      /\ \A q \in Callback : q # r => handlers'[q] = handlers[q]
  BY DEF Issue, Answer, IInv, TypeOK
<1>3. PICK l : logins' = logins \cup {l} /\ l.attempt = a /\ l.token = t
  <2> DEFINE l == [attempt |-> handlers[r].attempt, browser |-> handlers[r].browser,
                   subject |-> handlers[r].subject, token |-> t]
  <2>1. logins' = logins \cup {l} /\ l.attempt = a /\ l.token = t
    BY DEF Issue
  <2> HIDE DEF l
  <2> QED BY <2>1
<1>4. UNCHANGED attempts
  BY NowIsNat, UpsertTypes, HandlerType DEF Issue, IInv, TypeOK
<1>5. \A c : LoggedIn(c)' <=> LoggedIn(c) \/ c = a
  BY <1>3 DEF LoggedIn
<1>6. \A c : c # a => (Held(c)' <=> Held(c))
  BY <1>2 DEF Held
<1>7. Held(a)
  BY <1>1 DEF Held
<1>8. \A c : (OpenRow(c)' <=> OpenRow(c)) /\ (Started(c)' <=> Started(c))
  BY <1>4 DEF OpenRow, Started, Issue
<1>9. Phase(a) = "spent" /\ Phase(a)' = "done"
  BY <1>5, <1>7 DEF Phase, IInv, OnePhase
<1>10. \A c \in Attempt \ {a} : Phase(c)' = Phase(c)
  BY <1>5, <1>6, <1>8 DEF Phase
<1>11. Holders(a) = {r} /\ Holders(a)' = {}
  <2>1. r \in Holders(a)
    BY <1>1 DEF Holders
  <2>2. \A q \in Callback : q # r => q \notin Holders(a)
    BY <2>1, OneHolder
  <2> QED BY <1>2, <2>1, <2>2 DEF Holders
<1>12. \A c \in Attempt \ {a} : Holders(c)' = Holders(c)
  BY <1>1, <1>2 DEF Holders
<1>13. Granted(a) = {} /\ Granted(a)' = {t}
  <2>1. ~LoggedIn(a)
    BY <1>7 DEF IInv, OnePhase
  <2> QED BY <1>3, <2>1 DEF LoggedIn, Granted
<1>14. \A c \in Attempt \ {a} : Granted(c)' = Granted(c)
  BY <1>3 DEF Granted
<1>15. Promise!Complete(a, r, t)
  BY <1>9, <1>10, <1>11, <1>12, <1>13, <1>14 DEF Promise!Complete
<1> QED BY <1>15 DEF Promise!Next

LEMMA NextStep == IInv /\ IInv' /\ [Next]_vars => [Promise!Next]_Mapped
<1> SUFFICES ASSUME IInv, IInv', [Next]_vars
             PROVE  [Promise!Next]_Mapped
  OBVIOUS
<1> USE DEF tables, loginVars
<1>1. ASSUME /\ UNCHANGED <<startedIn, logins>>
             /\ \A x \in attempts' : \E y \in attempts :
                  x.attempt = y.attempt /\ (~x.consumed => ~y.consumed)
             /\ \A q \in Callback : handlers'[q] # Idle =>
                  handlers[q] # Idle /\ handlers'[q].attempt = handlers[q].attempt
      PROVE  Promise!Next
  <2>1. \A a : /\ Started(a)' <=> Started(a)
               /\ Holders(a)' \subseteq Holders(a)
               /\ OpenRow(a)' => OpenRow(a)
    BY <1>1 DEF Started, Holders, OpenRow
  <2> QED BY <1>1, <2>1, DyingStep
<1>2. CASE Tick \/ UNCHANGED vars
  BY <1>1, <1>2 DEF Tick, vars
<1>3. ASSUME NEW b \in Browser, NEW a \in Attempt, Start(b, a) PROVE Promise!Next
  BY <1>3, StartStep
<1>4. ASSUME NEW a \in Attempt, NEW s \in Subject, Approve(a, s)
      PROVE  Promise!Next
  BY <1>1, <1>4 DEF Approve
<1>5. ASSUME NEW r \in Callback, NEW b \in Browser, NEW x \in startedIn, NEW code \in redirects,
             Consume(r, b, x.attempt, code)
      PROVE  Promise!Next
  BY <1>5, ConsumeStep DEF IInv, TypeOK
<1>6. ASSUME NEW r \in Callback, NEW b \in Browser, Reject(r, b)
      PROVE  Promise!Next
  <2>1. \A q \in Callback : handlers'[q] # Idle => handlers'[q] = handlers[q]
    BY <1>6, AnswerEnds DEF Reject, IInv
  <2>2. \A x \in attempts' : \E y \in attempts :
          x.attempt = y.attempt /\ (~x.consumed => ~y.consumed)
    BY <1>6, SpentRows DEF Reject, IInv, TypeOK
  <2> QED BY <1>1, <1>6, <2>1, <2>2 DEF Reject
<1>7. ASSUME NEW r \in Callback, Exchange(r) \/ ExchangeFails(r) \/ IssueFails(r)
      PROVE  Promise!Next
  <2>1. handlers[r] # Idle /\ handlers[r].browser \in Browser
    BY <1>7, HandlerType DEF Exchange, ExchangeFails, IssueFails, IInv, Idle
  <2>2. \A q \in Callback : handlers'[q] # Idle =>
          handlers[q] # Idle /\ handlers'[q].attempt = handlers[q].attempt
    <3>1. CASE Answer(r, handlers[r].browser)
      BY <2>1, <3>1, AnswerEnds DEF IInv
    <3>2. CASE handlers' = [handlers EXCEPT ![r] =
                 [stage |-> "issue", browser |-> @.browser, attempt |-> @.attempt,
                  subject |-> @.code.subject]]
      BY <2>1, <3>2 DEF IInv, TypeOK
    <3> QED BY <1>7, <3>1, <3>2 DEF Exchange, ExchangeFails, IssueFails
  <2>3. UNCHANGED attempts
    BY <1>7, NowIsNat, UpsertTypes, HandlerType
       DEF Exchange, ExchangeFails, IssueFails, IInv, TypeOK
  <2> QED BY <1>1, <1>7, <2>2, <2>3 DEF Exchange, ExchangeFails, IssueFails
<1>8. ASSUME NEW r \in Callback, NEW t \in Token, Issue(r, t) PROVE Promise!Next
  BY <1>8, IssueStep
<1>9. ASSUME NEW now \in Now, CleanUp(now)
      PROVE  Promise!Next
  <2>1. attempts' \subseteq attempts
    BY <1>9, RunOnceTypes DEF CleanUp, IInv, TypeOK
  <2> QED BY <1>1, <1>9, <2>1 DEF CleanUp
<1>10. CASE Restart
  <2>1. \A q \in Callback : handlers'[q] = Idle
    BY <1>10 DEF Restart
  <2> QED BY <1>1, <1>10, <2>1 DEF Restart
<1> QED BY <1>2, <1>3, <1>4, <1>5, <1>6, <1>7, <1>8, <1>9, <1>10 DEF Next

-----------------------------------------------------------------------------
(* Theorems *)

\* The inductive invariant holds of every reachable state.
THEOREM Invariance == Spec => []IInv
<1> QED BY InitIInv, NextIInv, PTL DEF Spec

\* The tables, cookies and handlers keep their form.
THEOREM TypeCorrect == Spec => []TypeOK
<1>1. IInv => TypeOK
  BY DEF IInv
<1> QED BY <1>1, Invariance, PTL

\* A session is always of the visitor who approved that attempt, in the browser
\* that started it (api/auth.py, kakao_callback).
THEOREM LoginIntegrity == Spec => []LoginsAreApproved
<1>1. IInv => LoginsAreApproved
  BY DEF IInv
<1> QED BY <1>1, Invariance, PTL

\* The cap of auth/oauth.py holds, whatever its value.
THEOREM AttemptCap == Spec => []AttemptsStayBounded
<1>1. IInv => AttemptsStayBounded
  BY DEF IInv, AttemptsAreFew
<1> QED BY <1>1, Invariance, PTL

\* LoginFlow implements OneTimeLogin: an attempt is spent by one callback and
\* gives one session at most, however many callbacks and tabs there are.
THEOREM OneTime == Spec => ImplementsOneTimeLogin
<1>1. Init => Promise!Init
  BY DEF Init, DatabaseInit, Promise!Init, Phase, LoggedIn, Held, OpenRow, Started, Holders,
         Granted
<1>2. IInv /\ IInv' /\ [Next]_vars => [Promise!Next]_Mapped
  BY NextStep
<1> QED BY <1>1, <1>2, Invariance, PTL DEF Spec, ImplementsOneTimeLogin, Promise!Spec, Mapped
=============================================================================
