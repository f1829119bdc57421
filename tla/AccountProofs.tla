--------------------------- MODULE AccountProofs ---------------------------
(***************************************************************************)
(* What holds of AccountApi for every number of visitors, tokens, history  *)
(* ids and requests, and with no bound on the clock or on the rowids.      *)
(***************************************************************************)
EXTENDS Retention, TLAPS

USE DatabaseAssumption

\* Every session was handed out as a cookie, and a token to one visitor only.
TokensAreIssued ==
    /\ \A s \in sessions : \E c \in issued : c.token = s.token
    /\ \A c, d \in issued : c.token = d.token => c = d

\* id is the primary key and kakao_subject_hmac is unique.
UsersAreKeyed ==
    \A u, v \in users : u.id = v.id \/ u.subject = v.subject => u = v

\* The inductive invariant.  RowsHaveAccounts keeps the id of a deleted account
\* free of sessions, so that handing it out again gives nobody's session to the
\* new account; UsersAreKeyed keeps a foreign id from naming two accounts; and
\* TokensAreIssued keeps a fresh token apart from the sessions there are.
IInv ==
    /\ TypeOK
    /\ UsersAreKeyed
    /\ RowsHaveAccounts
    /\ TokensAreIssued
    /\ SessionsKeepTheirSubject
    /\ PrincipalStaysValid

-----------------------------------------------------------------------------
(* Lemmas *)

\* A new rowid is not in use.
LEMMA NextRowIdIsFree ==
    ASSUME DatabaseTypeOK, NEW id \in UserId, NextRowId(id)
    PROVE  \A u \in users : u.id # id
BY DEF NextRowId, DatabaseTypeOK, User

\* Marking requests keeps their form and what they hold.
LEMMA OrphanType ==
    ASSUME NEW ids, NEW rs \in [Request -> Working \cup {Idle}]
    PROVE  Orphan(rs, ids) \in [Request -> Working \cup {Idle}]
BY DEF Orphan, Working, Idle

LEMMA InitIInv == Init => IInv
BY DEF Init, DatabaseInit, IInv, TypeOK, DatabaseTypeOK, UsersAreKeyed, RowsHaveAccounts,
       TokensAreIssued, SessionsKeepTheirSubject, PrincipalStaysValid, Idle, Answer, Working

\* A login creates at most one account, under a free id.
LEMMA LoginIInv ==
    ASSUME IInv, NEW s \in Subject, NEW t \in Token, Login(s, t)
    PROVE  IInv'
<1> USE DEF IInv, Login
<1>1. PICK id \in UserId :
        /\ \/ [id |-> id, subject |-> s] \in users /\ UNCHANGED users
           \/ /\ \A u \in users : u.subject # s
              /\ NextRowId(id)
              /\ users' = users \cup {[id |-> id, subject |-> s]}
        /\ sessions' = sessions
             \cup {[token |-> t, user |-> id, expires |-> clock + SessionTtl]}
        /\ UNCHANGED <<history, settings, attempts>>
  BY DEF UpsertUserAndInsertSession
<1>2. TypeOK'
  BY <1>1 DEF TypeOK, DatabaseTypeOK, User, Session, Answer
<1>3. [id |-> id, subject |-> s] \in users' /\ users \subseteq users'
  BY <1>1
<1>4. UsersAreKeyed'
  <2>1. CASE UNCHANGED users
    BY <2>1 DEF UsersAreKeyed
  <2>2. CASE /\ \A u \in users : u.subject # s
             /\ NextRowId(id)
             /\ users' = users \cup {[id |-> id, subject |-> s]}
    BY <2>2, NextRowIdIsFree DEF UsersAreKeyed, TypeOK
  <2> QED BY <1>1, <2>1, <2>2
<1>5. RowsHaveAccounts'
  <2>1. ASSUME NEW x \in sessions' \cup history' \cup settings'
        PROVE  \E u \in users' : u.id = x.user
    BY <1>1, <1>3 DEF RowsHaveAccounts, CanStoreFor
  <2> QED BY <2>1 DEF RowsHaveAccounts, CanStoreFor
<1>6. TokensAreIssued'
  <2>1. ASSUME NEW x \in sessions'
        PROVE  \E c \in issued' : c.token = x.token
    <3>1. CASE x \in sessions
      BY <3>1 DEF TokensAreIssued
    <3>2. CASE x = [token |-> t, user |-> id, expires |-> clock + SessionTtl]
      <4> WITNESS [token |-> t, subject |-> s] \in issued'
      <4> QED BY <3>2
    <3> QED BY <1>1, <3>1, <3>2
  <2>2. \A c, d \in issued' : c.token = d.token => c = d
    BY DEF TokensAreIssued
  <2> QED BY <2>1, <2>2 DEF TokensAreIssued
<1>7. SessionsKeepTheirSubject'
  <2> SUFFICES ASSUME NEW x \in sessions', NEW c \in issued', x.token = c.token
               PROVE  {u \in users' : u.id = x.user}
                        = {[id |-> x.user, subject |-> c.subject]}
    BY DEF SessionsKeepTheirSubject
  <2>1. [id |-> x.user, subject |-> c.subject] \in users'
    <3>1. CASE x \in sessions
      BY <3>1, <1>3 DEF SessionsKeepTheirSubject, TokensAreIssued
    <3>2. CASE x = [token |-> t, user |-> id, expires |-> clock + SessionTtl]
      BY <3>2, <1>3
    <3> QED BY <1>1, <3>1, <3>2
  <2> QED BY <2>1, <1>4 DEF UsersAreKeyed
<1>8. PrincipalStaysValid'
  BY <1>3 DEF PrincipalStaysValid
<1> QED BY <1>2, <1>4, <1>5, <1>6, <1>7, <1>8

\* A browser's request becomes a handler whose principal is right.
LEMMA ResolveIInv ==
    ASSUME IInv, NEW r \in Request, NEW k \in Kind, NEW c \in issued, Resolve(r, k, c)
    PROVE  IInv'
<1> USE DEF IInv
<1>1. UNCHANGED <<clock, users, sessions, history, settings, attempts, issued>>
  BY DEF Resolve, tables
<1>2. CASE ResolveSession(c.token, clock) = {} /\ UNCHANGED reqs /\ answer' = "unauthenticated"
  BY <1>1, <1>2 DEF TypeOK, DatabaseTypeOK, UsersAreKeyed, RowsHaveAccounts, CanStoreFor,
       TokensAreIssued, SessionsKeepTheirSubject, PrincipalStaysValid, Answer
<1>3. ASSUME NEW s \in ResolveSession(c.token, clock), answer' = "none",
             reqs' = [reqs EXCEPT ![r] =
               [stage |-> "working", kind |-> k, token |-> c.token, user |-> s.user,
                subject |-> c.subject, since |-> clock, orphaned |-> FALSE]]
      PROVE  IInv'
  <2>1. s \in sessions /\ s.token = c.token
    BY <1>3 DEF ResolveSession
  <2>2. TypeOK'
    BY <1>1, <1>3, <2>1 DEF TypeOK, DatabaseTypeOK, Session, Working, Answer
  <2>3. [id |-> s.user, subject |-> c.subject] \in users
    BY <2>1 DEF SessionsKeepTheirSubject
  <2>4. PrincipalStaysValid'
    BY <1>1, <1>3, <2>3 DEF PrincipalStaysValid, TypeOK
  <2>5. UsersAreKeyed' /\ RowsHaveAccounts' /\ TokensAreIssued' /\ SessionsKeepTheirSubject'
    BY <1>1 DEF UsersAreKeyed, RowsHaveAccounts, CanStoreFor, TokensAreIssued,
         SessionsKeepTheirSubject
  <2> QED BY <2>2, <2>4, <2>5
<1> QED BY <1>2, <1>3 DEF Resolve

\* What every step that touches no account has in common: it may end handlers,
\* end sessions, remove rows, and add rows of accounts that exist.
LEMMA RowStepIInv ==
    ASSUME IInv, TypeOK', UNCHANGED <<users, issued>>, sessions' \subseteq sessions,
           \A h \in history' : CanStoreFor(h.user),
           \A x \in settings' : CanStoreFor(x.user),
           \A q \in Request : reqs'[q] = reqs[q] \/ reqs'[q] = Idle
    PROVE  IInv'
<1> USE DEF IInv
<1>1. UsersAreKeyed' /\ TokensAreIssued'
  BY DEF UsersAreKeyed, TokensAreIssued
<1>2. RowsHaveAccounts'
  BY DEF RowsHaveAccounts, CanStoreFor
<1>3. SessionsKeepTheirSubject'
  BY DEF SessionsKeepTheirSubject
<1>4. PrincipalStaysValid'
  BY DEF PrincipalStaysValid, Idle
<1> QED BY <1>1, <1>2, <1>3, <1>4

\* What the two steps that delete accounts have in common: every row of an
\* account that goes goes with it, and every handler that works for one is marked.
LEMMA AccountsLeaveIInv ==
    ASSUME IInv, TypeOK', NEW ids, NEW rs \in [Request -> Working \cup {Idle}],
           UNCHANGED issued,
           users' \subseteq users, \A u \in users : u.id \notin ids => u \in users',
           sessions' \subseteq sessions, history' \subseteq history,
           settings' \subseteq settings,
           \A x \in sessions' \cup history' \cup settings' :
              \A u \in users : u.id = x.user => u \in users',
           \A q \in Request : rs[q] = reqs[q] \/ rs[q] = Idle,
           reqs' = Orphan(rs, ids)
    PROVE  IInv'
<1> USE DEF IInv
<1>1. UsersAreKeyed' /\ TokensAreIssued'
  BY DEF UsersAreKeyed, TokensAreIssued
<1>2. RowsHaveAccounts'
  BY DEF RowsHaveAccounts, CanStoreFor
<1>3. SessionsKeepTheirSubject'
  BY DEF SessionsKeepTheirSubject
<1>4. PrincipalStaysValid'
  <2> SUFFICES ASSUME NEW q \in Request, reqs'[q].stage = "working", ~reqs'[q].orphaned
               PROVE  [id |-> reqs'[q].user, subject |-> reqs'[q].subject] \in users'
    BY DEF PrincipalStaysValid
  <2>1. reqs'[q] = rs[q] /\ rs[q] = reqs[q] /\ rs[q].user \notin ids
    BY DEF Orphan, Working, Idle
  <2> QED BY <2>1 DEF PrincipalStaysValid
<1> QED BY <1>1, <1>2, <1>3, <1>4

-----------------------------------------------------------------------------
(* The steps *)

\* Deleting expired rows keeps the rest.
LEMMA LiveHistoryKeeps == \A id, now : LiveHistory(id, now) \subseteq history
BY DEF LiveHistory

\* A handler that ends leaves the other handlers as they are.
LEMMA FinishEnds ==
    ASSUME TypeOK, NEW r \in Request, NEW a \in Answer, Finish(r, a)
    PROVE  /\ reqs' \in [Request -> Working \cup {Idle}]
           /\ answer' \in Answer
           /\ \A q \in Request : reqs'[q] = reqs[q] \/ reqs'[q] = Idle
BY DEF TypeOK, Finish

\* The shape of RowStepIInv for a handler r that ends with answer a.
LEMMA HandlerIInv ==
    ASSUME IInv, NEW r \in Request, NEW a \in Answer, Finish(r, a),
           UNCHANGED <<clock, users, issued, attempts>>, sessions' \subseteq sessions,
           \A h \in history' : h \in HistoryRow /\ CanStoreFor(h.user),
           \A x \in settings' : x \in SettingsRow /\ CanStoreFor(x.user)
    PROVE  IInv'
<1>1. TypeOK'
  BY FinishEnds DEF IInv, TypeOK, DatabaseTypeOK
<1> QED BY <1>1, FinishEnds, RowStepIInv DEF IInv

\* The rows there are satisfy what HandlerIInv asks.
LEMMA OldRows ==
    ASSUME IInv
    PROVE  /\ \A h \in history : h \in HistoryRow /\ CanStoreFor(h.user)
           /\ \A x \in settings : x \in SettingsRow /\ CanStoreFor(x.user)
BY DEF IInv, TypeOK, DatabaseTypeOK, RowsHaveAccounts

\* A handler that works holds values of the right sets.
LEMMA WorkingType ==
    ASSUME TypeOK, NEW r \in Request, reqs[r].stage = "working"
    PROVE  /\ reqs[r] \in Working
           /\ Since(r) \subseteq Nat
BY DEF TypeOK, DatabaseTypeOK, Working, Idle, Since

LEMMA SavePreviewIInv ==
    ASSUME IInv, NEW r \in Request, SavePreview(r)
    PROVE  IInv'
<1>1. reqs[r] \in Working /\ Since(r) \subseteq Nat
  BY WorkingType DEF SavePreview, IsWorking, IInv
<1>2. ASSUME NEW now \in Since(r), NEW hid \in HistoryId, NEW a \in {"saved", "notSaved"},
             CreateHistory(reqs[r].user, hid, reqs[r].subject, now), Finish(r, a)
      PROVE  IInv'
  <2>1. UNCHANGED <<clock, users, issued, attempts, sessions, settings>>
    BY <1>2 DEF SavePreview, CreateHistory
  <2>2. [id |-> hid, user |-> reqs[r].user, created |-> now, of |-> reqs[r].subject]
          \in HistoryRow
    BY <1>1 DEF Working, HistoryRow
  <2>3. ASSUME NEW h \in history' PROVE h \in HistoryRow /\ CanStoreFor(h.user)
    BY <1>2, <2>2, OldRows, LiveHistoryKeeps DEF CreateHistory
  <2> QED BY <1>2, <2>1, <2>3, OldRows, HandlerIInv DEF Answer
<1>3. ASSUME Finish(r, "notSaved"), UNCHANGED tables
      PROVE  IInv'
  BY <1>3, OldRows, HandlerIInv DEF SavePreview, tables, Answer
<1> QED BY <1>2, <1>3 DEF SavePreview

LEMMA PutSettingsIInv ==
    ASSUME IInv, NEW r \in Request, PutSettings(r)
    PROVE  IInv'
<1>1. reqs[r] \in Working
  BY WorkingType DEF PutSettings, IsWorking, IInv
<1>2. ASSUME NEW a \in {"ok", "unavailable"}, Finish(r, a),
             ReplaceSettings(reqs[r].user, reqs[r].subject)
      PROVE  IInv'
  <2>1. UNCHANGED <<clock, users, issued, attempts, sessions, history>>
    BY <1>2 DEF PutSettings, ReplaceSettings
  <2>2. [user |-> reqs[r].user, of |-> reqs[r].subject] \in SettingsRow
    BY <1>1 DEF Working, SettingsRow
  <2>3. ASSUME NEW x \in settings' PROVE x \in SettingsRow /\ CanStoreFor(x.user)
    BY <1>2, <2>2, OldRows DEF ReplaceSettings
  <2> QED BY <1>2, <2>1, <2>3, OldRows, HandlerIInv DEF Answer
<1>3. ASSUME Finish(r, "unavailable"), UNCHANGED tables
      PROVE  IInv'
  BY <1>3, OldRows, HandlerIInv DEF PutSettings, tables, Answer
<1> QED BY <1>2, <1>3 DEF PutSettings

\* Reads, deletions of rows, logout and failures only take rows away.
LEMMA ShrinkingIInv ==
    ASSUME IInv, NEW r \in Request,
           \/ StorageFails(r) \/ ListHistory(r) \/ HistoryDetail(r) \/ DeleteOne(r)
           \/ DeleteAll(r) \/ GetSettings(r) \/ Logout(r)
    PROVE  IInv'
<1>1. ASSUME NEW a \in Answer, Finish(r, a), UNCHANGED <<clock, users, issued, attempts, settings>>,
             sessions' \subseteq sessions, history' \subseteq history
      PROVE  IInv'
  BY <1>1, OldRows, HandlerIInv
<1>2. CASE StorageFails(r)
  BY <1>1, <1>2 DEF StorageFails, tables, Answer
<1>3. CASE ListHistory(r)
  BY <1>1, <1>3, LiveHistoryKeeps DEF ListHistory, ReadHistory, Answer
<1>4. CASE HistoryDetail(r)
  BY <1>1, <1>4, LiveHistoryKeeps DEF HistoryDetail, ReadHistory, Answer
<1>5. CASE DeleteOne(r)
  BY <1>1, <1>5, LiveHistoryKeeps DEF DeleteOne, DeleteHistory, Answer
<1>6. CASE DeleteAll(r)
  BY <1>1, <1>6, LiveHistoryKeeps DEF DeleteAll, DeleteAllHistory, Answer
<1>7. CASE GetSettings(r)
  BY <1>1, <1>7 DEF GetSettings, tables, Answer
<1>8. CASE Logout(r)
  BY <1>1, <1>8 DEF Logout, RevokeSession, Answer
<1> QED BY <1>2, <1>3, <1>4, <1>5, <1>6, <1>7, <1>8

LEMMA DeleteMeIInv ==
    ASSUME IInv, NEW r \in Request, DeleteMe(r)
    PROVE  IInv'
<1> DEFINE rs == [reqs EXCEPT ![r] = Idle]
           ids == {reqs[r].user}
<1>1. rs \in [Request -> Working \cup {Idle}] /\ answer' \in Answer
  BY DEF DeleteMe, IInv, TypeOK, Answer
<1>2. \A q \in Request : rs[q] = reqs[q] \/ rs[q] = Idle
  BY DEF IInv, TypeOK
<1>3. reqs' = Orphan(rs, ids) /\ DeleteUser(reqs[r].user) /\ UNCHANGED <<clock, issued>>
  BY DEF DeleteMe
<1>4. TypeOK'
  BY <1>1, <1>3, OrphanType DEF IInv, TypeOK, DatabaseTypeOK, DeleteUser
<1> HIDE DEF rs, ids
<1>5. /\ users' \subseteq users /\ sessions' \subseteq sessions
      /\ history' \subseteq history /\ settings' \subseteq settings
      /\ \A u \in users : u.id \notin ids => u \in users'
      /\ \A x \in sessions' \cup history' \cup settings' :
            \A u \in users : u.id = x.user => u \in users'
  BY <1>3 DEF DeleteUser, ids
<1> QED BY <1>1, <1>2, <1>3, <1>4, <1>5, AccountsLeaveIInv

LEMMA CleanUpIInv ==
    ASSUME IInv, NEW now \in 0 .. clock, CleanUp(now)
    PROVE  IInv'
<1> DEFINE ids == {u.id : u \in users \ users'}
<1>1. reqs \in [Request -> Working \cup {Idle}] /\ answer' \in Answer
  BY DEF CleanUp, IInv, TypeOK, Answer
<1>2. reqs' = Orphan(reqs, ids) /\ RunOnce(now) /\ UNCHANGED <<clock, issued>>
  BY DEF CleanUp
<1>3. TypeOK'
  BY <1>1, <1>2, OrphanType DEF IInv, TypeOK, DatabaseTypeOK, RunOnce
<1>4. \A u \in users : u.id \notin ids => u \in users'
  OBVIOUS
<1> HIDE DEF ids
<1>5. /\ users' \subseteq users /\ sessions' \subseteq sessions
      /\ history' \subseteq history /\ settings' \subseteq settings
  BY <1>2 DEF RunOnce
<1>6. \A x \in sessions' \cup history' \cup settings' :
        \A u \in users : u.id = x.user => u \in users'
  BY <1>2 DEF RunOnce, IdleUsers
<1> QED BY <1>1, <1>2, <1>3, <1>4, <1>5, <1>6, AccountsLeaveIInv

LEMMA NextIInv == IInv /\ [Next]_vars => IInv'
<1> SUFFICES ASSUME IInv, [Next]_vars PROVE IInv'
  OBVIOUS
<1>1. CASE Tick
  <2>1. TypeOK'
    BY <1>1 DEF IInv, TypeOK, DatabaseTypeOK, Tick, tables, Answer
  <2> QED BY <1>1, <2>1, OldRows, RowStepIInv DEF Tick, tables
<1>2. ASSUME NEW s \in Subject, NEW t \in Token, Login(s, t) PROVE IInv'
  BY <1>2, LoginIInv
<1>3. ASSUME NEW r \in Request, Handle(r) PROVE IInv'
  BY <1>3, ResolveIInv, SavePreviewIInv, PutSettingsIInv, ShrinkingIInv, DeleteMeIInv DEF Handle
<1>4. ASSUME NEW now \in 0 .. clock, CleanUp(now) PROVE IInv'
  BY <1>4, CleanUpIInv
<1>5. CASE Restart
  <2>1. TypeOK'
    BY <1>5 DEF IInv, TypeOK, DatabaseTypeOK, Restart, tables, Answer
  <2> QED BY <1>5, <2>1, OldRows, RowStepIInv DEF Restart, tables
<1>6. CASE UNCHANGED vars
  <2>1. TypeOK'
    BY <1>6 DEF IInv, TypeOK, DatabaseTypeOK, vars, tables
  <2> QED BY <1>6, <2>1, OldRows, RowStepIInv DEF vars, tables
<1> QED BY <1>1, <1>2, <1>3, <1>4, <1>5, <1>6 DEF Next

\* Only the save of a preview adds a history row.
LEMMA OnlySavesAddRows ==
    ASSUME [Next]_vars
    PROVE  \/ history' \subseteq history
           \/ \E r \in Request : SavePreview(r) /\ CanStoreFor(reqs[r].user)
<1>1. CASE Tick \/ Restart \/ UNCHANGED vars
  BY <1>1 DEF Tick, Restart, vars, tables
<1>2. ASSUME NEW s \in Subject, NEW t \in Token, Login(s, t) PROVE history' = history
  BY <1>2 DEF Login, UpsertUserAndInsertSession
<1>3. ASSUME NEW now, CleanUp(now) PROVE history' \subseteq history
  BY <1>3 DEF CleanUp, RunOnce
<1>4. ASSUME NEW r \in Request, Handle(r), ~SavePreview(r) PROVE history' \subseteq history
  <2>1. CASE (\E k \in Kind, c \in issued : Resolve(r, k, c)) \/ StorageFails(r) \/ GetSettings(r)
    BY <2>1 DEF Resolve, StorageFails, GetSettings, tables
  <2>2. CASE ListHistory(r) \/ HistoryDetail(r)
    BY <2>2, LiveHistoryKeeps DEF ListHistory, HistoryDetail, ReadHistory
  <2>3. CASE DeleteOne(r) \/ DeleteAll(r)
    BY <2>3, LiveHistoryKeeps DEF DeleteOne, DeleteHistory, DeleteAll, DeleteAllHistory
  <2>4. CASE PutSettings(r) \/ Logout(r) \/ DeleteMe(r)
    BY <2>4 DEF PutSettings, ReplaceSettings, tables, Logout, RevokeSession, DeleteMe, DeleteUser
  <2> QED BY <1>4, <2>1, <2>2, <2>3, <2>4 DEF Handle
<1>5. ASSUME NEW r \in Request, SavePreview(r), ~CanStoreFor(reqs[r].user)
      PROVE  history' = history
  BY <1>5 DEF SavePreview, CreateHistory, tables
<1> QED BY <1>1, <1>2, <1>3, <1>4, <1>5 DEF Next

LEMMA SaveStep ==
    ASSUME IInv, [Next]_vars, NEW h \in history' \ history
    PROVE  \/ [id |-> h.user, subject |-> h.of] \in users'
           \/ \E r \in Request : Asked(r, h.user, {"preview"}) /\ reqs[r].orphaned
<1>1. PICK r \in Request : SavePreview(r) /\ CanStoreFor(reqs[r].user)
  BY OnlySavesAddRows
<1>2. IsWorking(r, "preview") /\ users' = users /\ reqs'[r] = Idle
  BY <1>1, FinishEnds DEF SavePreview, CreateHistory, IInv, Finish, TypeOK
<1>3. h.user = reqs[r].user /\ h.of = reqs[r].subject
  BY <1>1, LiveHistoryKeeps DEF SavePreview, CreateHistory
<1>4. CASE reqs[r].orphaned
  BY <1>2, <1>3, <1>4 DEF Asked, IsWorking
<1>5. CASE ~reqs[r].orphaned
  BY <1>2, <1>3, <1>5 DEF IInv, PrincipalStaysValid, IsWorking
<1> QED BY <1>4, <1>5

\* Only PUT /me/settings adds a settings row.
LEMMA OnlyPutsAddSettings ==
    ASSUME [Next]_vars
    PROVE  \/ settings' \subseteq settings
           \/ \E r \in Request : /\ PutSettings(r)
                                 /\ ReplaceSettings(reqs[r].user, reqs[r].subject)
<1>1. CASE Tick \/ Restart \/ UNCHANGED vars
  BY <1>1 DEF Tick, Restart, vars, tables
<1>2. ASSUME NEW s \in Subject, NEW t \in Token, Login(s, t) PROVE settings' = settings
  BY <1>2 DEF Login, UpsertUserAndInsertSession
<1>3. ASSUME NEW now, CleanUp(now) PROVE settings' \subseteq settings
  BY <1>3 DEF CleanUp, RunOnce
<1>4. ASSUME NEW r \in Request, Handle(r), ~PutSettings(r) PROVE settings' \subseteq settings
  BY <1>4 DEF Handle, Resolve, StorageFails, SavePreview, CreateHistory, ListHistory,
     HistoryDetail, ReadHistory, DeleteOne, DeleteHistory, DeleteAll, DeleteAllHistory,
     GetSettings, Logout, RevokeSession, DeleteMe, DeleteUser, tables
<1>5. ASSUME NEW r \in Request, PutSettings(r), ~ReplaceSettings(reqs[r].user, reqs[r].subject)
      PROVE  settings' = settings
  BY <1>5 DEF PutSettings, tables
<1> QED BY <1>1, <1>2, <1>3, <1>4, <1>5 DEF Next

LEMMA PutStep ==
    ASSUME IInv, [Next]_vars, NEW x \in settings' \ settings
    PROVE  \/ [id |-> x.user, subject |-> x.of] \in users'
           \/ \E r \in Request : Asked(r, x.user, {"putSettings"}) /\ reqs[r].orphaned
<1>1. PICK r \in Request : /\ PutSettings(r)
                           /\ ReplaceSettings(reqs[r].user, reqs[r].subject)
  BY OnlyPutsAddSettings
<1>2. IsWorking(r, "putSettings") /\ users' = users /\ reqs'[r] = Idle
  BY <1>1, FinishEnds DEF PutSettings, ReplaceSettings, IInv, Finish, TypeOK
<1>3. x.user = reqs[r].user /\ x.of = reqs[r].subject
  BY <1>1 DEF ReplaceSettings
<1>4. CASE reqs[r].orphaned
  BY <1>2, <1>3, <1>4 DEF Asked, IsWorking
<1>5. CASE ~reqs[r].orphaned
  BY <1>2, <1>3, <1>5 DEF IInv, PrincipalStaysValid, IsWorking
<1> QED BY <1>4, <1>5

-----------------------------------------------------------------------------
(* Handlers and sessions *)

\* A token is drawn once: while its session lasts, it is that of the account
\* which a handler resolved it to.
HandlersKeepTheirSession ==
    \A r \in Request :
       reqs[r].stage = "working" =>
           /\ \E c \in issued : c.token = reqs[r].token
           /\ \A s \in sessions : s.token = reqs[r].token => s.user = reqs[r].user

\* Two sessions of one token are of one account.
LEMMA TokensNameOneAccount ==
    ASSUME IInv, NEW s \in sessions, NEW x \in sessions, s.token = x.token
    PROVE  s.user = x.user
<1>1. PICK c \in issued : c.token = s.token
  BY DEF IInv, TokensAreIssued
<1>2. /\ [id |-> s.user, subject |-> c.subject] \in users
      /\ [id |-> x.user, subject |-> c.subject] \in users
  BY <1>1 DEF IInv, SessionsKeepTheirSubject
<1>3. [id |-> s.user, subject |-> c.subject] = [id |-> x.user, subject |-> c.subject]
  BY <1>2 DEF IInv, UsersAreKeyed
<1> QED BY <1>3

\* Handlers other than a new one are as they were, or at an end.
LEMMA HandlersRemain ==
    ASSUME IInv, [Next]_vars
    PROVE  \/ \E s \in Subject, t \in Token : Login(s, t)
           \/ \E r \in Request, k \in Kind, c \in issued : Resolve(r, k, c)
           \/ /\ sessions' \subseteq sessions /\ UNCHANGED issued
              /\ \A q \in Request :
                   reqs'[q].stage = "working" =>
                     /\ reqs[q].stage = "working"
                     /\ reqs'[q].token = reqs[q].token /\ reqs'[q].user = reqs[q].user
<1> DEFINE Remain ==
      /\ sessions' \subseteq sessions /\ UNCHANGED issued
      /\ \A q \in Request :
           reqs'[q].stage = "working" =>
             /\ reqs[q].stage = "working"
             /\ reqs'[q].token = reqs[q].token /\ reqs'[q].user = reqs[q].user
<1> USE DEF IInv
<1>1. CASE Tick \/ Restart \/ UNCHANGED vars
  BY <1>1 DEF Tick, Restart, vars, tables, Idle
<1>2. ASSUME NEW rs \in [Request -> Working \cup {Idle}], NEW ids,
             \A q \in Request : rs[q] = reqs[q] \/ rs[q] = Idle, reqs' = Orphan(rs, ids)
      PROVE  \A q \in Request :
               reqs'[q].stage = "working" =>
                 /\ reqs[q].stage = "working"
                 /\ reqs'[q].token = reqs[q].token /\ reqs'[q].user = reqs[q].user
  BY <1>2 DEF Orphan, Working, Idle
<1>3. ASSUME NEW now \in 0 .. clock, CleanUp(now) PROVE Remain
  BY <1>2, <1>3 DEF CleanUp, RunOnce, TypeOK
<1>4. ASSUME NEW r \in Request, DeleteMe(r) PROVE Remain
  <2>1. [reqs EXCEPT ![r] = Idle] \in [Request -> Working \cup {Idle}]
    BY DEF TypeOK
  <2>2. \A q \in Request : [reqs EXCEPT ![r] = Idle][q] \in {reqs[q], Idle}
    BY DEF TypeOK
  <2> QED BY <1>2, <1>4, <2>1, <2>2 DEF DeleteMe, DeleteUser
<1>5. ASSUME NEW r \in Request, NEW a, Finish(r, a), sessions' \subseteq sessions,
             UNCHANGED issued
      PROVE  Remain
  BY <1>5 DEF Finish, TypeOK, Idle
<1>6. ASSUME NEW r \in Request, Handle(r), ~DeleteMe(r),
             ~\E k \in Kind, c \in issued : Resolve(r, k, c)
      PROVE  Remain
  <2>1. \E a : Finish(r, a)
    BY <1>6 DEF Handle, StorageFails, SavePreview, ListHistory, HistoryDetail, DeleteOne,
         DeleteAll, GetSettings, PutSettings, Logout
  <2>2. sessions' \subseteq sessions /\ UNCHANGED issued
    BY <1>6 DEF Handle, StorageFails, SavePreview, CreateHistory, ListHistory, HistoryDetail,
         ReadHistory, DeleteOne, DeleteHistory, DeleteAll, DeleteAllHistory, GetSettings,
         PutSettings, ReplaceSettings, Logout, RevokeSession, tables
  <2> QED BY <1>5, <2>1, <2>2
<1> QED BY <1>1, <1>3, <1>4, <1>6 DEF Next

LEMMA HandlersStep ==
    ASSUME IInv, HandlersKeepTheirSession, [Next]_vars
    PROVE  HandlersKeepTheirSession'
<1>1. ASSUME NEW s \in Subject, NEW t \in Token, Login(s, t)
      PROVE  HandlersKeepTheirSession'
  <2>1. PICK id : sessions' = sessions
                    \cup {[token |-> t, user |-> id, expires |-> clock + SessionTtl]}
    BY <1>1 DEF Login, UpsertUserAndInsertSession
  <2>2. issued \subseteq issued' /\ UNCHANGED reqs /\ \A c \in issued : c.token # t
    BY <1>1 DEF Login
  <2> QED BY <2>1, <2>2 DEF HandlersKeepTheirSession
<1>2. ASSUME NEW r \in Request, NEW k \in Kind, NEW c \in issued, Resolve(r, k, c)
      PROVE  HandlersKeepTheirSession'
  <2>1. UNCHANGED <<sessions, issued>>
    BY <1>2 DEF Resolve, tables
  <2>2. CASE UNCHANGED reqs
    BY <2>1, <2>2 DEF HandlersKeepTheirSession
  <2>3. ASSUME NEW s \in ResolveSession(c.token, clock),
               reqs' = [reqs EXCEPT ![r] =
                 [stage |-> "working", kind |-> k, token |-> c.token, user |-> s.user,
                  subject |-> c.subject, since |-> clock, orphaned |-> FALSE]]
        PROVE  HandlersKeepTheirSession'
    <3>1. s \in sessions /\ s.token = c.token
      BY <2>3 DEF ResolveSession
    <3>2. \A x \in sessions : x.token = c.token => x.user = s.user
      BY <3>1, TokensNameOneAccount
    <3> QED BY <2>1, <2>3, <3>2 DEF HandlersKeepTheirSession, IInv, TypeOK
  <2> QED BY <1>2, <2>2, <2>3 DEF Resolve
<1>3. CASE /\ sessions' \subseteq sessions /\ UNCHANGED issued
           /\ \A q \in Request :
                reqs'[q].stage = "working" =>
                  /\ reqs[q].stage = "working"
                  /\ reqs'[q].token = reqs[q].token /\ reqs'[q].user = reqs[q].user
  BY <1>3 DEF HandlersKeepTheirSession
<1> QED BY <1>1, <1>2, <1>3, HandlersRemain

-----------------------------------------------------------------------------
(* What a step may take away *)

\* A step that finishes a request leaves the request idle, even if it marks
\* others.
LEMMA DeleteMeFinishes ==
    ASSUME TypeOK, NEW r \in Request, DeleteMe(r)
    PROVE  Asked(r, reqs[r].user, {"deleteMe"})
BY DEF DeleteMe, IsWorking, Asked, Orphan, TypeOK, Idle

LEMMA FinishIsAsked ==
    ASSUME TypeOK, NEW r \in Request, NEW k, IsWorking(r, k), NEW a, Finish(r, a)
    PROVE  Asked(r, reqs[r].user, {k})
BY DEF IsWorking, Finish, Asked, TypeOK

\* A row that is expired by a time read earlier is expired by now.
LEMMA ExpiredStays ==
    ASSUME TypeOK, NEW h \in history, NEW now \in Nat, now <= clock, Expired(h, now)
    PROVE  Expired(h, clock)
BY DEF TypeOK, DatabaseTypeOK, HistoryRow, Expired

\* The rows that go with the clean-up of one account are expired.
LEMMA LiveHistoryDrops ==
    ASSUME TypeOK, NEW r \in Request, reqs[r].stage = "working", NEW now \in Since(r),
           NEW id, NEW h \in history \ LiveHistory(id, now)
    PROVE  Expired(h, clock)
<1>1. now \in Nat /\ now <= clock
  BY WorkingType DEF TypeOK, DatabaseTypeOK, Since, Working
<1> QED BY <1>1, ExpiredStays DEF LiveHistory

LEMMA HistoryLeaves ==
    ASSUME IInv, [Next]_vars, NEW h \in history \ history'
    PROVE  \/ Expired(h, clock)
           \/ \E r \in Request : Asked(r, h.user, {"deleteOne", "deleteAll", "deleteMe"})
<1> USE DEF IInv
<1>1. CASE Tick \/ Restart \/ UNCHANGED vars
  BY <1>1 DEF Tick, Restart, vars, tables
<1>2. ASSUME NEW s \in Subject, NEW t \in Token, Login(s, t) PROVE FALSE
  BY <1>2 DEF Login, UpsertUserAndInsertSession
<1>3. ASSUME NEW now \in 0 .. clock, CleanUp(now) PROVE Expired(h, clock)
  BY <1>3, ExpiredStays DEF CleanUp, RunOnce, TypeOK, DatabaseTypeOK
<1>4. ASSUME NEW r \in Request, Handle(r)
      PROVE  \/ Expired(h, clock)
             \/ Asked(r, h.user, {"deleteOne", "deleteAll", "deleteMe"})
  <2>1. CASE (\E k \in Kind, c \in issued : Resolve(r, k, c)) \/ StorageFails(r)
             \/ GetSettings(r) \/ PutSettings(r) \/ Logout(r)
    BY <2>1 DEF Resolve, StorageFails, GetSettings, PutSettings, ReplaceSettings, Logout,
         RevokeSession, tables
  <2>2. CASE SavePreview(r) \/ ListHistory(r) \/ HistoryDetail(r)
    BY <2>2, LiveHistoryDrops DEF SavePreview, CreateHistory, ListHistory, HistoryDetail,
         ReadHistory, IsWorking, tables
  <2>3. CASE DeleteOne(r)
    <3>1. PICK now \in Since(r), hid \in HistoryId :
            DeleteHistory(reqs[r].user, hid, now) /\ \E a : Finish(r, a)
      BY <2>3 DEF DeleteOne
    <3>2. Asked(r, reqs[r].user, {"deleteOne"})
      BY <2>3, <3>1, FinishIsAsked DEF DeleteOne
    <3>3. h \notin LiveHistory(reqs[r].user, now) \/ h.user = reqs[r].user
      BY <3>1 DEF DeleteHistory
    <3> QED BY <2>3, <3>2, <3>3, LiveHistoryDrops DEF DeleteOne, IsWorking, Asked
  <2>4. CASE DeleteAll(r)
    <3>1. PICK now \in Since(r) : DeleteAllHistory(reqs[r].user, now) /\ \E a : Finish(r, a)
      BY <2>4 DEF DeleteAll
    <3>2. Asked(r, reqs[r].user, {"deleteAll"})
      BY <2>4, <3>1, FinishIsAsked DEF DeleteAll
    <3>3. h \notin LiveHistory(reqs[r].user, now) \/ h.user = reqs[r].user
      BY <3>1 DEF DeleteAllHistory
    <3> QED BY <2>4, <3>2, <3>3, LiveHistoryDrops DEF DeleteAll, IsWorking, Asked
  <2>5. CASE DeleteMe(r)
    <3>1. h.user = reqs[r].user
      BY <2>5 DEF DeleteMe, DeleteUser
    <3> QED BY <2>5, <3>1, DeleteMeFinishes DEF Asked
  <2> QED BY <1>4, <2>1, <2>2, <2>3, <2>4, <2>5 DEF Handle
<1> QED BY <1>1, <1>2, <1>3, <1>4 DEF Next

LEMMA SettingsLeave ==
    ASSUME IInv, [Next]_vars, NEW x \in settings, \A y \in settings' : y.user # x.user
    PROVE  \E r \in Request : Asked(r, x.user, {"deleteMe"})
<1> USE DEF IInv
<1>1. CASE Tick \/ Restart \/ UNCHANGED vars
  BY <1>1 DEF Tick, Restart, vars, tables
<1>2. ASSUME NEW s \in Subject, NEW t \in Token, Login(s, t) PROVE FALSE
  BY <1>2 DEF Login, UpsertUserAndInsertSession
<1>3. ASSUME NEW now \in 0 .. clock, CleanUp(now) PROVE FALSE
  BY <1>3 DEF CleanUp, RunOnce, IdleUsers
<1>4. ASSUME NEW r \in Request, Handle(r) PROVE Asked(r, x.user, {"deleteMe"})
  <2>1. CASE (\E k \in Kind, c \in issued : Resolve(r, k, c)) \/ StorageFails(r)
             \/ SavePreview(r) \/ ListHistory(r) \/ HistoryDetail(r) \/ DeleteOne(r)
             \/ DeleteAll(r) \/ GetSettings(r) \/ Logout(r)
    BY <2>1 DEF Resolve, StorageFails, SavePreview, CreateHistory, ListHistory, HistoryDetail,
         ReadHistory, DeleteOne, DeleteHistory, DeleteAll, DeleteAllHistory, GetSettings,
         Logout, RevokeSession, tables
  <2>2. CASE PutSettings(r)
    <3>1. CASE UNCHANGED settings
      BY <3>1
    <3>2. CASE ReplaceSettings(reqs[r].user, reqs[r].subject)
      <4>1. [user |-> reqs[r].user, of |-> reqs[r].subject] \in settings'
        BY <3>2 DEF ReplaceSettings
      <4>2. x.user # reqs[r].user
        BY <4>1
      <4> QED BY <3>2, <4>2 DEF ReplaceSettings
    <3> QED BY <2>2, <3>1, <3>2 DEF PutSettings, tables
  <2>3. CASE DeleteMe(r)
    <3>1. x.user = reqs[r].user
      BY <2>3 DEF DeleteMe, DeleteUser
    <3> QED BY <2>3, <3>1, DeleteMeFinishes
  <2> QED BY <1>4, <2>1, <2>2, <2>3 DEF Handle
<1> QED BY <1>1, <1>2, <1>3, <1>4 DEF Next

LEMMA SessionsLeave ==
    ASSUME IInv, HandlersKeepTheirSession, [Next]_vars, NEW s \in sessions \ sessions'
    PROVE  \/ s.expires <= clock
           \/ \E r \in Request : \/ Asked(r, s.user, {"deleteMe"})
                                 \/ Asked(r, s.user, {"logout"}) /\ reqs[r].token = s.token
<1> USE DEF IInv
<1>1. CASE Tick \/ Restart \/ UNCHANGED vars
  BY <1>1 DEF Tick, Restart, vars, tables
<1>2. ASSUME NEW x \in Subject, NEW t \in Token, Login(x, t) PROVE FALSE
  BY <1>2 DEF Login, UpsertUserAndInsertSession
<1>3. ASSUME NEW now \in 0 .. clock, CleanUp(now) PROVE s.expires <= clock
  BY <1>3 DEF CleanUp, RunOnce, TypeOK, DatabaseTypeOK, Session
<1>4. ASSUME NEW r \in Request, Handle(r)
      PROVE  \/ Asked(r, s.user, {"deleteMe"})
             \/ Asked(r, s.user, {"logout"}) /\ reqs[r].token = s.token
  <2>1. CASE (\E k \in Kind, c \in issued : Resolve(r, k, c)) \/ StorageFails(r)
             \/ SavePreview(r) \/ ListHistory(r) \/ HistoryDetail(r) \/ DeleteOne(r)
             \/ DeleteAll(r) \/ GetSettings(r) \/ PutSettings(r)
    BY <2>1 DEF Resolve, StorageFails, SavePreview, CreateHistory, ListHistory, HistoryDetail,
         ReadHistory, DeleteOne, DeleteHistory, DeleteAll, DeleteAllHistory, GetSettings,
         PutSettings, ReplaceSettings, tables
  <2>2. CASE Logout(r)
    <3>1. s.token = reqs[r].token
      BY <2>2 DEF Logout, RevokeSession
    <3>2. Asked(r, reqs[r].user, {"logout"})
      BY <2>2, FinishIsAsked DEF Logout
    <3>3. s.user = reqs[r].user
      BY <2>2, <3>1 DEF HandlersKeepTheirSession, Logout, IsWorking
    <3> QED BY <3>1, <3>2, <3>3
  <2>3. CASE DeleteMe(r)
    <3>1. s.user = reqs[r].user
      BY <2>3 DEF DeleteMe, DeleteUser
    <3> QED BY <2>3, <3>1, DeleteMeFinishes
  <2> QED BY <1>4, <2>1, <2>2, <2>3 DEF Handle
<1> QED BY <1>1, <1>2, <1>3, <1>4 DEF Next

-----------------------------------------------------------------------------
(* What an answer tells *)

\* A handler ends in a step of its own, or with the process.
LEMMA HandlersEndThemselves ==
    ASSUME IInv, [Next]_vars, NEW r \in Request, reqs[r].stage = "working", reqs'[r] = Idle
    PROVE  Restart \/ Handle(r)
<1> USE DEF IInv
<1>1. reqs[r] \in Working /\ reqs[r] # Idle
  BY WorkingType DEF Idle
<1>2. CASE Tick \/ UNCHANGED vars
  BY <1>1, <1>2 DEF Tick, vars
<1>3. ASSUME NEW s \in Subject, NEW t \in Token, Login(s, t) PROVE FALSE
  BY <1>1, <1>3 DEF Login
<1>4. ASSUME NEW now \in 0 .. clock, CleanUp(now) PROVE FALSE
  BY <1>1, <1>4 DEF CleanUp, Orphan, Working, Idle
<1>5. ASSUME NEW q \in Request, q # r, Handle(q) PROVE FALSE
  <2>1. CASE DeleteMe(q)
    BY <1>1, <1>5, <2>1 DEF DeleteMe, Orphan, Working, Idle, TypeOK
  <2>2. ASSUME NEW k \in Kind, NEW c \in issued, Resolve(q, k, c) PROVE FALSE
    BY <1>1, <1>5, <2>2 DEF Resolve, TypeOK
  <2>3. ASSUME NEW a, Finish(q, a) PROVE FALSE
    BY <1>1, <1>5, <2>3 DEF Finish, TypeOK
  <2> QED
    BY <1>5, <2>1, <2>2, <2>3 DEF Handle, StorageFails, SavePreview, ListHistory,
       HistoryDetail, DeleteOne, DeleteAll, GetSettings, PutSettings, Logout
<1> QED BY <1>2, <1>3, <1>4, <1>5 DEF Next

\* The steps of a handler that is at work are those of its kind, or a failure.
LEMMA HandlersKeepToTheirKind ==
    ASSUME IInv, NEW r \in Request, reqs[r].stage = "working", Handle(r)
    PROVE  /\ reqs[r].kind = "deleteMe" => StorageFails(r) \/ DeleteMe(r)
           /\ reqs[r].kind = "preview" => StorageFails(r) \/ SavePreview(r)
BY DEF Handle, Resolve, Idle, IsWorking, SavePreview, ListHistory, HistoryDetail, DeleteOne,
       DeleteAll, GetSettings, PutSettings, Logout, DeleteMe

LEMMA DeletionAnswers ==
    ASSUME IInv, [Next]_vars, NEW r \in Request, Asked(r, reqs[r].user, {"deleteMe"})
    PROVE  /\ answer' = "ok" => \E u \in users \ users' : u.id = reqs[r].user
           /\ answer' = "missing" => UNCHANGED users
<1>1. Restart \/ StorageFails(r) \/ DeleteMe(r)
  BY HandlersEndThemselves, HandlersKeepToTheirKind DEF Asked
<1>2. CASE Restart
  BY <1>2 DEF Restart
<1>3. CASE StorageFails(r)
  BY <1>3 DEF StorageFails, Finish, Asked
<1>4. CASE DeleteMe(r)
  BY <1>4 DEF DeleteMe, DeleteUser, CanStoreFor
<1> QED BY <1>1, <1>2, <1>3, <1>4

LEMMA PreviewAnswers ==
    ASSUME IInv, [Next]_vars, NEW r \in Request, Asked(r, reqs[r].user, {"preview"}),
           answer' = "saved"
    PROVE  \E h \in history' \ history : h.user = reqs[r].user
<1>1. Restart \/ StorageFails(r) \/ SavePreview(r)
  BY HandlersEndThemselves, HandlersKeepToTheirKind DEF Asked
<1>2. SavePreview(r)
  BY <1>1 DEF Restart, StorageFails, Finish, Asked
<1>3. PICK now \in Since(r), hid \in HistoryId :
        /\ \A h \in history : h.id # hid
        /\ CreateHistory(reqs[r].user, hid, reqs[r].subject, now)
  BY <1>2 DEF SavePreview, Finish
<1> DEFINE row == [id |-> hid, user |-> reqs[r].user, created |-> now, of |-> reqs[r].subject]
<1>4. row.id = hid /\ row.user = reqs[r].user
  OBVIOUS
<1>5. row \in history' \ history
  BY <1>3, <1>4 DEF CreateHistory
<1> QED BY <1>4, <1>5

-----------------------------------------------------------------------------
(* Theorems *)

\* The inductive invariant holds of every reachable state.
THEOREM Invariance == Spec => []IInv
<1>1. Init => IInv
  BY InitIInv
<1>2. IInv /\ [Next]_vars => IInv'
  BY NextIInv
<1> QED BY <1>1, <1>2, PTL DEF Spec

\* The tables and the handlers keep their form (storage/database.py's schema).
THEOREM TypeCorrect == Spec => []TypeOK
<1>1. IInv => TypeOK
  BY DEF IInv
<1> QED BY <1>1, Invariance, PTL

\* No row outlives its account, with any number of visitors and handlers.
THEOREM ReferentialIntegrity == Spec => []RowsHaveAccounts
<1>1. IInv => RowsHaveAccounts
  BY DEF IInv
<1> QED BY <1>1, Invariance, PTL

\* A cookie never opens somebody else's account, however often SQLite hands the
\* id of a deleted account out again.
THEOREM SessionIsolation == Spec => []SessionsKeepTheirSubject
<1>1. IInv => SessionsKeepTheirSubject
  BY DEF IInv
<1> QED BY <1>1, Invariance, PTL

\* A handler's principal is right for as long as its account is not deleted.
THEOREM PrincipalValidity == Spec => []PrincipalStaysValid
<1>1. IInv => PrincipalStaysValid
  BY DEF IInv
<1> QED BY <1>1, Invariance, PTL

\* A trip is filed under the account of the visitor who calculated it, however
\* long the route search between the two database calls takes (api/trips.py).
THEOREM SavesAreFiledRight == Spec => SavesLandInOwnAccount
<1>1. IInv /\ [Next]_vars
        => [\A h \in history' \ history :
              \/ [id |-> h.user, subject |-> h.of] \in users'
              \/ \E r \in Request : Asked(r, h.user, {"preview"}) /\ reqs[r].orphaned]_vars
  BY SaveStep
<1> QED BY <1>1, Invariance, PTL DEF Spec, SavesLandInOwnAccount

\* Settings are saved in the account of the visitor who sent them, whatever
\* becomes of accounts between the two database calls (api/me.py, put_settings).
THEOREM SettingsAreFiledRight == Spec => SettingsLandInOwnAccount
<1>1. IInv /\ [Next]_vars
        => [\A x \in settings' \ settings :
              \/ [id |-> x.user, subject |-> x.of] \in users'
              \/ \E r \in Request : Asked(r, x.user, {"putSettings"}) /\ reqs[r].orphaned]_vars
  BY PutStep
<1> QED BY <1>1, Invariance, PTL DEF Spec, SettingsLandInOwnAccount

\* Whatever a race takes away was expired, or asked for by a request that was
\* resolved to that very account (api/me.py, storage/retention.py).
THEOREM LossesAreAskedFor == Spec => LiveRowsLeaveForACause
<1>1. Init => HandlersKeepTheirSession
  BY DEF Init, HandlersKeepTheirSession, Idle
<1>2. IInv /\ HandlersKeepTheirSession /\ [Next]_vars => HandlersKeepTheirSession'
  BY HandlersStep
<1>3. Spec => []HandlersKeepTheirSession
  BY <1>1, <1>2, Invariance, PTL DEF Spec
<1>4. IInv /\ HandlersKeepTheirSession /\ [Next]_vars
        => [/\ \A h \in history \ history' :
                \/ Expired(h, clock)
                \/ \E r \in Request : Asked(r, h.user, {"deleteOne", "deleteAll", "deleteMe"})
            /\ \A x \in settings : (\A y \in settings' : y.user # x.user)
                => \E r \in Request : Asked(r, x.user, {"deleteMe"})
            /\ \A s \in sessions \ sessions' :
                \/ s.expires <= clock
                \/ \E r \in Request : \/ Asked(r, s.user, {"deleteMe"})
                                      \/ Asked(r, s.user, {"logout"})
                                         /\ reqs[r].token = s.token]_vars
  BY HistoryLeaves, SettingsLeave, SessionsLeave
<1> QED BY <1>3, <1>4, Invariance, PTL DEF Spec, LiveRowsLeaveForACause

\* An answer tells what happened to the account or the trip, with other requests
\* of the same visitor in between (api/me.py, api/trips.py).
THEOREM AnswersTellEffects == Spec => AnswersMatchEffects
<1>1. IInv /\ [Next]_vars
        => [\A r \in Request :
              /\ Asked(r, reqs[r].user, {"deleteMe"})
                   => /\ answer' = "ok" => \E u \in users \ users' : u.id = reqs[r].user
                      /\ answer' = "missing" => UNCHANGED users
              /\ Asked(r, reqs[r].user, {"preview"}) /\ answer' = "saved"
                   => \E h \in history' \ history : h.user = reqs[r].user]_vars
  BY DeletionAnswers, PreviewAnswers
<1> QED BY <1>1, Invariance, PTL DEF Spec, AnswersMatchEffects

\* A run works with a time that has been.
ClockWasRead ==
    /\ clock \in Nat
    /\ cleaner.stage = "running" => cleaner.since \in 0 .. clock

\* The supervised task of Retention only does what AccountApi allows a clean-up
\* to do: the clock a run works with is never ahead.  So all theorems above hold
\* of the process with its supervisor (main.py, _supervise_retention).
THEOREM SupervisionAddsNothing == RetentionSpec => Spec
<1>1. RetentionInit => Init /\ ClockWasRead
  BY DEF RetentionInit, Init, DatabaseInit, ClockWasRead, Started
<1>2. ClockWasRead /\ [RetentionNext]_retentionVars => [Next]_vars /\ ClockWasRead'
  <2> SUFFICES ASSUME ClockWasRead, [RetentionNext]_retentionVars
               PROVE  [Next]_vars /\ ClockWasRead'
    OBVIOUS
  <2>1. CASE VisitorsAct /\ UNCHANGED cleanerVars
    <3>1. Next
      BY <2>1 DEF VisitorsAct, Next
    <3>2. clock' \in {clock, clock + 1}
      BY <2>1 DEF VisitorsAct, Tick, Login, Handle, Resolve, StorageFails, SavePreview,
         ListHistory, HistoryDetail, DeleteOne, DeleteAll, GetSettings, PutSettings, Logout,
         DeleteMe
    <3> QED BY <2>1, <3>1, <3>2 DEF ClockWasRead, cleanerVars
  <2>2. CASE RunEnds
    <3>1. cleaner.since \in 0 .. clock /\ CleanUp(cleaner.since)
      BY <2>2 DEF RunEnds, ClockWasRead
    <3>2. cleaner'.stage = "sleeping" /\ UNCHANGED clock
      BY <2>2 DEF RunEnds, CleanUp
    <3> QED BY <3>1, <3>2 DEF Next, ClockWasRead
  <2>3. CASE RunRaises
    <3>1. cleaner.since \in 0 .. clock /\ (CleanUp(cleaner.since) \/ UNCHANGED vars)
      BY <2>3 DEF RunRaises, ClockWasRead
    <3>2. cleaner'.stage = "raised" /\ UNCHANGED clock
      BY <2>3, <3>1 DEF RunRaises, CleanUp, vars
    <3> QED BY <3>1, <3>2 DEF Next, ClockWasRead
  <2>4. CASE Supervise \/ RunAgain
    BY <2>4 DEF Supervise, RunAgain, Started, ClockWasRead, vars
  <2>5. CASE StartAgain
    <3>1. Restart \/ UNCHANGED vars
      BY <2>5 DEF StartAgain
    <3>2. UNCHANGED clock /\ cleaner' = [stage |-> "running", since |-> clock]
      BY <2>5, <3>1 DEF StartAgain, Started, Restart, vars
    <3> QED BY <3>1, <3>2 DEF Next, ClockWasRead
  <2>6. CASE UNCHANGED retentionVars
    BY <2>6 DEF retentionVars, cleanerVars, vars, ClockWasRead
  <2> QED BY <2>1, <2>2, <2>3, <2>4, <2>5, <2>6 DEF RetentionNext
<1> QED BY <1>1, <1>2, PTL DEF RetentionSpec, Spec
=============================================================================
