---------------------------- MODULE UserDatabase ----------------------------
(***************************************************************************)
(* The private SQLite file behind the optional login (app/storage): its    *)
(* tables as sets of rows, and each repository call as ONE step.           *)
(*                                                                         *)
(* database.py holds _PRIVATE_UMASK_LOCK for the whole life of a           *)
(* connection, and every repository call is one connection, so the calls   *)
(* of the process are serialised: what interleaves is the calls, not the   *)
(* statements inside one.  The steps that make a handler of several calls  *)
(* are in the modules that extend this one.                                *)
(*                                                                         *)
(* Timestamps are fixed-width text compared lexically, which is the order  *)
(* of the instants: they are numbers here.  An HMAC stands for the secret  *)
(* it digests, so a row holds the model value itself.                      *)
(***************************************************************************)
EXTENDS Naturals, FiniteSets

CONSTANTS
    Subject,     \* Kakao accounts (kakao_subject_hmac)
    Token,       \* session tokens secrets.token_urlsafe may draw
    HistoryId,   \* history ids the repository may draw
    Attempt,     \* login attempts /auth/kakao/start may draw
    UserId,      \* the rowids the model lets SQLite reach: 1 up to a bound
    SessionTtl,  \* 7 days
    HistoryTtl,  \* 168 hours
    AttemptTtl,  \* 10 minutes
    MaxActiveAttempts  \* 10,000 in the code

ASSUME DatabaseAssumption ==
    /\ UserId \subseteq Nat \ {0}
    /\ SessionTtl \in Nat \ {0}
    /\ HistoryTtl \in Nat \ {0}
    /\ AttemptTtl \in Nat \ {0}
    /\ MaxActiveAttempts \in Nat

VARIABLES
    clock,     \* the clock the handlers read
    users,     \* TABLE users
    sessions,  \* TABLE sessions
    history,   \* TABLE calculation_history
    settings,  \* TABLE user_settings
    attempts   \* TABLE oauth_login_attempts

tables == <<users, sessions, history, settings, attempts>>

User == [id: UserId, subject: Subject]
Session == [token: Token, user: UserId, expires: Nat]
\* "of" stands for the encrypted payload: whose trip, whose settings it holds.
\* expires_at is always created_at plus the retention (storage/models.py), so
\* the row keeps created_at only.
HistoryRow == [id: HistoryId, user: UserId, created: Nat, of: Subject]
SettingsRow == [user: UserId, of: Subject]
AttemptRow == [attempt: Attempt, expires: Nat, consumed: BOOLEAN]

DatabaseTypeOK ==
    /\ clock \in Nat
    /\ users \subseteq User
    /\ sessions \subseteq Session
    /\ history \subseteq HistoryRow
    /\ settings \subseteq SettingsRow
    /\ attempts \subseteq AttemptRow

DatabaseInit ==
    /\ clock = 0
    /\ users = {} /\ sessions = {} /\ history = {} /\ settings = {}
    /\ attempts = {}

-----------------------------------------------------------------------------
(* users and sessions: storage/users.py *)

\* The id SQLite gives a new row of "id INTEGER PRIMARY KEY" without
\* AUTOINCREMENT: one more than the largest id PRESENT, so the id of the last
\* account is given out again once that account is deleted.
NextRowId_count(id) == id = Cardinality(users) + 1
NextRowId(id) ==
    /\ \A u \in users : u.id < id
    /\ id = 1 \/ \E u \in users : id = u.id + 1

UpsertUserAndInsertSession_replace(s, t, now) ==
    \* INSERT OR REPLACE: the old row, and by the cascade all that hangs on
    \* it, goes; the account comes back under a new id
    LET old == {u.id : u \in {v \in users : v.subject = s}} IN
    \E id \in UserId :
        /\ NextRowId(id)
        /\ users' = {u \in users : u.id \notin old} \cup {[id |-> id, subject |-> s]}
        /\ sessions' = {x \in sessions : x.user \notin old}
                         \cup {[token |-> t, user |-> id, expires |-> now + SessionTtl]}
        /\ history' = {h \in history : h.user \notin old}
        /\ settings' = {x \in settings : x.user \notin old}
        /\ UNCHANGED attempts
\* One transaction: the account of subject s is found or created, and token t
\* becomes a session of it.
UpsertUserAndInsertSession(s, t, now) ==
    \E id \in UserId :
        /\ \/ [id |-> id, subject |-> s] \in users /\ UNCHANGED users
           \/ /\ \A u \in users : u.subject # s
              /\ NextRowId(id)
              /\ users' = users \cup {[id |-> id, subject |-> s]}
        /\ sessions' = sessions
                         \cup {[token |-> t, user |-> id, expires |-> now + SessionTtl]}
        /\ UNCHANGED <<history, settings, attempts>>

\* The rows SELECT ... WHERE token_hash = ? AND expires_at > ? finds.
ResolveSession(t, now) == {s \in sessions : s.token = t /\ s.expires > now}

RevokeSession(t) ==
    /\ sessions' = {s \in sessions : s.token # t}
    /\ UNCHANGED <<users, history, settings, attempts>>

DeleteUser_noCascade(id) ==
    /\ users' = {u \in users : u.id # id}
    /\ sessions' = {s \in sessions : s.user # id}
    /\ UNCHANGED <<history, settings, attempts>>
DeleteUser_keepsSessions(id) ==
    /\ users' = {u \in users : u.id # id}
    /\ history' = {h \in history : h.user # id}
    /\ settings' = {x \in settings : x.user # id}
    /\ UNCHANGED <<sessions, attempts>>
\* DELETE FROM users WHERE id = ?, with the cascade of the three foreign keys.
DeleteUser(id) ==
    /\ users' = {u \in users : u.id # id}
    /\ sessions' = {s \in sessions : s.user # id}
    /\ history' = {h \in history : h.user # id}
    /\ settings' = {x \in settings : x.user # id}
    /\ UNCHANGED attempts

-----------------------------------------------------------------------------
(* calculation_history: storage/history.py.  now is read before the call   *)
(* waits for the connection, so it may be older than the clock.            *)

Expired(h, now) == h.created + HistoryTtl <= now

\* The table after _delete_expired_for_user.
LiveHistory(id, now) == {h \in history : h.user = id => ~Expired(h, now)}

\* The foreign key refuses a row of an account that is gone; the rollback then
\* takes the clean-up of the same transaction back too.
CanStoreFor(id) == \E u \in users : u.id = id

CreateHistory(id, hid, of, now) ==
    /\ CanStoreFor(id)
    /\ history' = LiveHistory(id, now)
                    \cup {[id |-> hid, user |-> id, created |-> now, of |-> of]}
    /\ UNCHANGED <<users, sessions, settings, attempts>>

\* What list_page and get serve: their SELECTs do not test expires_at, they
\* rely on the clean-up that ran before them in the transaction.
RowsFor(id, now) == {h \in LiveHistory(id, now) : h.user = id}

ReadHistory(id, now) ==
    /\ history' = LiveHistory(id, now)
    /\ UNCHANGED <<users, sessions, settings, attempts>>

DeleteHistory(id, hid, now) ==
    /\ history' = {h \in LiveHistory(id, now) : ~(h.id = hid /\ h.user = id)}
    /\ UNCHANGED <<users, sessions, settings, attempts>>

DeleteAllHistory(id, now) ==
    /\ history' = {h \in LiveHistory(id, now) : h.user # id}
    /\ UNCHANGED <<users, sessions, settings, attempts>>

-----------------------------------------------------------------------------
(* user_settings: storage/user_settings.py *)

ReplaceSettings(id, of) ==
    /\ CanStoreFor(id)
    /\ settings' = {x \in settings : x.user # id} \cup {[user |-> id, of |-> of]}
    /\ UNCHANGED <<users, sessions, history, attempts>>

-----------------------------------------------------------------------------
(* Retention: storage/retention.py *)

\* Accounts with nothing left once the expired sessions and rows are gone.
IdleUsers_ignoringSettings(liveSessions, liveHistory) ==
    {u \in users : /\ \A s \in liveSessions : s.user # u.id
                   /\ \A h \in liveHistory : h.user # u.id}
IdleUsers(liveSessions, liveHistory) ==
    {u \in users : /\ \A x \in settings : x.user # u.id
                   /\ \A s \in liveSessions : s.user # u.id
                   /\ \A h \in liveHistory : h.user # u.id}

\* One clean-up transaction; the checkpoint after it changes no row.
RunOnce(now) ==
    LET liveSessions == {s \in sessions : s.expires > now}
        liveHistory == {h \in history : ~Expired(h, now)}
        idle == IdleUsers(liveSessions, liveHistory)
    IN  /\ attempts' = {a \in attempts : a.expires > now}
        /\ sessions' = liveSessions
        /\ history' = liveHistory
        /\ users' = users \ idle
        /\ settings' = {x \in settings : \A u \in idle : x.user # u.id}

-----------------------------------------------------------------------------
(* oauth_login_attempts: auth/oauth.py *)

CreateAttempt_countOpen(a, now) ==
    LET live == {x \in attempts : x.expires > now} IN
    /\ Cardinality({x \in live : ~x.consumed}) < MaxActiveAttempts
    /\ attempts' = live \cup {[attempt |-> a, expires |-> now + AttemptTtl,
                               consumed |-> FALSE]}
    /\ UNCHANGED <<users, sessions, history, settings>>
CreateAttempt(a, now) ==
    LET live == {x \in attempts : x.expires > now} IN
    \* the count includes consumed attempts; at the cap the rollback keeps
    \* even the expired rows
    /\ Cardinality(live) < MaxActiveAttempts
    /\ attempts' = live \cup {[attempt |-> a, expires |-> now + AttemptTtl,
                               consumed |-> FALSE]}
    /\ UNCHANGED <<users, sessions, history, settings>>

\* Open attempts SELECT ... WHERE attempt_hash = ? AND expires_at > ? AND
\* consumed_at IS NULL finds.
OpenAttempt(a, now) ==
    {x \in attempts : x.attempt = a /\ x.expires > now /\ ~x.consumed}

ConsumeAttempt_notMarked(a, now) ==
    /\ OpenAttempt(a, now) # {}
    /\ UNCHANGED tables
ConsumeAttempt(a, now) ==
    LET open == OpenAttempt(a, now) IN
    /\ open # {}
    /\ attempts' = (attempts \ open) \cup {[x EXCEPT !.consumed = TRUE] : x \in open}
    /\ UNCHANGED <<users, sessions, history, settings>>
=============================================================================
