----------------------------- MODULE AccountApi -----------------------------
(***************************************************************************)
(* The handlers of api/me.py, api/auth.py (logout) and api/trips.py that   *)
(* act for a logged-in visitor, over the tables of UserDatabase, with the  *)
(* clean-up of main.py at any time.                                        *)
(*                                                                         *)
(* Every handler is two database calls with awaits around them: it         *)
(* resolves the session cookie to a principal, and later acts on           *)
(* principal.user_id without looking at the session or the account again.  *)
(* Between the two the visitor's other devices, other visitors and the     *)
(* clean-up run; for POST /trips/preview the gap holds a whole route       *)
(* search.  GET /me is the first half alone.                               *)
(***************************************************************************)
EXTENDS UserDatabase

CONSTANTS
    Request,   \* requests in flight at a time
    MaxClock   \* bound: the clock stops here

VARIABLES
    issued,  \* cookies handed to browsers: which visitor holds which token
    reqs,    \* per request, what its handler has in its locals
    answer   \* what the last step answered ("none" for a step that does not)

vars == <<clock, tables, issued, reqs, answer>>

Kind == {"preview", "list", "detail", "deleteOne", "deleteAll", "deleteMe",
         "logout", "getSettings", "putSettings"}

\* A handler between its two calls.  since is the clock when the session was
\* resolved; orphaned (a history variable, read by no guard) tells whether the
\* account resolved has been deleted since.
Working == [stage: {"working"}, kind: Kind, token: Token, user: UserId,
            subject: Subject, since: Nat, orphaned: BOOLEAN]
Idle == [stage |-> "idle"]

Answer == {"none", "unauthenticated", "unavailable", "ok", "missing",
           "saved", "notSaved"}

TypeOK ==
    /\ DatabaseTypeOK
    /\ issued \subseteq [token: Token, subject: Subject]
    /\ reqs \in [Request -> Working \cup {Idle}]
    /\ answer \in Answer

Init ==
    /\ DatabaseInit
    /\ issued = {}
    /\ reqs = [r \in Request |-> Idle]
    /\ answer = "none"

-----------------------------------------------------------------------------

IsWorking(r, k) == reqs[r].stage = "working" /\ reqs[r].kind = k

Finish(r, a) ==
    /\ reqs' = [reqs EXCEPT ![r] = Idle]
    /\ answer' = a

\* Requests q with the accounts of ids marked as deleted under them.
Orphan(rs, ids) ==
    [q \in Request |->
        IF rs[q].stage = "working" /\ rs[q].user \in ids
        THEN [rs[q] EXCEPT !.orphaned = TRUE] ELSE rs[q]]

Tick ==
    /\ clock < MaxClock
    /\ clock' = clock + 1
    /\ answer' = "none"
    /\ UNCHANGED <<tables, issued, reqs>>

\* The last step of the OAuth callback (LoginFlow has the ones before it): a
\* fresh random token becomes a session and a cookie of visitor s.
Login(s, t) ==
    /\ \A c \in issued : c.token # t
    /\ UpsertUserAndInsertSession(s, t, clock)
    /\ issued' = issued \cup {[token |-> t, subject |-> s]}
    /\ answer' = "none"
    /\ UNCHANGED <<clock, reqs>>

\* A browser sends a request with its cookie; the cookie may be of a session
\* that is over.  A preview is then calculated and answered like an anonymous
\* one; the other handlers answer 401.  (The 403, 422 and 429 answers change
\* nothing either and are not told apart from it.)
Resolve(r, k, c) ==
    /\ reqs[r] = Idle
    /\ \/ \E s \in ResolveSession(c.token, clock) :
            /\ reqs' = [reqs EXCEPT ![r] =
                 [stage |-> "working", kind |-> k, token |-> c.token, user |-> s.user,
                  subject |-> c.subject, since |-> clock, orphaned |-> FALSE]]
            /\ answer' = "none"
       \/ /\ ResolveSession(c.token, clock) = {}
          /\ UNCHANGED reqs
          /\ answer' = "unauthenticated"
    /\ UNCHANGED <<clock, tables, issued>>

\* A storage error before anything is committed (schema check, lock timeout,
\* cipher): the preview is answered with HISTORY_NOT_SAVED, the rest with 503.
StorageFails(r) ==
    /\ reqs[r].stage = "working"
    /\ Finish(r, IF reqs[r].kind = "preview" THEN "notSaved" ELSE "unavailable")
    /\ UNCHANGED <<clock, tables, issued>>

\* The times a handler may have read from the clock since it resolved.
Since(r) == reqs[r].since .. clock

\* The save at the end of POST /trips/preview.  The check of the file modes
\* that closes a connection can fail after the commit, which is answered like
\* a failed save.
SavePreview(r) ==
    /\ IsWorking(r, "preview")
    /\ \/ \E now \in Since(r), hid \in HistoryId, a \in {"saved", "notSaved"} :
            /\ \A h \in history : h.id # hid
            /\ CreateHistory(reqs[r].user, hid, reqs[r].subject, now)
            /\ Finish(r, a)
       \/ /\ ~CanStoreFor(reqs[r].user)
          /\ Finish(r, "notSaved")
          /\ UNCHANGED tables
    /\ UNCHANGED <<clock, issued>>

\* Both reads also delete the expired rows of the account they read.
ListHistory(r) ==
    /\ IsWorking(r, "list")
    /\ \E now \in Since(r), a \in {"ok", "unavailable"} :
         /\ ReadHistory(reqs[r].user, now)
         /\ Finish(r, a)
    /\ UNCHANGED <<clock, issued>>

HistoryDetail(r) ==
    /\ IsWorking(r, "detail")
    /\ \E now \in Since(r), hid \in HistoryId, a \in {"ok", "missing", "unavailable"} :
         /\ ReadHistory(reqs[r].user, now)
         /\ a = "ok" => \E h \in RowsFor(reqs[r].user, now) : h.id = hid
         /\ a = "missing" => \A h \in RowsFor(reqs[r].user, now) : h.id # hid
         /\ Finish(r, a)
    /\ UNCHANGED <<clock, issued>>

DeleteOne(r) ==
    /\ IsWorking(r, "deleteOne")
    /\ \E now \in Since(r), hid \in HistoryId, a \in {"ok", "missing", "unavailable"} :
         /\ DeleteHistory(reqs[r].user, hid, now)
         /\ a = "ok" => \E h \in RowsFor(reqs[r].user, now) : h.id = hid
         /\ a = "missing" => \A h \in RowsFor(reqs[r].user, now) : h.id # hid
         /\ Finish(r, a)
    /\ UNCHANGED <<clock, issued>>

DeleteAll(r) ==
    /\ IsWorking(r, "deleteAll")
    /\ \E now \in Since(r), a \in {"ok", "unavailable"} :
         /\ DeleteAllHistory(reqs[r].user, now)
         /\ Finish(r, a)
    /\ UNCHANGED <<clock, issued>>

GetSettings(r) ==
    /\ IsWorking(r, "getSettings")
    /\ Finish(r, "ok")
    /\ UNCHANGED <<clock, tables, issued>>

PutSettings(r) ==
    /\ IsWorking(r, "putSettings")
    /\ \/ /\ ReplaceSettings(reqs[r].user, reqs[r].subject)
          /\ \E a \in {"ok", "unavailable"} : Finish(r, a)
       \/ /\ ~CanStoreFor(reqs[r].user)
          /\ Finish(r, "unavailable")
          /\ UNCHANGED tables
    /\ UNCHANGED <<clock, issued>>

Logout(r) ==
    /\ IsWorking(r, "logout")
    /\ RevokeSession(reqs[r].token)
    /\ \E a \in {"ok", "unavailable"} : Finish(r, a)
    /\ UNCHANGED <<clock, issued>>

DeleteMe_alwaysOk(r) ==
    /\ IsWorking(r, "deleteMe")
    /\ DeleteUser(reqs[r].user)
    /\ reqs' = Orphan([reqs EXCEPT ![r] = Idle], {reqs[r].user})
    /\ answer' \in {"ok", "unavailable"}
    /\ UNCHANGED <<clock, issued>>
\* 204 when a row was deleted, 401 when the account was already gone, and 503
\* when the commit was followed by a failed check.
DeleteMe(r) ==
    /\ IsWorking(r, "deleteMe")
    /\ DeleteUser(reqs[r].user)
    /\ reqs' = Orphan([reqs EXCEPT ![r] = Idle], {reqs[r].user})
    /\ answer' \in {IF CanStoreFor(reqs[r].user) THEN "ok" ELSE "missing", "unavailable"}
    /\ UNCHANGED <<clock, issued>>

\* The retention task reads the clock, then waits for the connection.  When it
\* runs, and what becomes of it after a storage error, is in Retention.
CleanUp(now) ==
    /\ RunOnce(now)
    /\ reqs' = Orphan(reqs, {u.id : u \in users \ users'})
    /\ answer' = "none"
    /\ UNCHANGED <<clock, issued>>

\* The process stops and starts again: committed rows stay, handlers are gone.
Restart ==
    /\ \E r \in Request : reqs[r] # Idle
    /\ reqs' = [r \in Request |-> Idle]
    /\ answer' = "none"
    /\ UNCHANGED <<clock, tables, issued>>

Handle(r) ==
    \/ \E k \in Kind, c \in issued : Resolve(r, k, c)
    \/ StorageFails(r)
    \/ SavePreview(r)
    \/ ListHistory(r)
    \/ HistoryDetail(r)
    \/ DeleteOne(r)
    \/ DeleteAll(r)
    \/ GetSettings(r)
    \/ PutSettings(r)
    \/ Logout(r)
    \/ DeleteMe(r)

Next ==
    \/ Tick
    \/ \E s \in Subject, t \in Token : Login(s, t)
    \/ \E r \in Request : Handle(r)
    \/ \E now \in 0 .. clock : CleanUp(now)
    \/ Restart

Spec == Init /\ [][Next]_vars

-----------------------------------------------------------------------------
(* Properties *)

\* Referential integrity: no session, history row or settings row outlives its
\* account, whatever deletes the account (DELETE /me/data, the clean-up) and
\* whatever handler was between its two calls then.
RowsHaveAccounts ==
    \A x \in sessions \cup history \cup settings : CanStoreFor(x.user)

\* A cookie never opens the account of somebody else, even though SQLite hands
\* the id of a deleted account out again: the one account a session row leads
\* to is that of the visitor it was issued to.
SessionsKeepTheirSubject ==
    \A s \in sessions, c \in issued :
        s.token = c.token
            => {u \in users : u.id = s.user} = {[id |-> s.user, subject |-> c.subject]}

\* The principal a handler holds across its await names the visitor's own
\* account until that account is deleted: logins, other requests and the
\* clean-up never move or take over an account that stays.
PrincipalStaysValid ==
    \A r \in Request :
        reqs[r].stage = "working" /\ ~reqs[r].orphaned
            => [id |-> reqs[r].user, subject |-> reqs[r].subject] \in users

\* Request r, which acted for account id, finishes in this step.
Asked(r, id, kinds) ==
    /\ reqs[r].stage = "working" /\ reqs[r].kind \in kinds /\ reqs[r].user = id
    /\ reqs'[r] = Idle

\* Nothing live is lost by a race with the clean-up or with another visitor's
\* request: an unexpired row goes only in the step of a request that asked for
\* it and was resolved to that very account, and settings only with the
\* account's own deletion.
LiveRowsLeaveForACause ==
    [][/\ \A h \in history \ history' :
            \/ Expired(h, clock)
            \/ \E r \in Request : Asked(r, h.user, {"deleteOne", "deleteAll", "deleteMe"})
       /\ \A x \in settings : (\A y \in settings' : y.user # x.user)
            => \E r \in Request : Asked(r, x.user, {"deleteMe"})
       /\ \A s \in sessions \ sessions' :
            \/ s.expires <= clock
            \/ \E r \in Request : \/ Asked(r, s.user, {"deleteMe"})
                                  \/ Asked(r, s.user, {"logout"}) /\ reqs[r].token = s.token
      ]_vars

\* A trip is filed under the account of the visitor who calculated it, even
\* after a long route search, unless that account was deleted meanwhile.
SavesLandInOwnAccount ==
    [][\A h \in history' \ history :
         \/ [id |-> h.user, subject |-> h.of] \in users'
         \/ \E r \in Request : Asked(r, h.user, {"preview"}) /\ reqs[r].orphaned]_vars

\* Settings are saved in the account of the visitor who sent them: the id the
\* handler resolved before its await leads to nobody else's settings, unless
\* that account was deleted meanwhile.
SettingsLandInOwnAccount ==
    [][\A x \in settings' \ settings :
         \/ [id |-> x.user, subject |-> x.of] \in users'
         \/ \E r \in Request : Asked(r, x.user, {"putSettings"}) /\ reqs[r].orphaned]_vars

\* An answer tells what happened: 204 to DELETE /me/data is given by the step
\* that removed the account, 401 only when there was none, and a preview
\* without HISTORY_NOT_SAVED has stored its row.  (503 tells nothing.)
AnswersMatchEffects ==
    [][\A r \in Request :
         /\ Asked(r, reqs[r].user, {"deleteMe"})
              => /\ answer' = "ok" => \E u \in users \ users' : u.id = reqs[r].user
                 /\ answer' = "missing" => UNCHANGED users
         /\ Asked(r, reqs[r].user, {"preview"}) /\ answer' = "saved"
              => \E h \in history' \ history : h.user = reqs[r].user]_vars

\* Deleting the data of a visitor deletes that visitor's account and no other.
DeletesOnlyOwnAccount ==
    [][\A r \in Request : Asked(r, reqs[r].user, {"deleteMe"})
         => \A u \in users \ users' : u.subject = reqs[r].subject]_vars
=============================================================================
