------------------------------ MODULE Retention ------------------------------
(***************************************************************************)
(* The one clean-up task of a process, next to the handlers of AccountApi: *)
(* run_forever (storage/retention.py) runs, sleeps an hour and runs again; *)
(* a run that meets a storage error ends it, and the supervisor of main.py *)
(* sleeps an hour too and starts it afresh.  Each run reads the clock once *)
(* and then waits for the connection.                                      *)
(*                                                                         *)
(* Every step is one of AccountApi or leaves its variables alone, so what  *)
(* holds there holds here.                                                 *)
(***************************************************************************)
EXTENDS AccountApi

CONSTANT MaxFailures  \* bound: storage errors the clean-up meets

ASSUME FailuresAssumption == MaxFailures \in Nat

VARIABLES
    cleaner,  \* where the task is, and the clock its run has read
    failures  \* the storage errors it has met

cleanerVars == <<cleaner, failures>>
retentionVars == <<vars, cleanerVars>>

\* "ended" is a task nobody starts again.
RetentionTypeOK ==
    /\ TypeOK
    /\ cleaner \in [stage: {"running"}, since: Nat] \cup [stage: {"sleeping", "raised", "ended"}]
    /\ failures \in 0 .. MaxFailures

\* The task is made with the process and runs at once.
Started == [stage |-> "running", since |-> clock]

RetentionInit ==
    /\ Init
    /\ cleaner = Started
    /\ failures = 0

-----------------------------------------------------------------------------

RunEnds ==
    /\ cleaner.stage = "running"
    /\ CleanUp(cleaner.since)
    /\ cleaner' = [stage |-> "sleeping"]
    /\ UNCHANGED failures

\* A storage error before the commit, or after it: in the checks that close the
\* connection, or in the checkpoint.
RunRaises ==
    /\ cleaner.stage = "running"
    /\ failures < MaxFailures
    /\ failures' = failures + 1
    /\ CleanUp(cleaner.since) \/ UNCHANGED vars
    /\ cleaner' = [stage |-> "raised"]

Supervise_gone ==
    /\ cleaner.stage = "raised"
    /\ cleaner' = [stage |-> "ended"]
    /\ UNCHANGED <<vars, failures>>
\* StorageIntegrityError and sqlite3.Error are caught, and run_forever starts
\* again an hour later.
Supervise ==
    /\ cleaner.stage = "raised"
    /\ cleaner' = [stage |-> "sleeping"]
    /\ UNCHANGED <<vars, failures>>

RunAgain_oldClock ==
    \* the time the task was made, instead of the time it is
    /\ cleaner.stage = "sleeping"
    /\ cleaner' = [stage |-> "running", since |-> 0]
    /\ UNCHANGED <<vars, failures>>
RunAgain ==
    /\ cleaner.stage = "sleeping"
    /\ cleaner' = Started
    /\ UNCHANGED <<vars, failures>>

\* The process stops and starts again, whether requests are in flight or not.
StartAgain ==
    /\ Restart \/ UNCHANGED vars
    /\ cleaner' = Started
    /\ UNCHANGED failures

VisitorsAct ==
    \/ Tick
    \/ \E s \in Subject, t \in Token : Login(s, t)
    \/ \E r \in Request : Handle(r)

RetentionNext ==
    \/ VisitorsAct /\ UNCHANGED cleanerVars
    \/ RunEnds
    \/ RunRaises
    \/ Supervise
    \/ RunAgain
    \/ StartAgain

RetentionSpec == RetentionInit /\ [][RetentionNext]_retentionVars

\* A sleep of an hour ends, a run comes to an end, and an exception is caught
\* where it was raised.  Nothing is asked of the visitors.
FairSpec ==
    /\ RetentionSpec
    /\ WF_retentionVars(RunEnds)
    /\ WF_retentionVars(Supervise)
    /\ WF_retentionVars(RunAgain)

-----------------------------------------------------------------------------
(* Properties *)

\* Nothing expired stays: the clean-up removes every expired session and
\* history row, of visitors who never come back too, although a run may work
\* with a clock that is old and the task falls to storage errors.
ExpiredRowsAreRemoved ==
    /\ \A t \in Token :
        (\E s \in sessions : s.token = t /\ s.expires <= clock)
            ~> (\A s \in sessions : s.token # t)
    /\ \A hid \in HistoryId :
        (\E h \in history : h.id = hid /\ Expired(h, clock))
            ~> (\A h \in history : h.id # hid \/ ~Expired(h, clock))

\* The account of id holds nothing any more but what has expired.
Abandoned(id) ==
    /\ CanStoreFor(id)
    /\ \A x \in settings : x.user # id
    /\ \A s \in sessions : s.user = id => s.expires <= clock
    /\ \A h \in history : h.user = id => Expired(h, clock)

\* ... and neither does an abandoned account stay: the subject digest of a
\* visitor who never comes back is removed with the last expired row.
IdleAccountsAreRemoved == \A id \in UserId : Abandoned(id) ~> ~Abandoned(id)
=============================================================================
