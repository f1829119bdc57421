SPECIFICATION Spec
CONSTANTS
    Subject = {A, B}
    Token = {t1, t2, t3}
    HistoryId = {h1}
    Attempt = {}
    UserId = {1, 2, 3}
    SessionTtl = 1
    HistoryTtl = 1
    AttemptTtl = 1
    MaxActiveAttempts = 0
    Request = {r1, r2}
    MaxClock = 1
SYMMETRY Symmetry
INVARIANTS
    RowsHaveAccounts
    SessionsKeepTheirSubject
    PrincipalStaysValid
PROPERTIES
    LiveRowsLeaveForACause
    SavesLandInOwnAccount
    SettingsLandInOwnAccount
    AnswersMatchEffects
