SPECIFICATION Spec
CONSTANTS
    Subject = {A, B}
    Token = {t1, t2}
    HistoryId = {h1}
    Attempt = {}
    UserId = {1, 2}
    SessionTtl = 2
    HistoryTtl = 1
    AttemptTtl = 1
    MaxActiveAttempts = 0
    Request = {r1, r2}
    MaxClock = 1
PROPERTIES
    DeletesOnlyOwnAccount
