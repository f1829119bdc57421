SPECIFICATION FairSpec
CONSTANTS
    Subject = {A, B}
    Token = {t1, t2}
    HistoryId = {h1}
    Attempt = {}
    UserId = {1, 2}
    SessionTtl = 1
    HistoryTtl = 1
    AttemptTtl = 1
    MaxActiveAttempts = 0
    Request = {r1}
    MaxClock = 2
    MaxFailures = 1
PROPERTIES
    ExpiredRowsAreRemoved
    IdleAccountsAreRemoved
