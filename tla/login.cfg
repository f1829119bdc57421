SPECIFICATION Spec
CONSTANTS
    Subject = {A, B}
    Token = {t1, t2}
    HistoryId = {}
    Attempt = {a1, a2, a3}
    UserId = {1, 2}
    SessionTtl = 2
    HistoryTtl = 1
    AttemptTtl = 1
    MaxActiveAttempts = 2
    Browser = {b1, b2}
    Callback = {r1, r2}
    NoCookie = NoCookie
    MaxApprovals = 2
    MaxClock = 1
SYMMETRY Symmetry
INVARIANTS
    LoginsAreApproved
    AttemptsStayBounded
PROPERTIES
    ImplementsOneTimeLogin
