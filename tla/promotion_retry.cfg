SPECIFICATION FairSpec
CONSTANTS
    Snapshot = {s1, s2}
    None = None
    Builder = {b1, b2}
    Approver = {r1}
    Time = {t1}
PROPERTIES
    InterruptedPromotionsComplete
CHECK_DEADLOCK FALSE
