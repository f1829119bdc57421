SPECIFICATION Spec
CONSTANTS
    Snapshot = {s1, s2, s3}
    None = None
    Builder = {b1, b2}
    Approver = {r1, r2}
    Time = {t1, t2}
SYMMETRY Symmetry
INVARIANTS
    OnlyApprovedIsReliedOn
    TransactionsDoNotRunAhead
PROPERTIES
    ApprovalIsGivenOnce
    ImplementsPublishedPointer
CHECK_DEADLOCK FALSE
