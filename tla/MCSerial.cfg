SPECIFICATION Spec
CONSTANTS
    None = None
    Direct = Direct
    Procs = {p1}
    Tasks = {t1}
    Kinds = {k1, k2}
    BriefIds = {b1, b2}
    PlanIds = {i1, i2}
    RunIds = {r1}
    ReviewIds = {v1, v2}
    ApprovalIds = {a1, a2}
    RequestIds = {q1, q2}
    Alternates = {alt1, alt2}
    MaxCrashes = 1
INVARIANTS FallbackApproved OneBriefPerKind PlanSnapshotsBriefs
PROPERTIES DecidedRequestsFinal LifecycleSpec
CHECK_DEADLOCK FALSE
