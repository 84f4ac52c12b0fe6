SPECIFICATION OperatedSpec
CONSTANTS
    None = None
    Direct = Direct
    Procs = {p1}
    Tasks = {t1}
    Kinds = {k1}
    BriefIds = {b1}
    PlanIds = {i1, i2}
    RunIds = {r1}
    ReviewIds = {v1, v2}
    ApprovalIds = {a1, a2}
    RequestIds = {q1, q2, q3, q4}
    Alternates = {alt}
    MaxCrashes = 1
PROPERTIES EndedOrStranded
CHECK_DEADLOCK FALSE
