SPECIFICATION Spec
CONSTANTS
    None = None
    Direct = Direct
    Procs = {p1, p2}
    Tasks = {t1}
    Kinds = {k1}
    BriefIds = {b1, b2}
    PlanIds = {i1}
    RunIds = {}
    ReviewIds = {}
    ApprovalIds = {}
    RequestIds = {}
    Alternates = {}
    MaxCrashes = 0
SYMMETRY Symmetry
INVARIANTS OneBriefPerKind
CHECK_DEADLOCK FALSE
