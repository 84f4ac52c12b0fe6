SPECIFICATION FairSpec
CONSTANTS
    None = None
    Direct = Direct
    Procs = {p1}
    Tasks = {t1}
    Kinds = {}
    BriefIds = {}
    PlanIds = {i1}
    RunIds = {r1}
    ReviewIds = {v1}
    ApprovalIds = {a1}
    RequestIds = {}
    Alternates = {}
    MaxCrashes = 1
PROPERTIES RunCompletes
CHECK_DEADLOCK FALSE
