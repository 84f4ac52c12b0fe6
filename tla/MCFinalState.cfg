SPECIFICATION Spec
CONSTANTS
    None = None
    Direct = Direct
    Procs = {p1, p2}
    Tasks = {t1}
    Kinds = {}
    BriefIds = {}
    PlanIds = {i1}
    RunIds = {r1, r2}
    ReviewIds = {v1}
    ApprovalIds = {a1}
    RequestIds = {}
    Alternates = {}
    MaxCrashes = 0
PROPERTIES FinalStateIsFinal
CHECK_DEADLOCK FALSE
