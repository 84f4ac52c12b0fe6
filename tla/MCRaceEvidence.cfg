SPECIFICATION Spec
CONSTANTS
    None = None
    Direct = Direct
    Procs = {p1, p2}
    Tasks = {t1}
    Kinds = {k1}
    BriefIds = {b1}
    PlanIds = {i1, i2}
    RunIds = {r1, r2}
    ReviewIds = {v1, v2}
    ApprovalIds = {a1, a2}
    RequestIds = {}
    Alternates = {}
    MaxCrashes = 1
SYMMETRY Symmetry
INVARIANTS TypeOK StateMatchesPointers EvidenceChain DecisionLedgered AttachedInSnapshot
CHECK_DEADLOCK FALSE
