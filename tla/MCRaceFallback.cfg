SPECIFICATION EvidenceSpec
CONSTANTS
    None = None
    Direct = Direct
    Procs = {p1, p2}
    Tasks = {t1}
    Kinds = {}
    BriefIds = {}
    PlanIds = {i1}
    RunIds = {r1}
    ReviewIds = {v1}
    ApprovalIds = {}
    RequestIds = {q1, q2}
    Alternates = {alt}
    MaxCrashes = 1
    Verifications = {}
    MaxTime = 0
SYMMETRY Symmetry
CONSTRAINT Unread
INVARIANTS FallbackDecided FallbackLedgered ReadersFindRecords
CHECK_DEADLOCK FALSE
