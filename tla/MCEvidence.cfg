SPECIFICATION EvidenceSpec
CONSTANTS
    None = None
    Direct = Direct
    Procs = {p1, p2}
    Tasks = {t1}
    Kinds = {}
    BriefIds = {}
    PlanIds = {i1}
    RunIds = {r1, r2}
    ReviewIds = {v1}
    ApprovalIds = {a1}
    RequestIds = {}
    Alternates = {}
    MaxCrashes = 1
    Verifications = {1, 2}
    MaxTime = 1
SYMMETRY Symmetry
INVARIANTS EvidenceTypeOK ReadersFindRecords ReadyIsVerified QueueAgreesWithPacket
PROPERTIES LatestNeverOlder
CHECK_DEADLOCK FALSE
