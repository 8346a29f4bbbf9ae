CONSTANTS
    Digest = {d1, d2}
    EvidenceId = {e1, e2}
    ExecutionId = {x1, x2}
    Writer = {w1, w2}
    CanCrash = TRUE
    CanFail = TRUE
    PowerFails = TRUE
    Absent = Absent
    Partial = Partial
    None = None
SPECIFICATION ObjectsSpec
CONSTRAINT Meeting
SYMMETRY Symmetric
INVARIANTS
    RefsStayReadable
    RecordedEvidenceExists
PROPERTIES
    StoresAreCreateOnly
