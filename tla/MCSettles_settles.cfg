SPECIFICATION SettlesSpec
CONSTANTS
    None = None
    Malformed = Malformed
    ExecutionId = {x1, x2}
    EvidenceId = {v1}
    Caller = {c1}
    Digest = {d1}
    EvidenceFile = {e1, e2}
    ExecutionFile = {r1}
    Writer = {w1, w2}
    Absent = Absent
    Partial = Partial
    Skill <- MCSkill
    Installed <- MCSkill
    Runnable <- MCSkill
    Modes <- InspectOnly
    Required <- LeafNeedsEmit
    Optional <- DeclaresAll
    Dependency <- Chain
    EmitOp = {"emit"}
    ReadOp = {}
    LogOp = {}
    HttpOp = {"get"}
    Alias = {"dep"}
    Deferred = {}
    MaxRedirects <- OneRedirect
    Requests <- LiveRequests
    Policies <- AllowAllOnly
    MaxChildSequence = 2
    MaxAttempts = 1
CHECK_DEADLOCK FALSE
PROPERTIES
    StoreSettles
    EveryAttemptSettles
