SPECIFICATION SafetySpec
CONSTANTS
    None = None
    Malformed = Malformed
    ExecutionId = {x1, x2, x3}
    EvidenceId = {v1}
    Caller = {c1, c2}
    Skill <- MCSkill
    Installed <- MCSkill
    Runnable <- MCSkill
    Modes <- EveryMode
    Required <- AuthorityRequired
    Optional <- AuthorityOptional
    Dependency <- Chain
    EmitOp = {"emit"}
    ReadOp = {"read"}
    LogOp = {}
    HttpOp = {"get"}
    Alias = {"dep"}
    Deferred = {"fs"}
    MaxRedirects <- OneRedirect
    Requests <- SafetyRequests
    Policies <- AuthorityPolicies
    MaxChildSequence = 2
    MaxAttempts = 1
CONSTRAINT OneConcern
SYMMETRY SharedSymmetry
CHECK_DEADLOCK FALSE
INVARIANTS
    AuthorityNarrows
    GuestIsBounded
    DepthBounded
    
    ReceiptIsDurable
PROPERTIES
    DenialIsFinal
    
