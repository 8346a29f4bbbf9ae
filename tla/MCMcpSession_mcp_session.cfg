SPECIFICATION Spec
CONSTANTS
    SUPPORTED_PROTOCOL_VERSIONS <- MCSupported
    Requested <- MCRequested
    ExecutionIds = {1, 2, 3}
    EvidenceIds = {1}
    Builds = {1, 2}
    RecentLimit = 2
    QueryLimits = {1, 2}
    RESOURCES_LIST_PAGE_SIZE = 2
    TOOLS_LIST_PAGE_SIZE = 25
    RESOURCE_TEMPLATES_LIST_PAGE_SIZE = 4
    None = None
INVARIANTS
    HandedOutIsReadable
    ListsAreComplete
    SessionPinsSkill
PROPERTIES
    HandshakeHolds
