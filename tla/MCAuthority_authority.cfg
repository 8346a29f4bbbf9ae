CONSTANTS
    Cases <- AllCases
    Operation <- MCOperation
    KindOf <- MCKindOf
    Under <- MCUnder
    Name <- MCName
    MaxRules = 2
    Unbounded = Unbounded
    Unconstrained = Unconstrained
    Mismatch = Mismatch
    None = None
    Skills <- MCSkills
    Envelopes <- MCEnvelopes
    FamilyOf <- MCFamilyOf
    Immutable <- MCImmutable
    Provable <- MCProvable
    Fixtures = TRUE
    Nothing = Nothing
SPECIFICATION AuthoritySpec
CHECK_DEADLOCK FALSE
INVARIANTS
    NeverWidens
    WithinCeilings
    DenyHolds
    AllowedMeansUntouched
    RequiredIsUsable
    ProofNeverWidens
    
