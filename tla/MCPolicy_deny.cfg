CONSTANTS
    Cases <- EmitOnly
    Operation <- MCOperation
    KindOf <- MCKindOf
    Under <- MCUnder
    Name <- MCName
    MaxRules = 2
    Unbounded = Unbounded
    Unconstrained = Unconstrained
    Mismatch = Mismatch
    None = None
SPECIFICATION Spec
CHECK_DEADLOCK FALSE
INVARIANT DenyRemovesOverlaps
