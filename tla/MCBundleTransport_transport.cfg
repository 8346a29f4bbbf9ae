SPECIFICATION Spec
CONSTANTS
    Skills = {"app", "lib", "lib2"}
    DependsOn <- MCDependsOn
    Publisher <- MCPublisher
    SameVersion <- MCSameVersion
    Signer = "acme"
    Exporters = {e1, e2}
    Roots = {"app", "lib2"}
    SupportFiles <- MCSupportFiles
    TargetSkillsAtStart = {"lib", "lib2"}
    Bad = Bad
    None = None
SYMMETRY Symmetry
INVARIANTS
    PreviewPredictsImport
    
    
PROPERTIES
    PushedIsPullable
