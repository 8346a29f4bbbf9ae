CONSTANTS
    Ref <- Skills
    Source <- AppAndLibSources
    Bundle <- AllBundles
    Publisher <- Acme
    PublicKey = {"k1"}
    TrustAtStart <- AcmeTrusted
    Installer = {installer1}
    Importer = {importer1, importer2}
    Admin = {admin1}
    Origins <- AllOrigins
    CanCrash = TRUE
    Absent = Absent
    Partial = Partial
    None = None
SPECIFICATION InstalledSpec
SYMMETRY Importers
INVARIANTS
    
    ImportsAloneAreSound

    
