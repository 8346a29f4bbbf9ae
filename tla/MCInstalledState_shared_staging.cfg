CONSTANTS
    Ref <- Skills
    Source <- NoSource
    Bundle <- OneBundle
    Publisher <- Acme
    PublicKey = {"k1"}
    TrustAtStart <- AcmeTrusted
    Installer = {}
    Importer = {importer1, importer2}
    Admin = {}
    Origins <- Directory
    CanCrash = FALSE
    Absent = Absent
    Partial = Partial
    None = None
SPECIFICATION TogetherSpec
INVARIANT InstalledIsWhole
