SPECIFICATION MCSpec
CONSTANTS
  xa = xa  xb = xb   e1 = e1  d1 = d1  d2 = d2
  pa = pa  pb = pb  pd = pd  pe = pe
  ExecutionId = {xa, xb}
  EvidenceId = {e1}
  Digest = {d1, d2}
  Prefix = {pa, pb, pd, pe}
  StartsWith <- Starts
  BlobOf <- Blobs
  Namespace = {"a", "b"}
  Name = {"n"}
  Versions = {1, 2}
  Publisher = {"p", "q"}
  MaxKeys = 2
  Payload = {1, 2}
  MaxEdits = 6
  Absent = Absent
  Torn = Torn
  None = None
  NoParent = NoParent
  NOTABLE_EVIDENCE_LIMIT = 2
  SampleLimit = 1
  NoValue = NoValue
  Missing = Missing
  Malformed = Malformed
  Process = {p1, p2}
  MaxPeople = 3
  NoFile = NoFile  Unparsable = Unparsable  Truncated = Truncated  Nothing = Nothing
  Goals = {"records", "skills", "runs", "setup", "trust", "lineage", "arguments", "plans",
           "codex config", "codex root", "codex smoke"}
  Positional = {"p", "--json"}
  Value = {"x", "--json"}
INVARIANTS
    AnswersAreExact
    DoctorAgreesWithCommands
    PlansVerifyIffSigned
    
    CommandLinesSurvive
    PlansAreReviewed
    CodexKeepsFiles
    CodexReportsAreTrue
PROPERTIES
    ReadOnlyCommandsWriteNothing
    
