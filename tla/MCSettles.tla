----------------------------- MODULE MCSettles -----------------------------
(***************************************************************************)
(* What must eventually happen, in the two places where it may not: the    *)
(* attempts of the runner and, one level below, the files of the object    *)
(* store.  A behaviour is about one of them; the other stays as it began.  *)
(***************************************************************************)
EXTENDS MCExecution

CONSTANTS Digest, EvidenceFile, ExecutionFile, Writer, Absent, Partial

VARIABLES
    concern,        \* "attempts" or "files"
    blob_dir, payload, blob, evidence, executions, refs, receipts,
    writer_pc, execution, digest, payload_seen, id, written

files == <<blob_dir, payload, blob, evidence, executions, refs, receipts,
           writer_pc, execution, digest, payload_seen, id, written>>

\* Processes that neither die nor meet a failing write.
Store == INSTANCE ObjectStore WITH
    EvidenceId <- EvidenceFile, ExecutionId <- ExecutionFile,
    pc <- writer_pc, emitted <- written,
    CanCrash <- FALSE, CanFail <- FALSE, PowerFails <- FALSE

SettlesInit == Init /\ Store!Init /\ concern \in {"attempts", "files"}

SettlesNext ==
    \/ concern = "attempts" /\ Next /\ UNCHANGED <<files, concern>>
    \/ concern = "files" /\ Store!Next /\ UNCHANGED <<vars, concern>>

SettlesSpec ==
    /\ SettlesInit /\ [][SettlesNext]_<<vars, files, concern>>
    /\ HostFairness /\ Store!Fairness

\* StoreSettles of ObjectStore, for ensure_evidence_blob and write_json_new: every write in
\* progress comes to an end, whoever else stores the same payload at the same time, and no
\* blob or record stays half written.
StoreSettles == Store!StoreSettles
=============================================================================
