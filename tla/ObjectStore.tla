---------------------------- MODULE ObjectStore ----------------------------
(***************************************************************************)
(* The file-backed execution store and evidence store of guild-registry,   *)
(* at the granularity of its file operations.  Every writer is a process   *)
(* that runs one execution after the other against the same registry root: *)
(* it emits evidence (`store_evidence') and then persists the execution    *)
(* record (`persist_execution_record').  Processes interleave between any  *)
(* two file operations and may die there.                                  *)
(*                                                                         *)
(* A payload is identified with its digest.  A file is Absent, Partial (it *)
(* was created or truncated and its bytes are not all there, so it does    *)
(* not parse) or holds a value.  fs::write opens with truncation and then  *)
(* writes, in two steps; write_json_new creates the file and then writes.  *)
(***************************************************************************)
EXTENDS Naturals

CONSTANTS
    Digest,        \* payloads, named by their digest
    EvidenceId,    \* identifiers mint_host_evidence_record_id can return
    ExecutionId,   \* identifiers mint_host_execution_id can return
    Writer,        \* processes that run executions
    CanCrash,      \* processes may die between two file operations
    CanFail,       \* a write may fail (no space left, an I/O error)
    PowerFails,    \* the machine may lose what was never synced
    Absent, Partial, None

EvidenceRecord == [sha256: Digest, produced_by_execution: ExecutionId]
ExecutionRecord == [emitted_evidence: SUBSET EvidenceId]

ASSUME FileStates ==
    /\ Absent # Partial
    /\ \A v \in {Absent, Partial} : v \notin Digest \cup EvidenceRecord \cup ExecutionRecord
    /\ None \notin Digest \cup EvidenceId \cup ExecutionId
                   \cup EvidenceRecord \cup ExecutionRecord

ASSUME Switches == {CanCrash, CanFail, PowerFails} \subseteq BOOLEAN

VARIABLES
    blob_dir,      \* digests with a directory under objects/sha256
    payload,       \* objects/sha256/<digest>/payload
    blob,          \* objects/sha256/<digest>/blob.json
    evidence,      \* objects/records/<id>.json
    executions,    \* executions/<id>.json
    refs,          \* <<id, record>> of every EvidenceRef returned to a guest
    receipts,      \* <<id, record>> of every record persisted for a caller
    pc,            \* where each writer is
    execution,     \* the execution it runs
    digest,        \* the payload it stores
    payload_seen,  \* payload_path.exists(), as ensure_evidence_blob saw it
    id,            \* the evidence record it writes
    emitted        \* evidence that its execution emitted

objects == <<blob_dir, payload, blob>>
records == <<evidence, executions, refs, receipts>>
locals == <<execution, digest, payload_seen, id, emitted>>
vars == <<objects, records, pc, locals>>

Init ==
    /\ blob_dir = {}
    /\ payload = [d \in Digest |-> Absent]
    /\ blob = [d \in Digest |-> Absent]
    /\ evidence = [e \in EvidenceId |-> Absent]
    /\ executions = [x \in ExecutionId |-> Absent]
    /\ refs = {}
    /\ receipts = {}
    /\ pc = [w \in Writer |-> "idle"]
    /\ execution = [w \in Writer |-> None]
    /\ digest = [w \in Writer |-> None]
    /\ payload_seen = [w \in Writer |-> FALSE]
    /\ id = [w \in Writer |-> None]
    /\ emitted = [w \in Writer |-> {}]

Whole(file) == file \notin {Absent, Partial}

Goto(w, from, to) == pc[w] = from /\ pc' = [pc EXCEPT ![w] = to]

-----------------------------------------------------------------------------
(* store_evidence *)

\* Mutant: what an earlier execution emitted is not forgotten.
Begin_without_reset(w) ==
    /\ Goto(w, "idle", "running")
    /\ \E x \in ExecutionId : execution' = [execution EXCEPT ![w] = x]
    /\ UNCHANGED <<objects, records, digest, payload_seen, id, emitted>>

\* An execution starts; identifiers are not reserved, so they may collide.
Begin(w) ==
    /\ Goto(w, "idle", "running")
    /\ \E x \in ExecutionId : execution' = [execution EXCEPT ![w] = x]
    /\ emitted' = [emitted EXCEPT ![w] = {}]
    /\ UNCHANGED <<objects, records, digest, payload_seen, id>>

\* ensure_evidence_blob creates the directory before it looks into it.
ensure_evidence_blob(w) ==
    /\ Goto(w, "running", "probe_payload")
    /\ \E d \in Digest :
        /\ digest' = [digest EXCEPT ![w] = d]
        /\ blob_dir' = blob_dir \cup {d}
    /\ UNCHANGED <<payload, blob, records, execution, payload_seen, id, emitted>>

ProbePayload(w) ==
    /\ Goto(w, "probe_payload", "probe_blob")
    /\ payload_seen' = [payload_seen EXCEPT ![w] = payload[digest[w]] # Absent]
    /\ UNCHANGED <<objects, records, execution, digest, id, emitted>>

\* Mutant: a payload without metadata is taken for a stored blob.
ProbeBlob_open_on_partial(w) ==
    /\ Goto(w, "probe_blob", IF payload_seen[w] THEN "mint" ELSE "open_payload")
    /\ UNCHANGED <<objects, records, locals>>

\* The three arms of the match: write, reuse, or fail closed.
ProbeBlob(w) ==
    LET blob_seen == blob[digest[w]] # Absent
    IN /\ pc[w] = "probe_blob"
       /\ Goto(w, "probe_blob",
               IF payload_seen[w] /\ blob_seen THEN "check"
               ELSE IF payload_seen[w] \/ blob_seen THEN "running"
               ELSE "open_payload")
       /\ UNCHANGED <<objects, records, locals>>

\* The metadata of a stored blob must parse and name this digest.
CheckBlob(w) ==
    /\ pc[w] = "check"
    /\ Goto(w, "check", IF blob[digest[w]] = digest[w] THEN "mint" ELSE "running")
    /\ UNCHANGED <<objects, records, locals>>

OpenPayload(w) ==
    /\ Goto(w, "open_payload", "write_payload")
    /\ payload' = [payload EXCEPT ![digest[w]] = Partial]
    /\ UNCHANGED <<blob_dir, blob, records, locals>>

WritePayload(w) ==
    /\ Goto(w, "write_payload", "open_blob")
    /\ payload' = [payload EXCEPT ![digest[w]] = digest[w]]
    /\ UNCHANGED <<blob_dir, blob, records, locals>>

OpenBlob(w) ==
    /\ Goto(w, "open_blob", "write_blob")
    /\ blob' = [blob EXCEPT ![digest[w]] = Partial]
    /\ UNCHANGED <<blob_dir, payload, records, locals>>

\* Mutant: the metadata of the blob is left to a later write.
WriteBlob_skipped(w) ==
    /\ Goto(w, "write_blob", "mint")
    /\ UNCHANGED <<objects, records, locals>>

WriteBlob(w) ==
    /\ Goto(w, "write_blob", "mint")
    /\ blob' = [blob EXCEPT ![digest[w]] = digest[w]]
    /\ UNCHANGED <<blob_dir, payload, records, locals>>

-----------------------------------------------------------------------------
(* write_json_new: the evidence record and the execution record *)

\* A fresh identifier is minted; an existing file ends the call with an error.
CreateEvidence(w) ==
    \E e \in EvidenceId :
        /\ id' = [id EXCEPT ![w] = e]
        /\ \/ /\ evidence[e] = Absent
              /\ Goto(w, "mint", "write_evidence")
              /\ evidence' = [evidence EXCEPT ![e] = Partial]
           \/ /\ evidence[e] # Absent
              /\ Goto(w, "mint", "running")
              /\ UNCHANGED evidence
        /\ UNCHANGED <<objects, executions, refs, receipts,
                       execution, digest, payload_seen, emitted>>

WriteEvidence(w) ==
    /\ Goto(w, "write_evidence", "sync_evidence")
    /\ evidence' = [evidence EXCEPT ![id[w]] =
          [sha256 |-> digest[w], produced_by_execution |-> execution[w]]]
    /\ UNCHANGED <<objects, executions, refs, receipts, locals>>

\* The record is on disk: the guest gets its reference.
SyncEvidence(w) ==
    /\ Goto(w, "sync_evidence", "running")
    /\ refs' = refs \cup {<<id[w], evidence[id[w]]>>}
    /\ emitted' = [emitted EXCEPT ![w] = @ \cup {id[w]}]
    /\ UNCHANGED <<objects, evidence, executions, receipts,
                   execution, digest, payload_seen, id>>

\* Mutant: the record is written with write_json, which overwrites.
CreateExecution_overwriting(w) ==
    /\ Goto(w, "running", "write_execution")
    /\ executions' = [executions EXCEPT ![execution[w]] = Partial]
    /\ UNCHANGED <<objects, evidence, refs, receipts, locals>>

\* persist_execution_record; the host-issued URI always matches the identifier.
CreateExecution(w) ==
    /\ pc[w] = "running"
    /\ \/ /\ executions[execution[w]] = Absent
          /\ Goto(w, "running", "write_execution")
          /\ executions' = [executions EXCEPT ![execution[w]] = Partial]
       \/ /\ executions[execution[w]] # Absent
          /\ Goto(w, "running", "idle")
          /\ UNCHANGED executions
    /\ UNCHANGED <<objects, evidence, refs, receipts, locals>>

WriteExecution(w) ==
    /\ Goto(w, "write_execution", "sync_execution")
    /\ executions' = [executions EXCEPT ![execution[w]] = [emitted_evidence |-> emitted[w]]]
    /\ UNCHANGED <<objects, evidence, refs, receipts, locals>>

\* The record is on disk: the caller gets its receipt.
SyncExecution(w) ==
    /\ Goto(w, "sync_execution", "idle")
    /\ receipts' = receipts \cup {<<execution[w], executions[execution[w]]>>}
    /\ UNCHANGED <<objects, evidence, executions, refs, locals>>

-----------------------------------------------------------------------------
(* Failures *)

OfEvidence == {"write_payload", "write_blob", "write_evidence", "sync_evidence"}
OfExecution == {"write_execution", "sync_execution"}

\* write_all or sync_all fails: the call returns an error, the file stays.
WriteFails(w) ==
    /\ CanFail
    /\ \/ \E at \in OfEvidence : Goto(w, at, "running")
       \/ \E at \in OfExecution : Goto(w, at, "idle")
    /\ UNCHANGED <<objects, records, locals>>

\* The process dies; the files stay as they are.
Crash(w) ==
    /\ CanCrash
    /\ pc[w] # "idle"
    /\ pc' = [pc EXCEPT ![w] = "idle"]
    /\ UNCHANGED <<objects, records, locals>>

\* The contents that a file may come back with when it was never synced.
Survivors(file) == IF file = Absent THEN {Absent} ELSE {Absent, Partial, file}

\* Power fails, which may cost a file that was never synced.  payload and blob.json
\* never are; a record is, before anyone is told of it.  A loss of several files is
\* several such steps.
PowerLoss ==
    /\ PowerFails
    /\ pc' = [w \in Writer |-> "idle"]
    /\ \/ /\ \E d \in Digest : \E f \in Survivors(payload[d]) :
                payload' = [payload EXCEPT ![d] = f]
          /\ UNCHANGED <<blob, evidence, executions>>
       \/ /\ \E d \in Digest : \E f \in Survivors(blob[d]) :
                blob' = [blob EXCEPT ![d] = f]
          /\ UNCHANGED <<payload, evidence, executions>>
       \/ /\ \E e \in EvidenceId : \E f \in Survivors(evidence[e]) :
                /\ \A r \in refs : r[1] # e
                /\ evidence' = [evidence EXCEPT ![e] = f]
          /\ UNCHANGED <<payload, blob, executions>>
       \/ /\ \E x \in ExecutionId : \E f \in Survivors(executions[x]) :
                /\ \A r \in receipts : r[1] # x
                /\ executions' = [executions EXCEPT ![x] = f]
          /\ UNCHANGED <<payload, blob, evidence>>
    /\ UNCHANGED <<blob_dir, refs, receipts, locals>>

Step(w) ==
    \/ ProbePayload(w) \/ ProbeBlob(w) \/ CheckBlob(w)
    \/ OpenPayload(w) \/ WritePayload(w) \/ OpenBlob(w) \/ WriteBlob(w)
    \/ CreateEvidence(w) \/ WriteEvidence(w) \/ SyncEvidence(w)
    \/ WriteExecution(w) \/ SyncExecution(w)

Next ==
    \/ \E w \in Writer :
        \/ Begin(w) \/ ensure_evidence_blob(w) \/ CreateExecution(w)
        \/ Step(w) \/ WriteFails(w) \/ Crash(w)
    \/ PowerLoss

Spec == Init /\ [][Next]_vars

-----------------------------------------------------------------------------
(* Reads: a process that reads sees the files as they are at that moment *)

NotFound == [found |-> FALSE]
Found(label, bytes) == [found |-> TRUE, sha256 |-> label, bytes |-> bytes]

\* read_record_backed_object_payload: the bytes are labelled with the digest that
\* the record carries and are not hashed again.
read_record_backed_object_payload(e) ==
    IF ~ Whole(evidence[e]) \/ payload[evidence[e].sha256] = Absent THEN NotFound
    ELSE Found(evidence[e].sha256, payload[evidence[e].sha256])

\* read_blob_object: the payload, labelled with what blob.json says.
read_blob_object(d) ==
    IF payload[d] = Absent \/ ~ Whole(blob[d]) THEN NotFound
    ELSE Found(blob[d], payload[d])

-----------------------------------------------------------------------------
(* Properties *)

File(value) == {Absent, Partial} \cup value

\* Every file holds what its kind of file can hold, and what a writer carries fits
\* the place where it is.
TypeOK ==
    /\ blob_dir \subseteq Digest
    /\ payload \in [Digest -> File(Digest)]
    /\ blob \in [Digest -> File(Digest)]
    /\ evidence \in [EvidenceId -> File(EvidenceRecord)]
    /\ executions \in [ExecutionId -> File(ExecutionRecord)]
    /\ refs \subseteq EvidenceId \X EvidenceRecord
    /\ receipts \subseteq ExecutionId \X ExecutionRecord
    /\ execution \in [Writer -> ExecutionId \cup {None}]
    /\ digest \in [Writer -> Digest \cup {None}]
    /\ payload_seen \in [Writer -> BOOLEAN]
    /\ id \in [Writer -> EvidenceId \cup {None}]
    /\ emitted \in [Writer -> SUBSET EvidenceId]
    /\ pc \in [Writer -> {"idle", "running", "probe_payload", "probe_blob", "check",
                          "open_payload", "open_blob", "mint"}
                         \cup OfEvidence \cup OfExecution]

\* The evidence store is a create-only record store: whatever dies or collides, an
\* EvidenceRef that a guest received names a whole record of that emission, for
\* good, even when two processes mint the same identifier.
Evidence == INSTANCE RecordStore WITH
    Id <- EvidenceId,
    stored <- [e \in EvidenceId |-> IF Whole(evidence[e]) THEN evidence[e] ELSE None],
    told <- refs

\* The refinement above.
EvidenceIsCreateOnly == Evidence!Spec

\* The execution store is a create-only record store: ARCHITECTURE.md, "duplicate
\* durable execution IDs are rejected instead of silently overwriting".
Executions == INSTANCE RecordStore WITH
    Id <- ExecutionId,
    stored <- [x \in ExecutionId |->
                IF Whole(executions[x]) THEN executions[x] ELSE None],
    told <- receipts

\* The refinement above.
ExecutionsAreCreateOnly == Executions!Spec

\* Both stores of a root implement the create-only record store: write_json_new never
\* replaces a record, and a caller is told of whole records only.
StoresAreCreateOnly == EvidenceIsCreateOnly /\ ExecutionsAreCreateOnly

\* Lineage: the evidence that a persisted execution record names is on disk, whole,
\* and names that execution as its producer.
RecordedEvidenceExists ==
    \A x \in ExecutionId : Whole(executions[x]) =>
        \A e \in executions[x].emitted_evidence :
            Whole(evidence[e]) /\ evidence[e].produced_by_execution = x

\* The blob behind a returned EvidenceRef is complete: every read of the reference
\* succeeds and yields the emitted bytes.  Holds for one process at a time, over
\* any number of crashes, failed writes and retries.
RefsAreReadable ==
    \A r \in refs :
        /\ read_record_backed_object_payload(r[1]) = Found(r[2].sha256, r[2].sha256)
        /\ read_blob_object(r[2].sha256) = Found(r[2].sha256, r[2].sha256)

\* A process that started a call of the registry goes on with it.
Fairness == \A w \in Writer : WF_vars(Step(w))

\* As long as no process dies and no write fails, every write in progress comes to
\* an end, whoever else stores the same payload: a blob directory ends up with both
\* of its files whole for good, and no record stays half written, so a listing that
\* met one recovers.
StoreSettles ==
    /\ \A d \in Digest : d \in blob_dir ~> [](payload[d] = d /\ blob[d] = d)
    /\ \A e \in EvidenceId : evidence[e] = Partial ~> Whole(evidence[e])
    /\ \A x \in ExecutionId : executions[x] = Partial ~> Whole(executions[x])

=============================================================================
