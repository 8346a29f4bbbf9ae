-------------------------- MODULE ObjectStoreProofs --------------------------
(***************************************************************************)
(* For any number of processes, payloads and identifiers, and whatever     *)
(* crashes, failing writes and power losses happen, the evidence store and *)
(* the execution store implement the create-only RecordStore, and a reader *)
(* finds the evidence that an execution record names.  With one process at *)
(* a time it also finds the payload behind an evidence reference.          *)
(***************************************************************************)
EXTENDS ObjectStore, TLAPS

\* A writer past a call that minted an identifier or chose a payload has it.
Placed ==
    \A w \in Writer :
        /\ pc[w] # "idle" => execution[w] \in ExecutionId
        /\ pc[w] \notin {"idle", "running"} \cup OfExecution => digest[w] \in Digest
        /\ pc[w] \in {"write_evidence", "sync_evidence"} => id[w] \in EvidenceId

\* The file that create_new made belongs to the writer that made it until its call
\* returns: nobody else is writing it, and it holds what the writer left there.
Claimed ==
    \A w \in Writer :
        /\ pc[w] = "write_evidence" => evidence[id[w]] = Partial
        /\ pc[w] = "sync_evidence" => Whole(evidence[id[w]])
        /\ pc[w] = "write_execution" => executions[execution[w]] = Partial
        /\ pc[w] = "sync_execution" => Whole(executions[execution[w]])

Exclusive ==
    \A v, w \in Writer : v # w =>
        /\ {pc[v], pc[w]} \subseteq {"write_evidence", "sync_evidence"} => id[v] # id[w]
        /\ {pc[v], pc[w]} \subseteq OfExecution => execution[v] # execution[w]

IInv == TypeOK /\ Placed /\ Claimed /\ Exclusive

\* The type invariant, with the facts about places that make it inductive.
LEMMA InitType == Init => TypeOK /\ Placed
  BY Zenon DEF Init, TypeOK, Placed, File, OfEvidence, OfExecution

\* The records that writers make are well formed.
LEMMA RecordTypes ==
    ASSUME NEW d \in Digest, NEW x \in ExecutionId, NEW s \in SUBSET EvidenceId
    PROVE /\ [sha256 |-> d, produced_by_execution |-> x] \in EvidenceRecord
          /\ [emitted_evidence |-> s] \in ExecutionRecord
  BY Zenon DEF EvidenceRecord, ExecutionRecord

\* A whole file holds a record, and a record is a whole file.
LEMMA WholeTypes ==
    /\ \A e \in File(EvidenceRecord) : Whole(e) => e \in EvidenceRecord
    /\ \A x \in File(ExecutionRecord) : Whole(x) => x \in ExecutionRecord
    /\ \A e \in EvidenceRecord : Whole(e) /\ e # None
    /\ \A x \in ExecutionRecord : Whole(x) /\ x # None
  BY Zenon, FileStates DEF File, Whole

\* Every step keeps the types and what a writer holds at its place.
LEMMA NextType == IInv /\ [Next]_vars => TypeOK' /\ Placed'
  <1> SUFFICES ASSUME IInv, [Next]_vars PROVE TypeOK' /\ Placed' BY Zenon
  <1> USE DEF IInv, TypeOK, Placed, Goto, File, OfEvidence, OfExecution,
              objects, records, locals
  <1>1. ASSUME NEW w \in Writer, Begin(w) PROVE TypeOK' /\ Placed'
    BY Zenon, <1>1 DEF Begin
  <1>2. ASSUME NEW w \in Writer, ensure_evidence_blob(w) PROVE TypeOK' /\ Placed'
    BY <1>2 DEF ensure_evidence_blob
  <1>3. ASSUME NEW w \in Writer, CreateExecution(w) PROVE TypeOK' /\ Placed'
    BY <1>3 DEF CreateExecution
  <1>4. ASSUME NEW w \in Writer, ProbePayload(w) PROVE TypeOK' /\ Placed'
    BY Zenon, <1>4 DEF ProbePayload
  <1>5. ASSUME NEW w \in Writer, ProbeBlob(w) PROVE TypeOK' /\ Placed'
    BY Zenon, <1>5 DEF ProbeBlob
  <1>6. ASSUME NEW w \in Writer, CheckBlob(w) PROVE TypeOK' /\ Placed'
    BY Zenon, <1>6 DEF CheckBlob
  <1>7. ASSUME NEW w \in Writer, OpenPayload(w) \/ OpenBlob(w) PROVE TypeOK' /\ Placed'
    BY <1>7 DEF OpenPayload, OpenBlob
  <1>8. ASSUME NEW w \in Writer, WritePayload(w) \/ WriteBlob(w) PROVE TypeOK' /\ Placed'
    BY <1>8 DEF WritePayload, WriteBlob
  <1>9. ASSUME NEW w \in Writer, CreateEvidence(w) PROVE TypeOK' /\ Placed'
    BY <1>9 DEF CreateEvidence
  <1>10. ASSUME NEW w \in Writer, WriteEvidence(w) PROVE TypeOK' /\ Placed'
    BY Zenon, <1>10, RecordTypes DEF WriteEvidence
  <1>11. ASSUME NEW w \in Writer, SyncEvidence(w) PROVE TypeOK' /\ Placed'
    BY <1>11, WholeTypes DEF SyncEvidence, Claimed
  <1>12. ASSUME NEW w \in Writer, WriteExecution(w) PROVE TypeOK' /\ Placed'
    <2>1. [emitted_evidence |-> emitted[w]] \in ExecutionRecord
      BY Zenon, RecordTypes DEF ExecutionRecord
    <2>2. executions' \in [ExecutionId -> File(ExecutionRecord)]
      BY Zenon, <1>12, <2>1 DEF WriteExecution
    <2> QED
      BY Zenon, <1>12, <2>2 DEF WriteExecution
  <1>13. ASSUME NEW w \in Writer, SyncExecution(w) PROVE TypeOK' /\ Placed'
    BY <1>13, WholeTypes DEF SyncExecution, Claimed
  <1>14. ASSUME NEW w \in Writer, WriteFails(w) \/ Crash(w) PROVE TypeOK' /\ Placed'
    BY Zenon, <1>14 DEF WriteFails, Crash
  <1>15. CASE PowerLoss
    BY Zenon, <1>15 DEF PowerLoss, Survivors
  <1>16. CASE UNCHANGED vars
    BY Zenon, <1>16 DEF vars
  <1> QED
    BY Zenon, <1>1, <1>2, <1>3, <1>4, <1>5, <1>6, <1>7, <1>8, <1>9, <1>10, <1>11, <1>12, <1>13,
       <1>14, <1>15, <1>16 DEF Next, Step

-----------------------------------------------------------------------------
(* A file is owned by the writer that created it *)

\* A step that moves one writer to a place where it owns no file, and that leaves the
\* records alone, keeps every claim.
LEMMA QuietStep ==
    ASSUME IInv, NEW w \in Writer, NEW at,
           at \notin {"write_evidence", "sync_evidence"} \cup OfExecution,
           pc' = [pc EXCEPT ![w] = at],
           UNCHANGED <<evidence, executions>>,
           \A v \in Writer : v # w => id'[v] = id[v] /\ execution'[v] = execution[v]
    PROVE Claimed' /\ Exclusive'
  BY DEF IInv, TypeOK, Claimed, Exclusive, OfExecution, Whole

\* Every step keeps each file under creation with the one writer that created it.
LEMMA NextClaims == IInv /\ [Next]_vars => Claimed' /\ Exclusive'
  <1> SUFFICES ASSUME IInv, [Next]_vars PROVE Claimed' /\ Exclusive' OBVIOUS
  <1> USE DEF IInv, Goto, objects, records, locals
  <1>1. ASSUME NEW w \in Writer,
               Begin(w) \/ ensure_evidence_blob(w) \/ ProbePayload(w)
        PROVE Claimed' /\ Exclusive'
    BY Zenon, <1>1, QuietStep DEF Begin, ensure_evidence_blob, ProbePayload, OfExecution, TypeOK
  <1>2. ASSUME NEW w \in Writer, ProbeBlob(w) PROVE Claimed' /\ Exclusive'
    BY Zenon, <1>2, QuietStep DEF ProbeBlob, OfExecution
  <1>3. ASSUME NEW w \in Writer, CheckBlob(w) PROVE Claimed' /\ Exclusive'
    BY Zenon, <1>3, QuietStep DEF CheckBlob, OfExecution
  <1>4. ASSUME NEW w \in Writer,
               OpenPayload(w) \/ WritePayload(w) \/ OpenBlob(w) \/ WriteBlob(w)
        PROVE Claimed' /\ Exclusive'
    BY Zenon, <1>4, QuietStep DEF OpenPayload, WritePayload, OpenBlob, WriteBlob, OfExecution
  <1>5. ASSUME NEW w \in Writer, SyncEvidence(w) \/ SyncExecution(w)
        PROVE Claimed' /\ Exclusive'
    BY Zenon, <1>5, QuietStep DEF SyncEvidence, SyncExecution, OfExecution
  <1>6. ASSUME NEW w \in Writer, WriteFails(w) \/ Crash(w) PROVE Claimed' /\ Exclusive'
    BY Zenon, <1>6, QuietStep DEF WriteFails, Crash, OfExecution
  <1>7. ASSUME NEW w \in Writer, CreateEvidence(w) PROVE Claimed' /\ Exclusive'
    <2>1. PICK e \in EvidenceId :
            /\ id' = [id EXCEPT ![w] = e]
            /\ pc[w] = "mint"
            /\ UNCHANGED <<execution, executions>>
            /\ \/ /\ evidence[e] = Absent
                  /\ pc' = [pc EXCEPT ![w] = "write_evidence"]
                  /\ evidence' = [evidence EXCEPT ![e] = Partial]
               \/ /\ evidence[e] # Absent
                  /\ pc' = [pc EXCEPT ![w] = "running"]
                  /\ UNCHANGED evidence
      BY Zenon, <1>7 DEF CreateEvidence
    <2>2. CASE evidence[e] # Absent
      BY Zenon, <2>1, <2>2, QuietStep DEF TypeOK, OfExecution
    <2>3. CASE evidence[e] = Absent
      <3>1. \A v \in Writer :
              pc[v] \in {"write_evidence", "sync_evidence"} => v # w /\ id[v] # e
        BY Zenon, <2>1, <2>3, FileStates DEF Claimed, Whole
      <3> QED
        BY <2>1, <2>3, <3>1 DEF TypeOK, Placed, Claimed, Exclusive, Whole, OfExecution
    <2> QED BY Zenon, <2>2, <2>3
  <1>8. ASSUME NEW w \in Writer, CreateExecution(w) PROVE Claimed' /\ Exclusive'
    <2>2. CASE executions[execution[w]] # Absent
      BY Zenon, <1>8, <2>2, QuietStep DEF CreateExecution, OfExecution
    <2>3. CASE executions[execution[w]] = Absent
      <3>1. \A v \in Writer :
              pc[v] \in OfExecution => v # w /\ execution[v] # execution[w]
        BY Zenon, <1>8, <2>3, FileStates DEF CreateExecution, Claimed, Whole, OfExecution
      <3> QED
        BY <1>8, <2>3, <3>1
        DEF CreateExecution, TypeOK, Placed, Claimed, Exclusive, Whole, OfExecution
    <2> QED BY Zenon, <2>2, <2>3
  <1>9. ASSUME NEW w \in Writer, WriteEvidence(w) PROVE Claimed' /\ Exclusive'
    <2>1. PICK r \in EvidenceRecord : evidence' = [evidence EXCEPT ![id[w]] = r]
      BY Zenon, <1>9, RecordTypes DEF WriteEvidence, Placed, OfExecution
    <2>2. Whole(r)
      BY Zenon, WholeTypes
    <2>3. Claimed'
      BY <1>9, <2>1, <2>2
      DEF WriteEvidence, TypeOK, Placed, Claimed, Exclusive, Whole, OfExecution
    <2> QED
      BY <1>9, <2>3 DEF WriteEvidence, TypeOK, Exclusive, OfExecution
  <1>10. ASSUME NEW w \in Writer, WriteExecution(w) PROVE Claimed' /\ Exclusive'
    <2>1. PICK r \in ExecutionRecord :
            executions' = [executions EXCEPT ![execution[w]] = r]
      BY Zenon, <1>10, RecordTypes DEF WriteExecution, ExecutionRecord, TypeOK
    <2>2. Whole(r)
      BY Zenon, WholeTypes
    <2>3. Claimed'
      BY <1>10, <2>1, <2>2
      DEF WriteExecution, TypeOK, Placed, Claimed, Exclusive, Whole, OfExecution
    <2> QED
      BY <1>10, <2>3 DEF WriteExecution, TypeOK, Exclusive, OfExecution
  <1>11. CASE PowerLoss
    BY Zenon, <1>11 DEF PowerLoss, Claimed, Exclusive, OfExecution
  <1>12. CASE UNCHANGED vars
    BY Zenon, <1>12 DEF vars, Claimed, Exclusive, Whole
  <1> QED
    BY Zenon, <1>1, <1>2, <1>3, <1>4, <1>5, <1>6, <1>7, <1>8, <1>9, <1>10, <1>11, <1>12
    DEF Next, Step

\* The invariant of the store, for the theorems below.
LEMMA StoreInv == Spec => []IInv
  <1>1. Init => IInv
    BY Zenon, InitType DEF Init, IInv, Claimed, Exclusive, OfExecution
  <1>2. IInv /\ [Next]_vars => IInv'
    BY Zenon, NextType, NextClaims DEF IInv
  <1> QED BY <1>1, <1>2, PTL DEF Spec

\* Every file holds what its kind can hold, for any number of processes: TypeOK of
\* the object store, from the inductive invariant IInv.
THEOREM StoreTypeCorrect == Spec => []TypeOK
  <1>1. IInv => TypeOK
    BY Zenon DEF IInv
  <1> QED BY <1>1, StoreInv, PTL

-----------------------------------------------------------------------------
(* Refinement of RecordStore *)

StoredEvidence == [e \in EvidenceId |-> IF Whole(evidence[e]) THEN evidence[e] ELSE None]
StoredExecutions ==
    [x \in ExecutionId |-> IF Whole(executions[x]) THEN executions[x] ELSE None]

\* Each step of the store is a step of RecordStore for the evidence records: the write
\* puts, the sync tells, a power loss loses only what nobody was told of.
LEMMA EvidenceStep == IInv /\ [Next]_vars => [Evidence!Next]_(Evidence!vars)
  <1> SUFFICES ASSUME IInv, [Next]_vars
               PROVE [Evidence!Next]_(Evidence!vars) BY Zenon
  <1> DEFINE Stay == UNCHANGED <<StoredEvidence, refs>>
  <1>0. ASSUME UNCHANGED <<evidence, refs>> PROVE Stay
    BY Zenon, <1>0 DEF StoredEvidence
  <1>1. ASSUME NEW e \in EvidenceId, NEW f, ~ Whole(f), ~ Whole(evidence[e]),
               evidence' = [evidence EXCEPT ![e] = f], UNCHANGED refs
        PROVE Stay
    BY Zenon, <1>1 DEF IInv, TypeOK, StoredEvidence
  <1>2. ASSUME Stay PROVE [Evidence!Next]_(Evidence!vars)
    BY Zenon, <1>2 DEF Evidence!vars, StoredEvidence
  <1>3. ASSUME NEW w \in Writer, CreateEvidence(w) PROVE Stay
    <2>1. PICK e \in EvidenceId :
            \/ evidence[e] = Absent /\ evidence' = [evidence EXCEPT ![e] = Partial]
            \/ UNCHANGED evidence
      BY Zenon, <1>3 DEF CreateEvidence
    <2>2. UNCHANGED refs BY Zenon, <1>3 DEF CreateEvidence
    <2> QED BY Zenon, <1>0, <1>1, <2>1, <2>2 DEF Whole
  <1>4. ASSUME NEW w \in Writer, WriteEvidence(w) PROVE Evidence!Next
    <2>1. PICK i \in EvidenceId : i = id[w]
      BY Zenon, <1>4 DEF WriteEvidence, Goto, IInv, Placed
    <2>2. PICK r \in EvidenceRecord : evidence' = [evidence EXCEPT ![i] = r]
      BY Zenon, <1>4, <2>1, RecordTypes DEF WriteEvidence, Goto, IInv, Placed, OfExecution
    <2>3. Whole(r) /\ ~ Whole(evidence[i]) /\ UNCHANGED refs
      BY Zenon, <1>4, <2>1, WholeTypes DEF WriteEvidence, Goto, IInv, Claimed, Whole
    <2>4. StoredEvidence[i] = None /\ UNCHANGED refs
          /\ StoredEvidence' = [StoredEvidence EXCEPT ![i] = r]
      BY Zenon, <2>2, <2>3 DEF StoredEvidence, IInv, TypeOK
    <2>5. StoredEvidence'[i] = r
      BY Zenon, <2>4 DEF StoredEvidence
    <2>6. Evidence!Put(i)
      BY Zenon, <2>4, <2>5 DEF Evidence!Put, StoredEvidence
    <2> QED BY Zenon, <2>6 DEF Evidence!Next
  <1>5. ASSUME NEW w \in Writer, SyncEvidence(w) PROVE Evidence!Next
    <2>1. PICK i \in EvidenceId : i = id[w]
      BY Zenon, <1>5 DEF SyncEvidence, Goto, IInv, Placed
    <2>2. Whole(evidence[i]) /\ evidence[i] \in EvidenceRecord
      BY Zenon, <1>5, <2>1, WholeTypes DEF SyncEvidence, Goto, IInv, Claimed, TypeOK
    <2>3. StoredEvidence[i] = evidence[i] /\ StoredEvidence[i] # None
      BY Zenon, <2>2, WholeTypes DEF StoredEvidence
    <2>4. UNCHANGED StoredEvidence /\ refs' = refs \cup {<<i, StoredEvidence[i]>>}
      BY Zenon, <1>5, <2>1, <2>3 DEF SyncEvidence, StoredEvidence
    <2>5. Evidence!Tell(i)
      BY Zenon, <2>3, <2>4 DEF Evidence!Tell, StoredEvidence
    <2> QED BY Zenon, <2>5 DEF Evidence!Next
  <1>6. CASE PowerLoss
    <2>1. CASE UNCHANGED evidence
      BY Zenon, <1>0, <1>2, <1>6, <2>1 DEF PowerLoss
    <2>2. CASE ~ UNCHANGED evidence
      <3>0. PICK e \in EvidenceId : \E f \in Survivors(evidence[e]) :
              /\ \A r \in refs : r[1] # e
              /\ evidence' = [evidence EXCEPT ![e] = f]
        BY Zenon, <1>6, <2>2 DEF PowerLoss
      <3>1. PICK f \in Survivors(evidence[e]) :
              /\ \A r \in refs : r[1] # e
              /\ evidence' = [evidence EXCEPT ![e] = f]
        BY Zenon, <3>0
      <3>2. f \in {Absent, Partial}
        BY Zenon, <2>2, <3>1 DEF Survivors, IInv, TypeOK
      <3>3. UNCHANGED refs
        BY Zenon, <1>6 DEF PowerLoss
      <3>4. StoredEvidence' = [StoredEvidence EXCEPT ![e] = None]
        BY Zenon, <3>1, <3>2 DEF StoredEvidence, Whole, IInv, TypeOK
      <3>5. Evidence!Lose(e)
        BY Zenon, <3>1, <3>3, <3>4 DEF Evidence!Lose, StoredEvidence
      <3> QED BY Zenon, <3>5 DEF Evidence!Next
    <2> QED BY Zenon, <2>1, <2>2
  <1>7. ASSUME NEW w \in Writer,
               \/ Begin(w) \/ ensure_evidence_blob(w) \/ CreateExecution(w)
               \/ ProbePayload(w) \/ ProbeBlob(w) \/ CheckBlob(w)
               \/ OpenPayload(w) \/ WritePayload(w) \/ OpenBlob(w) \/ WriteBlob(w)
               \/ WriteExecution(w) \/ SyncExecution(w) \/ WriteFails(w) \/ Crash(w)
        PROVE UNCHANGED <<evidence, refs>>
    BY Zenon, <1>7 DEF Begin, ensure_evidence_blob, CreateExecution, ProbePayload, ProbeBlob,
       CheckBlob, OpenPayload, WritePayload, OpenBlob, WriteBlob, WriteExecution,
       SyncExecution, WriteFails, Crash, records
  <1>8. CASE UNCHANGED vars
    BY Zenon, <1>0, <1>2, <1>8 DEF vars, records
  <1> HIDE DEF Stay
  <1> QED
    BY Zenon, <1>0, <1>2, <1>3, <1>4, <1>5, <1>6, <1>7, <1>8 DEF Next, Step

\* The evidence store implements the create-only RecordStore, for every set of
\* processes, payloads and identifiers: store_evidence never replaces a record and
\* never returns a reference to a record that is not whole or that can be lost.
THEOREM EvidenceRefinement == Spec => EvidenceIsCreateOnly
  <1>1. Init => Evidence!Init
    BY Zenon, FileStates DEF Init, Evidence!Init, Whole
  <1> QED BY <1>1, EvidenceStep, StoreInv, PTL DEF Spec, EvidenceIsCreateOnly, Evidence!Spec

\* The same, step by step, for the execution records.
LEMMA ExecutionsStep == IInv /\ [Next]_vars => [Executions!Next]_(Executions!vars)
  <1> SUFFICES ASSUME IInv, [Next]_vars
               PROVE [Executions!Next]_(Executions!vars) OBVIOUS
  <1> DEFINE Stay == UNCHANGED <<StoredExecutions, receipts>>
  <1>0. ASSUME UNCHANGED <<executions, receipts>> PROVE Stay
    BY <1>0 DEF StoredExecutions
  <1>1. ASSUME NEW x \in ExecutionId, NEW f, ~ Whole(f), ~ Whole(executions[x]),
               executions' = [executions EXCEPT ![x] = f], UNCHANGED receipts
        PROVE Stay
    BY Zenon, <1>1 DEF IInv, TypeOK, StoredExecutions
  <1>2. ASSUME Stay PROVE [Executions!Next]_(Executions!vars)
    BY <1>2 DEF Executions!vars, StoredExecutions
  <1>3. ASSUME NEW w \in Writer, CreateExecution(w) PROVE Stay
    <2>1. PICK x \in ExecutionId :
            \/ executions[x] = Absent /\ executions' = [executions EXCEPT ![x] = Partial]
            \/ UNCHANGED executions
      BY Zenon, <1>3 DEF CreateExecution, IInv, Placed
    <2>2. UNCHANGED receipts BY Zenon, <1>3 DEF CreateExecution
    <2> QED BY <1>0, <1>1, <2>1, <2>2 DEF Whole
  <1>4. ASSUME NEW w \in Writer, WriteExecution(w) PROVE Executions!Next
    <2>1. PICK x \in ExecutionId : x = execution[w]
      BY Zenon, <1>4 DEF WriteExecution, Goto, IInv, Placed
    <2>2. PICK r \in ExecutionRecord : executions' = [executions EXCEPT ![x] = r]
      <3>1. [emitted_evidence |-> emitted[w]] \in ExecutionRecord
        BY Zenon DEF ExecutionRecord, IInv, TypeOK
      <3> QED BY Zenon, <1>4, <2>1, <3>1 DEF WriteExecution
    <2>3. Whole(r) /\ ~ Whole(executions[x]) /\ UNCHANGED receipts
      BY Zenon, <1>4, <2>1, WholeTypes DEF WriteExecution, Goto, IInv, Claimed, Whole
    <2>4. StoredExecutions[x] = None /\ UNCHANGED receipts
          /\ StoredExecutions' = [StoredExecutions EXCEPT ![x] = r]
      BY Zenon, <2>2, <2>3 DEF StoredExecutions, IInv, TypeOK
    <2>5. StoredExecutions'[x] = r
      BY <2>4 DEF StoredExecutions
    <2>6. Executions!Put(x)
      BY <2>4, <2>5 DEF Executions!Put, StoredExecutions
    <2> QED BY <2>6 DEF Executions!Next
  <1>5. ASSUME NEW w \in Writer, SyncExecution(w) PROVE Executions!Next
    <2>1. PICK x \in ExecutionId : x = execution[w]
      BY Zenon, <1>5 DEF SyncExecution, Goto, IInv, Placed
    <2>2. Whole(executions[x]) /\ executions[x] \in ExecutionRecord
      BY Zenon, <1>5, <2>1, WholeTypes DEF SyncExecution, Goto, IInv, Claimed, TypeOK
    <2>3. StoredExecutions[x] = executions[x] /\ StoredExecutions[x] # None
      BY Zenon, <2>2, WholeTypes DEF StoredExecutions
    <2>4. UNCHANGED StoredExecutions
          /\ receipts' = receipts \cup {<<x, StoredExecutions[x]>>}
      BY Zenon, <1>5, <2>1, <2>3 DEF SyncExecution, StoredExecutions
    <2>5. Executions!Tell(x)
      BY <2>3, <2>4 DEF Executions!Tell, StoredExecutions
    <2> QED BY <2>5 DEF Executions!Next
  <1>6. CASE PowerLoss
    <2>1. CASE UNCHANGED executions
      BY Zenon, <1>0, <1>2, <1>6, <2>1 DEF PowerLoss
    <2>2. CASE ~ UNCHANGED executions
      <3>0. PICK x \in ExecutionId : \E f \in Survivors(executions[x]) :
              /\ \A r \in receipts : r[1] # x
              /\ executions' = [executions EXCEPT ![x] = f]
        BY Zenon, <1>6, <2>2 DEF PowerLoss
      <3>1. PICK f \in Survivors(executions[x]) :
              /\ \A r \in receipts : r[1] # x
              /\ executions' = [executions EXCEPT ![x] = f]
        BY <3>0
      <3>2. f \in {Absent, Partial}
        BY Zenon, <2>2, <3>1 DEF Survivors, IInv, TypeOK
      <3>3. UNCHANGED receipts
        BY Zenon, <1>6 DEF PowerLoss
      <3>4. StoredExecutions' = [StoredExecutions EXCEPT ![x] = None]
        BY Zenon, <3>1, <3>2 DEF StoredExecutions, Whole, IInv, TypeOK
      <3>5. Executions!Lose(x)
        BY <3>1, <3>3, <3>4 DEF Executions!Lose, StoredExecutions
      <3> QED BY <3>5 DEF Executions!Next
    <2> QED BY <2>1, <2>2
  <1>7. ASSUME NEW w \in Writer,
               \/ Begin(w) \/ ensure_evidence_blob(w) \/ CreateEvidence(w)
               \/ ProbePayload(w) \/ ProbeBlob(w) \/ CheckBlob(w)
               \/ OpenPayload(w) \/ WritePayload(w) \/ OpenBlob(w) \/ WriteBlob(w)
               \/ WriteEvidence(w) \/ SyncEvidence(w) \/ WriteFails(w) \/ Crash(w)
        PROVE UNCHANGED <<executions, receipts>>
    BY Zenon, <1>7 DEF Begin, ensure_evidence_blob, CreateEvidence, ProbePayload, ProbeBlob,
       CheckBlob, OpenPayload, WritePayload, OpenBlob, WriteBlob, WriteEvidence,
       SyncEvidence, WriteFails, Crash, records
  <1>8. CASE UNCHANGED vars
    BY Zenon, <1>0, <1>2, <1>8 DEF vars, records
  <1> HIDE DEF Stay
  <1> QED
    BY Zenon, <1>0, <1>2, <1>3, <1>4, <1>5, <1>6, <1>7, <1>8 DEF Next, Step

\* The execution store implements the create-only RecordStore, for every set of
\* processes and identifiers: persist_execution_record never replaces a record, and
\* a receipt names a record that is whole and stays.
THEOREM ExecutionsRefinement == Spec => ExecutionsAreCreateOnly
  <1>1. Init => Executions!Init
    BY Zenon, FileStates DEF Init, Executions!Init, Whole
  <1> QED
    BY <1>1, ExecutionsStep, StoreInv, PTL DEF Spec, ExecutionsAreCreateOnly, Executions!Spec

\* Both record stores of a root are create-only, for any number of processes that write,
\* fail, crash and meet on identifiers.
THEOREM StoresRefinement == Spec => StoresAreCreateOnly
  BY EvidenceRefinement, ExecutionsRefinement, PTL DEF StoresAreCreateOnly

-----------------------------------------------------------------------------
(* The evidence that an execution record names *)

\* A guest was told that e is evidence of the execution x.
Told(e, x) == \E r \in refs : r[1] = e /\ r[2].produced_by_execution = x

RefsHold == \A r \in refs : evidence[r[1]] = r[2]

\* What a running execution and a record list was told; the evidence that a writer is
\* about to tell of is its own.
ListedIsTold ==
    /\ \A w \in Writer :
        /\ pc[w] # "idle" => \A e \in emitted[w] : Told(e, execution[w])
        /\ pc[w] = "sync_evidence" =>
              evidence[id[w]] = [sha256 |-> digest[w], produced_by_execution |-> execution[w]]
    /\ \A x \in ExecutionId : Whole(executions[x]) =>
          \A e \in executions[x].emitted_evidence : Told(e, x)

Telling == RefsHold /\ ListedIsTold

\* A file that is not whole, or that nobody was told of, is in no reference.
LEMMA UntoldFile ==
    ASSUME IInv, RefsHold, NEW e \in EvidenceId, NEW f,
           ~ Whole(evidence[e]) \/ (\A r \in refs : r[1] # e),
           evidence' = [evidence EXCEPT ![e] = f], UNCHANGED refs
    PROVE  RefsHold'
  <1> SUFFICES ASSUME NEW r \in refs PROVE evidence'[r[1]] = r[2]
    BY Zenon DEF RefsHold
  <1>1. r[1] \in EvidenceId /\ r[2] \in EvidenceRecord /\ evidence[r[1]] = r[2]
    BY Zenon DEF IInv, TypeOK, RefsHold
  <1>2. Whole(evidence[r[1]])
    BY Zenon, <1>1, WholeTypes
  <1>3. r[1] # e
    BY Zenon, <1>2
  <1> QED
    BY Zenon, <1>1, <1>3 DEF IInv, TypeOK

\* Every step keeps the references true.
LEMMA NextRefs ==
    ASSUME IInv, RefsHold, [Next]_vars
    PROVE  RefsHold'
  <1>1. CASE UNCHANGED <<evidence, refs>>
    BY Zenon, <1>1 DEF RefsHold
  <1>2. ASSUME NEW w \in Writer, CreateEvidence(w) PROVE RefsHold'
    <2>1. PICK e \in EvidenceId :
            \/ evidence[e] = Absent /\ evidence' = [evidence EXCEPT ![e] = Partial]
            \/ UNCHANGED evidence
      BY Zenon, <1>2 DEF CreateEvidence
    <2>2. UNCHANGED refs
      BY Zenon, <1>2 DEF CreateEvidence
    <2> QED
      BY Zenon, <1>1, <2>1, <2>2, UntoldFile DEF Whole
  <1>3. ASSUME NEW w \in Writer, WriteEvidence(w) PROVE RefsHold'
    <2>1. id[w] \in EvidenceId /\ ~ Whole(evidence[id[w]]) /\ UNCHANGED refs
      BY Zenon, <1>3 DEF WriteEvidence, Goto, IInv, Placed, Claimed, Whole
    <2>2. \E f : evidence' = [evidence EXCEPT ![id[w]] = f]
      BY Zenon, <1>3 DEF WriteEvidence
    <2> QED
      BY Zenon, <2>1, <2>2, UntoldFile
  <1>4. ASSUME NEW w \in Writer, SyncEvidence(w) PROVE RefsHold'
    BY <1>4 DEF SyncEvidence, RefsHold
  <1>5. CASE PowerLoss
    <2>1. UNCHANGED refs
      BY Zenon, <1>5 DEF PowerLoss
    <2>2. CASE ~ UNCHANGED evidence
      <3>1. PICK e \in EvidenceId : \E f \in Survivors(evidence[e]) :
              /\ \A r \in refs : r[1] # e
              /\ evidence' = [evidence EXCEPT ![e] = f]
        BY Zenon, <1>5, <2>2 DEF PowerLoss
      <3> QED
        BY Zenon, <2>1, <3>1, UntoldFile
    <2> QED
      BY Zenon, <1>1, <2>1, <2>2
  <1>6. ASSUME NEW w \in Writer,
               \/ Begin(w) \/ ensure_evidence_blob(w) \/ CreateExecution(w)
               \/ ProbePayload(w) \/ ProbeBlob(w) \/ CheckBlob(w)
               \/ OpenPayload(w) \/ WritePayload(w) \/ OpenBlob(w) \/ WriteBlob(w)
               \/ WriteExecution(w) \/ SyncExecution(w) \/ WriteFails(w) \/ Crash(w)
        PROVE UNCHANGED <<evidence, refs>>
    BY Zenon, <1>6 DEF Begin, ensure_evidence_blob, CreateExecution, ProbePayload, ProbeBlob,
       CheckBlob, OpenPayload, WritePayload, OpenBlob, WriteBlob, WriteExecution,
       SyncExecution, WriteFails, Crash, records
  <1>7. CASE UNCHANGED vars
    BY Zenon, <1>1, <1>7 DEF vars, records
  <1> QED
    BY Zenon, <1>1, <1>2, <1>3, <1>4, <1>5, <1>6, <1>7 DEF Next, Step

\* Nothing that a guest was told is taken back.
LEMMA ToldStays ==
    ASSUME [Next]_vars
    PROVE  refs \subseteq refs'
  BY Zenon DEF Next, Step, Begin, ensure_evidence_blob, CreateExecution, ProbePayload, ProbeBlob,
     CheckBlob, OpenPayload, WritePayload, OpenBlob, WriteBlob, CreateEvidence,
     WriteEvidence, SyncEvidence, WriteExecution, SyncExecution, WriteFails, Crash,
     PowerLoss, records, vars

\* Every step keeps what is listed among what was told.
LEMMA NextListed ==
    ASSUME IInv, IInv', Telling, [Next]_vars
    PROVE  ListedIsTold'
  <1> USE DEF Goto, objects, records, locals
  <1>0. \A e, x : Told(e, x) => Told(e, x)'
    BY Zenon, ToldStays DEF Told
  <1>1. ASSUME NEW w \in Writer,
               \/ ensure_evidence_blob(w) \/ ProbePayload(w) \/ ProbeBlob(w)
               \/ CheckBlob(w) \/ OpenPayload(w) \/ WritePayload(w) \/ OpenBlob(w)
               \/ WriteBlob(w) \/ WriteFails(w) \/ Crash(w)
        PROVE  /\ UNCHANGED <<evidence, executions, execution, id, emitted>>
               /\ \A v \in Writer : pc'[v] # "idle" => pc[v] # "idle"
               /\ \A v \in Writer : pc'[v] = "sync_evidence" =>
                        pc[v] = "sync_evidence" /\ digest'[v] = digest[v]
    BY <1>1 DEF ensure_evidence_blob, ProbePayload, ProbeBlob, CheckBlob, OpenPayload,
       WritePayload, OpenBlob, WriteBlob, WriteFails, Crash, IInv, TypeOK, OfEvidence,
       OfExecution
  <1>2. ASSUME NEW w \in Writer, Begin(w) PROVE ListedIsTold'
    BY <1>0, <1>2 DEF Begin, Telling, ListedIsTold, IInv, TypeOK, Whole
  <1>3. ASSUME NEW w \in Writer, CreateEvidence(w) PROVE ListedIsTold'
    <2>1. PICK e \in EvidenceId :
            /\ id' = [id EXCEPT ![w] = e]
            /\ UNCHANGED <<execution, executions, digest, emitted>>
            /\ pc[w] = "mint"
            /\ \/ /\ evidence[e] = Absent
                  /\ pc' = [pc EXCEPT ![w] = "write_evidence"]
                  /\ evidence' = [evidence EXCEPT ![e] = Partial]
               \/ pc' = [pc EXCEPT ![w] = "running"] /\ UNCHANGED evidence
      BY Zenon, <1>3 DEF CreateEvidence
    <2>2. \A v \in Writer : pc'[v] = "sync_evidence" =>
            v # w /\ pc[v] = "sync_evidence" /\ id'[v] = id[v]
            /\ evidence'[id[v]] = evidence[id[v]]
      BY <2>1 DEF IInv, TypeOK, Claimed, Placed, Whole
    <2>3. \A v \in Writer : pc'[v] # "idle" => pc[v] # "idle"
      BY Zenon, <2>1 DEF IInv, TypeOK
    <2> QED
      BY Zenon, <1>0, <2>1, <2>2, <2>3 DEF Telling, ListedIsTold, Whole
  <1>4. ASSUME NEW w \in Writer, WriteEvidence(w) PROVE ListedIsTold'
    <2>1. /\ pc[w] = "write_evidence" /\ id[w] \in EvidenceId
          /\ pc' = [pc EXCEPT ![w] = "sync_evidence"]
          /\ evidence' = [evidence EXCEPT ![id[w]] =
                [sha256 |-> digest[w], produced_by_execution |-> execution[w]]]
          /\ UNCHANGED <<executions, execution, digest, id, emitted>>
      BY Zenon, <1>4 DEF WriteEvidence, IInv, Placed
    <2>2. \A v \in Writer : v # w /\ pc[v] = "sync_evidence" => id[v] # id[w]
      BY Zenon, <2>1 DEF IInv, Exclusive
    <2>3. \A v \in Writer : pc'[v] # "idle" => pc[v] # "idle"
      BY Zenon, <2>1 DEF IInv, TypeOK
    <2>4. \A v \in Writer : pc'[v] = "sync_evidence" => evidence'[id[v]] =
            [sha256 |-> digest[v], produced_by_execution |-> execution[v]]
      BY Zenon, <2>1, <2>2 DEF IInv, TypeOK, Placed, Telling, ListedIsTold
    <2> QED
      BY Zenon, <1>0, <2>1, <2>3, <2>4 DEF Telling, ListedIsTold, Whole
  <1>5. ASSUME NEW w \in Writer, SyncEvidence(w) PROVE ListedIsTold'
    <2>1. /\ pc[w] = "sync_evidence" /\ pc' = [pc EXCEPT ![w] = "running"]
          /\ refs' = refs \cup {<<id[w], evidence[id[w]]>>}
          /\ emitted' = [emitted EXCEPT ![w] = @ \cup {id[w]}]
          /\ UNCHANGED <<evidence, executions, execution, digest, id>>
      BY Zenon, <1>5 DEF SyncEvidence
    <2>2. evidence[id[w]].produced_by_execution = execution[w]
      <3>1. evidence[id[w]] =
              [sha256 |-> digest[w], produced_by_execution |-> execution[w]]
        BY Zenon, <2>1 DEF Telling, ListedIsTold
      <3> QED
        BY <3>1
    <2>3. Told(id[w], execution[w])'
      <3> DEFINE r == <<id[w], evidence[id[w]]>>
      <3>1. r \in refs' /\ r[1] = id[w] /\ r[2].produced_by_execution = execution[w]
        BY Zenon, <2>1, <2>2
      <3>2. UNCHANGED <<id[w], execution[w]>>
        BY Zenon, <2>1
      <3> HIDE DEF r
      <3> QED
        BY Zenon, <3>1, <3>2 DEF Told
    <2>4. \A v \in Writer : pc'[v] # "idle" => \A e \in emitted'[v] : Told(e, execution[v])'
      BY Zenon, <1>0, <2>1, <2>3 DEF Telling, ListedIsTold, IInv, TypeOK
    <2> QED
      BY Zenon, <1>0, <2>1, <2>4 DEF Telling, ListedIsTold, Whole, IInv, TypeOK
  <1>6. ASSUME NEW w \in Writer, CreateExecution(w) \/ SyncExecution(w)
        PROVE ListedIsTold'
    <2>1. /\ UNCHANGED <<evidence, execution, digest, id, emitted>> /\ pc[w] # "idle"
          /\ \A v \in Writer : v # w => pc'[v] = pc[v]
          /\ pc'[w] # "sync_evidence"
          /\ \A x \in ExecutionId : Whole(executions'[x]) => executions'[x] = executions[x]
      BY Zenon, <1>6 DEF CreateExecution, SyncExecution, IInv, TypeOK, Whole, Placed
    <2> QED
      BY Zenon, <1>0, <2>1 DEF Telling, ListedIsTold, Whole
  <1>7. ASSUME NEW w \in Writer, WriteExecution(w) PROVE ListedIsTold'
    <2>1. /\ pc[w] = "write_execution" /\ pc' = [pc EXCEPT ![w] = "sync_execution"]
          /\ execution[w] \in ExecutionId
          /\ executions' = [executions EXCEPT ![execution[w]] =
                                [emitted_evidence |-> emitted[w]]]
          /\ UNCHANGED <<evidence, execution, digest, id, emitted>>
      BY Zenon, <1>7 DEF WriteExecution, IInv, Placed
    <2>2. \A e \in emitted[w] : Told(e, execution[w])
      BY Zenon, <2>1 DEF Telling, ListedIsTold
    <2>3. \A x \in ExecutionId : Whole(executions'[x]) =>
            \A e \in executions'[x].emitted_evidence : Told(e, x)'
      BY Zenon, <1>0, <2>1, <2>2 DEF Telling, ListedIsTold, IInv, TypeOK
    <2> QED
      BY Zenon, <1>0, <2>1, <2>3 DEF Telling, ListedIsTold, IInv, TypeOK
  <1>8. CASE PowerLoss
    <2>1. /\ \A w \in Writer : pc'[w] = "idle"
          /\ \A x \in ExecutionId : Whole(executions'[x]) => executions'[x] = executions[x]
      BY Zenon, <1>8 DEF PowerLoss, Survivors, Whole, IInv, TypeOK
    <2> QED
      BY Zenon, <1>0, <2>1 DEF Telling, ListedIsTold
  <1>9. CASE UNCHANGED vars
    BY Zenon, <1>0, <1>9 DEF vars, Telling, ListedIsTold, Whole
  <1>10. ASSUME NEW w \in Writer,
               \/ ensure_evidence_blob(w) \/ ProbePayload(w) \/ ProbeBlob(w)
               \/ CheckBlob(w) \/ OpenPayload(w) \/ WritePayload(w) \/ OpenBlob(w)
               \/ WriteBlob(w) \/ WriteFails(w) \/ Crash(w)
        PROVE  ListedIsTold'
    BY Zenon, <1>0, <1>1, <1>10 DEF Telling, ListedIsTold, Whole
  <1> QED
    BY Zenon, <1>2, <1>3, <1>4, <1>5, <1>6, <1>7, <1>8, <1>9, <1>10 DEF Next, Step

\* References stay true and lists stay within what was told, in every behaviour.
LEMMA TellingAlways == Spec => [](IInv /\ Telling)
  <1>1. Init => Telling
    BY FileStates DEF Init, Telling, RefsHold, ListedIsTold, Whole
  <1>2. IInv /\ IInv' /\ Telling /\ [Next]_vars => Telling'
    BY Zenon, NextRefs, NextListed DEF Telling
  <1> QED
    BY <1>1, <1>2, StoreInv, PTL DEF Spec

\* Lineage is whole for any number of processes, through crashes, failing writes and
\* power losses, and even when two processes mint one execution identifier: whatever
\* evidence a persisted execution record names is on disk and names that execution.
THEOREM LineageIsWhole == Spec => []RecordedEvidenceExists
  <1>1. IInv /\ Telling => RecordedEvidenceExists
    <2> SUFFICES ASSUME IInv, Telling, NEW x \in ExecutionId, Whole(executions[x]),
                        NEW e \in executions[x].emitted_evidence
                 PROVE  Whole(evidence[e]) /\ evidence[e].produced_by_execution = x
      BY Zenon DEF RecordedEvidenceExists
    <2>1. PICK r \in refs : r[1] = e /\ r[2].produced_by_execution = x
      BY Zenon DEF Telling, ListedIsTold, Told
    <2>2. evidence[e] = r[2] /\ r[2] \in EvidenceRecord
      BY Zenon, <2>1 DEF Telling, RefsHold, IInv, TypeOK
    <2> QED
      BY Zenon, <2>1, <2>2, WholeTypes
  <1> QED
    BY <1>1, TellingAlways, PTL

-----------------------------------------------------------------------------
(* The payload behind a reference, for one process *)

\* One process uses the root, and the machine does not lose power.
Alone == PowerFails = FALSE /\ \A v, w \in Writer : v = w

Stored(d) == payload[d] = d /\ blob[d] = d

\* blob.json comes after the payload, and what a probe of ensure_evidence_blob saw is
\* still so when it is acted upon.
BlobsInOrder ==
    /\ \A d \in Digest : blob[d] # Absent => payload[d] = d
    /\ \A w \in Writer :
        /\ pc[w] = "probe_blob" => (payload_seen[w] <=> payload[digest[w]] # Absent)
        /\ pc[w] = "open_payload" => payload[digest[w]] = Absent /\ blob[digest[w]] = Absent
        /\ pc[w] = "write_payload" => blob[digest[w]] = Absent
        /\ pc[w] = "open_blob" => payload[digest[w]] = digest[w] /\ blob[digest[w]] = Absent
        /\ pc[w] = "write_blob" => payload[digest[w]] = digest[w] /\ blob[digest[w]] = Partial
        /\ pc[w] \in {"mint", "write_evidence", "sync_evidence"} => Stored(digest[w])

RefsAreStored == \A r \in refs : Stored(r[2].sha256)

Reading == BlobsInOrder /\ RefsAreStored

\* A step of the only process changes its own payload and metadata, neither of which is
\* stored yet, and no others.
LEMMA AloneWrites ==
    ASSUME IInv, Alone, BlobsInOrder, [Next]_vars, NEW d \in Digest, Stored(d)
    PROVE  Stored(d)'
  <1> USE DEF Goto, objects, Stored
  <1>1. CASE UNCHANGED <<payload, blob>>
    BY Zenon, <1>1
  <1>2. ASSUME NEW w \in Writer, OpenPayload(w) \/ WritePayload(w) PROVE Stored(d)'
    <2>1. digest[w] \in Digest /\ blob[digest[w]] = Absent /\ UNCHANGED blob
      BY Zenon, <1>2 DEF OpenPayload, WritePayload, BlobsInOrder, IInv, Placed, OfExecution
    <2>2. digest[w] # d
      BY Zenon, <2>1, FileStates
    <2>3. payload'[d] = payload[d]
      BY Zenon, <1>2, <2>2 DEF OpenPayload, WritePayload, IInv, TypeOK
    <2> QED
      BY Zenon, <2>1, <2>3
  <1>3. ASSUME NEW w \in Writer, OpenBlob(w) \/ WriteBlob(w) PROVE Stored(d)'
    <2>1. digest[w] \in Digest /\ blob[digest[w]] \in {Absent, Partial} /\ UNCHANGED payload
      BY Zenon, <1>3 DEF OpenBlob, WriteBlob, BlobsInOrder, IInv, Placed, OfExecution
    <2>2. digest[w] # d
      BY Zenon, <2>1, FileStates
    <2>3. blob'[d] = blob[d]
      BY Zenon, <1>3, <2>2 DEF OpenBlob, WriteBlob, IInv, TypeOK
    <2> QED
      BY Zenon, <2>1, <2>3
  <1>4. ASSUME NEW w \in Writer,
               \/ Begin(w) \/ ensure_evidence_blob(w) \/ CreateExecution(w)
               \/ ProbePayload(w) \/ ProbeBlob(w) \/ CheckBlob(w)
               \/ CreateEvidence(w) \/ WriteEvidence(w) \/ SyncEvidence(w)
               \/ WriteExecution(w) \/ SyncExecution(w) \/ WriteFails(w) \/ Crash(w)
        PROVE  UNCHANGED <<payload, blob>>
    BY Zenon, <1>4 DEF Begin, ensure_evidence_blob, CreateExecution, ProbePayload, ProbeBlob,
       CheckBlob, CreateEvidence, WriteEvidence, SyncEvidence, WriteExecution,
       SyncExecution, WriteFails, Crash
  <1>5. CASE PowerLoss
    BY Zenon, <1>5 DEF PowerLoss, Alone
  <1>6. CASE UNCHANGED vars
    BY Zenon, <1>1, <1>6 DEF vars
  <1> QED
    BY Zenon, <1>1, <1>2, <1>3, <1>4, <1>5, <1>6 DEF Next, Step

\* Every step of the only process keeps the order in which it writes.
LEMMA NextOrder ==
    ASSUME IInv, Alone, BlobsInOrder, [Next]_vars
    PROVE  BlobsInOrder'
  <1> USE DEF Goto, objects, locals, IInv, TypeOK, Placed, OfEvidence, OfExecution, Stored
  <1>1. ASSUME NEW w \in Writer,
               \/ Begin(w) \/ CreateExecution(w) \/ WriteExecution(w) \/ SyncExecution(w)
               \/ SyncEvidence(w) \/ WriteFails(w) \/ Crash(w)
        PROVE  BlobsInOrder'
    <2>1. /\ UNCHANGED <<payload, blob>>
          /\ pc'[w] \in {"idle", "running"} \cup OfExecution
      BY Zenon, <1>1 DEF Begin, CreateExecution, WriteExecution, SyncExecution, SyncEvidence,
         WriteFails, Crash
    <2> QED
      BY <2>1 DEF BlobsInOrder, Alone
  <1>2. ASSUME NEW w \in Writer, ensure_evidence_blob(w) PROVE BlobsInOrder'
    BY <1>2 DEF ensure_evidence_blob, BlobsInOrder, Alone
  <1>3. ASSUME NEW w \in Writer, ProbePayload(w) PROVE BlobsInOrder'
    BY <1>3 DEF ProbePayload, BlobsInOrder, Alone
  <1>4. ASSUME NEW w \in Writer, ProbeBlob(w) PROVE BlobsInOrder'
    <2>1. /\ UNCHANGED <<payload, blob, digest, payload_seen>>
          /\ pc'[w] \in {"check", "running", "open_payload"}
          /\ pc'[w] = "open_payload" =>
                payload[digest[w]] = Absent /\ blob[digest[w]] = Absent
      BY Zenon, <1>4 DEF ProbeBlob, BlobsInOrder
    <2> QED
      BY Zenon, <2>1 DEF BlobsInOrder, Alone
  <1>5. ASSUME NEW w \in Writer, CheckBlob(w) PROVE BlobsInOrder'
    <2>1. /\ UNCHANGED <<payload, blob, digest, payload_seen>>
          /\ pc'[w] \in {"mint", "running"}
          /\ pc'[w] = "mint" => Stored(digest[w])
      BY <1>5, FileStates DEF CheckBlob, BlobsInOrder
    <2> QED
      BY <2>1 DEF BlobsInOrder, Alone
  <1>6. ASSUME NEW w \in Writer, OpenPayload(w) PROVE BlobsInOrder'
    BY <1>6 DEF OpenPayload, BlobsInOrder, Alone
  <1>7. ASSUME NEW w \in Writer, WritePayload(w) PROVE BlobsInOrder'
    BY <1>7 DEF WritePayload, BlobsInOrder, Alone
  <1>8. ASSUME NEW w \in Writer, OpenBlob(w) PROVE BlobsInOrder'
    BY <1>8 DEF OpenBlob, BlobsInOrder, Alone
  <1>9. ASSUME NEW w \in Writer, WriteBlob(w) PROVE BlobsInOrder'
    BY <1>9 DEF WriteBlob, BlobsInOrder, Alone
  <1>10. ASSUME NEW w \in Writer, CreateEvidence(w) \/ WriteEvidence(w)
         PROVE  BlobsInOrder'
    <2>1. /\ UNCHANGED <<payload, blob, digest, payload_seen>>
          /\ pc[w] \in {"mint", "write_evidence"}
          /\ pc'[w] \in {"running", "write_evidence", "sync_evidence"}
      BY Zenon, <1>10 DEF CreateEvidence, WriteEvidence
    <2> QED
      BY <2>1 DEF BlobsInOrder, Alone
  <1>11. CASE PowerLoss
    BY Zenon, <1>11 DEF PowerLoss, Alone
  <1>12. CASE UNCHANGED vars
    BY Zenon, <1>12 DEF vars, BlobsInOrder
  <1> QED
    BY Zenon, <1>1, <1>2, <1>3, <1>4, <1>5, <1>6, <1>7, <1>8, <1>9, <1>10, <1>11, <1>12
       DEF Next, Step

\* Every step of the only process keeps the payloads behind the references.
LEMMA NextStored ==
    ASSUME IInv, Telling, Alone, Reading, [Next]_vars
    PROVE  RefsAreStored'
  <1>1. ASSUME NEW r \in refs PROVE Stored(r[2].sha256)'
    <2>1. r[2].sha256 \in Digest /\ Stored(r[2].sha256)
      BY Zenon DEF IInv, TypeOK, EvidenceRecord, Reading, RefsAreStored
    <2> QED
      BY Zenon, <2>1, AloneWrites DEF Reading
  <1>2. CASE refs' = refs
    BY Zenon, <1>1, <1>2 DEF RefsAreStored
  <1>3. ASSUME NEW w \in Writer, SyncEvidence(w) PROVE RefsAreStored'
    <2>1. /\ pc[w] = "sync_evidence" /\ UNCHANGED <<payload, blob>>
          /\ refs' = refs \cup {<<id[w], evidence[id[w]]>>}
      BY Zenon, <1>3 DEF SyncEvidence, Goto, objects
    <2>2. evidence[id[w]] = [sha256 |-> digest[w], produced_by_execution |-> execution[w]]
      BY Zenon, <2>1 DEF Telling, ListedIsTold
    <2>3. PICK d \in Digest : d = digest[w] /\ evidence[id[w]].sha256 = d
      BY <2>1, <2>2 DEF IInv, Placed, OfEvidence, OfExecution
    <2>4. Stored(d)'
      BY Zenon, <2>1, <2>3 DEF Reading, BlobsInOrder, Stored
    <2>5. ASSUME NEW r \in refs', r \notin refs PROVE Stored(r[2].sha256)'
      <3>1. r[2].sha256 = d
        BY <2>1, <2>3, <2>5
      <3> QED
        BY Zenon, <2>4, <3>1 DEF Stored
    <2> QED
      BY Zenon, <1>1, <2>5 DEF RefsAreStored
  <1>4. refs' = refs \/ \E w \in Writer : SyncEvidence(w)
    BY Zenon DEF Next, Step, Begin, ensure_evidence_blob, CreateExecution, ProbePayload, ProbeBlob,
       CheckBlob, OpenPayload, WritePayload, OpenBlob, WriteBlob, CreateEvidence,
       WriteEvidence, WriteExecution, SyncExecution, WriteFails, Crash, PowerLoss, records,
       vars
  <1> QED
    BY Zenon, <1>2, <1>3, <1>4

\* One process at a time, over any number of crashes, failed writes and retries of
\* ensure_evidence_blob: every read of a reference that a guest received succeeds and
\* yields the emitted bytes.
THEOREM AloneIsReadable == Spec => [](Alone => RefsAreReadable)
  <1>1. Init => (Alone => Reading)
    BY DEF Init, Reading, BlobsInOrder, RefsAreStored
  <1>2. IInv /\ Telling /\ (Alone => Reading) /\ [Next]_vars => (Alone => Reading)'
    <2> SUFFICES ASSUME IInv, Telling, Alone => Reading, [Next]_vars, Alone'
                 PROVE  Reading'
      BY Zenon
    <2>1. Alone
      BY Zenon DEF Alone
    <2> QED
      BY Zenon, <2>1, NextOrder, NextStored DEF Reading
  <1>3. IInv /\ Telling /\ (Alone => Reading) => (Alone => RefsAreReadable)
    <2> SUFFICES ASSUME IInv, Telling, Reading, NEW r \in refs
                 PROVE  /\ read_record_backed_object_payload(r[1])
                              = Found(r[2].sha256, r[2].sha256)
                        /\ read_blob_object(r[2].sha256) = Found(r[2].sha256, r[2].sha256)
      BY Zenon DEF RefsAreReadable
    <2>1. r[2] \in EvidenceRecord /\ evidence[r[1]] = r[2]
      BY Zenon DEF IInv, TypeOK, Telling, RefsHold
    <2>2. r[2].sha256 \in Digest /\ Whole(r[2])
      BY Zenon, <2>1, WholeTypes DEF EvidenceRecord
    <2>3. payload[r[2].sha256] = r[2].sha256 /\ blob[r[2].sha256] = r[2].sha256
      BY Zenon DEF Reading, RefsAreStored, Stored
    <2>4. r[2].sha256 # Absent /\ Whole(r[2].sha256)
      BY Zenon, <2>2, FileStates DEF Whole
    <2> QED
      BY Zenon, <2>1, <2>2, <2>3, <2>4 DEF read_record_backed_object_payload, read_blob_object
  <1> QED
    BY <1>1, <1>2, <1>3, TellingAlways, PTL DEF Spec

=============================================================================
