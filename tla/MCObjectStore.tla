--------------------------- MODULE MCObjectStore ---------------------------
(***************************************************************************)
(* Instances of ObjectStore: one process on its registry root, or several  *)
(* that share it on a machine that loses power.                            *)
(***************************************************************************)
EXTENDS ObjectStore, FiniteSets, TLC

VARIABLE active    \* the processes that run on the root

OneProcess == Cardinality(active) = 1

ObjectsInit == Init /\ active \in {Writer} \cup {{w} : w \in Writer}

ObjectsNext ==
    /\ \/ \E w \in active :
            \/ Begin(w) \/ ensure_evidence_blob(w) \/ CreateExecution(w)
            \/ Step(w) \/ WriteFails(w) \/ Crash(w)
       \/ ~ OneProcess /\ PowerLoss
    /\ UNCHANGED active

ObjectsSpec == ObjectsInit /\ [][ObjectsNext]_<<vars, active>>

\* Processes that share the root meet on one payload and on one execution identifier.
Meeting ==
    ~ OneProcess =>
        /\ Cardinality(blob_dir) <= 1
        /\ Cardinality({x \in ExecutionId :
                executions[x] # Absent \/ \E w \in Writer : execution[w] = x}) <= 1

\* RefsAreReadable for one process at a time: whatever crashes, failed writes and retries
\* of store_evidence came before, a returned EvidenceRef can be read.
RefsStayReadable == OneProcess => RefsAreReadable

\* Processes are interchangeable, and so are payloads and identifiers.
Symmetric ==
    Permutations(Writer) \cup Permutations(Digest)
        \cup Permutations(EvidenceId) \cup Permutations(ExecutionId)
=============================================================================
