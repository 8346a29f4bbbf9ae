--------------------------- MODULE AttemptLedger ---------------------------
(***************************************************************************)
(* What the execution path promises about durable attempts: attempts nest, *)
(* an attempt closes only after every attempt nested in it, it closes with *)
(* at most one ledger entry, written once, and the entry names recorded    *)
(* children of that attempt, all of the successful ones among them.  An    *)
(* attempt may close without an entry (the write failed, the process died).*)
(***************************************************************************)
CONSTANTS ExecutionId, Status, None

VARIABLES
    state,   \* "unused", "open" or "closed"
    above,   \* the attempt in which an attempt is nested
    ledger   \* the entry of an attempt, or None

vars == <<state, above, ledger>>

Init ==
    /\ state = [i \in ExecutionId |-> "unused"]
    /\ above = [i \in ExecutionId |-> None]
    /\ ledger = [i \in ExecutionId |-> None]

Nested(i) == {j \in ExecutionId : above[j] = i}

\* The edges that an entry of i has to name, and those it may name.
RecordedEdges(i) ==
    {[execution_id |-> j, status |-> ledger[j].status] :
        j \in {k \in Nested(i) : ledger[k] # None}}
SucceededEdges(i) == {e \in RecordedEdges(i) : e.status = "Succeeded"}

Open(i, p) ==
    /\ state[i] = "unused"
    /\ p # None => p \in ExecutionId /\ state[p] = "open"
    /\ state' = [state EXCEPT ![i] = "open"]
    /\ above' = [above EXCEPT ![i] = p]
    /\ UNCHANGED ledger

Close(i) ==
    /\ state[i] = "open"
    /\ \A j \in Nested(i) : state[j] = "closed"
    /\ state' = [state EXCEPT ![i] = "closed"]
    /\ UNCHANGED above

CloseWithEntry(i) ==
    /\ Close(i)
    /\ \E status \in Status, edges \in SUBSET RecordedEdges(i) :
        /\ SucceededEdges(i) \subseteq edges
        /\ ledger' = [ledger EXCEPT ![i] = [status |-> status, children |-> edges]]

CloseWithoutEntry(i) == Close(i) /\ UNCHANGED ledger

\* A process dies with a whole nest of attempts.
Lose(lost) ==
    /\ \A i \in lost : state[i] = "open"
    /\ \A i \in lost : \A j \in Nested(i) : state[j] = "open" => j \in lost
    /\ state' = [i \in ExecutionId |-> IF i \in lost THEN "closed" ELSE state[i]]
    /\ UNCHANGED <<above, ledger>>

Next ==
    \/ \E i \in ExecutionId, p \in ExecutionId \cup {None} : Open(i, p)
    \/ \E i \in ExecutionId : CloseWithEntry(i) \/ CloseWithoutEntry(i)
    \/ \E lost \in SUBSET ExecutionId : Lose(lost)

Spec == Init /\ [][Next]_vars
=============================================================================
