---------------------------- MODULE RecordStore ----------------------------
(***************************************************************************)
(* What a create-only store of durable records promises: a record is put   *)
(* whole under an identifier that holds none, is never replaced, and once  *)
(* a caller was told of it, it stays.                                      *)
(***************************************************************************)
CONSTANTS Id, None

VARIABLES
    stored,   \* the record kept under each identifier, or None
    told      \* the <<identifier, record>> pairs that callers were told of

vars == <<stored, told>>

Init ==
    /\ stored = [i \in Id |-> None]
    /\ told = {}

Put(i) ==
    /\ stored[i] = None
    /\ stored' = [stored EXCEPT ![i] = stored'[i]]
    /\ UNCHANGED told

Tell(i) ==
    /\ stored[i] # None
    /\ told' = told \cup {<<i, stored[i]>>}
    /\ UNCHANGED stored

\* A record that nobody was told of yet may be lost.
Lose(i) ==
    /\ \A t \in told : t[1] # i
    /\ stored' = [stored EXCEPT ![i] = None]
    /\ UNCHANGED told

Next == \E i \in Id : Put(i) \/ Tell(i) \/ Lose(i)

Spec == Init /\ [][Next]_vars
=============================================================================
