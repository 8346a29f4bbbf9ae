----------------------------- MODULE Execution -----------------------------
(***************************************************************************)
(* The execution path of guild-runner: `Runner::authorize_execution',      *)
(* `Runner::execute', the host imports of the Wasm guest and the nested    *)
(* execution of a declared dependency (`RunnerRuntimeHost').               *)
(*                                                                         *)
(* A capability grant is abstracted to the set of operation classes it     *)
(* authorizes, so reducing a grant is taking a subset.  A guest is         *)
(* arbitrary: it issues any host call in any order and returns or traps    *)
(* whenever it likes.  Every caller is a process of its own (the MCP       *)
(* server, a CLI run); all of them share the registry root, hence          *)
(* `records', `produced_by' and `policy'.                                  *)
(***************************************************************************)
EXTENDS Naturals, FiniteSets

CONSTANTS
    ExecutionId,    \* identifiers mint_host_execution_id can return
    EvidenceId,     \* identifiers mint_host_evidence_record_id can return
    Caller,         \* processes that call the runner
    Skill,          \* resolved skills named by some manifest
    Installed,      \* the skills that are present in the registry
    Runnable,       \* skills whose manifest, runtime kind and ABI validate
    Modes,          \* [Skill -> SUBSET Mode]: the modes a manifest supports
    Required,       \* [Skill -> SUBSET Capability]: required capabilities
    Optional,       \* [Skill -> SUBSET Capability]: the other declared ones
    Dependency,     \* [Skill -> [Alias -> Skill \cup {None}]]
    EmitOp, ReadOp, LogOp, HttpOp, Alias,  \* classes of guest operations
    Deferred,       \* operations of families the Wasm runtime lacks
    Malformed,      \* a URI or URL that does not parse
    MaxRedirects,   \* [HttpOp -> Nat]: hops the authorizing grants follow
    Requests,       \* what callers may ask for: a subset of CallerRequest
    Policies,       \* contents policy.json may have
    MaxAttempts,    \* bound: top-level attempts each caller makes
    MaxChildSequence, \* u16::MAX, the last child sequence number
    None

Capability == EmitOp \cup ReadOp \cup LogOp \cup HttpOp \cup Alias \cup Deferred
Supported == Capability \ Deferred
Mode == {"inspect", "plan", "apply"}
Actor == {"caller", "skill"}
Status == {"Succeeded", "Failed", "Rejected"}
Decision == {"Allowed", "Reduced", "Rejected"}
Budget == [max_child_executions: Nat, max_network_requests: Nat]
CallerRequest == [skill: Skill, mode: Mode, grants: SUBSET Capability,
                  valid: BOOLEAN, budget: Budget]
Policy == [readable: BOOLEAN, ambiguous: SUBSET Actor,
           ceiling: [Actor -> [Skill -> SUBSET Capability]]]

\* What ChildExecutionRecord and ExecutionRecord keep.
Edge == [execution_id: ExecutionId, status: Status]
Record == [status: Status, parent: ExecutionId \cup {None},
           grants: SUBSET Capability, policy_decision: Decision,
           evidence: SUBSET EvidenceId,
           children: SUBSET Edge, network_requests: Nat]

ASSUME ConstantTypes ==
    /\ Installed \subseteq Skill /\ Runnable \subseteq Skill
    /\ Modes \in [Skill -> SUBSET Mode]
    /\ Required \in [Skill -> SUBSET Capability]
    /\ Optional \in [Skill -> SUBSET Capability]
    /\ Dependency \in [Skill -> [Alias -> Skill \cup {None}]]
    /\ MaxRedirects \in [HttpOp -> Nat]
    /\ Requests \subseteq CallerRequest
    /\ Policies \subseteq Policy
    /\ MaxChildSequence \in Nat /\ MaxAttempts \in Nat

ASSUME NoneAssumption ==
    /\ None \notin ExecutionId /\ None \notin Skill
    /\ None \notin Status /\ None \notin Record /\ None \notin {"ok", "receipt"}
    /\ None \notin [status: Status, children: SUBSET Edge]

ASSUME MalformedAssumption == Malformed \notin Capability

VARIABLES
    policy,         \* the content of policy.json
    top,            \* innermost live execution of each caller
    pc,             \* where each execution is
    owner, parent, alias, skill, mode, grants, decision,  \* its envelope
    max_child_executions, max_network_requests,           \* its budget
    network_requests, redirects, exercised, blocked,      \* WasmStoreState
    emitted, children,
    outcome,        \* the status its record is to carry
    result,         \* what Runner::execute returned
    records,        \* the execution store
    produced_by     \* the evidence store: the producing execution

envelope == <<owner, parent, alias, skill, mode, grants, decision,
              max_child_executions, max_network_requests>>
store == <<network_requests, redirects, exercised, blocked, emitted, children>>
registry == <<records, produced_by>>
vars == <<policy, top, pc, envelope, store, outcome, result, registry>>

-----------------------------------------------------------------------------
(* Manifests and policy *)

Declares(s) == Required[s] \cup Optional[s]

DependsOn(s) == {Dependency[s][a] : a \in Alias} \ {None}

\* The skills the installed dependency snapshots of s reach, s included.
Reachable ==
    [s \in Skill |->
        {t \in Skill : \A closed \in SUBSET Skill :
            (s \in closed /\ \A u \in closed : DependsOn(u) \subseteq closed)
                => t \in closed}]

\* declared_capability_surface resolves every skill it walks.
SurfaceResolves(s) == Reachable[s] \subseteq Installed

declared_capability_surface(s) == UNION {Declares(t) : t \in Reachable[s]}

\* The grant set and the outcome that local policy produces.
evaluate_policy(s, actor, requested, valid) ==
    LET granted == requested \cap declared_capability_surface(s)
                             \cap policy.ceiling[actor][s]
    IN IF actor \in policy.ambiguous \/ ~valid
       THEN [grants |-> {}, decision |-> "Rejected"]
       ELSE [grants |-> granted,
             decision |-> IF ~ Required[s] \subseteq granted THEN "Rejected"
                          ELSE IF granted = requested THEN "Allowed"
                          ELSE "Reduced"]

\* Mutant: the copy handed to the child is not decremented.
derive_child_budget_copied(i) ==
    [max_child_executions |-> max_child_executions[i],
     max_network_requests |-> max_network_requests[i]]

derive_child_budget(i) ==
    [max_child_executions |-> IF max_child_executions[i] = 0 THEN 0
                              ELSE max_child_executions[i] - 1,
     max_network_requests |-> max_network_requests[i]]

\* Mutant: the child asks for what it declares, not for what the parent holds.
derive_child_grants_declared(i, s) == Declares(s)

\* Parent grants reduced to what the child's manifest declares.
derive_child_grants(i, s) == Declares(s) \cap grants[i]

build_child_caller_request(i, s) ==
    [skill |-> s, mode |-> mode[i], grants |-> derive_child_grants(i, s),
     valid |-> TRUE, budget |-> derive_child_budget(i)]

validate_execution(i) ==
    /\ skill[i] \in Runnable
    /\ mode[i] \in Modes[skill[i]] /\ mode[i] # "apply"
    /\ Declares(skill[i]) \cup grants[i] \subseteq Supported
    /\ decision[i] # "Rejected"
    /\ Required[skill[i]] \subseteq grants[i]

-----------------------------------------------------------------------------
Init ==
    /\ policy \in Policies
    /\ top = [c \in Caller |-> None]
    /\ pc = [i \in ExecutionId |-> "unused"]
    /\ owner = [i \in ExecutionId |-> None]
    /\ parent = [i \in ExecutionId |-> None]
    /\ alias = [i \in ExecutionId |-> None]
    /\ skill = [i \in ExecutionId |-> None]
    /\ mode = [i \in ExecutionId |-> "inspect"]
    /\ grants = [i \in ExecutionId |-> {}]
    /\ decision = [i \in ExecutionId |-> "Rejected"]
    /\ max_child_executions = [i \in ExecutionId |-> 0]
    /\ max_network_requests = [i \in ExecutionId |-> 0]
    /\ network_requests = [i \in ExecutionId |-> 0]
    /\ redirects = [i \in ExecutionId |-> 0]
    /\ exercised = [i \in ExecutionId |-> {}]
    /\ blocked = [i \in ExecutionId |-> {}]
    /\ emitted = [i \in ExecutionId |-> {}]
    /\ children = [i \in ExecutionId |-> {}]
    /\ outcome = [i \in ExecutionId |-> None]
    /\ result = [i \in ExecutionId |-> None]
    /\ records = [i \in ExecutionId |-> None]
    /\ produced_by = [e \in EvidenceId |-> None]

\* An operator of the host edits policy.json, read afresh by every
\* authorization.
EditPolicy ==
    /\ policy' \in Policies
    /\ UNCHANGED <<top, pc, envelope, store, outcome, result, registry>>

\* authorize_execution followed by the entry of execute: policy decides, the
\* host mints an unused identifier and the attempt begins.
Enter(c, i, p, a, request) ==
    LET s == request.skill
        actor == IF p = None THEN "caller" ELSE "skill"
        evaluation == evaluate_policy(s, actor, request.grants, request.valid)
    IN /\ policy.readable /\ SurfaceResolves(s)
       /\ pc[i] = "unused"
       /\ pc' = [pc EXCEPT ![i] = "validate"]
       /\ top' = [top EXCEPT ![c] = i]
       /\ owner' = [owner EXCEPT ![i] = c]
       /\ parent' = [parent EXCEPT ![i] = p]
       /\ alias' = [alias EXCEPT ![i] = a]
       /\ skill' = [skill EXCEPT ![i] = s]
       /\ mode' = [mode EXCEPT ![i] = request.mode]
       /\ grants' = [grants EXCEPT ![i] = evaluation.grants]
       /\ decision' = [decision EXCEPT ![i] = evaluation.decision]
       /\ max_child_executions' =
            [max_child_executions EXCEPT ![i] =
                request.budget.max_child_executions]
       /\ max_network_requests' =
            [max_network_requests EXCEPT ![i] =
                request.budget.max_network_requests]
       /\ UNCHANGED <<policy, store, outcome, result, registry>>

\* A caller resolves an installed skill and runs it.
Inspect(c) ==
    /\ top[c] = None
    /\ Cardinality({i \in ExecutionId : owner[i] = c /\ parent[i] = None})
            < MaxAttempts
    /\ \E i \in ExecutionId, request \in Requests :
            /\ request.skill \in Installed
            /\ Enter(c, i, None, None, request)

\* Leaving the runtime: the status that the record is to carry is settled.
Settle(i, status) ==
    /\ pc' = [pc EXCEPT ![i] = "finish"]
    /\ outcome' = [outcome EXCEPT ![i] = status]

ValidateExecution(c) ==
    LET i == top[c]
    IN /\ i # None /\ pc[i] = "validate"
       /\ \/ /\ validate_execution(i)
             /\ pc' = [pc EXCEPT ![i] = "guest"]
             /\ UNCHANGED outcome
          \/ ~ validate_execution(i) /\ Settle(i, "Rejected")
          \* projection, component load or instantiation fails
          \/ validate_execution(i) /\ Settle(i, "Failed")
          \* the component imports more than the inspect surface
          \/ validate_execution(i) /\ Settle(i, "Rejected")
       /\ UNCHANGED <<policy, top, envelope, store, result, registry>>

-----------------------------------------------------------------------------
(* Host imports.  A denial traps the guest, which ends the execution. *)

Running(c) == top[c] # None /\ pc[top[c]] = "guest"

\* Mutant: the denial is reported to the guest, which goes on.
Block_and_continue(i, op) ==
    /\ blocked' = [blocked EXCEPT ![i] = @ \cup {op}]
    /\ UNCHANGED <<pc, outcome>>

Block(i, op) ==
    /\ blocked' = [blocked EXCEPT ![i] = @ \cup {op}]
    /\ Settle(i, "Rejected")

Exercise(i, op) == exercised' = [exercised EXCEPT ![i] = @ \cup {op}]

EmitEvidence(c) ==
    LET i == top[c]
    IN /\ Running(c)
       /\ \E op \in EmitOp :
            \/ /\ op \notin grants[i] /\ Block(i, op)
               /\ UNCHANGED <<exercised, emitted, produced_by>>
            \/ /\ op \in grants[i] /\ Exercise(i, op)
               /\ \/ \E e \in EvidenceId :
                        /\ produced_by[e] = None
                        /\ produced_by' = [produced_by EXCEPT ![e] = i]
                        /\ emitted' = [emitted EXCEPT ![i] = @ \cup {e}]
                  \/ UNCHANGED <<emitted, produced_by>>  \* the store failed
               /\ UNCHANGED <<pc, outcome, blocked>>
       /\ UNCHANGED <<policy, top, envelope, network_requests, redirects,
                      children, result, records>>

\* read_resource and log: nothing durable changes but the observation.
ReadOrLog(c) ==
    LET i == top[c]
    IN /\ Running(c)
       /\ \E op \in ReadOp \cup LogOp \cup {Malformed} :
            \/ /\ op \notin grants[i] /\ Block(i, op)
               /\ UNCHANGED exercised
            \/ /\ op \in grants[i] /\ Exercise(i, op)
               /\ UNCHANGED <<pc, outcome, blocked>>
       /\ UNCHANGED <<policy, top, envelope, network_requests, redirects,
                      emitted, children, result, registry>>

\* Mutant: the budget is compared after the request it admits.
NetworkBudgetLeft_off_by_one(i) == network_requests[i] <= max_network_requests[i]

NetworkBudgetLeft(i) == network_requests[i] < max_network_requests[i]

\* One round of the loop in http_request: parse, authorize against the grants
\* and the budget, dispatch, then answer the guest, follow or refuse.
HttpRequest(c) ==
    LET i == top[c]
    IN /\ i # None /\ pc[i] \in {"guest", "redirect"}
       /\ \E op \in HttpOp \cup {Malformed} :
            \/ /\ op \notin grants[i] \/ ~ NetworkBudgetLeft(i)
               /\ Block(i, op)
               /\ UNCHANGED <<exercised, network_requests, redirects>>
            \/ /\ op \in grants[i] /\ NetworkBudgetLeft(i)
               /\ network_requests' = [network_requests EXCEPT ![i] = @ + 1]
               /\ Exercise(i, op)
               /\ \/ /\ pc' = [pc EXCEPT ![i] = "guest"]
                     /\ redirects' = [redirects EXCEPT ![i] = 0]
                     /\ UNCHANGED <<outcome, blocked>>
                  \/ /\ redirects[i] < MaxRedirects[op]
                     /\ pc' = [pc EXCEPT ![i] = "redirect"]
                     /\ redirects' = [redirects EXCEPT ![i] = @ + 1]
                     /\ UNCHANGED <<outcome, blocked>>
                  \/ Block(i, op) /\ UNCHANGED redirects
       /\ UNCHANGED <<policy, top, envelope, emitted, children, result,
                      registry>>

-----------------------------------------------------------------------------
(* invoke_dependency, in the order in which it checks *)

HasSequence(i) == Cardinality(children[i]) < MaxChildSequence

ChildAllowed(i, a) ==
    /\ Dependency[skill[i]][a] # None
    /\ a \in grants[i]
    /\ max_child_executions[i] # 0
    /\ Dependency[skill[i]][a] \in Installed

\* The u16 child sequence is exhausted: a trap that is not a denial.
InvokeOverflow(c) ==
    LET i == top[c]
    IN /\ Running(c) /\ ~ HasSequence(i)
       /\ Settle(i, "Failed")
       /\ UNCHANGED <<policy, top, envelope, store, result, registry>>

\* The alias is not granted, or a required child capability is not covered by
\* the parent's grants.
InvokeDenied(c) ==
    LET i == top[c]
    IN /\ Running(c) /\ HasSequence(i)
       /\ \E a \in Alias :
            /\ LET s == Dependency[skill[i]][a]
               IN \/ s # None /\ a \notin grants[i]
                  \/ ChildAllowed(i, a) /\ ~ Required[s] \subseteq grants[i]
            /\ Block(i, a)
       /\ UNCHANGED <<policy, top, envelope, network_requests, redirects,
                      exercised, emitted, children, result, registry>>

\* An error the guest sees, without a child attempt: undeclared alias, no
\* child budget, dependency not installed, authorization failed.
InvokeRefused(c) ==
    LET i == top[c]
    IN /\ Running(c) /\ HasSequence(i)
       /\ \E a \in Alias :
            /\ LET s == Dependency[skill[i]][a]
               IN \/ s = None
                  \/ a \in grants[i] /\ ~ ChildAllowed(i, a)
                  \/ /\ ChildAllowed(i, a) /\ Required[s] \subseteq grants[i]
                     /\ ~ (policy.readable /\ SurfaceResolves(s))
            /\ Exercise(i, a)
       /\ UNCHANGED <<policy, top, pc, envelope, network_requests, redirects,
                      blocked, emitted, children, outcome, result, registry>>

InvokeChild(c) ==
    LET i == top[c]
    IN /\ Running(c) /\ HasSequence(i)
       /\ \E a \in Alias, j \in ExecutionId :
            /\ ChildAllowed(i, a)
            /\ LET s == Dependency[skill[i]][a]
               IN /\ Required[s] \subseteq grants[i]
                  /\ Enter(c, j, i, a, build_child_caller_request(i, s))

\* The guest returns a value, traps on its own account, returns evidence other
\* than what it emitted, or returns an error: a failure, unless the error code is
\* one of those that status_from_error takes for an unsupported runtime surface.
GuestReturns(c) ==
    LET i == top[c]
    IN /\ Running(c)
       /\ \E status \in Status : Settle(i, status)
       /\ UNCHANGED <<policy, top, envelope, store, result, registry>>

-----------------------------------------------------------------------------
(* The tail of execute, and the return into the parent's invoke_dependency *)

\* Mutant: the record is assembled without the child edges.
ExecutionRecord_without_children(i, evidence) ==
    [status |-> outcome[i], parent |-> parent[i], grants |-> grants[i],
     policy_decision |-> decision[i], evidence |-> evidence, children |-> {},
     network_requests |-> network_requests[i]]

ExecutionRecord(i, evidence) ==
    [status |-> outcome[i], parent |-> parent[i], grants |-> grants[i],
     policy_decision |-> decision[i], evidence |-> evidence, children |-> children[i],
     network_requests |-> network_requests[i]]

child_edge(i) == [execution_id |-> i, status |-> outcome[i]]

\* Control returns to the caller, or to the parent guest, which observes the
\* call and, when the child's record is at hand, keeps an edge to it.
Return(c, i, res, edge) ==
    LET p == parent[i]
    IN /\ pc' = [pc EXCEPT ![i] = "done"]
       /\ top' = [top EXCEPT ![c] = p]
       /\ result' = [result EXCEPT ![i] = res]
       /\ exercised' = IF p = None THEN exercised
                       ELSE [exercised EXCEPT ![p] = @ \cup {alias[i]}]
       /\ children' =
            IF p # None /\ edge
            THEN [children EXCEPT ![p] = @ \cup {child_edge(i)}]
            ELSE children
       /\ UNCHANGED <<policy, envelope, network_requests, redirects, blocked,
                      emitted, outcome, produced_by>>

\* Success: the evidence records are loaded back, then the record is written.
\* Either failing ends the attempt with an error and without a record.
PersistSuccess(c) ==
    LET i == top[c]
    IN /\ i # None /\ pc[i] = "finish" /\ outcome[i] = "Succeeded"
       /\ \/ /\ records' = [records EXCEPT ![i] = ExecutionRecord(i, emitted[i])]
             /\ Return(c, i, "ok", TRUE)
          \/ /\ emitted[i] # {}
             /\ Return(c, i, "evidence-load-failed", FALSE)
             /\ UNCHANGED records
          \/ /\ Return(c, i, "persist-failed", FALSE)
             /\ UNCHANGED records

\* Mutant: the receipt is attached before the write is known to have happened.
PersistUnsuccessful_receipt_first(c) ==
    LET i == top[c]
    IN /\ i # None /\ pc[i] = "finish" /\ outcome[i] \in {"Failed", "Rejected"}
       /\ \/ records' = [records EXCEPT ![i] = ExecutionRecord(i, emitted[i])]
          \/ UNCHANGED records
       /\ Return(c, i, "receipt", FALSE)

\* Mutant: only failures are persisted and returned.
PersistUnsuccessful_failed_only(c) ==
    LET i == top[c]
    IN /\ i # None /\ pc[i] = "finish" /\ outcome[i] = "Failed"
       /\ records' = [records EXCEPT ![i] = ExecutionRecord(i, emitted[i])]
       /\ Return(c, i, "receipt", TRUE)

\* persist_unsuccessful_attempt: unreadable evidence is dropped from the
\* record, and the parent reads the child's record back for its edge.
PersistUnsuccessful(c) ==
    LET i == top[c]
    IN /\ i # None /\ pc[i] = "finish" /\ outcome[i] \in {"Failed", "Rejected"}
       /\ \/ \E evidence \in {emitted[i], {}}, edge \in BOOLEAN :
                /\ records' =
                    [records EXCEPT ![i] = ExecutionRecord(i, evidence)]
                /\ Return(c, i, "receipt", edge)
          \/ /\ Return(c, i, "persist-failed", FALSE)
             /\ UNCHANGED records

-----------------------------------------------------------------------------
Live(i) == pc[i] \notin {"unused", "done", "lost"}

\* Mutant: only the outermost execution ends with the process.
Crash_outermost(c) ==
    /\ top[c] # None
    /\ top' = [top EXCEPT ![c] = None]
    /\ pc' = [i \in ExecutionId |->
                IF owner[i] = c /\ Live(i) /\ parent[i] = None
                THEN "lost" ELSE pc[i]]
    /\ UNCHANGED <<policy, envelope, store, outcome, result, registry>>

\* The caller's process dies with every execution it is nested in.
Crash(c) ==
    /\ top[c] # None
    /\ top' = [top EXCEPT ![c] = None]
    /\ pc' = [i \in ExecutionId |->
                IF owner[i] = c /\ Live(i) THEN "lost" ELSE pc[i]]
    /\ UNCHANGED <<policy, envelope, store, outcome, result, registry>>

HostStep(c) ==
    \/ ValidateExecution(c)
    \/ PersistSuccess(c)
    \/ PersistUnsuccessful(c)

GuestStep(c) ==
    \/ EmitEvidence(c)
    \/ ReadOrLog(c)
    \/ HttpRequest(c)
    \/ InvokeOverflow(c)
    \/ InvokeDenied(c)
    \/ InvokeRefused(c)
    \/ InvokeChild(c)
    \/ GuestReturns(c)

Next ==
    \/ EditPolicy
    \/ \E c \in Caller : Inspect(c) \/ HostStep(c) \/ GuestStep(c) \/ Crash(c)

Spec == Init /\ [][Next]_vars
-----------------------------------------------------------------------------
(* Properties *)

Operation == Capability \cup {Malformed}
Location == {"unused", "validate", "guest", "redirect", "finish", "done", "lost"}

\* Every variable has its type: the host-side state of an execution
\* (WasmStoreState, the host context) and the durable stores are well formed.
TypeOK ==
    /\ policy \in Policies
    /\ top \in [Caller -> ExecutionId \cup {None}]
    /\ pc \in [ExecutionId -> Location]
    /\ owner \in [ExecutionId -> Caller \cup {None}]
    /\ parent \in [ExecutionId -> ExecutionId \cup {None}]
    /\ alias \in [ExecutionId -> Alias \cup {None}]
    /\ skill \in [ExecutionId -> Skill \cup {None}]
    /\ mode \in [ExecutionId -> Mode]
    /\ grants \in [ExecutionId -> SUBSET Capability]
    /\ decision \in [ExecutionId -> Decision]
    /\ max_child_executions \in [ExecutionId -> Nat]
    /\ max_network_requests \in [ExecutionId -> Nat]
    /\ network_requests \in [ExecutionId -> Nat]
    /\ redirects \in [ExecutionId -> Nat]
    /\ exercised \in [ExecutionId -> SUBSET Operation]
    /\ blocked \in [ExecutionId -> SUBSET Operation]
    /\ emitted \in [ExecutionId -> SUBSET EvidenceId]
    /\ children \in [ExecutionId -> SUBSET Edge]
    /\ outcome \in [ExecutionId -> Status \cup {None}]
    /\ result \in [ExecutionId -> {None, "ok", "receipt", "persist-failed",
                                    "evidence-load-failed"}]
    /\ records \in [ExecutionId -> Record \cup {None}]
    /\ produced_by \in [EvidenceId -> ExecutionId \cup {None}]

\* Nested authority never widens (ADR 0014): whatever profile policy.json binds
\* to the "skill" actor, and however the file is edited between the parent's
\* authorization and the child's, a child holds only authority of its parent.
AuthorityNarrows ==
    \A i \in ExecutionId : parent[i] # None => grants[i] \subseteq grants[parent[i]]

\* A guest is given control only with a policy decision that is not a rejection,
\* every required capability granted and no grant outside the inspect surface,
\* and what it then does stays within the grants: an exercised operation is
\* granted unless it is a call of an alias the manifest does not declare, and
\* network requests stay within the budget through redirects.
GuestIsBounded ==
    \A i \in ExecutionId :
        /\ pc[i] \in {"guest", "redirect"} =>
              /\ decision[i] # "Rejected"
              /\ Required[skill[i]] \subseteq grants[i]
              /\ grants[i] \subseteq Supported
        /\ \A op \in exercised[i] \ grants[i] :
              op \in Alias /\ Dependency[skill[i]][op] = None
        /\ network_requests[i] <= max_network_requests[i]

\* The executions a process is nested in never outnumber the child budget of the
\* outermost one by more than that one itself: recursion is bounded by
\* Budget.max_child_executions.
DepthBounded ==
    \A i \in ExecutionId :
        (Live(i) /\ parent[i] = None) =>
            Cardinality({j \in ExecutionId : Live(j) /\ owner[j] = owner[i]})
                <= max_child_executions[i] + 1

\* Lineage is truthful: an edge held by an execution, or persisted in its record,
\* names a persisted record of a child of that very execution, with its status.
LineageSound ==
    \A i \in ExecutionId :
        \A e \in children[i] \cup (IF records[i] = None THEN {} ELSE records[i].children) :
            LET r == records[e.execution_id]
            IN r # None /\ r.status = e.status /\ r.parent = i

\* Lineage is complete for successful children: when a parent's record exists,
\* each of its children that was recorded as succeeded has its edge in it.
LineageComplete ==
    \A i, j \in ExecutionId :
        (records[i] # None /\ records[j] # None /\ parent[j] = i
            /\ records[j].status = "Succeeded")
            => [execution_id |-> j, status |-> "Succeeded"] \in records[i].children

\* A receipt is never issued ahead of its record: when execute returned a record
\* or an error with a receipt, the stored record carries the same status, and a
\* succeeded status only when no denial happened on the way.
ReceiptIsDurable ==
    \A i \in ExecutionId : result[i] \in {"ok", "receipt"} =>
        /\ records[i] # None
        /\ (records[i].status = "Succeeded") <=> (result[i] = "ok")
        /\ blocked[i] # {} => records[i].status = "Rejected"

\* Evidence is attributed to exactly the execution that emitted it: a record lists
\* evidence of its own execution only, and the record of a success lists all of it.
EvidenceAttributed ==
    \A i \in ExecutionId : records[i] # None =>
        LET own == {e \in EvidenceId : produced_by[e] = i}
        IN /\ records[i].evidence \subseteq own
           /\ records[i].status = "Succeeded" => records[i].evidence = own

\* What is persisted about an execution is true and says it all: its edges, its children and
\* its evidence (persist_record, through failing stores and crashes).
RecordsAreFaithful == LineageSound /\ LineageComplete /\ EvidenceAttributed

\* A denial is final: once an attempt of the guest was blocked, the execution has
\* no further effect, not even a later dispatch, emission or child call.
DenialIsFinal ==
    [][\A i \in ExecutionId : blocked[i] # {} =>
        /\ UNCHANGED <<network_requests[i], exercised[i], emitted[i], children[i]>>
        /\ outcome'[i] = "Rejected"]_vars

\* The execution path keeps the promise of the ledger of attempts: records are
\* written once, by a live attempt, after everything nested in it has ended, and
\* their edges are exactly the recorded children, the failed ones at most.
Ledger == INSTANCE AttemptLedger WITH
    state <- [i \in ExecutionId |->
                IF pc[i] = "unused" THEN "unused"
                ELSE IF Live(i) THEN "open" ELSE "closed"],
    above <- parent,
    ledger <- [i \in ExecutionId |->
                IF records[i] = None THEN None
                ELSE [status |-> records[i].status,
                      children |-> records[i].children]]

\* The refinement above, as the property that runs check.
ImplementsLedger == Ledger!Spec

\* The round of http_request that the host makes on its own, after a redirect.
RedirectStep(c) == top[c] # None /\ pc[top[c]] = "redirect" /\ HttpRequest(c)

\* The host always makes progress; a guest may compute forever.
HostFairness ==
    \A c \in Caller : WF_vars(HostStep(c)) /\ WF_vars(RedirectStep(c))

\* Wherever the host is in charge (validation, a redirect chain, persistence) it
\* hands control to the guest or ends the attempt: no redirect chain and no
\* failing store keeps an execution forever, even next to a guest that never ends.
HostAnswers ==
    \A i \in ExecutionId :
        pc[i] \in {"validate", "redirect", "finish"}
            ~> pc[i] \in {"guest", "done", "lost"}

\* The host answers, and every attempt is settled, nested ones included, unless a guest
\* computes forever: a guest that keeps coming to a point where it can return must at some
\* time do so.
EveryAttemptSettles ==
    /\ HostAnswers
    /\ (\A c \in Caller : SF_vars(GuestReturns(c)))
            => \A i \in ExecutionId : Live(i) ~> ~ Live(i)

=============================================================================
