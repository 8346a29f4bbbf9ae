-------------------------- MODULE ExecutionProofs --------------------------
(***************************************************************************)
(* Proofs of the safety properties of Execution for every value of its     *)
(* constants: authority, what a guest may do, how deep the live executions *)
(* of a caller nest (bounded by the outermost child budget), and what the  *)
(* execution store says about the attempts.                                *)
(***************************************************************************)
EXTENDS Execution, FiniteSetTheorems, TLAPS

USE DEF Mode, Status, Decision, Location

-----------------------------------------------------------------------------
(* Manifests and policy *)

\* The surface of a skill consists of capabilities.
LEMMA SurfaceType ==
    ASSUME NEW s \in Skill
    PROVE  declared_capability_surface(s) \subseteq Capability
BY Zenon, ConstantTypes DEF declared_capability_surface, Declares, Reachable

\* Policy returns a typed decision, and grants only what was requested.
LEMMA PolicyEvaluation ==
    ASSUME NEW s \in Skill, NEW actor \in Actor, NEW requested \in SUBSET Capability,
           NEW valid \in BOOLEAN
    PROVE  /\ evaluate_policy(s, actor, requested, valid).grants \in SUBSET Capability
           /\ evaluate_policy(s, actor, requested, valid).grants \subseteq requested
           /\ evaluate_policy(s, actor, requested, valid).decision \in Decision
BY Zenon DEF evaluate_policy

\* The request built for a child is a well-formed request.
LEMMA ChildRequest ==
    ASSUME TypeOK, NEW i \in ExecutionId, NEW s \in Skill
    PROVE  build_child_caller_request(i, s) \in CallerRequest
<1>1. derive_child_grants(i, s) \in SUBSET Capability
    BY Zenon, ConstantTypes DEF derive_child_grants, TypeOK
<1>2. derive_child_budget(i) \in Budget
    BY DEF derive_child_budget, TypeOK, Budget
<1>3. mode[i] \in Mode
    BY Zenon DEF TypeOK
<1>4. QED
    BY Zenon, <1>1, <1>2, <1>3 DEF build_child_caller_request, CallerRequest

-----------------------------------------------------------------------------
(* Type correctness *)

\* Building an envelope from a well-formed request keeps the types.
LEMMA EnterType ==
    ASSUME TypeOK, NEW c \in Caller, NEW i \in ExecutionId,
           NEW p \in ExecutionId \cup {None}, NEW a \in Alias \cup {None},
           NEW request \in CallerRequest, Enter(c, i, p, a, request)
    PROVE  TypeOK'
<1> DEFINE actor == IF p = None THEN "caller" ELSE "skill"
           evaluation == evaluate_policy(request.skill, actor, request.grants,
                                         request.valid)
<1>1. request.skill \in Skill /\ request.grants \in SUBSET Capability
      /\ request.valid \in BOOLEAN /\ request.mode \in Mode
      /\ request.budget.max_child_executions \in Nat
      /\ request.budget.max_network_requests \in Nat
    BY Zenon DEF CallerRequest, Budget
<1>2. actor \in Actor
    BY Zenon DEF Actor
<1>3. evaluation.grants \in SUBSET Capability /\ evaluation.decision \in Decision
    BY ZenonT(30), <1>1, <1>2, PolicyEvaluation
<1> HIDE DEF evaluation
<1>4. /\ grants' = [grants EXCEPT ![i] = evaluation.grants]
      /\ decision' = [decision EXCEPT ![i] = evaluation.decision]
    BY Zenon DEF Enter, evaluation
<1>5. /\ grants' \in [ExecutionId -> SUBSET Capability]
      /\ decision' \in [ExecutionId -> Decision]
    BY Zenon, <1>3, <1>4 DEF TypeOK
<1>6. QED
    BY Zenon, <1>1, <1>5 DEF Enter, TypeOK, store, registry

\* Handing a result to the parent keeps the types.
LEMMA ReturnType ==
    ASSUME TypeOK, NEW c \in Caller, NEW i \in ExecutionId, pc[i] = "finish",
           outcome[i] \in Status,
           NEW res \in {"ok", "receipt", "persist-failed", "evidence-load-failed"},
           NEW edge \in BOOLEAN, parent[i] # None => alias[i] \in Alias,
           Return(c, i, res, edge),
           records' \in [ExecutionId -> Record \cup {None}]
    PROVE  TypeOK'
<1>1. child_edge(i) \in Edge
    BY Zenon DEF child_edge, Edge
<1>2. parent[i] \in ExecutionId \cup {None}
    BY Zenon DEF TypeOK
<1>3. children' \in [ExecutionId -> SUBSET Edge]
    BY Zenon, <1>1, <1>2 DEF Return, TypeOK
<1>4. parent[i] # None => alias[i] \in Operation
    BY Zenon DEF Operation, Capability
<1>5. exercised' \in [ExecutionId -> SUBSET Operation]
    BY Zenon, <1>2, <1>4 DEF Return, TypeOK
<1>6. QED
    BY <1>2, <1>3, <1>5, Zenon DEF Return, TypeOK, envelope

\* What is persisted is a well-formed record.
LEMMA RecordType ==
    ASSUME TypeOK, NEW i \in ExecutionId, outcome[i] \in Status,
           NEW evidence \in SUBSET EvidenceId
    PROVE  ExecutionRecord(i, evidence) \in Record
BY Zenon DEF ExecutionRecord, Record, TypeOK

\* What an attempt knows from its first step on: who runs it, which skill, and
\* through which alias it was called.  Identifiers not yet minted know nothing.
Attempted ==
    \A i \in ExecutionId :
        /\ pc[i] # "unused" => skill[i] \in Skill /\ owner[i] \in Caller
        /\ parent[i] # None => alias[i] \in Alias /\ pc[parent[i]] # "unused"
        /\ pc[i] = "unused" =>
              /\ parent[i] = None /\ records[i] = None /\ result[i] = None
              /\ blocked[i] = {} /\ exercised[i] = {} /\ emitted[i] = {}
              /\ children[i] = {} /\ network_requests[i] = 0

Base == TypeOK /\ Attempted

\* The caller whose step it is has an innermost execution, which has started.
LEMMA TopType ==
    ASSUME Base, NEW c \in Caller, top[c] # None
    PROVE  top[c] \in ExecutionId
BY DEF Base, TypeOK

\* The strengthened type invariant holds at first.
LEMMA InitBase == Init => Base
<1> SUFFICES ASSUME Init PROVE Base
    BY Zenon
<1>1. TypeOK
    BY Zenon DEF Init, TypeOK
<1>2. Attempted
    BY Zenon DEF Init, Attempted
<1>3. QED
    BY Zenon, <1>1, <1>2 DEF Base

\* Every step keeps the strengthened type invariant.
LEMMA NextBase == Base /\ [Next]_vars => Base'
<1> SUFFICES ASSUME Base, [Next]_vars PROVE Base'
    BY Zenon
<1> USE DEF Base
<1>1. CASE EditPolicy
    BY Zenon, <1>1 DEF EditPolicy, TypeOK, Attempted, envelope, store, registry
<1>2. ASSUME NEW c \in Caller, Inspect(c) PROVE Base'
    <2>1. PICK i \in ExecutionId, request \in Requests :
            request.skill \in Installed /\ Enter(c, i, None, None, request)
        BY Zenon, <1>2 DEF Inspect
    <2>2. request \in CallerRequest
        BY Zenon, ConstantTypes
    <2>3. TypeOK'
        BY Zenon, <2>1, <2>2, EnterType
    <2>4. request.skill \in Skill
        BY Zenon, <2>2 DEF CallerRequest
    <2>5. Attempted'
        BY <2>1, <2>4 DEF Attempted, Enter, TypeOK, store, registry
    <2>6. QED
        BY Zenon, <2>3, <2>5
<1>3. ASSUME NEW c \in Caller, ValidateExecution(c) PROVE Base'
    <2>1. top[c] \in ExecutionId
        BY Zenon, <1>3, TopType DEF ValidateExecution
    <2>2. TypeOK'
        BY Zenon, <1>3, <2>1 DEF ValidateExecution, Settle, TypeOK, envelope, store, registry
    <2>3. Attempted'
        BY <1>3, <2>1 DEF ValidateExecution, Settle, TypeOK, Attempted, envelope,
                          store, registry
    <2>4. QED
        BY Zenon, <2>2, <2>3
<1>4. ASSUME NEW c \in Caller, PersistSuccess(c) PROVE Base'
    <2> DEFINE i == top[c]
    <2>1. i \in ExecutionId /\ outcome[i] \in Status /\ pc[i] = "finish"
        BY Zenon, <1>4, TopType DEF PersistSuccess
    <2>2. PICK res \in {"ok", "receipt", "persist-failed", "evidence-load-failed"},
               edge \in BOOLEAN : Return(c, i, res, edge)
        BY <1>4, Zenon DEF PersistSuccess
    <2>3. ExecutionRecord(i, emitted[i]) \in Record
        BY Zenon, <2>1, RecordType DEF TypeOK
    <2>4. \/ records' = [records EXCEPT ![i] = ExecutionRecord(i, emitted[i])]
          \/ records' = records
        BY <1>4, Zenon DEF PersistSuccess
    <2>5. records' \in [ExecutionId -> Record \cup {None}]
        BY SMTT(30), <2>3, <2>4 DEF TypeOK
    <2>6. TypeOK'
        BY <2>1, <2>2, <2>5, ReturnType DEF Attempted
    <2>7. Attempted'
        BY <2>1, <2>2, <2>4 DEF Return, Attempted, TypeOK, envelope
    <2>8. QED
        BY Zenon, <2>6, <2>7
<1>5. ASSUME NEW c \in Caller, PersistUnsuccessful(c) PROVE Base'
    <2> DEFINE i == top[c]
    <2>1. i \in ExecutionId /\ outcome[i] \in Status /\ pc[i] = "finish"
        BY Zenon, <1>5, TopType DEF PersistUnsuccessful
    <2>2. PICK res \in {"ok", "receipt", "persist-failed", "evidence-load-failed"},
               edge \in BOOLEAN : Return(c, i, res, edge)
        BY <1>5, Zenon DEF PersistUnsuccessful
    <2>3. PICK evidence \in {emitted[i], {}} :
            \/ records' = [records EXCEPT ![i] = ExecutionRecord(i, evidence)]
            \/ records' = records
        BY <1>5, Zenon DEF PersistUnsuccessful
    <2>4. ExecutionRecord(i, evidence) \in Record
        BY Zenon, <2>1, RecordType DEF TypeOK
    <2>5. records' \in [ExecutionId -> Record \cup {None}]
        BY Zenon, <2>3, <2>4 DEF TypeOK
    <2>6. TypeOK'
        BY <2>1, <2>2, <2>5, ReturnType DEF Attempted
    <2>7. Attempted'
        BY SMTT(30), <2>1, <2>2, <2>3 DEF Return, Attempted, TypeOK, envelope
    <2>8. QED
        BY Zenon, <2>6, <2>7
<1>6. ASSUME NEW c \in Caller, EmitEvidence(c) PROVE Base'
    <2>1. top[c] \in ExecutionId /\ pc[top[c]] = "guest"
        BY Zenon, <1>6, TopType DEF EmitEvidence, Running
    <2>2. EmitOp \subseteq Operation
        BY Zenon DEF Operation, Capability
    <2>3. TypeOK'
        BY SMTT(30), <1>6, <2>1, <2>2 DEF EmitEvidence, Block, Settle, Exercise, TypeOK, envelope
    <2>4. Attempted'
        BY <1>6, <2>1 DEF EmitEvidence, Block, Settle, Exercise, TypeOK, Attempted,
                          envelope
    <2>5. QED
        BY <2>3, <2>4
<1>7. ASSUME NEW c \in Caller, ReadOrLog(c) PROVE Base'
    <2>1. top[c] \in ExecutionId /\ pc[top[c]] = "guest"
        BY Zenon, <1>7, TopType DEF ReadOrLog, Running
    <2>2. ReadOp \cup LogOp \cup {Malformed} \subseteq Operation
        BY Zenon DEF Operation, Capability
    <2>3. TypeOK'
        BY SMTT(30), <1>7, <2>1, <2>2 DEF ReadOrLog, Block, Settle, Exercise, TypeOK, envelope,
                                registry
    <2>4. Attempted'
        BY <1>7, <2>1 DEF ReadOrLog, Block, Settle, Exercise, TypeOK, Attempted,
                          envelope, registry
    <2>5. QED
        BY <2>3, <2>4
<1>8. ASSUME NEW c \in Caller, HttpRequest(c) PROVE Base'
    <2>1. top[c] \in ExecutionId /\ pc[top[c]] \in {"guest", "redirect"}
        BY Zenon, <1>8, TopType DEF HttpRequest
    <2>2. HttpOp \cup {Malformed} \subseteq Operation
        BY Zenon DEF Operation, Capability
    <2>3. TypeOK'
        BY SMTT(30), <1>8, <2>1, <2>2 DEF HttpRequest, Block, Settle, Exercise, TypeOK, envelope,
                                registry
    <2>4. Attempted'
        BY <1>8, <2>1 DEF HttpRequest, Block, Settle, Exercise, TypeOK, Attempted,
                          envelope, registry
    <2>5. QED
        BY <2>3, <2>4
<1>9. ASSUME NEW c \in Caller, InvokeOverflow(c) PROVE Base'
    BY <1>9, TopType DEF InvokeOverflow, Running, Settle, TypeOK, Attempted, envelope,
                         store, registry
<1>10. ASSUME NEW c \in Caller, InvokeDenied(c) PROVE Base'
    <2>1. top[c] \in ExecutionId /\ pc[top[c]] = "guest"
        BY <1>10, TopType, Zenon DEF InvokeDenied, Running
    <2>2. Alias \subseteq Operation
        BY Zenon DEF Operation, Capability
    <2>3. PICK a \in Alias : Block(top[c], a)
        BY <1>10, ZenonT(30) DEF InvokeDenied
    <2>4. UNCHANGED <<policy, top, envelope, network_requests, redirects, exercised,
                      emitted, children, result, registry>>
        BY ZenonT(30), <1>10 DEF InvokeDenied
    <2>5. QED
        BY <2>1, <2>2, <2>3, <2>4 DEF Block, Settle, TypeOK, Attempted, envelope,
                                      registry
<1>11. ASSUME NEW c \in Caller, InvokeRefused(c) PROVE Base'
    <2>1. top[c] \in ExecutionId /\ pc[top[c]] = "guest"
        BY <1>11, TopType, ZenonT(30) DEF InvokeRefused, Running
    <2>2. Alias \subseteq Operation
        BY DEF Operation, Capability
    <2>3. PICK a \in Alias : Exercise(top[c], a)
        BY ZenonT(30), <1>11 DEF InvokeRefused
    <2>4. UNCHANGED <<policy, top, pc, envelope, network_requests, redirects, blocked,
                      emitted, children, outcome, result, registry>>
        BY Zenon, <1>11 DEF InvokeRefused
    <2>5. QED
        BY <2>1, <2>2, <2>3, <2>4 DEF Exercise, TypeOK, Attempted, envelope, registry
<1>12. ASSUME NEW c \in Caller, InvokeChild(c) PROVE Base'
    <2> DEFINE i == top[c]
    <2>1. i \in ExecutionId /\ pc[i] = "guest"
        BY Zenon, <1>12, TopType DEF InvokeChild, Running
    <2>2. PICK a \in Alias, j \in ExecutionId :
            /\ ChildAllowed(i, a)
            /\ Enter(c, j, i, a, build_child_caller_request(i, Dependency[skill[i]][a]))
        BY Zenon, <1>12 DEF InvokeChild
    <2> DEFINE s == Dependency[skill[i]][a]
    <2>3. s \in Skill
        BY Zenon, <2>1, <2>2, ConstantTypes DEF ChildAllowed, Attempted
    <2> HIDE DEF s
    <2>4. build_child_caller_request(i, s) \in CallerRequest
        BY Zenon, <2>1, <2>3, ChildRequest
    <2>5. TypeOK'
        BY Zenon, <2>1, <2>2, <2>4, EnterType DEF s
    <2>6. build_child_caller_request(i, s).skill = s
        BY Zenon DEF build_child_caller_request
    <2>7. /\ pc[j] = "unused" /\ pc' = [pc EXCEPT ![j] = "validate"]
          /\ owner' = [owner EXCEPT ![j] = c] /\ parent' = [parent EXCEPT ![j] = i]
          /\ alias' = [alias EXCEPT ![j] = a] /\ skill' = [skill EXCEPT ![j] = s]
          /\ UNCHANGED <<store, result, registry>>
        BY <2>2, <2>6, Zenon DEF s, Enter
    <2>8. Attempted'
        BY SMTT(30), <2>1, <2>3, <2>7 DEF Attempted, TypeOK, store, registry
    <2>9. QED
        BY <2>5, <2>8
<1>13. ASSUME NEW c \in Caller, GuestReturns(c) PROVE Base'
    BY SMTT(30), <1>13, TopType DEF GuestReturns, Running, Settle, TypeOK, Attempted, envelope,
                          store, registry
<1>14. ASSUME NEW c \in Caller, Crash(c) PROVE Base'
    BY Zenon, <1>14 DEF Crash, Live, TypeOK, Attempted, envelope, store, registry
<1>15. CASE UNCHANGED vars
    BY Zenon, <1>15 DEF vars, TypeOK, Attempted, envelope, store, registry
<1>16. QED
    BY Zenon, <1>1, <1>2, <1>3, <1>4, <1>5, <1>6, <1>7, <1>8, <1>9, <1>10, <1>11, <1>12,
       <1>13, <1>14, <1>15 DEF Next, HostStep, GuestStep

\* The state of the runner and of the registry stays well formed, whatever guests,
\* operators and failing stores do.
THEOREM TypeCorrect == Spec => []TypeOK
<1>1. Spec => []Base
    BY InitBase, NextBase, PTL DEF Spec
<1>2. Base => TypeOK
    BY Zenon DEF Base
<1>3. QED
    BY <1>1, <1>2, PTL

-----------------------------------------------------------------------------
(* The shape of a step, as far as the nesting of executions goes *)

Shape == <<pc, top, envelope, result, records>>

\* The innermost execution of a caller moves on.
LocalStep(c) ==
    /\ top[c] \in ExecutionId
    /\ pc[top[c]] \in {"validate", "guest", "redirect"}
    /\ \E l \in {"guest", "redirect", "finish"} : pc' = [pc EXCEPT ![top[c]] = l]
    /\ UNCHANGED <<top, envelope, result, records>>

\* An attempt of j begins, nested in p unless p is None.
Begin(c, j, p, n, g) ==
    /\ pc[j] = "unused"
    /\ pc' = [pc EXCEPT ![j] = "validate"]
    /\ top' = [top EXCEPT ![c] = j]
    /\ owner' = [owner EXCEPT ![j] = c]
    /\ parent' = [parent EXCEPT ![j] = p]
    /\ grants' = [grants EXCEPT ![j] = g]
    /\ max_child_executions' = [max_child_executions EXCEPT ![j] = n]
    /\ UNCHANGED <<store, outcome, result, registry>>

\* A request of a caller begins an execution without a parent.
LEMMA InspectBegins ==
    ASSUME Base, NEW c \in Caller, Inspect(c)
    PROVE  \E j \in ExecutionId, n \in Nat, g \in SUBSET Capability :
                top[c] = None /\ Begin(c, j, None, n, g)
<1>1. PICK j \in ExecutionId, request \in Requests :
            top[c] = None /\ Enter(c, j, None, None, request)
    BY Zenon DEF Inspect
<1>2. request \in CallerRequest
    BY Zenon, ConstantTypes
<1>3. request.budget.max_child_executions \in Nat /\ request.skill \in Skill
      /\ request.grants \in SUBSET Capability /\ request.valid \in BOOLEAN
    BY Zenon, <1>2 DEF CallerRequest, Budget
<1> DEFINE g == evaluate_policy(request.skill, "caller", request.grants,
                                request.valid).grants
<1>4. g \in SUBSET Capability
    BY ZenonT(30), <1>3, PolicyEvaluation DEF Actor
<1>5. Begin(c, j, None, request.budget.max_child_executions, g)
    BY Zenon, <1>1 DEF Enter, Begin
<1> HIDE DEF g
<1>6. QED
    BY Zenon, <1>1, <1>3, <1>4, <1>5

\* A call of a dependency begins an execution with grants of its parent alone.
LEMMA InvokeBegins ==
    ASSUME Base, NEW c \in Caller, InvokeChild(c)
    PROVE  /\ top[c] \in ExecutionId /\ pc[top[c]] = "guest"
           /\ max_child_executions[top[c]] \in Nat \ {0}
           /\ \E j \in ExecutionId, g \in SUBSET grants[top[c]] :
                Begin(c, j, top[c], max_child_executions[top[c]] - 1, g)
<1> DEFINE i == top[c]
<1>1. i \in ExecutionId /\ pc[i] = "guest"
    BY Zenon, TopType DEF InvokeChild, Running
<1>2. PICK a \in Alias, j \in ExecutionId :
        /\ ChildAllowed(i, a)
        /\ Enter(c, j, i, a, build_child_caller_request(i, Dependency[skill[i]][a]))
    BY Zenon DEF InvokeChild
<1>3. max_child_executions[i] \in Nat \ {0}
    BY Zenon, <1>1, <1>2 DEF ChildAllowed, Base, TypeOK
<1> DEFINE s == Dependency[skill[i]][a]
<1>4. s \in Skill
    BY Zenon, <1>1, <1>2, ConstantTypes DEF ChildAllowed, Base, Attempted
<1> HIDE DEF s
<1> DEFINE request == build_child_caller_request(i, s)
<1>5. /\ request.skill = s /\ request.valid = TRUE
      /\ request.grants = Declares(s) \cap grants[i]
      /\ request.budget.max_child_executions = max_child_executions[i] - 1
    BY Zenon, <1>3 DEF build_child_caller_request, derive_child_grants, derive_child_budget
<1> DEFINE g == evaluate_policy(s, "skill", request.grants, TRUE).grants
<1>6. request.grants \in SUBSET Capability
    BY Zenon, <1>1, <1>5 DEF Base, TypeOK
<1>7. g \subseteq request.grants
    BY <1>4, <1>6, PolicyEvaluation, Zenon DEF Actor
<1>8. g \subseteq grants[i]
    BY <1>5, <1>7, Zenon
<1>9. i # None
    BY Zenon, <1>1, NoneAssumption
<1>10. Enter(c, j, i, a, request)
    BY Zenon, <1>2 DEF s
<1> HIDE DEF request
<1>11. Begin(c, j, i, max_child_executions[i] - 1, g)
    BY <1>5, <1>9, <1>10, Zenon DEF Enter, Begin
<1> HIDE DEF g
<1>12. QED
    BY Zenon, <1>1, <1>3, <1>8, <1>11

\* Every step is one of six kinds.
LEMMA StepShape ==
    ASSUME Base, [Next]_vars
    PROVE  \/ UNCHANGED Shape
           \/ \E c \in Caller :
                \/ LocalStep(c) \/ Inspect(c) \/ InvokeChild(c)
                \/ PersistSuccess(c) \/ PersistUnsuccessful(c) \/ Crash(c)
<1>1. CASE EditPolicy \/ UNCHANGED vars
    BY Zenon, <1>1 DEF EditPolicy, vars, Shape, registry
<1>2. ASSUME NEW c \in Caller, ValidateExecution(c) PROVE LocalStep(c)
    BY Zenon, <1>2, TopType DEF ValidateExecution, Settle, LocalStep, registry
<1>3. ASSUME NEW c \in Caller, EmitEvidence(c)
      PROVE  LocalStep(c) \/ UNCHANGED Shape
    BY Zenon, <1>3, TopType DEF EmitEvidence, Running, Block, Settle, LocalStep, Shape
<1>4. ASSUME NEW c \in Caller, ReadOrLog(c)
      PROVE  LocalStep(c) \/ UNCHANGED Shape
    BY Zenon, <1>4, TopType DEF ReadOrLog, Running, Block, Settle, LocalStep, Shape, registry
<1>5. ASSUME NEW c \in Caller, HttpRequest(c) PROVE LocalStep(c)
    BY Zenon, <1>5, TopType DEF HttpRequest, Block, Settle, LocalStep, registry
<1>6. ASSUME NEW c \in Caller, InvokeOverflow(c) PROVE LocalStep(c)
    BY Zenon, <1>6, TopType DEF InvokeOverflow, Running, Settle, LocalStep, registry
<1>7. ASSUME NEW c \in Caller, InvokeDenied(c) PROVE LocalStep(c)
    BY Zenon, <1>7, TopType DEF InvokeDenied, Running, Block, Settle, LocalStep, registry
<1>8. ASSUME NEW c \in Caller, InvokeRefused(c) PROVE UNCHANGED Shape
    BY Zenon, <1>8 DEF InvokeRefused, Shape, registry
<1>9. ASSUME NEW c \in Caller, GuestReturns(c) PROVE LocalStep(c)
    BY Zenon, <1>9, TopType DEF GuestReturns, Running, Settle, LocalStep, registry
<1>10. QED
    BY Zenon, <1>1, <1>2, <1>3, <1>4, <1>5, <1>6, <1>7, <1>8, <1>9
       DEF Next, HostStep, GuestStep

\* Both persisting steps end the innermost execution and expose its parent.
LEMMA ReturnShape ==
    ASSUME Base, NEW c \in Caller, PersistSuccess(c) \/ PersistUnsuccessful(c)
    PROVE  /\ top[c] \in ExecutionId /\ pc[top[c]] = "finish"
           /\ pc' = [pc EXCEPT ![top[c]] = "done"]
           /\ top' = [top EXCEPT ![c] = parent[top[c]]]
           /\ UNCHANGED envelope
BY TopType, Zenon DEF PersistSuccess, PersistUnsuccessful, Return

-----------------------------------------------------------------------------
(* Nested authority never widens *)

\* Every step keeps nested authority within the parent's.
LEMMA NextNarrows ==
    ASSUME Base, AuthorityNarrows, [Next]_vars
    PROVE  AuthorityNarrows'
<1>1. CASE UNCHANGED envelope
    BY Zenon, <1>1 DEF AuthorityNarrows, envelope
<1>2. ASSUME NEW c \in Caller, NEW j \in ExecutionId, NEW p \in ExecutionId \cup {None},
             NEW n, NEW g \in SUBSET Capability, Begin(c, j, p, n, g),
             p # None => g \subseteq grants[p] /\ pc[p] # "unused"
      PROVE  AuthorityNarrows'
    <2> SUFFICES ASSUME NEW i \in ExecutionId, parent'[i] # None
                 PROVE  grants'[i] \subseteq grants'[parent'[i]]
        BY Zenon DEF AuthorityNarrows
    <2>1. CASE i = j
        BY Zenon, <1>2, <2>1 DEF Begin, Base, TypeOK
    <2>2. CASE i # j
        <3>1. parent'[i] = parent[i] /\ grants'[i] = grants[i]
            BY Zenon, <1>2, <2>2 DEF Begin, Base, TypeOK
        <3>2. parent[i] \in ExecutionId /\ pc[parent[i]] # "unused"
            BY ZenonT(30), <3>1 DEF Base, TypeOK, Attempted
        <3>3. grants'[parent[i]] = grants[parent[i]]
            BY Zenon, <1>2, <3>2 DEF Begin, Base, TypeOK
        <3>4. QED
            BY ZenonT(30), <3>1, <3>3 DEF AuthorityNarrows
    <2>3. QED
        BY Zenon, <2>1, <2>2
<1>3. ASSUME NEW c \in Caller, Inspect(c) PROVE AuthorityNarrows'
    BY Zenon, <1>2, <1>3, InspectBegins
<1>4. ASSUME NEW c \in Caller, InvokeChild(c) PROVE AuthorityNarrows'
    <2>1. PICK j \in ExecutionId, g \in SUBSET grants[top[c]] :
            Begin(c, j, top[c], max_child_executions[top[c]] - 1, g)
        BY Zenon, <1>4, InvokeBegins
    <2>2. top[c] \in ExecutionId /\ pc[top[c]] = "guest"
        BY Zenon, <1>4, InvokeBegins
    <2>3. g \in SUBSET Capability
        BY Zenon, <2>2 DEF Base, TypeOK
    <2>4. QED
        BY Zenon, <1>2, <2>1, <2>2, <2>3
<1>5. ASSUME NEW c \in Caller,
             PersistSuccess(c) \/ PersistUnsuccessful(c) \/ Crash(c) \/ LocalStep(c)
      PROVE  UNCHANGED envelope
    BY ZenonT(30), <1>5, ReturnShape DEF Crash, LocalStep
<1>6. QED
    BY Zenon, <1>1, <1>3, <1>4, <1>5, StepShape DEF Shape

\* ADR 0014, for any manifests, requests and sequence of policy files: a nested
\* execution never holds authority that its parent does not hold.
THEOREM AuthorityNeverWidens == Spec => []AuthorityNarrows
<1>1. Init => AuthorityNarrows
    BY Zenon DEF Init, AuthorityNarrows
<1>2. QED
    BY <1>1, InitBase, NextBase, NextNarrows, PTL DEF Spec

-----------------------------------------------------------------------------
(* What a guest does stays within its envelope *)

\* A nested execution was called through an alias that its parent was granted.
CalledThroughGrant ==
    \A i \in ExecutionId : parent[i] # None => alias[i] \in grants[parent[i]]

Bounded == GuestIsBounded /\ CalledThroughGrant

\* The part of the envelope that bounds a guest.
bounds == <<parent, alias, skill, grants, decision, max_network_requests>>

\* A new attempt has done nothing yet.
LEMMA EnterBounded ==
    ASSUME Base, Bounded, NEW c \in Caller, NEW j \in ExecutionId,
           NEW p \in ExecutionId \cup {None}, NEW a \in Alias \cup {None},
           NEW request \in CallerRequest, Enter(c, j, p, a, request),
           p # None => a \in grants[p] /\ pc[p] = "guest"
    PROVE  Bounded'
<1>1. /\ pc[j] = "unused" /\ pc' = [pc EXCEPT ![j] = "validate"]
      /\ parent' = [parent EXCEPT ![j] = p] /\ alias' = [alias EXCEPT ![j] = a]
      /\ skill' = [skill EXCEPT ![j] = request.skill]
      /\ max_network_requests' =
            [max_network_requests EXCEPT ![j] = request.budget.max_network_requests]
      /\ UNCHANGED <<network_requests, exercised>>
    BY Zenon DEF Enter, store
<1>2. PICK g, d : /\ grants' = [grants EXCEPT ![j] = g]
                  /\ decision' = [decision EXCEPT ![j] = d]
    BY ZenonT(30) DEF Enter
<1>3. \A k \in ExecutionId : k # j =>
        /\ UNCHANGED <<pc[k], parent[k], alias[k], skill[k], grants[k], decision[k],
                       max_network_requests[k]>>
        /\ UNCHANGED <<network_requests[k], exercised[k]>>
    BY Zenon, <1>1, <1>2 DEF Base, TypeOK
<1>4. /\ pc'[j] = "validate" /\ exercised'[j] = {} /\ network_requests'[j] = 0
      /\ max_network_requests'[j] \in Nat
    BY SMTT(30), <1>1 DEF Base, TypeOK, Attempted, CallerRequest, Budget
<1>5. GuestIsBounded'
    <2> SUFFICES ASSUME NEW i \in ExecutionId
                 PROVE  /\ pc'[i] \in {"guest", "redirect"} =>
                              /\ decision'[i] # "Rejected"
                              /\ Required[skill'[i]] \subseteq grants'[i]
                              /\ grants'[i] \subseteq Supported
                        /\ \A op \in exercised'[i] \ grants'[i] :
                              op \in Alias /\ Dependency[skill'[i]][op] = None
                        /\ network_requests'[i] <= max_network_requests'[i]
        BY Zenon DEF GuestIsBounded
    <2>1. CASE i = j
        BY SMTT(30), <1>4, <2>1
    <2>2. CASE i # j
        BY SMTT(30), <1>3, <2>2 DEF Bounded, GuestIsBounded
    <2>3. QED
        BY ZenonT(30), <2>1, <2>2
<1>6. ASSUME NEW i \in ExecutionId, parent'[i] # None
      PROVE  alias'[i] \in grants'[parent'[i]]
    <2>1. CASE i = j
        <3>1. parent'[i] = p /\ alias'[i] = a
            BY Zenon, <1>1, <2>1 DEF Base, TypeOK
        <3>2. p \in ExecutionId /\ p # j
            BY ZenonT(30), <1>1, <1>6, <3>1
        <3>3. QED
            BY Zenon, <1>3, <1>6, <3>1, <3>2
    <2>2. CASE i # j
        <3>1. parent'[i] = parent[i] /\ alias'[i] = alias[i]
            BY Zenon, <1>3, <2>2
        <3>2. parent[i] # None
            BY Zenon, <1>6, <3>1
        <3>3. parent[i] \in ExecutionId /\ pc[parent[i]] # "unused"
            BY SMTT(30), <3>2 DEF Base, TypeOK, Attempted
        <3>4. grants'[parent[i]] = grants[parent[i]]
            BY Zenon, <1>1, <1>3, <3>3
        <3>5. QED
            BY Zenon, <3>1, <3>2, <3>4 DEF Bounded, CalledThroughGrant
    <2>3. QED
        BY ZenonT(30), <2>1, <2>2
<1>7. QED
    BY Zenon, <1>5, <1>6 DEF Bounded, CalledThroughGrant

\* Leaving the runtime, or losing the process, does nothing further.
LEMMA LeavingBounded ==
    ASSUME Bounded, UNCHANGED <<bounds, exercised, network_requests>>,
           \A i \in ExecutionId : pc'[i] \in {"guest", "redirect"}
                => pc[i] \in {"guest", "redirect"}
    PROVE  Bounded'
BY Zenon DEF bounds, Bounded, GuestIsBounded, CalledThroughGrant

\* An operation within the grants, or a call of an undeclared alias, is in bounds.
LEMMA ExerciseBounded ==
    ASSUME Base, Bounded, NEW t \in ExecutionId, NEW op, UNCHANGED bounds,
           exercised' = [exercised EXCEPT ![t] = @ \cup {op}],
           op \in grants[t] \/ (op \in Alias /\ Dependency[skill[t]][op] = None),
           \A i \in ExecutionId : network_requests'[i] <= max_network_requests[i],
           \A i \in ExecutionId : pc'[i] \in {"guest", "redirect"}
                => pc[i] \in {"guest", "redirect"}
    PROVE  Bounded'
<1>1. \A i \in ExecutionId : \A o \in exercised'[i] \ grants'[i] :
            o \in Alias /\ Dependency[skill'[i]][o] = None
    BY SMTT(30) DEF bounds, Bounded, GuestIsBounded, Base, TypeOK
<1>2. GuestIsBounded'
    BY Zenon, <1>1 DEF bounds, Bounded, GuestIsBounded
<1>3. QED
    BY Zenon, <1>2 DEF bounds, Bounded, CalledThroughGrant

\* Every step keeps guests within their envelopes.
LEMMA NextBounded ==
    ASSUME Base, Bounded, [Next]_vars
    PROVE  Bounded'
<1> DEFINE Stays == \A i \in ExecutionId : pc'[i] \in {"guest", "redirect"}
                        => pc[i] \in {"guest", "redirect"}
           Within == \A i \in ExecutionId : network_requests[i] <= max_network_requests[i]
<1>0. Within
    BY Zenon DEF Bounded, GuestIsBounded
<1>1. CASE EditPolicy \/ UNCHANGED vars
    BY Zenon, <1>1, LeavingBounded DEF EditPolicy, vars, envelope, store, bounds
<1>2. ASSUME NEW c \in Caller, Inspect(c) PROVE Bounded'
    <2>1. PICK j \in ExecutionId, request \in Requests : Enter(c, j, None, None, request)
        BY Zenon, <1>2 DEF Inspect
    <2>2. request \in CallerRequest
        BY Zenon, ConstantTypes
    <2>3. QED
        BY Zenon, <2>1, <2>2, EnterBounded
<1>3. ASSUME NEW c \in Caller, ValidateExecution(c) PROVE Bounded'
    <2>1. top[c] \in ExecutionId /\ UNCHANGED <<bounds, exercised, network_requests>>
        BY Zenon, <1>3, TopType DEF ValidateExecution, envelope, store, bounds
    <2>2. CASE validate_execution(top[c]) /\ pc' = [pc EXCEPT ![top[c]] = "guest"]
        <3>1. /\ decision[top[c]] # "Rejected"
              /\ Required[skill[top[c]]] \subseteq grants[top[c]]
              /\ grants[top[c]] \subseteq Supported
            BY ZenonT(30), <2>2 DEF validate_execution
        <3>2. QED
            BY SMTT(30), <2>1, <2>2, <3>1 DEF bounds, Bounded, GuestIsBounded, CalledThroughGrant,
                                    Base, TypeOK
    <2>3. CASE pc' = [pc EXCEPT ![top[c]] = "finish"]
        BY Zenon, <2>1, <2>3, LeavingBounded DEF Base, TypeOK
    <2>4. QED
        BY <1>3, <2>2, <2>3, Zenon DEF ValidateExecution, Settle
<1>4. ASSUME NEW c \in Caller, PersistSuccess(c) \/ PersistUnsuccessful(c) PROVE Bounded'
    <2>1. PICK t \in ExecutionId : t = top[c]
        BY ZenonT(30), <1>4, TopType DEF PersistSuccess, PersistUnsuccessful
    <2>2. PICK res, edge : Return(c, t, res, edge)
        BY <1>4, <2>1, Zenon DEF PersistSuccess, PersistUnsuccessful
    <2>3. UNCHANGED <<bounds, network_requests>> /\ Stays
        BY Zenon, <2>2 DEF Return, envelope, bounds, Base, TypeOK
    <2>4. CASE parent[t] = None
        BY ZenonT(30), <2>2, <2>3, <2>4, LeavingBounded DEF Return
    <2>5. CASE parent[t] # None
        <3>1. parent[t] \in ExecutionId /\ alias[t] \in grants[parent[t]]
            BY <2>5 DEF Base, TypeOK, Bounded, CalledThroughGrant
        <3>2. exercised' = [exercised EXCEPT ![parent[t]] = @ \cup {alias[t]}]
            BY Zenon, <2>2, <2>5 DEF Return
        <3>3. Within'
            BY Zenon, <1>0, <2>3 DEF bounds
        <3>4. QED
            BY ZenonT(30), <2>3, <3>1, <3>2, <3>3, ExerciseBounded DEF bounds
    <2>6. QED
        BY Zenon, <2>4, <2>5
<1>5. ASSUME NEW c \in Caller, EmitEvidence(c) \/ ReadOrLog(c) PROVE Bounded'
    <2>1. top[c] \in ExecutionId /\ UNCHANGED <<bounds, network_requests>>
        BY ZenonT(30), <1>5, TopType DEF EmitEvidence, ReadOrLog, Running, envelope, bounds
    <2>2. PICK op : \/ Block(top[c], op) /\ UNCHANGED exercised
                    \/ op \in grants[top[c]] /\ Exercise(top[c], op) /\ UNCHANGED pc
        BY <1>5, Zenon DEF EmitEvidence, ReadOrLog
    <2>3. Stays
        BY Zenon, <2>1, <2>2 DEF Block, Settle, Base, TypeOK
    <2>4. CASE UNCHANGED exercised
        BY ZenonT(30), <2>1, <2>3, <2>4, LeavingBounded
    <2>5. CASE op \in grants[top[c]] /\ Exercise(top[c], op)
        BY ZenonT(30), <1>0, <2>1, <2>3, <2>5, ExerciseBounded DEF Exercise, bounds
    <2>6. QED
        BY Zenon, <2>2, <2>4, <2>5
<1>6. ASSUME NEW c \in Caller, HttpRequest(c) PROVE Bounded'
    <2>1. PICK t \in ExecutionId : t = top[c] /\ pc[t] \in {"guest", "redirect"}
        BY Zenon, <1>6, TopType DEF HttpRequest
    <2>2. UNCHANGED bounds
        BY ZenonT(30), <1>6 DEF HttpRequest, envelope, bounds
    <2>3. PICK op : \/ Block(t, op) /\ UNCHANGED <<exercised, network_requests>>
                    \/ /\ op \in grants[t] /\ NetworkBudgetLeft(t)
                       /\ network_requests' = [network_requests EXCEPT ![t] = @ + 1]
                       /\ Exercise(t, op)
        BY <1>6, <2>1, Zenon DEF HttpRequest
    <2>4. Stays
        BY <1>6, <2>1 DEF HttpRequest, Block, Settle, Base, TypeOK
    <2>5. CASE UNCHANGED <<exercised, network_requests>>
        BY Zenon, <2>2, <2>4, <2>5, LeavingBounded
    <2>6. CASE /\ op \in grants[t] /\ NetworkBudgetLeft(t)
               /\ network_requests' = [network_requests EXCEPT ![t] = @ + 1]
               /\ Exercise(t, op)
        <3>1. \A i \in ExecutionId : network_requests'[i] <= max_network_requests[i]
            BY <1>0, <2>6 DEF NetworkBudgetLeft, Base, TypeOK
        <3>2. QED
            BY ZenonT(30), <2>2, <2>4, <2>6, <3>1, ExerciseBounded DEF Exercise
    <2>7. QED
        BY ZenonT(30), <2>3, <2>5, <2>6
<1>7. ASSUME NEW c \in Caller, InvokeOverflow(c) \/ GuestReturns(c) \/ InvokeDenied(c)
      PROVE  Bounded'
    <2>1. UNCHANGED <<bounds, exercised, network_requests>>
        BY <1>7, Zenon DEF InvokeOverflow, GuestReturns, InvokeDenied, envelope, store,
                           bounds
    <2>2. pc' = [pc EXCEPT ![top[c]] = "finish"]
        BY <1>7, Zenon DEF InvokeOverflow, GuestReturns, InvokeDenied, Block, Settle
    <2>3. QED
        BY Zenon, <2>1, <2>2, LeavingBounded DEF Base, TypeOK
<1>8. ASSUME NEW c \in Caller, InvokeRefused(c) PROVE Bounded'
    <2>1. top[c] \in ExecutionId
        BY <1>8, TopType, Zenon DEF InvokeRefused, Running
    <2>2. PICK a \in Alias : /\ \/ Dependency[skill[top[c]]][a] = None
                                \/ a \in grants[top[c]]
                             /\ Exercise(top[c], a)
        BY <1>8, Zenon DEF InvokeRefused, ChildAllowed
    <2>3. UNCHANGED <<bounds, network_requests, pc>>
        BY <1>8, Zenon DEF InvokeRefused, envelope, bounds
    <2>4. QED
        BY ZenonT(30), <1>0, <2>1, <2>2, <2>3, ExerciseBounded DEF Exercise, bounds
<1>9. ASSUME NEW c \in Caller, InvokeChild(c) PROVE Bounded'
    <2>1. PICK i \in ExecutionId : i = top[c] /\ pc[i] = "guest"
        BY ZenonT(30), <1>9, TopType DEF InvokeChild, Running
    <2>2. PICK a \in Alias, j \in ExecutionId :
            /\ ChildAllowed(i, a)
            /\ Enter(c, j, i, a, build_child_caller_request(i, Dependency[skill[i]][a]))
        BY <1>9, <2>1, ZenonT(30) DEF InvokeChild
    <2>3. Dependency[skill[i]][a] \in Skill /\ a \in grants[i]
        BY ZenonT(30), <2>1, <2>2, ConstantTypes DEF ChildAllowed, Base, Attempted
    <2>4. build_child_caller_request(i, Dependency[skill[i]][a]) \in CallerRequest
        BY ZenonT(30), <2>3, ChildRequest DEF Base
    <2>5. QED
        BY Zenon, <2>1, <2>2, <2>3, <2>4, EnterBounded
<1>10. ASSUME NEW c \in Caller, Crash(c) PROVE Bounded'
    BY Zenon, <1>10, LeavingBounded DEF Crash, Live, envelope, store, bounds
<1>11. QED
    BY Zenon, <1>1, <1>2, <1>3, <1>4, <1>5, <1>6, <1>7, <1>8, <1>9, <1>10
       DEF Next, HostStep, GuestStep

\* For any guest: it starts only with all that it requires and nothing outside the
\* inspect surface, exercises only what it was granted, apart from calling names that
\* lead nowhere, and stays within its network budget through redirects.
THEOREM GuestsAreBounded == Spec => []GuestIsBounded
<1>1. Init => Bounded
    BY SMTT(30) DEF Init, Bounded, GuestIsBounded, CalledThroughGrant
<1>2. Bounded => GuestIsBounded
    BY DEF Bounded
<1>3. QED
    BY <1>1, <1>2, InitBase, NextBase, NextBounded, PTL DEF Spec

-----------------------------------------------------------------------------
(* Nesting: the live executions of a caller are a chain of strictly falling child *)
(* budgets, from the outermost one down to top[c].                                *)

OnStack(i, j) == Live(i) /\ Live(j) /\ owner[i] = owner[j]

TopIsLive ==
    \A c \in Caller : top[c] # None => Live(top[c]) /\ owner[top[c]] = c

TopIsLowest ==
    \A i \in ExecutionId : Live(i) =>
        /\ top[owner[i]] # None
        /\ max_child_executions[top[owner[i]]] <= max_child_executions[i]

ParentIsNext ==
    \A i \in ExecutionId : (Live(i) /\ parent[i] # None) =>
        /\ OnStack(i, parent[i]) /\ pc[parent[i]] = "guest"
        /\ max_child_executions[parent[i]] = max_child_executions[i] + 1

RootIsHighest ==
    \A i, j \in ExecutionId : (OnStack(i, j) /\ parent[i] = None) =>
        max_child_executions[j] <= max_child_executions[i]

BudgetsDiffer ==
    \A i, j \in ExecutionId : (OnStack(i, j) /\ i # j) =>
        max_child_executions[i] # max_child_executions[j]

Nesting == TopIsLive /\ TopIsLowest /\ ParentIsNext /\ RootIsHighest /\ BudgetsDiffer

\* The part of the type invariant that the nesting is about.
StackType ==
    /\ top \in [Caller -> ExecutionId \cup {None}]
    /\ pc \in [ExecutionId -> Location]
    /\ owner \in [ExecutionId -> Caller \cup {None}]
    /\ parent \in [ExecutionId -> ExecutionId \cup {None}]
    /\ max_child_executions \in [ExecutionId -> Nat]

Owned == \A i \in ExecutionId : Live(i) => owner[i] \in Caller

\* The types of the stack follow from Base.
LEMMA BaseStack ==
    ASSUME Base
    PROVE  StackType /\ Owned
BY Zenon DEF Base, TypeOK, Attempted, StackType, Owned, Live

USE DEF StackType

\* Only the innermost execution has no live child.
LEMMA TopIsInnermost ==
    ASSUME StackType, Nesting, NEW c \in Caller, top[c] # None, NEW i \in ExecutionId, Live(i)
    PROVE  parent[i] # top[c]
<1> SUFFICES ASSUME parent[i] = top[c] PROVE FALSE
    BY Zenon
<1>1. owner[top[c]] = c /\ top[c] \in ExecutionId
    BY Zenon DEF Nesting, TopIsLive
<1>2. owner[i] = c /\ max_child_executions[top[c]] = max_child_executions[i] + 1
    BY Zenon, <1>1 DEF Nesting, ParentIsNext, OnStack
<1>3. max_child_executions[top[c]] <= max_child_executions[i]
    BY Zenon, <1>2 DEF Nesting, TopIsLowest
<1>4. max_child_executions[i] \in Nat
    BY Zenon
<1>5. QED
    BY <1>2, <1>3, <1>4

\* A step within one execution keeps the nest.
LEMMA LocalNests ==
    ASSUME StackType, StackType', Owned, Nesting, NEW c \in Caller, LocalStep(c)
    PROVE  Nesting'
<1>1. UNCHANGED <<top, owner, parent, max_child_executions>>
    BY Zenon DEF LocalStep, envelope
<1>2. \A i \in ExecutionId : Live(i)' <=> Live(i)
    BY Zenon DEF LocalStep, Live
<1>3. \A i, j \in ExecutionId : OnStack(i, j)' <=> OnStack(i, j)
    BY Zenon, <1>1, <1>2 DEF OnStack
<1>4. TopIsLive'
    BY Zenon, <1>1, <1>2, NoneAssumption DEF Nesting, TopIsLive
<1>5. TopIsLowest'
    BY Zenon, <1>1, <1>2 DEF Nesting, TopIsLowest
<1>6. ParentIsNext'
    <2> SUFFICES ASSUME NEW i \in ExecutionId, Live(i), parent[i] # None
                 PROVE  /\ OnStack(i, parent[i])' /\ pc'[parent[i]] = "guest"
                        /\ max_child_executions[parent[i]]
                                = max_child_executions[i] + 1
        BY Zenon, <1>1, <1>2 DEF ParentIsNext
    <2>1. parent[i] \in ExecutionId
        BY Zenon
    <2>2. /\ OnStack(i, parent[i]) /\ pc[parent[i]] = "guest"
          /\ max_child_executions[parent[i]] = max_child_executions[i] + 1
        BY Zenon DEF Nesting, ParentIsNext
    <2>3. parent[i] # top[c]
        BY Zenon, TopIsInnermost, NoneAssumption DEF LocalStep
    <2>4. pc'[parent[i]] = pc[parent[i]]
        BY Zenon, <2>1, <2>3 DEF LocalStep
    <2>5. QED
        BY Zenon, <1>1, <1>3, <2>1, <2>2, <2>4
<1>7. RootIsHighest'
    BY Zenon, <1>1, <1>3 DEF Nesting, RootIsHighest
<1>8. BudgetsDiffer'
    BY Zenon, <1>1, <1>3 DEF Nesting, BudgetsDiffer
<1>9. QED
    BY Zenon, <1>4, <1>5, <1>6, <1>7, <1>8 DEF Nesting

\* An execution that ends uncovers its parent as the innermost one.
LEMMA ReturnNests ==
    ASSUME StackType, StackType', Owned, Nesting, NEW c \in Caller,
           Base, PersistSuccess(c) \/ PersistUnsuccessful(c)
    PROVE  Nesting'
<1>0. PICK t \in ExecutionId : t = top[c]
    BY Zenon, ReturnShape
<1>1. /\ pc[t] = "finish" /\ pc' = [pc EXCEPT ![t] = "done"]
      /\ top' = [top EXCEPT ![c] = parent[t]]
      /\ UNCHANGED <<owner, parent, max_child_executions>>
    BY Zenon, <1>0, ReturnShape DEF envelope
<1>2. t # None /\ Live(t) /\ owner[t] = c
    BY Zenon, <1>0, <1>1, NoneAssumption DEF Nesting, TopIsLive
<1>3. \A i \in ExecutionId : Live(i)' <=> (Live(i) /\ i # t)
    BY Zenon, <1>1 DEF Live
<1>4. \A i, j \in ExecutionId : OnStack(i, j)' => OnStack(i, j)
    BY Zenon, <1>1, <1>3 DEF OnStack
<1>5. \A i \in ExecutionId : Live(i) => parent[i] # t
    BY Zenon, <1>0, <1>2, TopIsInnermost
<1>6. ASSUME NEW i \in ExecutionId, Live(i)', parent[i] # None
      PROVE  /\ parent[i] \in ExecutionId /\ OnStack(i, parent[i])'
             /\ pc'[parent[i]] = "guest"
             /\ max_child_executions[parent[i]] = max_child_executions[i] + 1
    <2>1. Live(i) /\ parent[i] \in ExecutionId /\ parent[i] # t
        BY Zenon, <1>3, <1>5, <1>6
    <2>2. /\ OnStack(i, parent[i]) /\ pc[parent[i]] = "guest"
          /\ max_child_executions[parent[i]] = max_child_executions[i] + 1
        BY Zenon, <1>6, <2>1 DEF Nesting, ParentIsNext
    <2>3. Live(parent[i])'
        BY Zenon, <1>1, <1>3, <2>1, <2>2 DEF OnStack
    <2>4. pc'[parent[i]] = pc[parent[i]]
        BY Zenon, <1>1, <2>1
    <2>5. QED
        BY Zenon, <1>1, <1>6, <2>1, <2>2, <2>3, <2>4 DEF OnStack
<1>7. ASSUME NEW i \in ExecutionId, Live(i)', owner[i] = c
      PROVE  /\ parent[t] \in ExecutionId
             /\ max_child_executions[parent[t]] <= max_child_executions[i]
    <2>1. Live(i) /\ i # t /\ OnStack(t, i)
        BY Zenon, <1>2, <1>3, <1>7 DEF OnStack
    <2>2. PICK m \in Nat, n \in Nat :
                m = max_child_executions[t] /\ n = max_child_executions[i]
        BY Zenon
    <2>3. m <= n
        BY Zenon, <1>0, <1>7, <2>1, <2>2 DEF Nesting, TopIsLowest
    <2>4. m # n
        BY Zenon, <2>1, <2>2 DEF Nesting, BudgetsDiffer
    <2>5. ~ (n <= m) /\ m + 1 <= n
        BY <2>3, <2>4
    <2>6. parent[t] # None
        BY Zenon, <2>1, <2>2, <2>5 DEF Nesting, RootIsHighest
    <2>7. parent[t] \in ExecutionId
        BY Zenon, <2>6
    <2>8. max_child_executions[parent[t]] = m + 1
        BY Zenon, <1>2, <2>2, <2>6 DEF Nesting, ParentIsNext
    <2>9. QED
        BY Zenon, <2>2, <2>5, <2>7, <2>8
<1>8. TopIsLive'
    <2> SUFFICES ASSUME NEW d \in Caller, top'[d] # None
                 PROVE  /\ pc'[top'[d]] \notin {"unused", "done", "lost"}
                        /\ owner'[top'[d]] = d
        BY Zenon DEF TopIsLive, Live
    <2>1. CASE d = c
        <3>1. top'[d] = parent[t] /\ parent[t] \in ExecutionId /\ parent[t] # t
            BY Zenon, <1>1, <1>2, <1>5, <2>1
        <3>2. OnStack(t, parent[t])
            BY ZenonT(30), <1>2, <3>1, NoneAssumption DEF Nesting, ParentIsNext
        <3>3. pc'[parent[t]] = pc[parent[t]]
            BY Zenon, <1>1, <3>1
        <3>4. QED
            BY Zenon, <1>1, <1>2, <2>1, <3>1, <3>2, <3>3 DEF OnStack, Live
    <2>2. CASE d # c
        <3>1. top'[d] = top[d] /\ top[d] \in ExecutionId
            BY Zenon, <1>1, <2>2
        <3>2. Live(top[d]) /\ owner[top[d]] = d
            BY Zenon, <3>1, NoneAssumption DEF Nesting, TopIsLive
        <3>3. top[d] # t
            BY Zenon, <1>2, <2>2, <3>2
        <3>4. pc'[top[d]] = pc[top[d]]
            BY Zenon, <1>1, <3>1, <3>3
        <3>5. QED
            BY Zenon, <1>1, <3>1, <3>2, <3>4 DEF Live
    <2>3. QED
        BY Zenon, <2>1, <2>2
<1>9. TopIsLowest'
    <2> SUFFICES ASSUME NEW i \in ExecutionId, Live(i)'
                 PROVE  /\ top'[owner[i]] # None
                        /\ max_child_executions[top'[owner[i]]]
                                <= max_child_executions[i]
        BY Zenon, <1>1 DEF TopIsLowest
    <2>1. Live(i) /\ owner[i] \in Caller
        BY Zenon, <1>3 DEF Owned
    <2>2. CASE owner[i] = c
        <3>1. top'[owner[i]] = parent[t]
            BY Zenon, <1>1, <2>2
        <3>2. QED
            BY Zenon, <1>7, <2>2, <3>1, NoneAssumption
    <2>3. CASE owner[i] # c
        <3>1. top'[owner[i]] = top[owner[i]]
            BY Zenon, <1>1, <2>1, <2>3
        <3>2. QED
            BY Zenon, <2>1, <3>1 DEF Nesting, TopIsLowest
    <2>4. QED
        BY Zenon, <2>2, <2>3
<1>10. ParentIsNext'
    BY Zenon, <1>1, <1>6 DEF ParentIsNext
<1>11. RootIsHighest'
    BY Zenon, <1>1, <1>4 DEF Nesting, RootIsHighest
<1>12. BudgetsDiffer'
    BY Zenon, <1>1, <1>4 DEF Nesting, BudgetsDiffer
<1>13. QED
    BY Zenon, <1>8, <1>9, <1>10, <1>11, <1>12 DEF Nesting

\* A new attempt goes on top: alone, or one child budget below its parent.
LEMMA BeginNests ==
    ASSUME StackType, StackType', Owned, Nesting, NEW c \in Caller, NEW j \in ExecutionId,
           NEW p \in ExecutionId \cup {None}, NEW n \in Nat, NEW g,
           Begin(c, j, p, n, g), p = top[c],
           p # None => pc[p] = "guest" /\ max_child_executions[p] = n + 1
    PROVE  Nesting'
<1>1. /\ pc[j] = "unused"
      /\ pc' = [pc EXCEPT ![j] = "validate"]
      /\ top' = [top EXCEPT ![c] = j]
      /\ owner' = [owner EXCEPT ![j] = c]
      /\ parent' = [parent EXCEPT ![j] = p]
      /\ max_child_executions' = [max_child_executions EXCEPT ![j] = n]
    BY Zenon DEF Begin
<1>2. /\ ~ Live(j) /\ Live(j)'
      /\ owner'[j] = c /\ parent'[j] = p /\ max_child_executions'[j] = n
    BY Zenon, <1>1 DEF Live
<1>3. ASSUME NEW i \in ExecutionId, i # j
      PROVE  /\ Live(i)' <=> Live(i)
             /\ owner'[i] = owner[i] /\ parent'[i] = parent[i] /\ pc'[i] = pc[i]
             /\ max_child_executions'[i] = max_child_executions[i]
    BY SMTT(30), <1>1, <1>3 DEF Live
<1>4. ASSUME NEW i \in ExecutionId, i # j, Live(i)', owner'[i] = c
      PROVE  p \in ExecutionId /\ max_child_executions'[i] > n
    <2>1. Live(i) /\ owner[i] = c
        BY Zenon, <1>3, <1>4
    <2>2. p # None /\ max_child_executions[p] <= max_child_executions[i]
        BY Zenon, <2>1 DEF Nesting, TopIsLowest
    <2>3. p \in ExecutionId /\ max_child_executions[p] = n + 1
        BY Zenon, <2>2
    <2>4. max_child_executions'[i] \in Nat
          /\ max_child_executions'[i] = max_child_executions[i]
        BY Zenon, <1>3, <1>4
    <2>5. QED
        BY SMTT(30), <2>2, <2>3, <2>4
<1>5. ASSUME p # None
      PROVE  /\ p \in ExecutionId /\ p # j /\ OnStack(j, p)' /\ pc'[p] = "guest"
             /\ max_child_executions'[p] = n + 1
    <2>1. p \in ExecutionId /\ Live(p) /\ owner[p] = c
        BY Zenon, <1>5 DEF Nesting, TopIsLive
    <2>2. p # j
        BY Zenon, <1>2, <2>1
    <2>3. Live(p)' /\ owner'[p] = c /\ pc'[p] = pc[p]
          /\ max_child_executions'[p] = max_child_executions[p]
        BY Zenon, <1>3, <2>1, <2>2
    <2>4. QED
        BY Zenon, <1>2, <1>5, <2>1, <2>2, <2>3 DEF OnStack
<1>6. ASSUME NEW i \in ExecutionId, NEW k \in ExecutionId, i # j, k # j
      PROVE  OnStack(i, k)' <=> OnStack(i, k)
    BY Zenon, <1>3, <1>6 DEF OnStack
<1>7. TopIsLive'
    <2> SUFFICES ASSUME NEW d \in Caller, top'[d] # None
                 PROVE  /\ pc'[top'[d]] \notin {"unused", "done", "lost"}
                        /\ owner'[top'[d]] = d
        BY Zenon DEF TopIsLive, Live
    <2>1. CASE d = c
        <3>1. top'[d] = j
            BY Zenon, <1>1, <2>1
        <3>2. QED
            BY Zenon, <1>2, <2>1, <3>1 DEF Live
    <2>2. CASE d # c
        <3>1. top'[d] = top[d] /\ top[d] \in ExecutionId
            BY Zenon, <1>1, <2>2
        <3>2. Live(top[d]) /\ owner[top[d]] = d
            BY Zenon, <3>1, NoneAssumption DEF Nesting, TopIsLive
        <3>3. top[d] # j
            BY Zenon, <1>2, <3>2
        <3>4. pc'[top[d]] = pc[top[d]] /\ owner'[top[d]] = owner[top[d]]
            BY Zenon, <1>3, <3>1, <3>3
        <3>5. QED
            BY Zenon, <3>1, <3>2, <3>4 DEF Live
    <2>3. QED
        BY Zenon, <2>1, <2>2
<1>8. TopIsLowest'
    <2> SUFFICES ASSUME NEW i \in ExecutionId, Live(i)'
                 PROVE  /\ top'[owner'[i]] # None
                        /\ max_child_executions'[top'[owner'[i]]]
                                <= max_child_executions'[i]
        BY Zenon DEF TopIsLowest
    <2>1. top'[c] = j /\ j # None
        BY Zenon, <1>1, NoneAssumption
    <2>2. CASE i = j
        <3>1. top'[owner'[i]] = i
            BY Zenon, <1>2, <2>1, <2>2
        <3>2. QED
            BY <1>2, <2>1, <2>2, <3>1
    <2>3. CASE i # j /\ owner'[i] = c
        <3>1. max_child_executions'[i] > n
            BY Zenon, <1>4, <2>3
        <3>2. max_child_executions'[i] \in Nat
            BY Zenon, <1>3, <2>3
        <3>3. QED
            BY SMTT(30), <1>2, <2>1, <2>3, <3>1, <3>2
    <2>4. CASE i # j /\ owner'[i] # c
        <3>1. /\ Live(i) /\ owner'[i] = owner[i]
              /\ max_child_executions'[i] = max_child_executions[i]
            BY Zenon, <1>3, <2>4
        <3>2. owner[i] \in Caller
            BY Zenon, <3>1 DEF Owned
        <3>3. top'[owner'[i]] = top[owner[i]]
            BY Zenon, <1>1, <2>4, <3>1, <3>2
        <3>4. /\ top[owner[i]] # None
              /\ max_child_executions[top[owner[i]]] <= max_child_executions[i]
            BY Zenon, <3>1 DEF Nesting, TopIsLowest
        <3>5. Live(top[owner[i]]) /\ top[owner[i]] \in ExecutionId
            BY Zenon, <3>2, <3>4 DEF Nesting, TopIsLive
        <3>6. max_child_executions'[top[owner[i]]]
                    = max_child_executions[top[owner[i]]]
            BY Zenon, <1>2, <1>3, <3>5
        <3>7. QED
            BY Zenon, <3>1, <3>3, <3>4, <3>6
    <2>5. QED
        BY Zenon, <2>2, <2>3, <2>4
<1>9. ParentIsNext'
    <2> SUFFICES ASSUME NEW i \in ExecutionId, Live(i)', parent'[i] # None
                 PROVE  /\ OnStack(i, parent[i])' /\ pc'[parent'[i]] = "guest"
                        /\ max_child_executions'[parent'[i]]
                                = max_child_executions'[i] + 1
        BY Zenon DEF ParentIsNext
    <2>1. CASE i = j
        <3>1. parent'[i] = p /\ p # None
            BY Zenon, <1>2, <2>1
        <3>2. QED
            BY Zenon, <1>2, <1>5, <2>1, <3>1 DEF OnStack
    <2>2. CASE i # j
        <3>1. Live(i) /\ parent'[i] = parent[i] /\ parent[i] # None
              /\ max_child_executions'[i] = max_child_executions[i]
            BY Zenon, <1>3, <2>2
        <3>2. /\ OnStack(i, parent[i]) /\ pc[parent[i]] = "guest"
              /\ max_child_executions[parent[i]] = max_child_executions[i] + 1
            BY Zenon, <3>1 DEF Nesting, ParentIsNext
        <3>3. parent[i] \in ExecutionId /\ parent[i] # j
            BY Zenon, <1>1, <3>1, <3>2
        <3>4. OnStack(i, parent[i])'
            BY SMTT(30), <1>6, <2>2, <3>1, <3>2, <3>3 DEF OnStack
        <3>5. /\ pc'[parent[i]] = pc[parent[i]]
              /\ max_child_executions'[parent[i]] = max_child_executions[parent[i]]
            BY Zenon, <1>3, <3>3
        <3>6. QED
            BY Zenon, <3>1, <3>2, <3>4, <3>5
    <2>3. QED
        BY Zenon, <2>1, <2>2
<1>10. RootIsHighest'
    <2> SUFFICES ASSUME NEW i \in ExecutionId, NEW k \in ExecutionId, OnStack(i, k)',
                        parent'[i] = None
                 PROVE  max_child_executions'[k] <= max_child_executions'[i]
        BY Zenon DEF RootIsHighest
    <2>1. CASE i = j /\ k = j
        BY SMTT(30), <1>2, <2>1
    <2>2. CASE i = j /\ k # j
        <3>1. Live(k)' /\ owner'[k] = c
            BY Zenon, <1>2, <2>2 DEF OnStack
        <3>2. p \in ExecutionId
            BY Zenon, <1>4, <2>2, <3>1
        <3>3. p = None
            BY Zenon, <1>2, <2>2
        <3>4. QED
            BY Zenon, <3>2, <3>3, NoneAssumption
    <2>3. CASE i # j /\ k = j
        <3>1. Live(i)' /\ owner'[i] = c
            BY Zenon, <1>2, <2>3 DEF OnStack
        <3>2. max_child_executions'[i] > n
            BY Zenon, <1>4, <2>3, <3>1
        <3>3. max_child_executions'[i] \in Nat
            BY Zenon, <1>3, <2>3
        <3>4. QED
            BY <1>2, <2>3, <3>2, <3>3
    <2>4. CASE i # j /\ k # j
        <3>1. OnStack(i, k) /\ parent[i] = None
            BY Zenon, <1>3, <1>6, <2>4
        <3>2. max_child_executions[k] <= max_child_executions[i]
            BY Zenon, <3>1 DEF Nesting, RootIsHighest
        <3>3. QED
            BY Zenon, <1>3, <2>4, <3>2
    <2>5. QED
        BY Zenon, <2>1, <2>2, <2>3, <2>4
<1>11. BudgetsDiffer'
    <2> SUFFICES ASSUME NEW i \in ExecutionId, NEW k \in ExecutionId, OnStack(i, k)',
                        i # k
                 PROVE  max_child_executions'[i] # max_child_executions'[k]
        BY Zenon DEF BudgetsDiffer
    <2>1. CASE i = j
        <3>1. Live(k)' /\ owner'[k] = c
            BY Zenon, <1>2, <2>1 DEF OnStack
        <3>2. max_child_executions'[k] > n
            BY Zenon, <1>4, <2>1, <3>1
        <3>3. QED
            BY <1>2, <2>1, <3>2
    <2>2. CASE k = j
        <3>1. Live(i)' /\ owner'[i] = c
            BY Zenon, <1>2, <2>2 DEF OnStack
        <3>2. max_child_executions'[i] > n
            BY Zenon, <1>4, <2>2, <3>1
        <3>3. QED
            BY <1>2, <2>2, <3>2
    <2>3. CASE i # j /\ k # j
        <3>1. OnStack(i, k)
            BY Zenon, <1>6, <2>3
        <3>2. max_child_executions[i] # max_child_executions[k]
            BY Zenon, <3>1 DEF Nesting, BudgetsDiffer
        <3>3. QED
            BY Zenon, <1>3, <2>3, <3>2
    <2>4. QED
        BY Zenon, <2>1, <2>2, <2>3
<1>12. QED
    BY Zenon, <1>7, <1>8, <1>9, <1>10, <1>11 DEF Nesting

\* A crash removes all live executions of one caller.
LEMMA CrashNests ==
    ASSUME StackType, StackType', Owned, Nesting, NEW c \in Caller, Crash(c)
    PROVE  Nesting'
<1>1. /\ top' = [top EXCEPT ![c] = None]
      /\ pc' = [i \in ExecutionId |->
                    IF owner[i] = c /\ Live(i) THEN "lost" ELSE pc[i]]
      /\ UNCHANGED <<owner, parent, max_child_executions>>
    BY Zenon DEF Crash, envelope
<1>2. \A i \in ExecutionId : Live(i)' <=> (Live(i) /\ owner[i] # c)
    BY Zenon, <1>1 DEF Live
<1>3. \A i \in ExecutionId : Live(i)' => pc'[i] = pc[i]
    BY Zenon, <1>1, <1>2
<1>4. \A i, j \in ExecutionId : OnStack(i, j)' => OnStack(i, j)
    BY Zenon, <1>1, <1>2 DEF OnStack
<1>5. TopIsLive'
    <2> SUFFICES ASSUME NEW d \in Caller, top'[d] # None
                 PROVE  /\ pc'[top'[d]] \notin {"unused", "done", "lost"}
                        /\ owner'[top'[d]] = d
        BY Zenon DEF TopIsLive, Live
    <2>1. d # c /\ top'[d] = top[d] /\ top[d] \in ExecutionId
        BY Zenon, <1>1
    <2>2. Live(top[d]) /\ owner[top[d]] = d
        BY Zenon, <2>1, NoneAssumption DEF Nesting, TopIsLive
    <2>3. pc'[top[d]] = pc[top[d]]
        BY Zenon, <1>1, <2>1, <2>2
    <2>4. QED
        BY Zenon, <1>1, <2>1, <2>2, <2>3 DEF Live
<1>6. TopIsLowest'
    <2> SUFFICES ASSUME NEW i \in ExecutionId, Live(i)'
                 PROVE  /\ top'[owner[i]] # None
                        /\ max_child_executions[top'[owner[i]]]
                                <= max_child_executions[i]
        BY Zenon, <1>1 DEF TopIsLowest
    <2>1. Live(i) /\ owner[i] # c
        BY Zenon, <1>2
    <2>2. top'[owner[i]] = top[owner[i]]
        BY Zenon, <1>1, <2>1 DEF Owned
    <2>3. QED
        BY Zenon, <2>1, <2>2 DEF Nesting, TopIsLowest
<1>7. ParentIsNext'
    <2> SUFFICES ASSUME NEW i \in ExecutionId, Live(i)', parent[i] # None
                 PROVE  /\ OnStack(i, parent[i])' /\ pc'[parent[i]] = "guest"
                        /\ max_child_executions[parent[i]]
                                = max_child_executions[i] + 1
        BY Zenon, <1>1 DEF ParentIsNext
    <2>1. Live(i) /\ owner[i] # c
        BY Zenon, <1>2
    <2>2. /\ OnStack(i, parent[i]) /\ pc[parent[i]] = "guest"
          /\ max_child_executions[parent[i]] = max_child_executions[i] + 1
        BY Zenon, <2>1 DEF Nesting, ParentIsNext
    <2>3. parent[i] \in ExecutionId
        BY Zenon
    <2>4. Live(parent[i])'
        BY Zenon, <1>1, <1>2, <2>1, <2>2, <2>3 DEF OnStack
    <2>5. pc'[parent[i]] = pc[parent[i]]
        BY Zenon, <1>1, <2>1, <2>2, <2>3 DEF OnStack
    <2>6. QED
        BY Zenon, <1>1, <2>2, <2>4, <2>5 DEF OnStack
<1>8. RootIsHighest'
    BY Zenon, <1>1, <1>4 DEF Nesting, RootIsHighest
<1>9. BudgetsDiffer'
    BY Zenon, <1>1, <1>4 DEF Nesting, BudgetsDiffer
<1>10. QED
    BY Zenon, <1>5, <1>6, <1>7, <1>8, <1>9 DEF Nesting

HIDE DEF StackType

\* Nothing is live at first.
LEMMA InitNests == Init => Nesting
BY DEF Init, Nesting, TopIsLive, TopIsLowest, ParentIsNext, RootIsHighest,
       BudgetsDiffer, OnStack, Live

\* Every step keeps the nest.
LEMMA NextNests ==
    ASSUME Base, Nesting, [Next]_vars
    PROVE  Nesting'
<1>0. StackType /\ StackType' /\ Owned
    <2>1. Base'
        BY Zenon, NextBase
    <2>2. StackType'
        BY Zenon, <2>1 DEF Base, TypeOK, StackType
    <2>3. QED
        BY Zenon, <2>2, BaseStack
<1>1. CASE UNCHANGED Shape
    BY <1>1, Zenon DEF Nesting, TopIsLive, TopIsLowest, ParentIsNext, RootIsHighest,
                BudgetsDiffer, OnStack, Live, Shape, envelope
<1>2. ASSUME NEW c \in Caller, Inspect(c) PROVE Nesting'
    BY <1>0, <1>2, InspectBegins, BeginNests, Zenon
<1>3. ASSUME NEW c \in Caller, InvokeChild(c) PROVE Nesting'
    <2>1. PICK j \in ExecutionId, g \in SUBSET grants[top[c]] :
            Begin(c, j, top[c], max_child_executions[top[c]] - 1, g)
        BY <1>3, InvokeBegins, Zenon
    <2>2. /\ top[c] \in ExecutionId /\ pc[top[c]] = "guest"
          /\ max_child_executions[top[c]] \in Nat \ {0}
        BY Zenon, <1>3, InvokeBegins
    <2>3. /\ max_child_executions[top[c]] - 1 \in Nat
          /\ max_child_executions[top[c]] = (max_child_executions[top[c]] - 1) + 1
        BY <2>2
    <2>4. QED
        BY <1>0, <2>1, <2>2, <2>3, BeginNests, Zenon
<1>4. QED
    BY Zenon, <1>0, <1>1, <1>2, <1>3, StepShape, LocalNests, ReturnNests, CrashNests

-----------------------------------------------------------------------------
(* What the execution store says about the attempts: receipts, denials, evidence *)
(* and lineage, and the refinement of AttemptLedger.  The argument: an attempt    *)
(* that left the runtime is frozen, because whatever could still write to it is   *)
(* nested in it, and what is nested in a live attempt keeps it in its guest.      *)

-----------------------------------------------------------------------------
(* The shape of a step, as far as the content of attempts goes *)

Left == {"finish", "done", "lost"}

\* A step within the runtime writes to the innermost execution only, and a denial
\* takes it out of the runtime.
RuntimeStep(c) ==
    /\ top[c] \in ExecutionId
    /\ pc[top[c]] \in {"validate", "guest", "redirect"}
    /\ \A k \in ExecutionId : k # top[c] =>
        /\ pc'[k] = pc[k]
        /\ network_requests'[k] = network_requests[k]
        /\ exercised'[k] = exercised[k]
        /\ blocked'[k] = blocked[k]
        /\ emitted'[k] = emitted[k]
        /\ outcome'[k] = outcome[k]
    /\ \/ blocked'[top[c]] = blocked[top[c]]
       \/ outcome'[top[c]] = "Rejected" /\ pc'[top[c]] \in Left
    /\ UNCHANGED <<envelope, children, result, records>>

\* The end of an attempt: with a record, or without one and without an edge.
Ends(c, t, res, edge, evidence) ==
    /\ t = top[c] /\ pc[t] = "finish" /\ outcome[t] \in Status
    /\ Return(c, t, res, edge)
    /\ \/ /\ records' = [records EXCEPT ![t] = ExecutionRecord(t, evidence)]
          /\ res \in {"ok", "receipt"}
          /\ (outcome[t] = "Succeeded") <=> (res = "ok")
          /\ outcome[t] = "Succeeded" => edge /\ evidence = emitted[t]
       \/ /\ records' = records /\ ~ edge
          /\ res \in {"persist-failed", "evidence-load-failed"}

\* Both persisting steps end an attempt.
LEMMA PersistEnds ==
    ASSUME Base, NEW c \in Caller, PersistSuccess(c) \/ PersistUnsuccessful(c)
    PROVE  \E t \in ExecutionId, edge \in BOOLEAN,
              res \in {"ok", "receipt", "persist-failed", "evidence-load-failed"} :
              \E evidence \in {emitted[t], {}} : Ends(c, t, res, edge, evidence)
<1> DEFINE t == top[c]
<1>1. t \in ExecutionId
    BY Zenon, TopType DEF PersistSuccess, PersistUnsuccessful
<1>2. CASE PersistSuccess(c)
    <2>1. pc[t] = "finish" /\ outcome[t] = "Succeeded"
        BY Zenon, <1>2 DEF PersistSuccess
    <2>2. "Succeeded" \in Status
        BY Zenon
    <2>3. \/ Ends(c, t, "ok", TRUE, emitted[t])
          \/ Ends(c, t, "evidence-load-failed", FALSE, emitted[t])
          \/ Ends(c, t, "persist-failed", FALSE, emitted[t])
        BY <1>2, <2>1, <2>2, Zenon DEF PersistSuccess, Ends
    <2>4. QED
        BY <1>1, <2>3, Zenon
<1>3. CASE PersistUnsuccessful(c)
    <2>1. pc[t] = "finish" /\ outcome[t] \in {"Failed", "Rejected"}
        BY Zenon, <1>3 DEF PersistUnsuccessful
    <2>2. outcome[t] \in Status /\ outcome[t] # "Succeeded"
        BY Zenon, <2>1
    <2>3. \/ \E evidence \in {emitted[t], {}}, edge \in BOOLEAN :
                Ends(c, t, "receipt", edge, evidence)
          \/ Ends(c, t, "persist-failed", FALSE, emitted[t])
        <3>1. CASE \E evidence \in {emitted[t], {}}, edge \in BOOLEAN :
                      /\ records' = [records EXCEPT ![t] = ExecutionRecord(t, evidence)]
                      /\ Return(c, t, "receipt", edge)
            <4>1. "receipt" # "ok"
                BY Zenon
            <4>2. QED
                BY <2>1, <2>2, <3>1, <4>1, Zenon DEF Ends
        <3>2. CASE Return(c, t, "persist-failed", FALSE) /\ UNCHANGED records
            BY <2>1, <2>2, <3>2, Zenon DEF Ends
        <3>3. QED
            BY <1>3, <3>1, <3>2, Zenon DEF PersistUnsuccessful
    <2>4. QED
        BY <1>1, <2>3, Zenon
<1>4. QED
    BY Zenon, <1>2, <1>3

\* Every step is one of five kinds.
LEMMA ContentShape ==
    ASSUME Base, [Next]_vars
    PROVE  \/ UNCHANGED <<pc, envelope, store, outcome, result, registry>>
           \/ \E c \in Caller :
                \/ RuntimeStep(c) \/ Inspect(c) \/ InvokeChild(c)
                \/ PersistSuccess(c) \/ PersistUnsuccessful(c) \/ Crash(c)
<1>1. CASE EditPolicy \/ UNCHANGED vars
    BY Zenon, <1>1 DEF EditPolicy, vars
<1>2. ASSUME NEW c \in Caller, ValidateExecution(c) PROVE RuntimeStep(c)
    BY <1>2, TopType DEF ValidateExecution, Settle, RuntimeStep, Left, store, registry,
                         Base, TypeOK
<1>3. ASSUME NEW c \in Caller, EmitEvidence(c) PROVE RuntimeStep(c)
    BY <1>3, TopType DEF EmitEvidence, Running, Block, Settle, Exercise, RuntimeStep,
                         Left, Base, TypeOK
<1>4. ASSUME NEW c \in Caller, ReadOrLog(c) PROVE RuntimeStep(c)
    BY <1>4, TopType DEF ReadOrLog, Running, Block, Settle, Exercise, RuntimeStep,
                         Left, registry, Base, TypeOK
<1>5. ASSUME NEW c \in Caller, HttpRequest(c) PROVE RuntimeStep(c)
    BY <1>5, TopType DEF HttpRequest, Block, Settle, Exercise, RuntimeStep, Left,
                         registry, Base, TypeOK
<1>6. ASSUME NEW c \in Caller, InvokeOverflow(c) \/ GuestReturns(c) PROVE RuntimeStep(c)
    BY <1>6, TopType DEF InvokeOverflow, GuestReturns, Running, Settle, RuntimeStep,
                         Left, store, registry, Base, TypeOK
<1>7. ASSUME NEW c \in Caller, InvokeDenied(c) PROVE RuntimeStep(c)
    <2>1. PICK a \in Alias : Block(top[c], a)
        BY <1>7, Zenon DEF InvokeDenied
    <2>2. top[c] \in ExecutionId /\ pc[top[c]] = "guest"
        BY <1>7, TopType, Zenon DEF InvokeDenied, Running
    <2>3. UNCHANGED <<envelope, network_requests, exercised, emitted, children, result,
                      records>>
        BY <1>7, Zenon DEF InvokeDenied, registry
    <2>4. QED
        BY Zenon, <2>1, <2>2, <2>3 DEF Block, Settle, RuntimeStep, Left, Base, TypeOK
<1>8. ASSUME NEW c \in Caller, InvokeRefused(c) PROVE RuntimeStep(c)
    <2>1. PICK a \in Alias : Exercise(top[c], a)
        BY <1>8, Zenon DEF InvokeRefused
    <2>2. top[c] \in ExecutionId /\ pc[top[c]] = "guest"
        BY <1>8, TopType, Zenon DEF InvokeRefused, Running
    <2>3. UNCHANGED <<pc, envelope, network_requests, blocked, emitted, children, outcome,
                      result, records>>
        BY <1>8, Zenon DEF InvokeRefused, registry
    <2>4. QED
        BY Zenon, <2>1, <2>2, <2>3 DEF Exercise, RuntimeStep, Left, Base, TypeOK
<1>9. QED
    BY Zenon, <1>1, <1>2, <1>3, <1>4, <1>5, <1>6, <1>7, <1>8 DEF Next, HostStep, GuestStep

\* An attempt that left the runtime is frozen, its effects and edges included: a
\* child that could still hand it an edge would be live and hold it in its guest.
LEMMA LeftIsFrozen ==
    ASSUME Base, Nesting, [Next]_vars, NEW i \in ExecutionId, pc[i] \in Left
    PROVE  /\ UNCHANGED <<network_requests[i], exercised[i], blocked[i], emitted[i],
                          children[i], outcome[i], parent[i]>>
           /\ pc'[i] \in Left
           /\ pc[i] # "finish" => UNCHANGED <<pc[i], result[i], records[i]>>
<1>1. CASE UNCHANGED <<pc, envelope, store, outcome, result, registry>>
    BY Zenon, <1>1 DEF envelope, store, registry
<1>2. ASSUME NEW c \in Caller, RuntimeStep(c)
      PROVE  /\ UNCHANGED <<network_requests[i], exercised[i], blocked[i], emitted[i],
                            children[i], outcome[i], parent[i]>>
             /\ UNCHANGED <<pc[i], result[i], records[i]>>
    BY Zenon, <1>2 DEF RuntimeStep, Left, envelope
<1>3. ASSUME NEW c \in Caller, NEW j \in ExecutionId, NEW p, NEW n, NEW g,
             Begin(c, j, p, n, g)
      PROVE  /\ UNCHANGED <<network_requests[i], exercised[i], blocked[i], emitted[i],
                            children[i], outcome[i], parent[i]>>
             /\ UNCHANGED <<pc[i], result[i], records[i]>>
    BY Zenon, <1>3 DEF Begin, Left, Base, TypeOK, store, registry
<1>4. ASSUME NEW c \in Caller, Inspect(c) \/ InvokeChild(c)
      PROVE  \E j \in ExecutionId : \E p, n, g : Begin(c, j, p, n, g)
    BY Zenon, <1>4, InspectBegins, InvokeBegins
<1>5. ASSUME NEW c \in Caller, Crash(c)
      PROVE  /\ UNCHANGED <<network_requests[i], exercised[i], blocked[i], emitted[i],
                            children[i], outcome[i], parent[i]>>
             /\ pc'[i] \in Left
             /\ pc[i] # "finish" => UNCHANGED <<pc[i], result[i], records[i]>>
    BY Zenon, <1>5 DEF Crash, Live, Left, envelope, store, registry, Base, TypeOK
<1>6. ASSUME NEW c \in Caller, NEW t \in ExecutionId, NEW res, NEW edge, NEW evidence,
             Ends(c, t, res, edge, evidence)
      PROVE  /\ UNCHANGED <<network_requests[i], exercised[i], blocked[i], emitted[i],
                            children[i], outcome[i], parent[i]>>
             /\ pc'[i] \in Left
             /\ pc[i] # "finish" => UNCHANGED <<pc[i], result[i], records[i]>>
    <2>1. pc[t] = "finish" /\ Live(t) /\ Return(c, t, res, edge)
        BY Zenon, <1>6 DEF Ends, Live
    <2>2. parent[t] # None => pc[parent[t]] = "guest" /\ parent[t] # i
        BY Zenon, <2>1 DEF Nesting, ParentIsNext, Left
    <2>3. UNCHANGED <<envelope, network_requests, blocked, emitted, outcome>>
        BY Zenon, <2>1 DEF Return
    <2>4. exercised'[i] = exercised[i] /\ children'[i] = children[i]
        BY Zenon, <2>1, <2>2 DEF Return, Base, TypeOK
    <2>5. pc' = [pc EXCEPT ![t] = "done"] /\ result' = [result EXCEPT ![t] = res]
        BY Zenon, <2>1 DEF Return
    <2>6. \/ records' = [records EXCEPT ![t] = ExecutionRecord(t, evidence)]
          \/ records' = records
        BY Zenon, <1>6 DEF Ends
    <2>7. QED
        BY Zenon, <2>1, <2>3, <2>4, <2>5, <2>6 DEF Left, envelope, Base, TypeOK
<1>7. QED
    <2>1. ASSUME NEW c \in Caller, Inspect(c) \/ InvokeChild(c)
          PROVE  /\ UNCHANGED <<network_requests[i], exercised[i], blocked[i],
                                emitted[i], children[i], outcome[i], parent[i]>>
                 /\ UNCHANGED <<pc[i], result[i], records[i]>>
        BY Zenon, <1>3, <1>4, <2>1
    <2>2. ASSUME NEW c \in Caller, PersistSuccess(c) \/ PersistUnsuccessful(c)
          PROVE  /\ UNCHANGED <<network_requests[i], exercised[i], blocked[i],
                                emitted[i], children[i], outcome[i], parent[i]>>
                 /\ pc'[i] \in Left
                 /\ pc[i] # "finish" => UNCHANGED <<pc[i], result[i], records[i]>>
        BY Zenon, <1>6, <2>2, PersistEnds
    <2>3. QED
        BY Zenon, <1>1, <1>2, <1>5, <2>1, <2>2, ContentShape

-----------------------------------------------------------------------------
(* A denial is final *)

\* A blocked attempt left the runtime, on the way to a rejection.
Denied ==
    \A i \in ExecutionId :
        blocked[i] # {} => pc[i] \in Left /\ outcome[i] = "Rejected"

\* Every step keeps that a blocked attempt left the runtime.
LEMMA NextDenied ==
    ASSUME Base, Nesting, Denied, [Next]_vars
    PROVE  Denied'
<1> SUFFICES ASSUME NEW i \in ExecutionId, blocked'[i] # {}
             PROVE  pc'[i] \in Left /\ outcome'[i] = "Rejected"
    BY Zenon DEF Denied, Left
<1>1. CASE blocked[i] # {}
    BY Zenon, <1>1, LeftIsFrozen DEF Denied
<1>2. CASE blocked'[i] # blocked[i]
    <2>1. ASSUME NEW c \in Caller, RuntimeStep(c)
          PROVE  pc'[i] \in Left /\ outcome'[i] = "Rejected"
        BY Zenon, <1>2, <2>1 DEF RuntimeStep
    <2>2. ASSUME NEW c \in Caller, Inspect(c) \/ InvokeChild(c) PROVE FALSE
        <3>1. \E j \in ExecutionId : \E p, n, g : Begin(c, j, p, n, g)
            BY Zenon, <2>2, InspectBegins, InvokeBegins
        <3>2. QED
            BY Zenon, <1>2, <3>1 DEF Begin, store
    <2>3. ASSUME NEW c \in Caller, PersistSuccess(c) \/ PersistUnsuccessful(c)
          PROVE  FALSE
        BY <1>2, <2>3, PersistEnds DEF Ends, Return
    <2>4. ASSUME NEW c \in Caller, Crash(c) PROVE FALSE
        BY Zenon, <1>2, <2>4 DEF Crash, store
    <2>5. QED
        BY Zenon, <1>2, <2>1, <2>2, <2>3, <2>4, ContentShape DEF store
<1>3. QED
    BY Zenon, <1>1, <1>2

\* The inductive invariant of the theorems about content.
Settled == Base /\ Nesting /\ Denied

\* The invariant holds in every state of every behaviour.
LEMMA SettledAlways == Spec => []Settled
<1>1. Init => Settled
    BY Zenon, InitBase, InitNests DEF Init, Denied, Settled
<1>2. Settled /\ [Next]_vars => Settled'
    BY Zenon, NextBase, NextNests, NextDenied DEF Settled
<1>3. QED
    BY <1>1, <1>2, PTL DEF Spec

\* Whatever a guest, a store and the other callers do: after its first blocked call
\* an attempt has no further effect, and the only status left to it is a rejection.
THEOREM DenialsAreFinal == Spec => DenialIsFinal
<1>1. Settled /\ [Next]_vars =>
        [\A i \in ExecutionId : blocked[i] # {} =>
            /\ UNCHANGED <<network_requests[i], exercised[i], emitted[i], children[i]>>
            /\ outcome'[i] = "Rejected"]_vars
    BY Zenon, LeftIsFrozen DEF Settled, Denied
<1>2. QED
    BY <1>1, SettledAlways, PTL DEF Spec, DenialIsFinal

-----------------------------------------------------------------------------
(* Records, receipts and lineage *)

\* A record is of an attempt that is done, and says what the attempt knew.
RecordsAreTrue ==
    \A i \in ExecutionId : records[i] # None =>
        /\ pc[i] = "done"
        /\ records[i].status = outcome[i]
        /\ records[i].parent = parent[i]
        /\ records[i].children = children[i]
        /\ records[i].evidence \subseteq emitted[i]
        /\ outcome[i] = "Succeeded" => records[i].evidence = emitted[i]

\* Only an attempt that is done has a result, and a receipt comes with a record.
ResultsAreTrue ==
    \A i \in ExecutionId : result[i] # None =>
        /\ pc[i] = "done"
        /\ result[i] \in {"ok", "receipt"} =>
                records[i] # None /\ ((outcome[i] = "Succeeded") <=> (result[i] = "ok"))

\* An edge leads to a recorded attempt with that status and that parent.
EdgesAreTrue ==
    \A i \in ExecutionId : \A e \in children[i] :
        /\ e.execution_id \in ExecutionId
        /\ records[e.execution_id] # None
        /\ outcome[e.execution_id] = e.status
        /\ parent[e.execution_id] = i

\* A recorded success is an edge of its parent.
SuccessesAreEdges ==
    \A j \in ExecutionId :
        (records[j] # None /\ parent[j] # None /\ outcome[j] = "Succeeded") =>
            [execution_id |-> j, status |-> "Succeeded"] \in children[parent[j]]

Trail == RecordsAreTrue /\ ResultsAreTrue /\ EdgesAreTrue /\ SuccessesAreEdges

\* Only the end of an attempt writes records, results and edges.
LEMMA OnlyEndsWrite ==
    ASSUME Base, [Next]_vars
    PROVE  \/ UNCHANGED <<children, result, records>>
           \/ \E c \in Caller, t \in ExecutionId, edge \in BOOLEAN,
                 res \in {"ok", "receipt", "persist-failed", "evidence-load-failed"} :
                 \E evidence \in {emitted[t], {}} : Ends(c, t, res, edge, evidence)
<1>1. ASSUME NEW c \in Caller, RuntimeStep(c) \/ Crash(c)
      PROVE  UNCHANGED <<children, result, records>>
    BY Zenon, <1>1 DEF RuntimeStep, Crash, store, registry
<1>2. ASSUME NEW c \in Caller, Inspect(c) \/ InvokeChild(c)
      PROVE  UNCHANGED <<children, result, records>>
    <2>1. \E j \in ExecutionId : \E p, n, g : Begin(c, j, p, n, g)
        BY Zenon, <1>2, InspectBegins, InvokeBegins
    <2>2. QED
        BY Zenon, <2>1 DEF Begin, store, registry
<1>3. QED
    BY Zenon, <1>1, <1>2, ContentShape, PersistEnds DEF store, registry

\* What was recorded stays as it was, and so does what the record speaks of.
LEMMA RecordedIsFrozen ==
    ASSUME Settled, Trail, [Next]_vars, NEW i \in ExecutionId,
           records[i] # None \/ result[i] # None
    PROVE  UNCHANGED <<pc[i], outcome[i], parent[i], children[i], emitted[i], result[i],
                       records[i], blocked[i]>>
BY Zenon, LeftIsFrozen DEF Settled, Trail, RecordsAreTrue, ResultsAreTrue, Left

\* What ending the attempt t writes, to t and to its parent.
Leaves(t, res, edge, evidence) ==
    /\ pc'[t] = "done" /\ result'[t] = res
    /\ UNCHANGED <<outcome, parent, emitted, blocked>>
    /\ \A k \in ExecutionId : k # t => UNCHANGED <<records[k], result[k], pc[k]>>
    /\ \A k \in ExecutionId : (k # parent[t] \/ ~ edge) => UNCHANGED children[k]
    /\ (edge /\ parent[t] # None) =>
            children'[parent[t]] = children[parent[t]] \cup {child_edge(t)}
    /\ \/ records'[t] = ExecutionRecord(t, evidence)
       \/ records'[t] = records[t] /\ ~ edge

\* What ending the attempt t leaves behind in t.
LEMMA EndsWrites ==
    ASSUME Base, NEW c \in Caller, NEW t \in ExecutionId, NEW edge \in BOOLEAN, NEW res,
           NEW evidence \in {emitted[t], {}}, Ends(c, t, res, edge, evidence)
    PROVE  Leaves(t, res, edge, evidence)
<1>1. Return(c, t, res, edge)
    BY Zenon DEF Ends
<1>2. \/ records' = [records EXCEPT ![t] = ExecutionRecord(t, evidence)]
      \/ records' = records /\ ~ edge
    BY Zenon DEF Ends
<1>3. /\ pc' = [pc EXCEPT ![t] = "done"] /\ result' = [result EXCEPT ![t] = res]
      /\ UNCHANGED <<outcome, parent, emitted, blocked>>
    BY Zenon, <1>1 DEF Return, envelope
<1>4. parent[t] \in ExecutionId \cup {None}
    BY Zenon DEF Base, TypeOK
<1>5. /\ \A k \in ExecutionId : (k # parent[t] \/ ~ edge) => UNCHANGED children[k]
      /\ (edge /\ parent[t] # None) =>
            children'[parent[t]] = children[parent[t]] \cup {child_edge(t)}
    BY <1>1, <1>4 DEF Return, Base, TypeOK
<1>6. \A k \in ExecutionId : k # t => UNCHANGED <<records[k], result[k], pc[k]>>
    BY Zenon, <1>2, <1>3 DEF Base, TypeOK
<1>7. \/ records'[t] = ExecutionRecord(t, evidence)
      \/ records'[t] = records[t] /\ ~ edge
    BY <1>2 DEF Base, TypeOK
<1>8. pc'[t] = "done" /\ result'[t] = res
    BY Zenon, <1>3 DEF Base, TypeOK
<1>9. QED
    BY Zenon, <1>3, <1>5, <1>6, <1>7, <1>8 DEF Leaves

\* A record is not None, and its attempt is not nested in itself.
LEMMA EndsFacts ==
    ASSUME Settled, NEW c \in Caller, NEW t \in ExecutionId, NEW edge, NEW res,
           NEW evidence \in {emitted[t], {}}, Ends(c, t, res, edge, evidence)
    PROVE  ExecutionRecord(t, evidence) # None /\ parent[t] # t
<1>1. ExecutionRecord(t, evidence) \in Record
    BY Zenon, RecordType DEF Ends, Settled, Base, TypeOK
<1>2. parent[t] # None => pc[parent[t]] = "guest"
    BY Zenon DEF Ends, Settled, Nesting, ParentIsNext, Live
<1>3. QED
    BY Zenon, <1>1, <1>2, NoneAssumption DEF Ends

\* Every step keeps the trail of records.
LEMMA NextTrail ==
    ASSUME Settled, Trail, [Next]_vars
    PROVE  Trail'
<1> USE DEF Settled
<1>1. CASE UNCHANGED <<children, result, records>>
    <2>1. RecordsAreTrue'
        BY <1>1, RecordedIsFrozen DEF Trail, RecordsAreTrue
    <2>2. ResultsAreTrue'
        BY Zenon, <1>1, RecordedIsFrozen DEF Trail, ResultsAreTrue
    <2>3. EdgesAreTrue'
        BY <1>1, RecordedIsFrozen DEF Trail, EdgesAreTrue
    <2>4. SuccessesAreEdges'
        BY Zenon, <1>1, RecordedIsFrozen DEF Trail, SuccessesAreEdges
    <2>5. QED
        BY Zenon, <2>1, <2>2, <2>3, <2>4 DEF Trail
<1>2. ASSUME NEW c \in Caller, NEW t \in ExecutionId, NEW edge \in BOOLEAN,
             NEW res \in {"ok", "receipt", "persist-failed", "evidence-load-failed"},
             NEW evidence \in {emitted[t], {}}, Ends(c, t, res, edge, evidence)
      PROVE  Trail'
    <2>0. Leaves(t, res, edge, evidence)
        BY Zenon, <1>2, EndsWrites
    <2> USE DEF Leaves
    <2>1. ExecutionRecord(t, evidence) # None /\ parent[t] # t
        BY Zenon, <1>2, EndsFacts
    <2>2. RecordsAreTrue'
        <3> SUFFICES ASSUME NEW i \in ExecutionId, records'[i] # None
                     PROVE  /\ pc'[i] = "done"
                            /\ records'[i].status = outcome'[i]
                            /\ records'[i].parent = parent'[i]
                            /\ records'[i].children = children'[i]
                            /\ records'[i].evidence \subseteq emitted'[i]
                            /\ outcome'[i] = "Succeeded"
                                    => records'[i].evidence = emitted'[i]
            BY Zenon DEF RecordsAreTrue
        <3>1. CASE records[i] # None
            BY <3>1, RecordedIsFrozen DEF Trail, RecordsAreTrue
        <3>2. CASE records[i] = None
            <4>1. i = t /\ records'[i] = ExecutionRecord(t, evidence)
                BY Zenon, <2>0, <3>2
            <4>2. children'[i] = children[i]
                BY Zenon, <2>0, <2>1, <4>1
            <4>3. outcome[t] = "Succeeded" => evidence = emitted[t]
                BY Zenon, <1>2, <2>0, <3>2, <4>1 DEF Ends
            <4>4. QED
                BY <2>0, <4>1, <4>2, <4>3 DEF ExecutionRecord
        <3>3. QED
            BY Zenon, <3>1, <3>2
    <2>3. ResultsAreTrue'
        <3> SUFFICES ASSUME NEW i \in ExecutionId, result'[i] # None
                     PROVE  /\ pc'[i] = "done"
                            /\ result'[i] \in {"ok", "receipt"} =>
                                /\ records'[i] # None
                                /\ (outcome'[i] = "Succeeded") <=> (result'[i] = "ok")
            BY Zenon DEF ResultsAreTrue
        <3>1. CASE result[i] # None
            BY Zenon, <3>1, RecordedIsFrozen DEF Trail, ResultsAreTrue
        <3>2. CASE result[i] = None
            <4>1. i = t
                BY Zenon, <2>0, <3>2
            <4>2. res \in {"ok", "receipt"} =>
                    records'[t] # None /\ ((outcome[t] = "Succeeded") <=> (res = "ok"))
                BY Zenon, <1>2, <2>1 DEF Ends, Base, TypeOK
            <4>3. QED
                BY Zenon, <2>0, <4>1, <4>2
        <3>3. QED
            BY Zenon, <3>1, <3>2
    <2>4. EdgesAreTrue'
        <3> SUFFICES ASSUME NEW i \in ExecutionId, NEW e \in children'[i]
                     PROVE  /\ e.execution_id \in ExecutionId
                            /\ records'[e.execution_id] # None
                            /\ outcome'[e.execution_id] = e.status
                            /\ parent'[e.execution_id] = i
            BY Zenon DEF EdgesAreTrue
        <3>1. CASE e \in children[i]
            <4>1. e.execution_id \in ExecutionId /\ records[e.execution_id] # None
                BY Zenon, <3>1 DEF Trail, EdgesAreTrue
            <4>2. QED
                BY <3>1, <4>1, RecordedIsFrozen DEF Trail, EdgesAreTrue
        <3>2. CASE e \notin children[i]
            <4>1. edge /\ i = parent[t]
                BY Zenon, <2>0, <3>2
            <4>2. parent[t] # None
                BY Zenon, <4>1, NoneAssumption
            <4>3. e = child_edge(t)
                BY Zenon, <2>0, <3>2, <4>1, <4>2
            <4>4. QED
                BY Zenon, <2>0, <2>1, <4>1, <4>3 DEF child_edge
        <3>3. QED
            BY Zenon, <3>1, <3>2
    <2>5. SuccessesAreEdges'
        <3> SUFFICES ASSUME NEW j \in ExecutionId, records'[j] # None, parent'[j] # None,
                            outcome'[j] = "Succeeded"
                     PROVE  [execution_id |-> j, status |-> "Succeeded"]
                                \in children'[parent'[j]]
            BY Zenon DEF SuccessesAreEdges
        <3>1. parent'[j] = parent[j] /\ parent[j] \in ExecutionId /\ outcome'[j] = outcome[j]
            BY <2>0 DEF Base, TypeOK
        <3>2. CASE records[j] # None
            <4>1. [execution_id |-> j, status |-> "Succeeded"] \in children[parent[j]]
                BY Zenon, <3>1, <3>2 DEF Trail, SuccessesAreEdges
            <4>2. children[parent[j]] \subseteq children'[parent[j]]
                BY Zenon, <2>0, <3>1
            <4>3. QED
                BY Zenon, <3>1, <4>1, <4>2
        <3>3. CASE records[j] = None
            <4>1. j = t
                BY Zenon, <2>0, <3>3
            <4>2. edge
                BY Zenon, <1>2, <2>0, <3>1, <3>3, <4>1 DEF Ends
            <4>3. child_edge(t) \in children'[parent[t]]
                BY Zenon, <2>0, <3>1, <4>1, <4>2
            <4>4. QED
                BY Zenon, <3>1, <4>1, <4>3 DEF child_edge
        <3>4. QED
            BY Zenon, <3>2, <3>3
    <2>6. QED
        BY Zenon, <2>2, <2>3, <2>4, <2>5 DEF Trail
<1>3. QED
    BY <1>1, <1>2, OnlyEndsWrite

\* The trail is there from the start and stays.
LEMMA TrailAlways == Spec => [](Settled /\ Trail)
<1>1. Init => Trail
    BY Zenon DEF Init, Trail, RecordsAreTrue, ResultsAreTrue, EdgesAreTrue, SuccessesAreEdges
<1>2. Settled /\ Trail /\ [Next]_vars => Trail'
    BY Zenon, NextTrail
<1>3. QED
    BY <1>1, <1>2, SettledAlways, PTL DEF Spec

\* However writes fail: whoever holds a record or a receipt from execute finds the
\* record in the store, with the status that was reported, and a denied attempt is
\* recorded as rejected.
THEOREM ReceiptsAreDurable == Spec => []ReceiptIsDurable
<1>1. Settled /\ Trail => ReceiptIsDurable
    <2> SUFFICES ASSUME Settled, Trail, NEW i \in ExecutionId,
                        result[i] \in {"ok", "receipt"}
                 PROVE  /\ records[i] # None
                        /\ (records[i].status = "Succeeded") <=> (result[i] = "ok")
                        /\ blocked[i] # {} => records[i].status = "Rejected"
        BY Zenon DEF ReceiptIsDurable
    <2>1. result[i] # None
        BY Zenon, NoneAssumption
    <2>2. QED
        BY Zenon, <2>1 DEF Settled, Denied, Trail, ResultsAreTrue, RecordsAreTrue
<1>2. QED
    BY <1>1, TrailAlways, PTL

\* Every edge, in memory or in a stored record, leads to a stored record of a child
\* of that execution with that status.
THEOREM LineageIsSound == Spec => []LineageSound
<1>1. Settled /\ Trail => LineageSound
    <2> SUFFICES ASSUME Settled, Trail, NEW i \in ExecutionId,
                        NEW e \in children[i] \cup
                            (IF records[i] = None THEN {} ELSE records[i].children)
                 PROVE  /\ records[e.execution_id] # None
                        /\ records[e.execution_id].status = e.status
                        /\ records[e.execution_id].parent = i
        BY Zenon DEF LineageSound
    <2>1. e \in children[i]
        BY Zenon DEF Trail, RecordsAreTrue
    <2>2. QED
        BY <2>1 DEF Trail, EdgesAreTrue, RecordsAreTrue
<1>2. QED
    BY <1>1, TrailAlways, PTL

\* The record of a parent names every child that was recorded as succeeded.
THEOREM LineageIsComplete == Spec => []LineageComplete
<1>1. Settled /\ Trail => LineageComplete
    <2> SUFFICES ASSUME Settled, Trail, NEW i \in ExecutionId, NEW j \in ExecutionId,
                        records[i] # None, records[j] # None, parent[j] = i,
                        records[j].status = "Succeeded"
                 PROVE  [execution_id |-> j, status |-> "Succeeded"] \in records[i].children
        BY Zenon DEF LineageComplete
    <2>1. outcome[j] = "Succeeded" /\ parent[j] # None
        BY Zenon, NoneAssumption DEF Trail, RecordsAreTrue
    <2>2. [execution_id |-> j, status |-> "Succeeded"] \in children[i]
        BY Zenon, <2>1 DEF Trail, SuccessesAreEdges
    <2>3. QED
        BY Zenon, <2>2 DEF Trail, RecordsAreTrue
<1>2. QED
    BY <1>1, TrailAlways, PTL

-----------------------------------------------------------------------------
(* Evidence *)

\* What an attempt holds as emitted is what the evidence store holds of it.
Emissions ==
    \A i \in ExecutionId : emitted[i] = {e \in EvidenceId : produced_by[e] = i}

\* Every step keeps the attempts and the evidence store in agreement.
LEMMA NextEmissions ==
    ASSUME Base, Emissions, [Next]_vars
    PROVE  Emissions'
<1>1. CASE UNCHANGED <<emitted, produced_by>>
    BY Zenon, <1>1 DEF Emissions
<1>2. ASSUME NEW c \in Caller, EmitEvidence(c) PROVE Emissions'
    <2>1. top[c] \in ExecutionId
        BY Zenon, <1>2, TopType DEF EmitEvidence, Running
    <2>2. \/ UNCHANGED <<emitted, produced_by>>
          \/ \E e \in EvidenceId :
                /\ produced_by[e] = None
                /\ produced_by' = [produced_by EXCEPT ![e] = top[c]]
                /\ emitted' = [emitted EXCEPT ![top[c]] = @ \cup {e}]
        BY Zenon, <1>2 DEF EmitEvidence
    <2>3. ASSUME NEW e \in EvidenceId, produced_by[e] = None,
                 produced_by' = [produced_by EXCEPT ![e] = top[c]],
                 emitted' = [emitted EXCEPT ![top[c]] = @ \cup {e}],
                 NEW i \in ExecutionId
          PROVE  emitted'[i] = {f \in EvidenceId : produced_by'[f] = i}
        <3>1. /\ emitted \in [ExecutionId -> SUBSET EvidenceId]
              /\ produced_by \in [EvidenceId -> ExecutionId \cup {None}]
            BY Zenon DEF Base, TypeOK
        <3>2. emitted[i] = {f \in EvidenceId : produced_by[f] = i}
            BY Zenon DEF Emissions
        <3>3. QED
            BY <2>1, <2>3, <3>1, <3>2, NoneAssumption
    <2>4. QED
        BY Zenon, <1>1, <2>2, <2>3 DEF Emissions
<1>3. ASSUME NEW c \in Caller,
             \/ Inspect(c) \/ InvokeChild(c) \/ ValidateExecution(c) \/ ReadOrLog(c)
             \/ HttpRequest(c) \/ InvokeOverflow(c) \/ InvokeDenied(c)
             \/ InvokeRefused(c) \/ GuestReturns(c) \/ Crash(c)
      PROVE  UNCHANGED <<emitted, produced_by>>
    <2>1. CASE Inspect(c) \/ InvokeChild(c)
        <3>1. \E j \in ExecutionId : \E p, n, g : Begin(c, j, p, n, g)
            BY Zenon, <2>1, InspectBegins, InvokeBegins
        <3>2. QED
            BY Zenon, <3>1 DEF Begin, store, registry
    <2>2. CASE ValidateExecution(c) \/ InvokeOverflow(c) \/ GuestReturns(c) \/ Crash(c)
        BY <2>2, Zenon DEF ValidateExecution, InvokeOverflow, GuestReturns, Crash, store,
                           registry
    <2>3. CASE ReadOrLog(c) \/ HttpRequest(c) \/ InvokeDenied(c) \/ InvokeRefused(c)
        BY <2>3, Zenon DEF ReadOrLog, HttpRequest, InvokeDenied, InvokeRefused, registry
    <2>4. QED
        BY Zenon, <1>3, <2>1, <2>2, <2>3
<1>4. ASSUME NEW c \in Caller, PersistSuccess(c) \/ PersistUnsuccessful(c)
      PROVE  UNCHANGED <<emitted, produced_by>>
    BY <1>4, PersistEnds DEF Ends, Return
<1>5. CASE EditPolicy \/ UNCHANGED vars
    BY Zenon, <1>1, <1>5 DEF EditPolicy, vars, store, registry
<1>6. QED
    BY Zenon, <1>1, <1>2, <1>3, <1>4, <1>5 DEF Next, HostStep, GuestStep

\* A record lists evidence of its own execution only, the record of a success all
\* of it, whichever of the stores failed on the way.
THEOREM EvidenceIsAttributed == Spec => []EvidenceAttributed
<1>1. Init => Emissions
    BY NoneAssumption DEF Init, Emissions
<1>2. Settled /\ Emissions /\ [Next]_vars => Emissions'
    BY Zenon, NextEmissions DEF Settled
<1>3. Settled /\ Trail /\ Emissions => EvidenceAttributed
    BY Zenon DEF Trail, RecordsAreTrue, Emissions, EvidenceAttributed
<1>4. QED
    BY <1>1, <1>2, <1>3, TrailAlways, PTL DEF Spec

\* What execution records say is true: their edges, the successes they account for and
\* the evidence they list, through failing loads, failing stores and crashes.
THEOREM RecordsTellTheTruth == Spec => []RecordsAreFaithful
<1>1. LineageSound /\ LineageComplete /\ EvidenceAttributed => RecordsAreFaithful
    BY Zenon DEF RecordsAreFaithful
<1>2. QED
    BY <1>1, LineageIsSound, LineageIsComplete, EvidenceIsAttributed, PTL

-----------------------------------------------------------------------------
(* The ledger of attempts *)

\* The state and the entry that the ledger sees of an attempt.
State(i) == IF pc[i] = "unused" THEN "unused" ELSE IF Live(i) THEN "open" ELSE "closed"
Entry(i) == IF records[i] = None THEN None
            ELSE [status |-> records[i].status, children |-> records[i].children]

States == [i \in ExecutionId |-> State(i)]
Entries == [i \in ExecutionId |-> Entry(i)]

\* What the ledger sees does not move, unless an attempt begins, ends or is lost.
LEMMA LedgerStutters ==
    ASSUME Base, UNCHANGED <<parent, records>>, \A i \in ExecutionId : State(i)' = State(i)
    PROVE  UNCHANGED Ledger!vars
<1>1. States' = States /\ Entries' = Entries
    BY Zenon DEF States, Entries, Entry
<1>2. QED
    BY Zenon, <1>1 DEF Ledger!vars, States, Entries, State, Entry

\* An attempt that begins opens an entry, under an open one.
LEMMA BeginOpens ==
    ASSUME Base, NEW c \in Caller, NEW j \in ExecutionId,
           NEW p \in ExecutionId \cup {None}, NEW n, NEW g, Begin(c, j, p, n, g),
           p # None => pc[p] = "guest"
    PROVE  Ledger!Open(j, p)
<1>1. /\ pc[j] = "unused" /\ pc' = [pc EXCEPT ![j] = "validate"]
      /\ parent' = [parent EXCEPT ![j] = p] /\ records' = records
    BY Zenon DEF Begin, registry
<1>2. State(j) = "unused" /\ (p # None => p \in ExecutionId /\ State(p) = "open")
    BY Zenon, <1>1 DEF State, Live
<1>3. States' = [States EXCEPT ![j] = "open"]
    BY Zenon, <1>1 DEF States, State, Live, Base, TypeOK
<1>4. Entries' = Entries
    BY Zenon, <1>1 DEF Entries, Entry
<1>5. QED
    BY Zenon, <1>1, <1>2, <1>3, <1>4 DEF Ledger!Open, States, State, Entries, Entry

\* The edges of a settled attempt are among the recorded ones, with all successes.
LEMMA EdgesMatchLedger ==
    ASSUME Settled, Trail, NEW t \in ExecutionId
    PROVE  /\ children[t] \subseteq Ledger!RecordedEdges(t)
           /\ Ledger!SucceededEdges(t) \subseteq children[t]
<1>1. \A k \in ExecutionId : records[k] # None =>
        /\ Entry(k).status = outcome[k] /\ Entry(k) # None
    <2> SUFFICES ASSUME NEW k \in ExecutionId, records[k] # None
                 PROVE  Entry(k).status = outcome[k] /\ Entry(k) # None
        BY Zenon
    <2>1. records[k] \in Record
        BY Zenon DEF Settled, Base, TypeOK
    <2>2. Entry(k) = [status |-> records[k].status, children |-> records[k].children]
        BY Zenon DEF Entry
    <2>3. Entry(k) \in [status : Status, children : SUBSET Edge]
        BY <2>1, <2>2 DEF Record
    <2>4. QED
        BY <2>2, <2>3, NoneAssumption DEF Trail, RecordsAreTrue
<1>2. \A k \in ExecutionId : Entry(k) # None => records[k] # None
    BY Zenon DEF Entry
<1>3. Ledger!RecordedEdges(t) =
        {[execution_id |-> k, status |-> Entry(k).status] :
            k \in {k \in ExecutionId : parent[k] = t /\ Entry(k) # None}}
    BY Zenon DEF Ledger!RecordedEdges, Ledger!Nested, Entry
<1>4. ASSUME NEW e \in children[t] PROVE e \in Ledger!RecordedEdges(t)
    <2>1. e \in Edge
        BY Zenon DEF Settled, Base, TypeOK
    <2>2. /\ e.execution_id \in ExecutionId /\ records[e.execution_id] # None
          /\ outcome[e.execution_id] = e.status /\ parent[e.execution_id] = t
        BY Zenon DEF Trail, EdgesAreTrue
    <2>3. e = [execution_id |-> e.execution_id, status |-> Entry(e.execution_id).status]
        BY Zenon, <1>1, <2>1, <2>2 DEF Edge
    <2>4. QED
        BY Zenon, <1>1, <1>3, <2>2, <2>3
<1>5. ASSUME NEW e \in Ledger!SucceededEdges(t) PROVE e \in children[t]
    <2>1. e \in Ledger!RecordedEdges(t) /\ e.status = "Succeeded"
        BY DEF Ledger!SucceededEdges
    <2>2. PICK k \in ExecutionId : /\ parent[k] = t /\ Entry(k) # None
                                  /\ e = [execution_id |-> k, status |-> Entry(k).status]
        BY Zenon, <1>3, <2>1
    <2>3. records[k] # None /\ outcome[k] = "Succeeded" /\ parent[k] # None
        BY Zenon, <1>1, <1>2, <2>1, <2>2, NoneAssumption
    <2>4. QED
        BY Zenon, <1>1, <2>2, <2>3 DEF Trail, SuccessesAreEdges
<1>6. QED
    BY Zenon, <1>4, <1>5

\* An attempt that ends closes its entry, after everything nested in it.
LEMMA EndsCloses ==
    ASSUME Settled, Trail, NEW c \in Caller, NEW t \in ExecutionId, NEW edge \in BOOLEAN,
           NEW res, NEW evidence \in {emitted[t], {}}, Ends(c, t, res, edge, evidence)
    PROVE  Ledger!CloseWithEntry(t) \/ Ledger!CloseWithoutEntry(t)
<1>1. /\ pc[t] = "finish" /\ t = top[c] /\ pc' = [pc EXCEPT ![t] = "done"]
      /\ parent' = parent /\ outcome[t] \in Status
    BY Zenon DEF Ends, Return, envelope
<1>2. States' = [States EXCEPT ![t] = "closed"] /\ State(t) = "open"
    BY Zenon, <1>1 DEF States, State, Live, Settled, Base, TypeOK
<1>3. ASSUME NEW j \in ExecutionId, parent[j] = t PROVE State(j) = "closed"
    <2>1. ~ Live(j)
        BY Zenon, <1>1, <1>3, TopIsInnermost, BaseStack, NoneAssumption DEF Settled
    <2>2. pc[j] # "unused"
        BY Zenon, <1>3, NoneAssumption DEF Settled, Base, Attempted
    <2>3. QED
        BY <2>1, <2>2 DEF State
<1>4. Ledger!Close(t)
    BY Zenon, <1>1, <1>2, <1>3 DEF Ledger!Close, Ledger!Nested, States, State
<1>5. CASE records' = records
    <2>1. Entries' = Entries
        BY Zenon, <1>5 DEF Entries, Entry
    <2>2. QED
        BY Zenon, <1>4, <2>1 DEF Ledger!CloseWithoutEntry, Entries, Entry
<1>6. CASE records' = [records EXCEPT ![t] = ExecutionRecord(t, evidence)]
    <2>1. Entry(t)' = [status |-> outcome[t], children |-> children[t]]
        <3>1. records'[t] = ExecutionRecord(t, evidence)
            BY Zenon, <1>6 DEF Settled, Base, TypeOK
        <3>2. ExecutionRecord(t, evidence) # None
            BY Zenon, EndsFacts
        <3>3. /\ ExecutionRecord(t, evidence).status = outcome[t]
              /\ ExecutionRecord(t, evidence).children = children[t]
            BY Zenon DEF ExecutionRecord
        <3>4. QED
            BY <3>1, <3>2, <3>3, Zenon DEF Entry
    <2>2. Entries' = [Entries EXCEPT ![t] = [status |-> outcome[t],
                                             children |-> children[t]]]
        BY Zenon, <1>6, <2>1 DEF Entries, Entry, Settled, Base, TypeOK
    <2>3. QED
        BY <1>1, <1>4, <2>2, EdgesMatchLedger
           DEF Ledger!CloseWithEntry, Entries, Entry
<1>7. QED
    BY Zenon, <1>5, <1>6 DEF Ends

\* A process that dies loses a whole nest of attempts.
LEMMA CrashLoses ==
    ASSUME Settled, NEW c \in Caller, Crash(c), NEW lost \in SUBSET ExecutionId,
           lost = {i \in ExecutionId : owner[i] = c /\ Live(i)}
    PROVE  Ledger!Lose(lost)
<1>1. /\ pc' = [i \in ExecutionId |-> IF i \in lost THEN "lost" ELSE pc[i]]
      /\ UNCHANGED <<parent, records>>
    BY Zenon DEF Crash, envelope, registry, Settled, Base, TypeOK
<1>2. \A i \in lost : State(i) = "open"
    BY Zenon DEF State, Live
<1>3. \A i \in lost, j \in ExecutionId : (parent[j] = i /\ State(j) = "open") => j \in lost
    BY NoneAssumption DEF State, Settled, Nesting, ParentIsNext, OnStack
<1>4. States' = [i \in ExecutionId |-> IF i \in lost THEN "closed" ELSE State(i)]
    BY Zenon, <1>1 DEF States, State, Live
<1>5. Entries' = Entries
    BY Zenon, <1>1 DEF Entries, Entry
<1>6. QED
    BY Zenon, <1>1, <1>2, <1>3, <1>4, <1>5
       DEF Ledger!Lose, Ledger!Nested, States, State, Entries, Entry

\* Every step is a step of the ledger, or none.
LEMMA LedgerStep ==
    ASSUME Settled, Trail, [Next]_vars
    PROVE  [Ledger!Next]_(Ledger!vars)
<1>0. Base
    BY Zenon DEF Settled
<1>1. CASE UNCHANGED Shape
    BY Zenon, <1>0, <1>1, LedgerStutters DEF Shape, envelope, State, Live
<1>2. ASSUME NEW c \in Caller, LocalStep(c) PROVE UNCHANGED Ledger!vars
    <2>1. \A i \in ExecutionId : State(i)' = State(i)
        BY Zenon, <1>0, <1>2 DEF LocalStep, State, Live, Base, TypeOK
    <2>2. QED
        BY Zenon, <1>0, <1>2, <2>1, LedgerStutters DEF LocalStep, envelope
<1>3. ASSUME NEW c \in Caller, Inspect(c) PROVE Ledger!Next
    <2>1. PICK j \in ExecutionId, n \in Nat, g \in SUBSET Capability :
                Begin(c, j, None, n, g)
        BY Zenon, <1>0, <1>3, InspectBegins
    <2>2. Ledger!Open(j, None)
        BY Zenon, <1>0, <2>1, BeginOpens
    <2>3. QED
        BY Zenon, <2>2 DEF Ledger!Next
<1>4. ASSUME NEW c \in Caller, InvokeChild(c) PROVE Ledger!Next
    <2>1. PICK j \in ExecutionId, g \in SUBSET grants[top[c]] :
                Begin(c, j, top[c], max_child_executions[top[c]] - 1, g)
        BY Zenon, <1>0, <1>4, InvokeBegins
    <2>2. top[c] \in ExecutionId /\ pc[top[c]] = "guest"
        BY <1>0, <1>4, InvokeBegins
    <2>3. PICK p \in ExecutionId : p = top[c]
        BY Zenon, <2>2
    <2>4. Begin(c, j, p, max_child_executions[top[c]] - 1, g) /\ pc[p] = "guest"
        BY Zenon, <2>1, <2>2, <2>3
    <2>5. Ledger!Open(j, p)
        BY <1>0, <2>4, BeginOpens, Zenon
    <2>6. QED
        BY Zenon, <2>5 DEF Ledger!Next
<1>5. ASSUME NEW c \in Caller, PersistSuccess(c) \/ PersistUnsuccessful(c)
      PROVE  Ledger!Next
    <2>1. PICK t \in ExecutionId, edge \in BOOLEAN,
               res \in {"ok", "receipt", "persist-failed", "evidence-load-failed"} :
               \E evidence \in {emitted[t], {}} : Ends(c, t, res, edge, evidence)
        BY Zenon, <1>0, <1>5, PersistEnds
    <2>2. Ledger!CloseWithEntry(t) \/ Ledger!CloseWithoutEntry(t)
        BY Zenon, <2>1, EndsCloses
    <2>3. QED
        BY Zenon, <2>2 DEF Ledger!Next
<1>6. ASSUME NEW c \in Caller, Crash(c) PROVE Ledger!Next
    <2>1. PICK lost \in SUBSET ExecutionId :
                lost = {i \in ExecutionId : owner[i] = c /\ Live(i)}
        BY Zenon
    <2>2. Ledger!Lose(lost)
        BY <1>6, <2>1, CrashLoses
    <2>3. QED
        BY Zenon, <2>2 DEF Ledger!Next
<1>7. QED
    BY Zenon, <1>0, <1>1, <1>2, <1>3, <1>4, <1>5, <1>6, StepShape

\* The runner implements the ledger of attempts: records are written once, after
\* everything nested has ended, with the recorded children as their edges.
THEOREM LedgerRefinement == Spec => ImplementsLedger
<1>1. Init => Ledger!Init
    BY DEF Init, Ledger!Init
<1>2. Settled /\ Trail /\ [Next]_vars => [Ledger!Next]_(Ledger!vars)
    BY Zenon, LedgerStep
<1>3. QED
    BY <1>1, <1>2, TrailAlways, PTL DEF Spec, ImplementsLedger, Ledger!Spec

-----------------------------------------------------------------------------
(* Recursion depth *)

\* In a nest the budgets tell live executions apart, so there are at most as many as there are
\* budgets up to that of the outermost one.
LEMMA NestingBoundsDepth ==
    ASSUME Base, Nesting
    PROVE  DepthBounded
<1> SUFFICES ASSUME NEW i \in ExecutionId, Live(i), parent[i] = None
             PROVE  Cardinality({j \in ExecutionId : Live(j) /\ owner[j] = owner[i]})
                        <= max_child_executions[i] + 1
    BY Zenon DEF DepthBounded
<1> DEFINE Stack == {j \in ExecutionId : Live(j) /\ owner[j] = owner[i]}
           Budgets == 0 .. max_child_executions[i]
           f == [j \in Stack |-> max_child_executions[j]]
<1>1. \A j \in Stack : OnStack(i, j)
    BY Zenon DEF OnStack
<1>2. \A j \in Stack : max_child_executions[j] \in Nat
                       /\ max_child_executions[j] <= max_child_executions[i]
    BY Zenon, <1>1 DEF Nesting, RootIsHighest, Base, TypeOK
<1>3. max_child_executions[i] \in Nat
    BY Zenon DEF Base, TypeOK
<1>4. f \in [Stack -> Budgets]
    <2>1. \A n, m \in Nat : n <= m => n \in 0 .. m
        BY SMT
    <2>2. \A j \in Stack : max_child_executions[j] \in Budgets
        BY Zenon, <1>2, <1>3, <2>1
    <2>3. QED
        BY Zenon, <2>2
<1>5. \A j, k \in Stack : f[j] = f[k] => j = k
    BY Zenon, <1>1 DEF Nesting, BudgetsDiffer, OnStack
<1> HIDE DEF f
<1>6. f \in Injection(Stack, Budgets)
    BY Zenon, <1>4, <1>5 DEF Injection, IsInjective
<1>7. IsFiniteSet(Budgets) /\ Cardinality(Budgets) = max_child_executions[i] + 1
    BY <1>3, FS_Interval
<1>8. Cardinality(Stack) <= Cardinality(Budgets)
    BY Zenon, <1>6, <1>7, FS_Injection
<1>9. QED
    BY Zenon, <1>7, <1>8

\* ADR 0014: the depth of nested execution is bounded by the child budget of the
\* outermost request, for every dependency graph, cyclic ones included.
THEOREM DepthIsBounded == Spec => []DepthBounded
<1>1. Spec => [](Base /\ Nesting)
    BY InitBase, NextBase, InitNests, NextNests, PTL DEF Spec
<1>2. Base /\ Nesting => DepthBounded
    BY Zenon, NestingBoundsDepth
<1>3. QED
    BY <1>1, <1>2, PTL

===============================================================================
