---------------------------- MODULE MCExecution ----------------------------
(***************************************************************************)
(* Small instances of Execution: chains of three skills in which `audit'   *)
(* and `trace' call `scan' and `scan' calls `leaf', which declares no      *)
(* dependency.  `audit' declares a capability the Wasm runtime lacks.      *)
(***************************************************************************)
EXTENDS Execution, TLC

MCSkill == {"audit", "trace", "scan", "leaf"}
InspectOnly == [s \in MCSkill |-> {"inspect"}]
EveryMode == [s \in MCSkill |-> Mode]
LeafNeedsEmit == [s \in MCSkill |-> IF s = "leaf" THEN {"emit"} ELSE {}]
DeclaresAll == [s \in MCSkill |-> Capability]
Chain ==
    [s \in MCSkill |-> [a \in Alias |->
        CASE s \in {"audit", "trace"} -> "scan" [] s = "scan" -> "leaf" [] OTHER -> None]]
OneRedirect == [op \in HttpOp |-> 1]

Request(s, m, g, valid, depth, network) ==
    [skill |-> s, mode |-> m, grants |-> g, valid |-> valid,
     budget |-> [max_child_executions |-> depth,
                 max_network_requests |-> network]]
FullRequest(s, depth, network) ==
    Request(s, "inspect", Supported, TRUE, depth, network)

PolicyOf(readable, ambiguous, caller, child) ==
    [readable |-> readable, ambiguous |-> ambiguous,
     ceiling |-> [a \in Actor |-> [s \in MCSkill |->
                    IF a = "caller" THEN caller ELSE child]]]
AllowAll == PolicyOf(TRUE, {}, Capability, Capability)
\* The profile bound to the "skill" actor is wider than the caller's.
WiderForSkills == PolicyOf(TRUE, {}, Capability \ EmitOp, Capability)

\* Nesting: a child budget that reaches two of the three levels, for several callers
\* on one registry root.
NestingRequests == {Request("trace", "inspect", {"dep", "emit"}, TRUE, 1, 0)}

\* Authority: every operation class, every reason to refuse, and a policy file
\* that is unreadable or ambiguous at some times.
AuthorityRequests ==
    {FullRequest("scan", 1, 2),
     Request("scan", "inspect", Capability, TRUE, 0, 1),
     Request("scan", "inspect", Capability \ Alias, FALSE, 1, 1),
     Request("scan", "apply", Supported, TRUE, 1, 1),
     Request("scan", "inspect", {"dep", "emit"}, TRUE, 1, 0),
     Request("audit", "inspect", Alias, TRUE, 1, 1),
     FullRequest("leaf", 1, 1)}
AuthorityRequired == [s \in MCSkill |-> IF s = "leaf" THEN {"emit"} ELSE {"dep"}]
AuthorityOptional ==
    [s \in MCSkill |-> IF s = "audit" THEN Capability ELSE Supported]
AuthorityPolicies ==
    {AllowAll,
     WiderForSkills,
     PolicyOf(FALSE, {}, {}, {}),
     PolicyOf(TRUE, {"caller"}, Capability, Capability)}

LiveRequests ==
    {FullRequest("scan", 1, 2), Request("scan", "apply", Supported, TRUE, 1, 0)}
AllowAllOnly == {AllowAll}

SafetyRequests == NestingRequests \cup AuthorityRequests

\* A behaviour is about one of the two.  Either several callers nest `trace' under a policy
\* that stays as it is and try nothing but what they are granted for, or one caller makes
\* one attempt, with one nested in it, of anything else.
Used == {i \in ExecutionId : pc[i] # "unused"}
Nesting == \E i \in Used : skill[i] = "trace"

OneConcern ==
    IF Nesting
    THEN /\ policy = AllowAll
         /\ \A i \in Used : /\ parent[i] = None => skill[i] = "trace"
                            /\ exercised[i] \cup blocked[i] \subseteq {"dep", "emit", Malformed}
    ELSE Cardinality(Used) <= 2

\* An edit of the policy counts as long as something is still to be authorized.
SafetyNext ==
    \/ ~ Nesting /\ Cardinality(Used) < 2 /\ EditPolicy
    \/ \E c \in Caller :
        ((Used = {} \/ Nesting) /\ Inspect(c)) \/ HostStep(c) \/ GuestStep(c) \/ Crash(c)

SafetySpec == Init /\ [][SafetyNext]_vars

SharedSymmetry ==
    Permutations(ExecutionId) \cup Permutations(EvidenceId) \cup Permutations(Caller)
=============================================================================
