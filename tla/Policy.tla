------------------------------- MODULE Policy -------------------------------
(***************************************************************************)
(* The capability algebra of guild-runner and the two places that use it:  *)
(* `Runner::evaluate_policy', which clamps requested grants to the         *)
(* declared surface and applies the rules of a policy profile, and         *)
(* `CapabilityEvaluator::derive_child_grants', which reduces a parent's    *)
(* grants for a nested execution.                                          *)
(*                                                                         *)
(* A family stands for a capability id with its access.  Constraints are   *)
(* a record of optional fields; Unbounded is an absent field, and          *)
(* Unconstrained is CapabilityConstraints::None.  Fields that the code     *)
(* treats alike are represented by one of them: schemes, ports and methods *)
(* by methods, timeout and response size by max_response_bytes, the flags  *)
(* for special destinations by allow_loopback, audiences and redactions by *)
(* audiences.  Host names and paths matter only through `Under', which     *)
(* stands for domain_suffix_matches and starts_with.  Vectors of grants    *)
(* are sets: their order decides only which covering grant a child gets,   *)
(* and there the model takes any.  Filesystem grants are left out: no      *)
(* execution starts with one.                                              *)
(***************************************************************************)
EXTENDS Naturals, FiniteSets

CONSTANTS
    Cases,          \* name -> [requests, skills, rules]: what may meet in one evaluation
    Operation,      \* what guests may try
    KindOf,         \* GuildResourceScope::kind
    Under,          \* pairs <<name, n>> with name equal to n or below it
    Name,           \* what the scopes of constraints are sets of
    MaxRules,       \* bound: rules of a profile that match the skill
    Unbounded, Unconstrained, Mismatch, None

VARIABLES
    case,           \* what this evaluation draws from
    phase,          \* "idle", "rules", "decided" or "denied"
    skill,          \* [capabilities, dependency]: what its manifest and its child's declare
    requested,      \* the grants that were asked for
    granted,        \* the grants as reduced so far
    reasons,        \* some PolicyReason was noted
    outcome,
    applied,        \* the rules that were applied
    parent          \* the grants of the invoking execution, or None

vars == <<case, phase, skill, requested, granted, reasons, outcome, applied, parent>>

HTTP_UNCONSTRAINED_MAX_REDIRECTS == 10

-----------------------------------------------------------------------------
(* Constraints and grants *)

Scope == {Unbounded} \cup SUBSET Name

Limit == {Unbounded} \cup Nat

AllowFlag == {Unbounded} \cup BOOLEAN

HttpRequestConstraints ==
    [methods : Scope, hosts : Scope, suffixes : Scope, paths : Scope,
     max_response_bytes : Limit, follow_redirects : AllowFlag, max_redirects : Limit,
     allow_loopback : AllowFlag]

ReadResourceConstraints == [uri_prefixes : Scope, resource_kinds : Scope]

InvokeDependencyConstraints == [aliases : Scope]

LogConstraints == [levels : Scope]

EmitEvidenceConstraints == [max_bytes : Limit, audiences : Scope]

\* The constraints a family may have, other than none.
CapabilityConstraints(family) ==
    IF family = "http-request" THEN HttpRequestConstraints
    ELSE IF family = "read-resource" THEN ReadResourceConstraints
    ELSE IF family = "invoke-skill" THEN InvokeDependencyConstraints
    ELSE IF family = "log-write" THEN LogConstraints
    ELSE EmitEvidenceConstraints

AnyConstraints ==
    {Unconstrained} \cup HttpRequestConstraints \cup ReadResourceConstraints
        \cup InvokeDependencyConstraints \cup LogConstraints \cup EmitEvidenceConstraints

CapabilityFamily == {"http-request", "read-resource", "invoke-skill", "log-write", "emit-evidence"}

CapabilityRequirement ==
    [family : CapabilityFamily, constraints : AnyConstraints, required : BOOLEAN]

SkillManifest ==
    [capabilities : SUBSET CapabilityRequirement,
     dependency : {None} \cup SUBSET CapabilityRequirement]

\* A grant, a requirement or a cap whose constraints are those of its family.
Typed(g) ==
    /\ g.family \in CapabilityFamily
    /\ g.constraints \in {Unconstrained} \cup CapabilityConstraints(g.family)

-----------------------------------------------------------------------------
(* Reducing one field: what is left of the first bound under the second *)

reduce_required_enum_scope(p, r) ==
    IF r = Unbounded THEN p
    ELSE IF p = Unbounded THEN r
    ELSE IF r \subseteq p THEN r ELSE Mismatch

Nonempty(scope) == IF scope = {} THEN Mismatch ELSE scope

reduce_required_intersecting_enum_scope(p, r) ==
    IF r = Unbounded THEN p
    ELSE IF p = Unbounded THEN r ELSE Nonempty(r \cap p)

reduce_required_max_bytes(p, r) ==
    IF r = Unbounded THEN p
    ELSE IF p = Unbounded THEN r
    ELSE IF r <= p THEN r ELSE Mismatch

IsUnder(name, names) == \E n \in names : <<name, n>> \in Under

reduce_required_path_prefix_scope(p, r) ==
    IF r = Unbounded THEN p
    ELSE IF p = Unbounded THEN r ELSE Nonempty({n \in r : IsUnder(n, p)})

OrEmpty(scope) == IF scope = Unbounded THEN {} ELSE scope

reduce_required_http_hosts(p, r) ==
    IF r.hosts = Unbounded THEN p.hosts
    ELSE IF p.hosts = Unbounded /\ p.suffixes = Unbounded THEN r.hosts
    ELSE Nonempty({h \in r.hosts : h \in OrEmpty(p.hosts) \/ IsUnder(h, OrEmpty(p.suffixes))})

reduce_required_http_host_suffixes(p, r) ==
    reduce_required_path_prefix_scope(p.suffixes, r.suffixes)

reduce_optional_allow_flag(p, r) ==
    IF r = Unbounded THEN p
    ELSE IF r = FALSE THEN FALSE
    ELSE IF p = TRUE THEN TRUE ELSE Mismatch

\* Mutant: a cap that names the flag decides it.
reduce_cap_allow_flag_set(cap, grant) == IF cap = Unbounded THEN grant ELSE cap

reduce_cap_allow_flag(cap, grant) == IF cap = FALSE THEN FALSE ELSE grant

-----------------------------------------------------------------------------
(* Reducing the constraints of a family *)

\* One field that cannot be reduced spoils the whole.
OrMismatch(constraints) ==
    IF \E field \in DOMAIN constraints : constraints[field] = Mismatch
    THEN Mismatch ELSE constraints

\* What reduce_child_http_request_constraints and its twin for caps share; they differ
\* in how they reduce a flag.
ReduceHttp(p, r, follow, loopback) == OrMismatch(
    [methods |-> reduce_required_enum_scope(p.methods, r.methods),
     hosts |-> reduce_required_http_hosts(p, r),
     suffixes |-> reduce_required_http_host_suffixes(p, r),
     paths |-> reduce_required_path_prefix_scope(p.paths, r.paths),
     max_response_bytes |-> reduce_required_max_bytes(p.max_response_bytes, r.max_response_bytes),
     follow_redirects |-> follow,
     max_redirects |-> IF follow = TRUE
                       THEN reduce_required_max_bytes(p.max_redirects, r.max_redirects)
                       ELSE Unbounded,
     allow_loopback |-> loopback])

reduce_child_http_request_constraints(p, r) ==
    ReduceHttp(p, r, reduce_optional_allow_flag(p.follow_redirects, r.follow_redirects),
                     reduce_optional_allow_flag(p.allow_loopback, r.allow_loopback))

reduce_cap_http_request_constraints(cap, grant) ==
    ReduceHttp(cap, grant, reduce_cap_allow_flag(cap.follow_redirects, grant.follow_redirects),
                           reduce_cap_allow_flag(cap.allow_loopback, grant.allow_loopback))

\* The families that children and caps reduce in the same way.
ReduceCommon(family, p, r) == OrMismatch(
    IF family = "read-resource" THEN
        [uri_prefixes |-> reduce_required_intersecting_enum_scope(p.uri_prefixes, r.uri_prefixes),
         resource_kinds |->
            reduce_required_intersecting_enum_scope(p.resource_kinds, r.resource_kinds)]
    ELSE IF family = "invoke-skill" THEN
        [aliases |-> reduce_required_intersecting_enum_scope(p.aliases, r.aliases)]
    ELSE IF family = "log-write" THEN
        [levels |-> reduce_required_intersecting_enum_scope(p.levels, r.levels)]
    ELSE
        [max_bytes |-> reduce_required_max_bytes(p.max_bytes, r.max_bytes),
         audiences |-> reduce_required_enum_scope(p.audiences, r.audiences)])

reduce_child_constraints(family, p, r) ==
    IF p = Unconstrained THEN r
    ELSE IF r = Unconstrained THEN p
    ELSE IF family = "http-request" THEN reduce_child_http_request_constraints(p, r)
    ELSE ReduceCommon(family, p, r)

\* A grant without constraints, or under a cap without constraints, stays as it is.
reduce_cap_constraints(family, cap, grant) ==
    IF cap = Unconstrained \/ grant = Unconstrained THEN grant
    ELSE IF family = "http-request" THEN reduce_cap_http_request_constraints(cap, grant)
    ELSE ReduceCommon(family, cap, grant)

Grant(family, constraints) == [family |-> family, constraints |-> constraints]

\* reduce_grant_to_requirement, as a set of at most one grant.
reduce_grant_to_requirement(grant, requirement) ==
    LET c == reduce_child_constraints(grant.family, grant.constraints, requirement.constraints)
    IN IF grant.family # requirement.family \/ c = Mismatch THEN {} ELSE {Grant(grant.family, c)}

reduce_grant_to_cap(cap, grant) ==
    LET c == reduce_cap_constraints(grant.family, cap.constraints, grant.constraints)
    IN IF cap.family # grant.family \/ c = Mismatch THEN {} ELSE {Grant(grant.family, c)}

-----------------------------------------------------------------------------
(* CapabilityEvaluator: which requirements a set of grants covers *)

enum_scope_covers(g, r) == r = Unbounded \/ g = Unbounded \/ r \subseteq g

path_prefix_scope_covers(g, r) ==
    r = Unbounded \/ g = Unbounded \/ \A n \in r : IsUnder(n, g)

\* Unlike the other scopes, an absent host scope covers no host and no suffix.
http_host_scope_covers(g, r) ==
    /\ \A h \in OrEmpty(r.hosts) : h \in OrEmpty(g.hosts) \/ IsUnder(h, OrEmpty(g.suffixes))
    /\ \A n \in OrEmpty(r.suffixes) : IsUnder(n, OrEmpty(g.suffixes))

max_bytes_covers(g, r) == r = Unbounded \/ g = Unbounded \/ r <= g

allow_flag_covers(g, r) == r = TRUE => g = TRUE

http_request_covers(g, r) ==
    /\ enum_scope_covers(g.methods, r.methods)
    /\ http_host_scope_covers(g, r)
    /\ path_prefix_scope_covers(g.paths, r.paths)
    /\ max_bytes_covers(g.max_response_bytes, r.max_response_bytes)
    /\ allow_flag_covers(g.follow_redirects, r.follow_redirects)
    /\ g.follow_redirects = TRUE /\ r.follow_redirects = TRUE
            => max_bytes_covers(g.max_redirects, r.max_redirects)
    /\ allow_flag_covers(g.allow_loopback, r.allow_loopback)

grant_covers_requirement(grant, requirement) ==
    LET g == grant.constraints
        r == requirement.constraints
    IN  /\ grant.family = requirement.family
        /\ \/ Unconstrained \in {g, r}
           \/ IF grant.family = "http-request" THEN http_request_covers(g, r)
              ELSE \A field \in DOMAIN r :
                        IF field = "max_bytes" THEN max_bytes_covers(g[field], r[field])
                        ELSE enum_scope_covers(g[field], r[field])

\* The families whose typed requirements several grants may cover together.
Collective(requirement) ==
    /\ requirement.family \in {"read-resource", "invoke-skill", "log-write"}
    /\ requirement.constraints # Unconstrained

AllowsIn(scope, value) == scope = Unbounded \/ value \in scope

read_resource_grant_allows_scope(grant, scope) ==
    \/ grant.constraints = Unconstrained
    \/ /\ AllowsIn(grant.constraints.uri_prefixes, scope)
       /\ AllowsIn(grant.constraints.resource_kinds, KindOf[scope])

\* grants: what derives from a set of grants for this requirement, so each is typed.
collectively_cover(grants, requirement) ==
    LET r == requirement.constraints
    IN  /\ grants # {}
        /\ IF requirement.family = "read-resource" THEN
              /\ \A scope \in OrEmpty(r.uri_prefixes) :
                    \E g \in grants : read_resource_grant_allows_scope(g, scope)
              /\ \A kind \in OrEmpty(r.resource_kinds) :
                    \E g \in grants : AllowsIn(g.constraints.resource_kinds, kind)
           ELSE IF requirement.family = "log-write" THEN
              \A level \in OrEmpty(r.levels) :
                    \E g \in grants : AllowsIn(g.constraints.levels, level)
           ELSE
              \/ \E g \in grants : g.constraints.aliases = Unbounded
              \/ /\ r.aliases # Unbounded
                 /\ r.aliases \subseteq UNION {g.constraints.aliases : g \in grants}

Derived(grants, requirement) ==
    UNION {reduce_grant_to_requirement(g, requirement) : g \in grants}

\* Mutant: a grant that overlaps what is required is taken to cover it.
grants_cover_requirement_overlapping(grants, requirement) == Derived(grants, requirement) # {}

\* An unconstrained grant derives the requirement itself, which collectively_cover accepts.
grants_cover_requirement(grants, requirement) ==
    IF Collective(requirement)
    THEN collectively_cover(Derived(grants, requirement), requirement)
    ELSE \E g \in grants : grant_covers_requirement(g, requirement)

-----------------------------------------------------------------------------
(* CapabilityEvaluator: which operations a set of grants authorizes *)

matches_http_host(c, host) ==
    \/ c.hosts = Unbounded /\ c.suffixes = Unbounded
    \/ host \in OrEmpty(c.hosts) \/ IsUnder(host, OrEmpty(c.suffixes))

\* The grants whose constraints evaluate_http_request_constraints does not fault.
HttpMatching(grants, op) ==
    {g \in grants :
        /\ g.family = "http-request"
        /\ LET c == g.constraints
           IN \/ c = Unconstrained
              \/ /\ AllowsIn(c.methods, op.method)
                 /\ matches_http_host(c, op.host)
                 /\ c.paths = Unbounded \/ IsUnder(op.path, c.paths)
                 /\ op.loopback => c.allow_loopback = TRUE}

MayReceive(c, bytes) ==
    c = Unconstrained \/ c.max_response_bytes = Unbounded \/ bytes <= c.max_response_bytes

MayFollow(c, redirects) ==
    IF c = Unconstrained THEN redirects <= HTTP_UNCONSTRAINED_MAX_REDIRECTS
    ELSE /\ c.follow_redirects = TRUE
         /\ c.max_redirects # Unbounded
         /\ redirects <= c.max_redirects

\* HttpGrantState keeps the widest limits of the matching grants, each limit on its own.
authorize_http_request(grants, op) ==
    LET matching == HttpMatching(grants, op)
    IN  /\ \E g \in matching : MayReceive(g.constraints, op.bytes)
        /\ op.redirects > 0 => \E g \in matching : MayFollow(g.constraints, op.redirects)

authorize(grants, op) ==
    IF op.family = "http-request" THEN authorize_http_request(grants, op)
    ELSE \E g \in grants :
        LET c == g.constraints
        IN  /\ g.family = op.family
            /\ \/ c = Unconstrained
               \/ IF op.family = "read-resource"
                  THEN read_resource_grant_allows_scope(g, op.scope)
                  ELSE IF op.family = "invoke-skill" THEN AllowsIn(c.aliases, op.alias)
                  ELSE IF op.family = "log-write" THEN AllowsIn(c.levels, op.level)
                  ELSE /\ c.max_bytes = Unbounded \/ op.bytes <= c.max_bytes
                       /\ AllowsIn(c.audiences, op.audience)

-----------------------------------------------------------------------------
(* Valid grants, and the rules of a policy profile *)

ValidHttp(c) ==
    /\ c.max_response_bytes # 0
    /\ IF c.follow_redirects = TRUE THEN c.max_redirects \notin {Unbounded, 0}
       ELSE c.max_redirects = Unbounded

ValidRead(c) ==
    Unbounded \in {c.uri_prefixes, c.resource_kinds}
        \/ \A scope \in c.uri_prefixes : KindOf[scope] \in c.resource_kinds

ScopeField == {"methods", "hosts", "suffixes", "paths", "uri_prefixes", "resource_kinds",
               "aliases", "audiences", "levels"}

validate(grant) ==
    LET c == grant.constraints
    IN  \/ c = Unconstrained
        \/ /\ \A field \in DOMAIN c \cap ScopeField : c[field] # {}
           /\ grant.family = "http-request" => ValidHttp(c)
           /\ grant.family = "read-resource" => ValidRead(c)
           /\ grant.family = "emit-evidence" => c.max_bytes # 0

\* The skill's own capabilities and those of the skills below it.
declared_capability_surface(s) ==
    s.capabilities \cup (IF s.dependency = None THEN {} ELSE s.dependency)

\* What is no scope, no limit and no flag, what is no constraints, and what is no manifest.
ASSUME MarksAssumption ==
    /\ \A scope \in SUBSET Name : scope \notin {Unbounded, Mismatch}
    /\ \A mark \in {Unbounded, Mismatch} : mark \notin Nat /\ mark \notin BOOLEAN
    /\ Unbounded # Mismatch
    /\ Unconstrained \notin HttpRequestConstraints \cup ReadResourceConstraints
            \cup InvokeDependencyConstraints \cup LogConstraints \cup EmitEvidenceConstraints
    /\ Mismatch \notin AnyConstraints
    /\ None \notin SkillManifest \cup {"allowed", "reduced", "rejected"}

\* Manifests and policy files are validated when they are loaded (validate_for refuses the
\* constraints of another family), and a request with such constraints is rejected as a whole.
ASSUME CasesAssumption ==
    \A c \in DOMAIN Cases :
        /\ \A grants \in Cases[c].requests : \A g \in grants : Typed(g)
        /\ Cases[c].skills \subseteq SkillManifest
        /\ \A s \in Cases[c].skills : \A r \in declared_capability_surface(s) : Typed(r) /\ validate(r)
        /\ \A rule \in Cases[c].rules : \A g \in rule.grants : Typed(g) /\ validate(g)

\* Neither manifests nor requests name more redirects than a grant without constraints follows.
ASSUME RedirectsAssumption ==
    \A c \in DOMAIN Cases :
        \A g \in (UNION Cases[c].requests)
                    \cup (UNION {declared_capability_surface(s) : s \in Cases[c].skills}) :
            g.family = "http-request" /\ g.constraints # Unconstrained =>
                g.constraints.max_redirects \in {Unbounded} \cup 0..HTTP_UNCONSTRAINED_MAX_REDIRECTS

\* Lying below a name is transitive, and sizes and hops are counted.
ASSUME UnderAssumption == \A s, t \in Under : s[2] = t[1] => <<s[1], t[2]>> \in Under

ASSUME OperationAssumption ==
    \A op \in Operation :
        /\ op.family \in {"http-request", "emit-evidence"} => op.bytes \in Nat
        /\ op.family = "http-request" => op.redirects \in Nat

invalid_capability_grants(grants) == {g \in grants : ~validate(g)}

\* Mutant: a grant outside the declared constraints of its family passes.
clamp_requested_capabilities_to_manifest_declared(requests, declared) ==
    [g \in requests |->
        IF \E d \in declared : d.family = g.family THEN {g} ELSE {}]

\* What is left of every requested grant.
clamp_requested_capabilities_to_manifest(requests, declared) ==
    [g \in requests |-> UNION {reduce_grant_to_requirement(g, d) : d \in declared}]

Required(s) == {r \in s.capabilities : r.required}

contributes_to_required(grant) ==
    \E r \in Required(skill) : reduce_grant_to_requirement(grant, r) # {}

policy_rule_target_matches(target, grant) ==
    \/ target = "any"
    \/ target = "requested" /\ ~contributes_to_required(grant)
    \/ target = "required" /\ contributes_to_required(grant)

\* Mutant: a rule that denies part of a grant misses it.
policy_grant_overlaps_covering(cap, grant) == grant_covers_requirement(cap, grant)

policy_grant_overlaps(cap, grant) == reduce_grant_to_cap(cap, grant) # {}

\* What a rule leaves of a grant.
apply_policy_deny_rule(rule, grant) ==
    IF \E g \in rule.grants : policy_grant_overlaps(g, grant) THEN {} ELSE {grant}

apply_policy_cap_rule(rule, grant) ==
    LET matching == {g \in rule.grants : g.family = grant.family}
    IN IF matching = {} THEN {grant} ELSE UNION {reduce_grant_to_cap(g, grant) : g \in matching}

apply_policy_rule(rule, grant) ==
    IF ~policy_rule_target_matches(rule.applies_to, grant) THEN {grant}
    ELSE IF rule.effect = "deny" THEN apply_policy_deny_rule(rule, grant)
    ELSE apply_policy_cap_rule(rule, grant)

-----------------------------------------------------------------------------
(* An evaluation: `evaluate_policy', one step per rule of the selected profile *)

Init ==
    /\ case \in DOMAIN Cases
    /\ phase = "idle"
    /\ skill = None
    /\ requested = {}
    /\ granted = {}
    /\ reasons = FALSE
    /\ outcome = None
    /\ applied = {}
    /\ parent = None

\* Mutant: a note is made only of the grants that are gone.
Changed_removed(left) == \E g \in DOMAIN left : left[g] = {}

\* left: what is left of every grant.  A reason is noted for each one that changed.
Changed(left) == \E g \in DOMAIN left : left[g] # {g}

AllOf(left) == UNION {left[g] : g \in DOMAIN left}

rejected_policy_evaluation(left) ==
    /\ phase' = "decided"
    /\ outcome' = "rejected"
    /\ granted' = left
    /\ reasons' = TRUE

\* The evaluation is refused when no single profile is bound to the caller, and when a
\* requested grant is invalid.
evaluate_policy(s, grants, from) ==
    /\ skill' = s
    /\ requested' = grants
    /\ parent' = from
    /\ applied' = {}
    /\ \/ rejected_policy_evaluation({})
       \/ /\ invalid_capability_grants(grants) = {}
          /\ LET left == clamp_requested_capabilities_to_manifest(
                                grants, declared_capability_surface(s))
             IN  /\ granted' = AllOf(left)
                 /\ reasons' = Changed(left)
          /\ phase' = "rules"
          /\ outcome' = None
    /\ UNCHANGED case

Request ==
    /\ phase = "idle"
    /\ \E s \in Cases[case].skills, grants \in Cases[case].requests : evaluate_policy(s, grants, None)

\* The next rule of the profile that matches the skill.
ApplyRule(rule) ==
    /\ phase = "rules"
    /\ Cardinality(applied) < MaxRules
    /\ rule \notin applied
    /\ LET left == [g \in granted |-> apply_policy_rule(rule, g)]
       IN  /\ granted' = AllOf(left)
           /\ reasons' = (reasons \/ Changed(left))
    /\ applied' = applied \cup {rule}
    /\ UNCHANGED <<case, phase, skill, requested, outcome, parent>>

missing_required_capabilities ==
    {r \in Required(skill) : ~grants_cover_requirement(granted, r)}

completed_policy_evaluation ==
    /\ phase' = "decided"
    /\ outcome' = IF reasons THEN "reduced" ELSE "allowed"
    /\ UNCHANGED <<granted, reasons>>

Decide ==
    /\ phase = "rules"
    /\ IF missing_required_capabilities # {} THEN rejected_policy_evaluation(granted)
       ELSE completed_policy_evaluation
    /\ UNCHANGED <<case, skill, requested, applied, parent>>

-----------------------------------------------------------------------------
(* A nested execution: `derive_child_grants', then the same evaluation *)

\* The grants one of which the child's requirement is reduced from.
Covering(requirement) == {g \in granted : grant_covers_requirement(g, requirement)}

\* chosen: the covering grant found first for every requirement that needs a single one.
CoveringChoices ==
    {chosen \in [skill.dependency -> granted \cup {None}] :
        \A r \in skill.dependency :
            IF Collective(r) \/ Covering(r) = {} THEN chosen[r] = None ELSE chosen[r] \in Covering(r)}

DerivedFor(r, chosen) ==
    IF Collective(r) THEN Derived(granted, r)
    ELSE IF chosen[r] = None THEN {} ELSE reduce_grant_to_requirement(chosen[r], r)

child_capability_mismatch(r, chosen) ==
    IF Collective(r) THEN r.required /\ ~collectively_cover(Derived(granted, r), r)
    ELSE IF chosen[r] = None THEN r.required ELSE DerivedFor(r, chosen) = {}

InvokeChild ==
    /\ phase = "decided"
    /\ outcome # "rejected"
    /\ skill.dependency # None
    /\ \E chosen \in CoveringChoices :
        \/ /\ \E r \in skill.dependency : child_capability_mismatch(r, chosen)
           /\ phase' = "denied"
           /\ UNCHANGED <<case, skill, requested, granted, reasons, outcome, applied, parent>>
        \/ /\ \A r \in skill.dependency : ~child_capability_mismatch(r, chosen)
           /\ evaluate_policy([capabilities |-> skill.dependency, dependency |-> None],
                              UNION {DerivedFor(r, chosen) : r \in skill.dependency},
                              granted)

Next ==
    \/ Request
    \/ \E rule \in Cases[case].rules : ApplyRule(rule)
    \/ Decide
    \/ InvokeChild

Spec == Init /\ [][Next]_vars

-----------------------------------------------------------------------------
(* What the evaluation promises *)

\* Every variable has its type.  No grant that the reductions make has a scope without
\* a member: filtering everything away removes the grant instead.
TypeOK ==
    /\ case \in DOMAIN Cases
    /\ phase \in {"idle", "rules", "decided", "denied"}
    /\ reasons \in BOOLEAN
    /\ outcome \in {None, "allowed", "reduced", "rejected"}
    /\ applied \subseteq Cases[case].rules
    /\ \A g \in granted :
        g.constraints = Unconstrained
            \/ \A field \in DOMAIN g.constraints \cap ScopeField : g.constraints[field] # {}

Authorized(grants) == {op \in Operation : authorize(grants, op)}

Narrowed ==
    /\ Authorized(granted) \subseteq Authorized(requested)
    /\ parent # None => Authorized(granted) \subseteq Authorized(parent)

\* Evaluating a policy, for a caller and again for each child, never adds an operation to
\* those that the requested grants and the parent's grants authorize.
PolicyNeverWidens == Narrowed

\* The http-request constraints that meet in this evaluation.
HttpConstraints ==
    {g.constraints : g \in
        {g \in requested \cup (IF parent = None THEN {} ELSE parent)
                \cup (IF skill = None THEN {} ELSE declared_capability_surface(skill))
                \cup UNION {rule.grants : rule \in Cases[case].rules} :
            g.family = "http-request"}} \ {Unconstrained}

HostFields(c) == {field \in {"hosts", "suffixes"} : c[field] # Unbounded}

\* Constraints that restrict hosts do so with the same fields.
UniformHosts ==
    \A c, d \in HttpConstraints :
        HostFields(c) = HostFields(d) \/ {} \in {HostFields(c), HostFields(d)}

\* Where all sides restrict hosts in the same way (exact hosts, suffixes or both), neither
\* clamping, nor any sequence of rules, nor the derivation of a child's grants authorizes an
\* operation that the request and the parent's grants do not.
NeverWidens == UniformHosts => Narrowed

\* Constraints as an upper bound: a flag that is absent forbids nothing.
AsCeiling(grant) ==
    LET c == grant.constraints
        Or(flag) == IF flag = Unbounded THEN TRUE ELSE flag
    IN IF grant.family # "http-request" \/ c = Unconstrained THEN Grant(grant.family, c)
       ELSE Grant(grant.family,
                [c EXCEPT !.follow_redirects = Or(c.follow_redirects),
                          !.max_redirects = IF @ = Unbounded
                                            THEN HTTP_UNCONSTRAINED_MAX_REDIRECTS ELSE @,
                          !.allow_loopback = Or(c.allow_loopback)])

Within(grants, ceiling) == Authorized(grants) \subseteq Authorized({AsCeiling(g) : g \in ceiling})

\* What is granted stays within the declared surface, and every grant with constraints
\* stays within the caps that were applied to all candidates, whatever rules came before
\* and after.
WithinCeilings ==
    UniformHosts /\ phase # "idle" =>
        /\ Within(granted, declared_capability_surface(skill))
        /\ \A rule \in applied : rule.effect = "cap" /\ rule.applies_to = "any" =>
            \A g \in granted :
                LET caps == {cap \in rule.grants : cap.family = g.family}
                IN caps # {} /\ g.constraints # Unconstrained => Within({g}, caps)

\* Nothing that a deny rule for all candidates names is authorized after it.
Denied(families) ==
    \A rule \in applied : rule.effect = "deny" /\ rule.applies_to = "any" =>
        \A op \in Authorized(granted) : op.family \in families => ~authorize(rule.grants, op)

\* For the families whose scopes are intersected, what a deny rule names is not authorized
\* after it, through all the rules that follow.
DenyHolds == Denied({"read-resource", "invoke-skill", "log-write"})

\* A deny rule removes every grant that overlaps what it denies, in every family.
DenyRemovesOverlaps == Denied({op.family : op \in Operation})

\* An evaluation that reports `allowed' gave exactly what was requested: any change on the
\* way left a reason, and a reason makes the outcome `reduced'.
AllowedMeansUntouched == outcome = "allowed" => granted = requested

\* Every bound is named; an absent flag asks for nothing.
Explicit(c) ==
    LET absent == {field \in DOMAIN c : c[field] = Unbounded}
    IN  /\ absent \subseteq {"hosts", "suffixes", "follow_redirects", "max_redirects",
                             "allow_loopback"}
        /\ ~({"hosts", "suffixes"} \subseteq absent)

\* A skill starts only with what its manifest requires: after the last rule every operation
\* within a required capability, as far as it is spelt out, is authorized, also when
\* several narrowed grants have to add up to it.
RequiredIsUsable ==
    phase = "decided" /\ outcome # "rejected" =>
        \A r \in Required(skill) :
            r.constraints # Unconstrained /\ Explicit(r.constraints) =>
                Authorized({Grant(r.family, r.constraints)}) \subseteq Authorized(granted)
=============================================================================
