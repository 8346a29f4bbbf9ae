------------------------------ MODULE MCPolicy ------------------------------
(***************************************************************************)
(* Instances of Policy.  A case holds the grants, manifests and rules of   *)
(* one capability family, so that families are not multiplied with each    *)
(* other; every combination within a case is explored.                     *)
(***************************************************************************)
EXTENDS Policy

\* a.x and b.x lie below x; /p/q lies below /p.
Names == {"x", "a.x", "b.x", "y", "/p", "/p/q"}
MCUnder == {<<n, n>> : n \in Names} \cup {<<"a.x", "x">>, <<"b.x", "x">>, <<"/p/q", "/p">>}

MCKindOf == [scope \in {"executions", "blobs", "records"} |->
                IF scope = "executions" THEN "execution" ELSE "object"]

MCName ==
    Names \cup DOMAIN MCKindOf \cup {"execution", "object"} \cup {"get", "head"}
        \cup {"dep", "other"} \cup {"info", "error"} \cup {"user", "audit"}

HttpOps ==
    [family : {"http-request"}, method : {"get", "head"}, host : {"a.x", "b.x", "y"},
     path : {"/p/q", "/p"}, loopback : BOOLEAN, bytes : {1, 2}, redirects : {0, 2}]

MCOperation ==
    HttpOps
    \cup [family : {"read-resource"}, scope : DOMAIN MCKindOf]
    \cup [family : {"invoke-skill"}, alias : {"dep", "other"}]
    \cup [family : {"emit-evidence"}, bytes : {1, 2}, audience : {"user", "audit"}]
    \cup [family : {"log-write"}, level : {"info", "error"}]

Grants(family, constraints) == {Grant(family, c) : c \in constraints}
Requirements(family, constraints) ==
    [family : {family}, constraints : constraints, required : BOOLEAN]

UpTo(n, S) == {T \in SUBSET S : Cardinality(T) <= n}

\* Skills that declare at most one of the requirements themselves and have a child that
\* declares one, or none.
SkillsOf(requirements) ==
    [capabilities : UpTo(1, requirements), dependency : {None} \cup {{r} : r \in requirements}]

\* Caps of every target on the union, caps and denials of each grant for all candidates,
\* and a denial that spares what is required.
RulesOf(grants) ==
    [effect : {"cap"}, applies_to : {"any", "requested", "required"}, grants : {grants}]
    \cup [effect : {"cap", "deny"}, applies_to : {"any"}, grants : {{g} : g \in grants}]
    \cup [effect : {"deny"}, applies_to : {"requested"}, grants : {grants}]

CaseOf(family, constraints, ruling) ==
    [requests |-> UpTo(2, Grants(family, constraints)),
     skills |-> SkillsOf(Requirements(family, constraints)),
     rules |-> RulesOf(Grants(family, ruling))]

Read(uris, kinds) == [uri_prefixes |-> uris, resource_kinds |-> kinds]
ReadConstraints ==
    {Unconstrained, Read(Unbounded, {"object"}), Read({"executions", "blobs"}, Unbounded),
     Read({"blobs", "records"}, {"object"})}
ReadCase ==
    CaseOf("read-resource", ReadConstraints,
           {Read(Unbounded, {"object"}), Read({"executions", "blobs"}, Unbounded)})

Aliases(aliases) == [aliases |-> aliases]
InvokeConstraints ==
    {Unconstrained, Aliases({"dep"}), Aliases({"dep", "other"})}
InvokeCase == CaseOf("invoke-skill", InvokeConstraints, {Aliases({"dep"}), Aliases({"other"})})

Levels(levels) == [levels |-> levels]
LevelConstraints ==
    {Levels(Unbounded), Levels({"error"}), Levels({"info", "error"})}
LogCase == CaseOf("log-write", LevelConstraints, {Levels({"info"}), Levels({"error"})})

Emit(bytes, audiences) == [max_bytes |-> bytes, audiences |-> audiences]
EmitConstraints ==
    {Unconstrained, Emit(1, {"user"}), Emit(2, {"user", "audit"})}
EmitCase ==
    CaseOf("emit-evidence", EmitConstraints, {Unconstrained, Emit(1, {"user"}), Emit(2, Unbounded)})

Http(methods, hosts, suffixes, paths, bytes, follow, redirects, loopback) ==
    [methods |-> methods, hosts |-> hosts, suffixes |-> suffixes, paths |-> paths,
     max_response_bytes |-> bytes, follow_redirects |-> follow, max_redirects |-> redirects,
     allow_loopback |-> loopback]

\* Scopes and limits, with exact hosts.
ByHost == Http({"get"}, {"a.x"}, Unbounded, {"/p/q"}, 1, Unbounded, Unbounded, Unbounded)
ByHosts == Http({"get", "head"}, {"a.x", "b.x"}, Unbounded, {"/p"}, 2, TRUE, 2, TRUE)
HostsCase ==
    CaseOf("http-request",
           {Unconstrained, ByHost, ByHosts},
           {ByHost, [ByHosts EXCEPT !.methods = Unbounded, !.allow_loopback = FALSE,
                                    !.max_redirects = 1]})

\* Suffixes, and hosts together with suffixes.
BySuffix == Http(Unbounded, Unbounded, {"x"}, Unbounded, 2, Unbounded, Unbounded, TRUE)
SuffixesCase ==
    CaseOf("http-request",
           {Unconstrained, BySuffix, [BySuffix EXCEPT !.suffixes = {"a.x", "y"},
                                                     !.allow_loopback = Unbounded]},
           {[BySuffix EXCEPT !.suffixes = {"a.x"}]})
ByBoth == [BySuffix EXCEPT !.hosts = {"y"}]
BothCase ==
    CaseOf("http-request",
           {ByBoth, [ByBoth EXCEPT !.hosts = {"a.x", "y"}, !.suffixes = {"b.x"}]},
           {[ByBoth EXCEPT !.hosts = {"b.x", "y"}, !.allow_loopback = Unbounded]})

\* Hosts on one side, suffixes on the other.
MixedCase ==
    CaseOf("http-request", {[BySuffix EXCEPT !.hosts = {"a.x"}, !.suffixes = Unbounded], BySuffix,
                            [BySuffix EXCEPT !.suffixes = {"y"}]}, {BySuffix})

AllCases ==
    [read |-> ReadCase, invoke |-> InvokeCase, log |-> LogCase, emit |-> EmitCase,
     hosts |-> HostsCase, suffixes |-> SuffixesCase, both |-> BothCase, mixed |-> MixedCase]
MixedOnly == [mixed |-> MixedCase]
EmitOnly == [emit |-> EmitCase]
=============================================================================
