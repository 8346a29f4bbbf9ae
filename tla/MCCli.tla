--------------------------------- MODULE MCCli ---------------------------------
(***************************************************************************)
(* The command line on a small root. `goal` picks what a behaviour is      *)
(* about, so that refs, records, skills and keys do not multiply.          *)
(***************************************************************************)
EXTENDS CliCommands, Lineage, CliArgs, AxiomPlan, CodexWorkflow, FiniteSetsExt, TLC

CONSTANTS xa, xb, e1, d1, d2,   \* record names; xa and xb share a prefix
          pa, pb, pd, pe,
          Goals                 \* the goals of this run

VARIABLE goal

Starts == pa :> {xa, xb} @@ pb :> {xb} @@ pd :> {d1, d2} @@ pe :> {e1, d1}
Blobs == e1 :> d1

RecordRefs ==
    [kind : {"execution uri"}, id : ExecutionId] \cup [kind : {"execution prefix"}, id : {pa, pb}]
    \cup [kind : {"evidence uri", "metadata uri"}, id : EvidenceId]
    \cup [kind : {"object uri"}, id : Digest] \cup [kind : {"evidence prefix"}, id : {pe}]
    \cup [kind : {"object prefix", "bare object prefix"}, id : {pd, pe}]
    \cup {[kind |-> "query uri"], [kind |-> "malformed skill"]}

SkillRefs ==
    [kind : {"short skill"}, name : Name, req : {{1}, {1, 2}}]
    \cup [kind : {"full skill"}, ns : Namespace, name : Name, req : {{2}, {1, 2}}]
    \cup {[kind |-> "malformed skill"]}

Builds == {s \in Skill : s.sound /\ (s.digest = 1 \/ (s.version = 2 /\ s.ns = "a"))}

BeginFor(g) ==
    CASE g = "records" ->
           \/ \E n \in {"show", "get", "why"}, r \in RecordRefs : Begin(n, r)
           \/ \E r \in {"summary", "evidence", "objects"} : Begin("ls", r)
           \/ Begin("doctor", None)
      [] g = "skills" ->
           \/ \E n \in {"show", "verify", "push"}, r \in SkillRefs : Begin(n, r)
           \* The three exports differ in what they write outside the root only.
           \/ \E n \in {"export bundle", "export oci-layout"} :
                 \E r \in {s \in SkillRefs : s.kind = "full skill"} : Begin(n, r)
           \/ keys = 0 /\ Begin("trust generate", "p")
      [] g = "runs" ->
           \/ /\ \E x \in ExecutionId : executions[x] = "absent"
              /\ \E r \in SkillRefs : Begin("run", r)
           \/ Begin("doctor", None)
      [] g = "setup" ->
           \/ \E n \in {"install", "import bundle", "import oci-layout", "pull", "import preview"} :
                 \E s \in {t \in Builds : t.ns = "a" /\ t.version = 2} : Begin(n, s)
           \/ \E n \in {"init", "mcp serve"} : Begin(n, None)
           \/ \E r \in {"skills", "runs"} : Begin("ls", r)
           \/ Begin("doctor", None)
      [] g = "trust" ->
           \/ keys < MaxKeys /\ \E p \in Publisher : Begin("trust generate", p)
           \/ \E t \in {"local-dev", "trusted-imported"} : Begin("trust add", t)
           \/ \E n \in {"trust show", "trust remove"}, p \in Publisher : Begin(n, p)
           \/ \E n \in {"trust list", "sign-plan", "verify-plan", "doctor"} : Begin(n, None)

\* How often others step in, for each goal.
EditsFor == [records |-> 6, skills |-> 4, runs |-> 3, setup |-> 2, trust |-> 2]

OthersFor(g) ==
  /\ edits < EditsFor[g]
  /\ \/ DeleteRoot
     \/ g = "records" /\ OthersWriteRecords
     \/ g \in {"skills", "runs"} /\ \E s \in Builds : OtherInstalls(s)
     \/ g \in {"runs", "setup"} /\ \E s \in skills : SpoilManifest(s)
     \/ g \in {"runs", "setup"} /\ \E new \in Policies : EditPolicy(new)
     \/ g = "trust" /\ OthersEditTrust

(***************************************************************************)
(* Goal "lineage": every store of three records with at most two child     *)
(* links each (one for the third), linked up and down in any way.          *)
(***************************************************************************)
Records == 1..3
Links == {<<>>} \cup {<<i>> : i \in Records} \cup {<<i, j>> : i, j \in Records}
Facts == <<[status |-> "succeeded", termination |-> NoParent, policy_rejected |-> FALSE,
            evidence |-> <<"u", "v">>],
           [status |-> "rejected", termination |-> "denied", policy_rejected |-> TRUE,
            evidence |-> <<"u", "w">>],
           [status |-> "rejected", termination |-> "denied", policy_rejected |-> FALSE,
            evidence |-> <<"z">>]>>
Stores ==
    {g \in [parent : [Records -> Records \cup {NoParent}], children : [Records -> Links],
            readable : {Records, {1, 2}}, facts : {Facts, [Facts EXCEPT ![2].termination = NoParent]}] :
        /\ \A i \in Records : g.parent[i] # i
        /\ Len(g.children[3]) < 2}
EvidenceGrant == [id |-> "read-resource", kinds |-> {"object"}, prefixes |-> {"guild://objects/records/"}]
Asked(d, n, grants) ==
    [max_depth |-> d, max_nodes |-> n, include_evidence_resources |-> TRUE, grants |-> grants]
WalkInputs == {Asked(1, 3, {}), Asked(2, 3, {EvidenceGrant}), Asked(2, 2, {})}

WalkSome ==
    /\ goal = "lineage" /\ walked = NoParent
    /\ \E g \in Stores, input \in WalkInputs : Walk(g, input, 1)
    /\ UNCHANGED <<parsed, reviewed>>

(***************************************************************************)
(* Goal "arguments": every struct clap can hand over, as it may have been  *)
(* typed: a dashed value glued to its flag, a dashed argument after `--`.  *)
(***************************************************************************)
Glued(s, flag) ==
    IF s.vals[flag] = NoValue THEN <<>>
    ELSE IF s.vals[flag] = "--json" THEN <<flag \o "=--json">> ELSE <<flag, s.vals[flag]>>
Typed(global, command, s) ==
    <<"guild">> \o global \o command \o append_render_cli_args(s.render)
    \o FoldSet(LAMBDA flag, words : words \o <<flag>>, <<>>, s.on)
    \o FoldSet(LAMBDA flag, words : words \o Glued(s, flag), <<>>, DOMAIN s.vals)
    \o (IF LooksLikeFlag(s) THEN <<"--">> ELSE <<>>) \o s.pos

ParseSome ==
    /\ goal = "arguments" /\ parsed = NoValue
    /\ \E command \in Commands : \E s \in StructOf(command) :
          \E global \in {<<>>, <<"--registry-root", "r">>, <<"--registry-root=r">>} :
             run(Typed(global, command, s), command, s,
                 IF global = <<>> THEN NoValue ELSE "r", NoValue, "home")
    /\ UNCHANGED <<walked, reviewed>>

(***************************************************************************)
(* Goal "plans": every dependency graph over four nodes; three nodes, two  *)
(* of them perhaps of one name, with references; and one node in every     *)
(* shape it can have.                                                      *)
(***************************************************************************)
SkillRef == [form |-> "string", requested |-> "ref", digest |-> Missing]
Node(id, deps, texts) ==
    [id |-> id, depends_on |-> deps, skill |-> SkillRef, grants |-> <<>>, forbidden |-> {}, texts |-> texts]
PlanOf(nodes) == [kind |-> "ok", version |-> "ok", name |-> "ok", nodes |-> nodes, forbidden |-> {}]
Ref(id) == {[shape |-> "ok", root |-> id]}
Listing(ids) == SelectSeq(<<"d", "a", "c", "b">>, LAMBDA id : id \in ids)

Graphs ==
    {PlanOf([i \in 1..4 |-> Node(<<"a", "b", "c", "d">>[i], Listing(deps[i]), {})]) :
        deps \in {f \in [1..4 -> SUBSET {"a", "b", "c", "d"}] :
                     \A i \in 1..4 : <<"a", "b", "c", "d">>[i] \notin f[i]}}
Referring ==
    {PlanOf([i \in 1..3 |-> Node(ids[i], Listing(deps[i]), IF i = at THEN Ref(to) ELSE {})]) :
        ids \in {<<"a", "b", "c">>, <<"a", "b", "a">>}, deps \in [1..3 -> SUBSET {"a", "b", "c"}],
        at \in 1..3, to \in {"a", "b", "c", "input"}}
OddSkills ==
    {SkillRef, [SkillRef EXCEPT !.requested = "bad ref"]}
    \cup [form : {"object"}, requested : {"ref", "bad ref", Malformed, Missing}, digest : {Missing, "bad digest"}]
    \cup [form : {"other", "missing"}, requested : {Missing}, digest : {Missing}]
OddGrants ==
    {<<>>, <<Malformed>>, Malformed, Missing}
    \cup {<<g>> : g \in [family : {"ok", Malformed, Missing}, constraints : {"ok", Malformed, Missing}]}
OddTexts == {{}, {[shape |-> "braced", root |-> Missing]}, Ref("env")}
OddNodes ==
    [id : {"a", "bad name", Malformed, Missing}, skill : OddSkills, grants : {<<>>}, forbidden : {{}},
     depends_on : {<<>>, <<"a">>, <<"z">>, <<Malformed>>, Malformed, Missing}, texts : OddTexts]
    \cup [id : {"a", Missing}, skill : {SkillRef}, grants : OddGrants, depends_on : {<<>>},
          forbidden : SUBSET {"node", "args"}, texts : OddTexts]
OddPlans ==
    {PlanOf(<<n>>) : n \in OddNodes} \cup {PlanOf(<<Malformed, Node("a", <<>>, {})>>), Malformed}
    \cup [kind : {"ok", Malformed, Missing}, version : {"ok", Malformed, Missing}, name : {"ok", Malformed, Missing},
          nodes : {<<>>, Malformed, Missing}, forbidden : {{}, {"plan"}}]

ReviewSome ==
    /\ goal = "plans" /\ reviewed = Missing
    /\ \E file \in Graphs \cup Referring \cup OddPlans : axiom_plan(file)
    /\ UNCHANGED <<walked, parsed>>

\* The examples of docs/strategy/axiom-plan-ir/examples, in the order of their names.
ValidExamples ==
    <<PlanOf(<<Node("draftReport", <<>>, {}), Node("renderFinal", <<"draftReport">>, {})>>),
      PlanOf(<<[Node("emitSummaryEvidence", <<>>, {}) EXCEPT
                  !.grants = <<[family |-> "ok", constraints |-> "ok"]>>]>>),
      PlanOf(<<Node("draftReport", <<>>, Ref("input")),
               Node("renderFinal", <<"draftReport">>, Ref("draftReport"))>>),
      PlanOf(<<[Node("summarizeRecentExecutions", <<>>, {}) EXCEPT
                  !.grants = <<[family |-> "ok", constraints |-> "ok"]>>]>>)>>
InvalidExamples ==
    <<PlanOf(<<Node("renderReport", <<>>, Ref("missingNode") \cup Ref("env")
                      \cup {[shape |-> "call", root |-> "renderReport"]})>>),
      PlanOf(<<Node("first", <<"second">>, {}), Node("second", <<"first">>, {})>>),
      PlanOf(<<Node("renderReport", <<>>, {}), Node("renderReport", <<>>, {})>>),
      PlanOf(<<[Node("explainExecution", <<>>, {}) EXCEPT !.forbidden = {"node"}]>>),
      PlanOf(<<[Node("explainExecution", <<>>, {}) EXCEPT !.skill.requested = "bad ref"]>>),
      PlanOf(<<[Node("renderReport", Missing, {}) EXCEPT !.skill.form = "missing", !.grants = Missing]>>),
      PlanOf(<<Node("renderReport", <<"missingNode">>, {})>>)>>
ExpectedCodes ==
    <<{"unknown_reference", "unsupported_reference"}, {"dependency_cycle"}, {"duplicate_node_id"},
      {"forbidden_runtime_truth_field"}, {"malformed_skill_ref"}, {"schema.missing_required_field"},
      {"unknown_dependency"}>>

\* `axiom-plan validate-examples` passes on the examples the repository keeps: each valid one
\* has no diagnostic and each invalid one those expected_invalid_codes lists for it.
ExamplesValidate ==
    goal = "plans" => validate_examples(ValidExamples, InvalidExamples, ExpectedCodes)

\* xtask axiom-plan refuses exactly the plans with a cycle, previews the others in an order
\* they could run in, lets references reach back only, and accepts its own examples.
PlansAreReviewed ==
    CyclesAreFound /\ PreviewFollowsDependencies /\ ReferencesReachBack /\ ExamplesValidate

(***************************************************************************)
(* Goals "codex config", "codex root", "codex smoke": two processes write  *)
(* one config file, or prepare scenarios and bootstrap one root, while     *)
(* people edit; and one process runs smoke flows one after the other.      *)
(***************************************************************************)
CodexGoals == {"codex config", "codex root", "codex smoke"}

OwnEntry == [form |-> "table", launch |-> "people", cwd |-> "people", extra |-> TRUE]
PeopleConfigs ==
    {NoFile, Unparsable} \cup [form : {"table"}, others : {{"other"}},
                              guild : {Nothing, OwnEntry, [OwnEntry EXCEPT !.form = "other"]}]
    \cup {[form |-> "other", guild |-> Nothing, others |-> {}]}

RootCommands ==
    {<<"bootstrap", <<"--reset">>>>, <<"bootstrap", <<>>>>, <<"bootstrap", <<"--name", "--reset">>>>,
     <<"bootstrap", <<"--name", "--name", "--reset">>>>, <<"print-config", <<"--reset">>>>}
    \cup {<<"scenario", <<"--scenario", s>>>> : s \in Scenario}
Overlapping ==
    {<<"bootstrap", <<"--reset">>>>, <<"scenario", <<"--scenario", "policy-denial-debug">>>>}
SmokeCommands ==
    {<<"smoke", <<"--flow", f>>>> : f \in Flow} \cup {<<"smoke", <<>>>>, <<"smoke", <<"--flow", "--json">>>>}
    \cup {<<"scenario", <<"--scenario", "recent-failure-triage">>>>, <<"bootstrap", <<>>>>}

First == CHOOSE p \in Process : TRUE

CodexFor(g) ==
    \/ \E p \in Process : CodexStep(p)
    \/ \E p \in Process : (g = "codex config" \/ jobs[p].open) /\ Kill(p)
    \/ /\ g = "codex config"
       /\ \/ \E p \in Process : run_guild_subcommand(p, "init", <<>>)
          \/ \E config \in PeopleConfigs : EditConfig(config)
    \/ /\ g = "codex root" /\ people < 2
       /\ \/ \E c \in RootCommands : run_guild_subcommand(First, c[1], c[2])
          \* A second process starts when the first is about to import, or later in its bracket.
          \/ /\ jobs[First].open /\ (disk.policy = "scenario" \/ Doing(First, "import"))
             /\ \E p \in Process \ {First}, c \in Overlapping : run_guild_subcommand(p, c[1], c[2])
          \/ EditSupport
    \/ /\ g = "codex smoke"
       /\ \E c \in SmokeCommands : run_guild_subcommand(First, c[1], c[2])

OneStep == {"lineage", "arguments", "plans"}
onestep == <<walked, parsed, reviewed>>

MCInit ==
    /\ Init /\ CodexInit /\ goal \in Goals /\ plan.payload = 1
    /\ walked = NoParent /\ parsed = NoValue /\ reviewed = Missing
    /\ goal \in OneStep \cup CodexGoals => root = "dir"
    /\ IF goal = "codex root" THEN disk.policy # NoFile /\ disk.publisher # NoFile
       ELSE disk.policy = NoFile /\ disk.publisher = NoFile

MCNext ==
    /\ \/ /\ goal \notin OneStep \cup CodexGoals
          /\ BeginFor(goal) \/ CommandSteps \/ OthersFor(goal)
          /\ UNCHANGED <<onestep, codex_vars>>
       \/ (WalkSome \/ ParseSome \/ ReviewSome) /\ UNCHANGED <<vars, codex_vars>>
       \/ goal \in CodexGoals /\ CodexFor(goal) /\ UNCHANGED <<vars, onestep>>
    /\ UNCHANGED goal

\* A walk or a parse is one step, and a behaviour of codex commands ends when people stop.
Done ==
    /\ onestep # <<NoParent, NoValue, Missing>> \/ (people > 0 /\ \A p \in Process : ~Running(p))
    /\ UNCHANGED <<vars, goal, onestep, codex_vars>>

mcvars == <<vars, goal, onestep, codex_vars>>
MCSpec == MCInit /\ [][MCNext \/ Done]_mcvars

================================================================================
