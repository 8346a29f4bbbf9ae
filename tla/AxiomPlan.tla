------------------------------- MODULE AxiomPlan -------------------------------
(***************************************************************************)
(* Axiom plans: the documents `xtask axiom-plan` validates and previews    *)
(* before Guild is asked for anything (xtask/src/axiom_plan.rs).           *)
(*                                                                         *)
(* A plan is [kind, version, name, nodes, forbidden]: the first three are  *)
(* "ok", Malformed or Missing, `nodes` is a sequence, Malformed (no array) *)
(* or Missing. A node is Malformed (no object) or                          *)
(*   id          a name, "bad name", Malformed (no string) or Missing      *)
(*   depends_on  a sequence of names and Malformed, or Malformed, Missing  *)
(*   skill       [form, requested, digest], the form being "string",       *)
(*               "object", "other" or "missing"                            *)
(*   grants      a sequence of [family, constraints] and Malformed, or     *)
(*               Malformed, Missing                                        *)
(*   forbidden   the places where a runtime-truth field is claimed         *)
(*   texts       the strings anywhere in the node that start with `$`, as  *)
(*               [shape, root], or hold `${`, as [shape |-> "braced"]      *)
(* Diagnostics are pairs of a code and the index of the node, 0 for the    *)
(* plan; their order and wording are left out.                             *)
(***************************************************************************)
EXTENDS Naturals, Sequences, FiniteSets

CONSTANTS Malformed, Missing

VARIABLE reviewed     \* a plan and what the tool makes of it, or Missing

Codes(checks) == UNION {IF c[1] THEN {c[2]} ELSE {} : c \in checks}
Entries(seq) == {seq[i] : i \in DOMAIN seq}
IsArray(v) == v # Malformed /\ v # Missing

(***************************************************************************)
(* The checks of the validator, in its order.                              *)
(***************************************************************************)
check_forbidden_fields(places, index) ==
    IF places = {} THEN {} ELSE {<<"forbidden_runtime_truth_field", index>>}

\* Looked for in the plan, in every node, and in the objects a node holds; never in its args.
check_forbidden_runtime_truth_fields(plan) ==
    check_forbidden_fields(plan.forbidden, 0) \cup
    (IF ~IsArray(plan.nodes) THEN {}
     ELSE UNION {check_forbidden_fields(plan.nodes[i].forbidden \ {"args"}, i) :
                    i \in {j \in DOMAIN plan.nodes : plan.nodes[j] # Malformed}})

check_top_level(plan) ==
    Codes({<<plan.kind = Malformed, <<"invalid_kind", 0>>>>, <<plan.kind = Missing, <<"missing_kind", 0>>>>,
           <<plan.version = Malformed, <<"invalid_version", 0>>>>,
           <<plan.version = Missing, <<"missing_version", 0>>>>,
           <<plan.name = Malformed, <<"invalid_name", 0>>>>, <<plan.name = Missing, <<"missing_name", 0>>>>,
           <<plan.nodes = Malformed, <<"invalid_nodes", 0>>>>,
           <<plan.nodes = Missing, <<"missing_nodes", 0>>>>,
           <<plan.nodes = <<>>, <<"empty_nodes", 0>>>>})

check_node_id(node, i) ==
    Codes({<<node.id = "bad name" \/ node.id = Malformed, <<"invalid_node_id", i>>>>,
           <<node.id = Missing, <<"missing_node_id", i>>>>})
HasId(node) == node # Malformed /\ node.id # "bad name" /\ node.id # Malformed /\ node.id # Missing

check_depends_on(node, i) ==
    IF node.depends_on = Missing THEN {}
    ELSE IF node.depends_on = Malformed THEN {<<"invalid_depends_on", i>>}
    ELSE IF Malformed \in Entries(node.depends_on) THEN {<<"invalid_dependency", i>>} ELSE {}

check_skill(node, i) ==
    LET skill == node.skill IN
    IF skill.form # "object"
    THEN Codes({<<skill.form = "string" /\ skill.requested = "bad ref", <<"malformed_skill_ref", i>>>>,
                <<skill.form = "other", <<"invalid_skill_ref", i>>>>,
                <<skill.form = "missing", <<"missing_skill_ref", i>>>>})
    ELSE Codes({<<skill.requested = "bad ref", <<"malformed_skill_ref", i>>>>,
                <<skill.requested = Malformed, <<"invalid_skill_object", i>>>>,
                <<skill.requested = Missing, <<"missing_requested_skill", i>>>>,
                <<skill.digest \in {"bad digest", Malformed}, <<"invalid_skill_digest", i>>>>})

check_requested_grants(node, i) ==
    IF node.grants = Missing THEN {}
    ELSE IF node.grants = Malformed THEN {<<"invalid_requested_grants", i>>}
    ELSE UNION {IF grant = Malformed THEN {<<"invalid_requested_grant", i>>}
                ELSE Codes({<<grant.family = Malformed, <<"invalid_requested_grant_family", i>>>>,
                            <<grant.family = Missing, <<"missing_requested_grant_family", i>>>>,
                            <<grant.constraints = Malformed, <<"invalid_requested_grant_constraints", i>>>>,
                            <<grant.constraints = Missing, <<"missing_requested_grant_constraints", i>>>>}) :
                   grant \in Entries(node.grants)}

\* What the later checks know of a node. A dependency that is no string is dropped.
NodeInfo(node, i) ==
    [index |-> i, id |-> node.id,
     depends_on |-> IF IsArray(node.depends_on)
                    THEN SelectSeq(node.depends_on, LAMBDA d : d # Malformed) ELSE <<>>]

RECURSIVE InfosFrom(_, _)
InfosFrom(nodes, i) ==
    IF i > Len(nodes) THEN <<>>
    ELSE (IF HasId(nodes[i]) THEN <<NodeInfo(nodes[i], i)>> ELSE <<>>) \o InfosFrom(nodes, i + 1)

collect_nodes(nodes) ==
    [infos |-> InfosFrom(nodes, 1),
     diagnostics |->
        UNION {IF nodes[i] = Malformed THEN {<<"node_type", i>>}
               ELSE check_node_id(nodes[i], i) \cup check_skill(nodes[i], i)
                    \cup check_requested_grants(nodes[i], i)
                    \cup (IF HasId(nodes[i]) THEN check_depends_on(nodes[i], i) ELSE {})
                    \cup (IF HasId(nodes[i]) /\ \E j \in 1..(i - 1) : HasId(nodes[j]) /\ nodes[j].id = nodes[i].id
                          THEN {<<"duplicate_node_id", i>>} ELSE {}) : i \in DOMAIN nodes}]

Ids(infos) == {info.id : info \in Entries(infos)}

check_dependencies(infos) ==
    UNION {Codes({<<info.id \in Entries(info.depends_on), <<"self_dependency", info.index>>>>,
                  <<~(Entries(info.depends_on) \subseteq Ids(infos)), <<"unknown_dependency", info.index>>>>}) :
              info \in Entries(infos)}

\* The dependencies by id. Of nodes with the same id the last one counts.
Graph(infos) ==
    [id \in Ids(infos) |->
        infos[CHOOSE i \in DOMAIN infos : infos[i].id = id /\ \A j \in (i + 1)..Len(infos) : infos[j].id # id].depends_on]

(***************************************************************************)
(* The search for a cycle; the sets are carried along as `st`, which also  *)
(* holds the node found, or Missing.                                       *)
(***************************************************************************)
RECURSIVE find_cycle(_, _, _)
RECURSIVE Dependencies(_, _, _)

Dependencies(graph, deps, st) ==
    IF deps = <<>> \/ st.found # Missing THEN st
    ELSE Dependencies(graph, Tail(deps),
                      IF Head(deps) \in DOMAIN graph THEN find_cycle(graph, Head(deps), st) ELSE st)

find_cycle(graph, id, st) ==
    IF id \in st.visited THEN st
    ELSE IF id \in st.visiting THEN [st EXCEPT !.found = id]
    ELSE LET after == Dependencies(graph, graph[id], [st EXCEPT !.visiting = @ \cup {id}])
         IN  IF after.found # Missing THEN after
             ELSE [after EXCEPT !.visiting = @ \ {id}, !.visited = @ \cup {id}]

RECURSIVE CycleFrom(_, _, _)
CycleFrom(graph, infos, st) ==
    IF infos = <<>> \/ st.found # Missing THEN st.found
    ELSE CycleFrom(graph, Tail(infos), find_cycle(graph, Head(infos).id, st))

\* The id a cycle was found at, or Missing.
check_cycles(infos) == CycleFrom(Graph(infos), infos, [visiting |-> {}, visited |-> {}, found |-> Missing])

RECURSIVE Closure(_, _, _)
Closure(graph, stack, accessible) ==
    IF stack = <<>> THEN accessible
    ELSE LET id == stack[Len(stack)] rest == SubSeq(stack, 1, Len(stack) - 1)
         IN  IF id \in accessible THEN Closure(graph, rest, accessible)
             ELSE Closure(graph, rest \o (IF id \in DOMAIN graph THEN graph[id] ELSE <<>>),
                          accessible \cup {id})

accessible_dependencies(info, infos) == Closure(Graph(infos), info.depends_on, {})

\* Mutant: any node of the plan may be referred to.
check_reference_text_any_node(text, accessible, ids) ==
    IF text.shape # "ok" \/ text.root \in {"item", "env"} THEN {"unsupported_reference"}
    ELSE IF text.root \in ids \cup {"input"} THEN {} ELSE {"unknown_reference"}

\* `$input.x` is the plan's input, even if a node is called "input".
check_reference_text(text, accessible, ids) ==
    IF text.shape # "ok" THEN {"unsupported_reference"}
    ELSE IF text.root = "input" THEN {}
    ELSE IF text.root \in {"item", "env"} THEN {"unsupported_reference"}
    ELSE IF text.root \notin ids THEN {"unknown_reference"}
    ELSE IF text.root \notin accessible THEN {"inaccessible_reference"} ELSE {}

scan_references(node, i, accessible, ids) ==
    {<<code, i>> : code \in UNION {check_reference_text(t, accessible, ids) : t \in node.texts}}

check_node_references(nodes, infos) ==
    UNION {scan_references(nodes[info.index], info.index, accessible_dependencies(info, infos), Ids(infos)) :
              info \in Entries(infos)}

validate_semantics(plan) ==
    LET collected == collect_nodes(plan.nodes) infos == collected.infos IN
    check_forbidden_runtime_truth_fields(plan) \cup check_top_level(plan) \cup
    (IF ~IsArray(plan.nodes) \/ plan.nodes = <<>> THEN {}
     ELSE collected.diagnostics \cup check_dependencies(infos)
          \cup (IF check_cycles(infos) = Missing THEN {} ELSE {<<"dependency_cycle", 0>>})
          \cup check_node_references(plan.nodes, infos))

\* What the JSON schema says of a node: no field it does not know, no object for a skill, no
\* dependency twice.
SchemaNode(node) ==
    IF node = Malformed THEN {"schema.invalid_shape"}
    ELSE Codes({<<node.id = Missing \/ node.skill.form = "missing", "schema.missing_required_field">>,
                <<node.forbidden \ {"args"} # {}, "schema.additional_property">>,
                <<node.id = "bad name" \/ node.id = Malformed \/ node.skill.form \in {"object", "other"}
                  \/ (node.skill.form = "string" /\ node.skill.requested # "ref")
                  \/ node.depends_on = Malformed \/ node.grants = Malformed, "schema.invalid_shape">>})
         \cup (IF /\ IsArray(node.depends_on)
                  /\ \/ Cardinality(Entries(node.depends_on)) # Len(node.depends_on)
                     \/ Entries(node.depends_on) \cap {Malformed, "bad name"} # {}
               THEN {"schema.invalid_shape"} ELSE {})
         \cup (IF ~IsArray(node.grants) THEN {}
               ELSE UNION {IF grant = Malformed THEN {"schema.invalid_shape"}
                           ELSE Codes({<<Missing \in {grant.family, grant.constraints}, "schema.missing_required_field">>,
                                       <<Malformed \in {grant.family, grant.constraints}, "schema.invalid_shape">>}) :
                              grant \in Entries(node.grants)})

validate_schema(plan) ==
    LET fields == {plan.kind, plan.version, plan.name} IN
    {<<code, 0>> : code \in
        Codes({<<Missing \in fields \/ plan.nodes = Missing, "schema.missing_required_field">>,
               <<Malformed \in fields \/ plan.nodes \in {Malformed, <<>>}, "schema.invalid_shape">>,
               <<plan.forbidden # {}, "schema.additional_property">>})}
    \cup (IF ~IsArray(plan.nodes) THEN {}
          ELSE UNION {{<<code, i>> : code \in SchemaNode(plan.nodes[i])} : i \in DOMAIN plan.nodes})

validate_value(plan) == validate_schema(plan) \cup validate_semantics(plan)

\* A file that is no JSON has one diagnostic of its own.
read_validated_plan(file) ==
    IF file = Malformed THEN {<<"parse_error", 0>>} ELSE validate_value(file)

(***************************************************************************)
(* The preview: nodes in the order they could run in.                      *)
(***************************************************************************)
\* The dependencies of node i that are in the plan and have not been emitted.
Waiting(nodes, i, emitted) ==
    {d \in Entries(nodes[i].depends_on) \ {Malformed} :
        LET named == {j \in DOMAIN nodes : nodes[j].id = d}
        IN  named # {} /\ (CHOOSE j \in named : \A k \in named : k <= j) \notin emitted}

\* One pass over the document: each node none of whose dependencies is missing is emitted.
RECURSIVE Pass(_, _, _)
Pass(nodes, i, ordered) ==
    IF i > Len(nodes) THEN ordered
    ELSE IF i \in Entries(ordered) \/ Waiting(nodes, i, Entries(ordered)) # {}
    THEN Pass(nodes, i + 1, ordered) ELSE Pass(nodes, i + 1, Append(ordered, i))

\* Passes until every node is there, or until one brings nothing.
RECURSIVE Passes(_, _)
Passes(nodes, ordered) ==
    LET next == Pass(nodes, 1, ordered) IN
    IF Len(next) = Len(nodes) THEN next
    ELSE IF next = ordered THEN ordered \o SelectSeq([i \in DOMAIN nodes |-> i], LAMBDA i : i \notin Entries(ordered))
    ELSE Passes(nodes, next)

topologically_order_node_indexes(nodes) ==
    Passes([i \in DOMAIN nodes |-> [nodes[i] EXCEPT !.depends_on = IF @ = Missing THEN <<>> ELSE @]], <<>>)

\* Requested grants stay requests; args and references are shown as declared.
build_node_preview(ordinal, node) ==
    [ordinal |-> ordinal, id |-> node.id, requested_grants |-> node.grants, depends_on |-> node.depends_on]

build_plan_preview(plan) ==
    LET order == topologically_order_node_indexes(plan.nodes)
    IN  [k \in DOMAIN order |-> build_node_preview(k, plan.nodes[order[k]])]

preview_path(file) ==
    LET diagnostics == read_validated_plan(file)
    IN  IF diagnostics = {} THEN [kind |-> "preview", nodes |-> build_plan_preview(file)]
        ELSE [kind |-> "invalid", diagnostics |-> diagnostics]

\* The examples of the docs: the valid ones pass, each other one has the codes it is about.
validate_examples(valid, invalid, expected_invalid_codes) ==
    /\ valid # <<>> /\ invalid # <<>>
    /\ \A i \in DOMAIN valid : read_validated_plan(valid[i]) = {}
    /\ \A i \in DOMAIN invalid :
          expected_invalid_codes[i] \subseteq {d[1] : d \in read_validated_plan(invalid[i])}

\* `axiom-plan validate` and `axiom-plan preview` of one file.
axiom_plan(file) ==
    /\ reviewed = Missing
    /\ reviewed' = [file |-> file, diagnostics |-> read_validated_plan(file), preview |-> preview_path(file)]

(***************************************************************************)
(* Properties.                                                             *)
(***************************************************************************)
RECURSIVE Reach(_, _)
Reach(graph, ids) ==
    LET next == ids \cup UNION {Entries(graph[id]) : id \in ids \cap DOMAIN graph}
    IN  IF next = ids THEN ids ELSE Reach(graph, next)
OnCycle(graph, id) == id \in DOMAIN graph /\ id \in Reach(graph, Entries(graph[id]))

\* The search for a cycle says there is one exactly if some node can be reached from itself,
\* and the node it names is on a cycle, however the paths meet and in whatever order the
\* nodes stand (check_cycles, find_cycle).
CyclesAreFound ==
    reviewed # Missing /\ reviewed.file # Malformed /\ IsArray(reviewed.file.nodes) =>
        LET infos == collect_nodes(reviewed.file.nodes).infos
            graph == Graph(infos)
            found == check_cycles(infos)
        IN  IF found = Missing THEN \A id \in DOMAIN graph : ~OnCycle(graph, id)
            ELSE OnCycle(graph, found)

Accepted == reviewed # Missing /\ reviewed.preview.kind = "preview"

\* A plan that passes validation is previewed in an order it could run in: every node once,
\* behind all it depends on; the nodes that wait for nothing stand in document order
\* (topologically_order_node_indexes). An invalid one is never previewed.
PreviewFollowsDependencies ==
    /\ reviewed # Missing => (reviewed.diagnostics = {}) = (reviewed.preview.kind = "preview")
    /\ Accepted =>
        LET shown == reviewed.preview.nodes nodes == reviewed.file.nodes
            free == SelectSeq(nodes, LAMBDA n : n.depends_on \in {Missing, <<>>})
        IN  /\ Len(shown) = Len(nodes)
            /\ \A n \in Entries(nodes) : \E k \in DOMAIN shown : shown[k].id = n.id
            /\ \A k \in DOMAIN shown : IsArray(shown[k].depends_on) =>
                  \A d \in Entries(shown[k].depends_on) : \E j \in 1..(k - 1) : shown[j].id = d
            /\ \A a, b \in DOMAIN free : a < b =>
                  \E j, k \in DOMAIN shown : j < k /\ shown[j].id = free[a].id /\ shown[k].id = free[b].id

\* In a plan that passes validation a reference `$node.field` names a node that is previewed
\* before the one that uses it: two functions that walk the graph in different ways agree
\* (accessible_dependencies, topologically_order_node_indexes).
ReferencesReachBack ==
    Accepted =>
        LET shown == reviewed.preview.nodes
            place(id) == CHOOSE k \in DOMAIN shown : shown[k].id = id
        IN  \A n \in Entries(reviewed.file.nodes) : \A t \in n.texts :
               t.shape = "ok" /\ (t.root = "input" \/ place(t.root) < place(n.id))

================================================================================
