-------------------------------- MODULE Lineage --------------------------------
(***************************************************************************)
(* The two walks over the lineage of an execution: `guild why --lineage`   *)
(* (load_why_lineage in crates/guild-mcp/src/cli.rs) and the skill         *)
(* explain-execution-tree (examples/skills/explain-execution-tree).        *)
(*                                                                         *)
(* Both follow the links of stored records. A record written by the runner *)
(* has one parent and its links form a tree; a record edited or restored   *)
(* by hand may name anything, so a store `g` is any pair of link maps:     *)
(*   g.parent[x], g.children[x]   the links of record x                    *)
(*   g.readable                   the records that can be loaded           *)
(*   g.facts[x]                   what else the tree walk reads of x       *)
(* A walk is a record of what it has collected, passed from call to call.  *)
(***************************************************************************)
EXTENDS Naturals, Sequences, FiniteSets

CONSTANTS NoParent,
          NOTABLE_EVIDENCE_LIMIT,
          SampleLimit          \* executions an aggregate names, 4 in the code

VARIABLE walked    \* a store and what the two walks made of it, or NoParent

Warn(st, code, x, depth) ==
    [st EXCEPT !.warnings = Append(@, [code |-> code, at |-> x, depth |-> depth])]

(***************************************************************************)
(* guild why --lineage                                                     *)
(***************************************************************************)
RECURSIVE load_ancestry(_, _, _, _)
\* Mutant: the ancestors beyond the limit are left out without a word.
load_ancestry_silent_cut(g, limits, st, next) ==
    IF next = NoParent \/ Len(st.ancestry) >= limits.max_depth \/ next \in st.seen
       \/ st.nodes >= limits.max_nodes THEN st
    ELSE IF next \notin g.readable THEN Warn(st, "parent-read-failed", next, Len(st.ancestry) + 1)
    ELSE load_ancestry(g, limits,
                       [st EXCEPT !.ancestry = <<next>> \o @, !.seen = @ \cup {next}, !.nodes = @ + 1],
                       g.parent[next])

load_ancestry(g, limits, st, next) ==
    LET depth == Len(st.ancestry) IN
    IF next = NoParent THEN st
    ELSE IF depth >= limits.max_depth THEN Warn(st, "max-depth-reached", next, depth + 1)
    ELSE IF st.nodes >= limits.max_nodes THEN Warn(st, "max-nodes-reached", next, depth + 1)
    ELSE IF next \in st.seen THEN Warn(st, "execution-uri-revisited", next, depth + 1)
    ELSE IF next \notin g.readable THEN Warn(st, "parent-read-failed", next, depth + 1)
    ELSE load_ancestry(g, limits,
                       [st EXCEPT !.ancestry = <<next>> \o @, !.seen = @ \cup {next}, !.nodes = @ + 1],
                       g.parent[next])

RECURSIVE visit(_, _, _, _, _)
RECURSIVE visit_children(_, _, _, _, _)

\* The links of one record, in order; `children` is what is left of them.
visit_children(g, limits, st, children, depth) ==
    IF children = <<>> THEN st
    ELSE LET child == Head(children)
             rest(s) == visit_children(g, limits, s, Tail(children), depth)
         IN  IF st.nodes >= limits.max_nodes THEN Warn(st, "max-nodes-reached", child, depth)
             ELSE IF child \in st.seen THEN rest(Warn(st, "execution-uri-revisited", child, depth))
             ELSE IF child \notin g.readable THEN rest(Warn(st, "child-read-failed", child, depth))
             ELSE rest(visit(g, limits, st, child, depth))

visit(g, limits, st, x, depth) ==
    LET listed == [st EXCEPT !.nodes = IF depth > 0 THEN @ + 1 ELSE @,
                             !.seen = @ \cup {x}, !.listed = Append(@, <<depth, x>>)]
    IN  IF x \in st.seen THEN Warn(st, "execution-uri-revisited", x, depth)
        ELSE IF depth > 0 /\ st.nodes >= limits.max_nodes THEN Warn(st, "max-nodes-reached", x, depth)
        ELSE IF depth >= limits.max_depth
        THEN IF g.children[x] = <<>> THEN listed ELSE Warn(listed, "max-depth-reached", x, depth)
        ELSE visit_children(g, limits, listed, g.children[x], depth + 1)

\* The record itself counts as the first node; it is forgotten once, so that the second
\* walk can list it.
load_why_lineage(g, limits, x) ==
    LET up == load_ancestry(g, limits, [ancestry |-> <<>>, listed |-> <<>>, warnings |-> <<>>,
                                        nodes |-> 1, seen |-> {x}], g.parent[x])
    IN  visit(g, limits, [up EXCEPT !.seen = @ \ {x}], x, 0)

(***************************************************************************)
(* explain-execution-tree: the same walk downwards, and sums of what the   *)
(* records say. facts[x] = [status, termination, policy_rejected,          *)
(* evidence], evidence being the URIs of the records x emitted.            *)
(***************************************************************************)
Bump(counts, key) ==
    [k \in DOMAIN counts \cup {key} |->
        (IF k \in DOMAIN counts THEN counts[k] ELSE 0) + (IF k = key THEN 1 ELSE 0)]

record_aggregate(map, key, x) ==
    [k \in DOMAIN map \cup {key} |->
        IF k # key THEN map[k]
        ELSE IF key \notin DOMAIN map THEN [count |-> 1, samples |-> <<x>>]
        ELSE [count |-> map[key].count + 1,
              samples |-> IF /\ Len(map[key].samples) < SampleLimit
                             /\ \A i \in DOMAIN map[key].samples : map[key].samples[i] # x
                          THEN Append(map[key].samples, x) ELSE map[key].samples]]

record_termination_summary(st, x, termination) ==
    IF termination = NoParent THEN st
    ELSE [st EXCEPT !.terminations = record_aggregate(@, termination, x)]

record_denial_summary(st, x, fact) ==
    IF fact.status # "rejected" /\ ~fact.policy_rejected THEN st
    ELSE IF fact.termination # NoParent
    THEN [st EXCEPT !.denials = record_aggregate(@, fact.termination, x)]
    ELSE IF fact.policy_rejected
    THEN [st EXCEPT !.denials = record_aggregate(@, "policy-rejected", x)] ELSE st

\* The metadata of the first few records is read too, if asked for and granted.
RECURSIVE record_evidence(_, _, _)
record_evidence(st, uris, describe) ==
    IF uris = <<>> THEN st
    ELSE LET uri == Head(uris)
             noted == [st EXCEPT
                !.evidence = @ + 1, !.seen_evidence = @ \cup {uri},
                !.notable = IF uri \notin st.seen_evidence /\ Len(@) < NOTABLE_EVIDENCE_LIMIT
                            THEN Append(@, uri) ELSE @,
                !.descriptors = IF describe /\ Len(@) < NOTABLE_EVIDENCE_LIMIT
                                THEN Append(@, uri) ELSE @]
         IN  record_evidence(noted, Tail(uris), describe)

record_execution(st, x, fact, depth, describe) ==
    LET counted == [st EXCEPT !.nodes = @ + 1, !.seen = @ \cup {x},
                              !.depth = IF depth > @ THEN depth ELSE @,
                              !.statuses = Bump(@, fact.status),
                              !.listed = Append(@, <<depth, x>>)]
        ended == record_termination_summary(counted, x, fact.termination)
    IN  record_evidence(record_denial_summary(ended, x, fact), fact.evidence, describe)

Truncate(st, code, x, depth) == [Warn(st, code, x, depth) EXCEPT !.truncated = TRUE]

RECURSIVE visit_execution_record(_, _, _, _, _)
RECURSIVE visit_links(_, _, _, _, _, _)

visit_links(g, config, st, x, links, depth) ==
    IF links = <<>> THEN st
    ELSE LET child == Head(links)
             rest(s) == visit_links(g, config, s, x, Tail(links), depth)
         IN  IF st.nodes >= config.max_nodes THEN Truncate(st, "max-nodes-reached", x, depth)
             ELSE IF child \in st.seen
             THEN rest(Truncate(st, "execution-uri-revisited", child, depth))
             ELSE IF child \notin g.readable THEN rest(Warn(st, "child-read-failed", child, depth))
             ELSE rest(visit_execution_record(g, config, st, child, depth))

visit_execution_record(g, config, st, x, depth) ==
    LET recorded == record_execution(st, x, g.facts[x], depth, config.describe) IN
    IF st.nodes >= config.max_nodes THEN Truncate(st, "max-nodes-reached", x, depth)
    ELSE IF x \in st.seen THEN Truncate(st, "execution-uri-revisited", x, depth)
    ELSE IF depth >= config.max_depth
    THEN IF g.children[x] = <<>> THEN recorded ELSE Truncate(recorded, "max-depth-reached", x, depth)
    ELSE visit_links(g, config, recorded, x, g.children[x], depth + 1)

NewTraversal ==
    [nodes |-> 0, seen |-> {}, listed |-> <<>>, warnings |-> <<>>, truncated |-> FALSE, depth |-> 0,
     statuses |-> [s \in {"succeeded", "failed", "partial", "rejected"} |-> 0],
     terminations |-> <<>>, denials |-> <<>>, evidence |-> 0, seen_evidence |-> {},
     notable |-> <<>>, descriptors |-> <<>>]

\* A grant to read every record of evidence. One limited to a broader prefix does not count.
can_read_object_record_resources(grants) ==
    \E grant \in grants :
        /\ grant.id = "read-resource"
        /\ grant.kinds = {} \/ "object" \in grant.kinds
        /\ grant.prefixes = {} \/ "guild://objects/records/" \in grant.prefixes

\* The whole skill; the root record is read before the walk starts.
explain_execution_tree(g, input, x) ==
    LET granted == can_read_object_record_resources(input.grants)
        config == [max_depth |-> input.max_depth, max_nodes |-> input.max_nodes,
                   describe |-> input.include_evidence_resources /\ granted]
        st == visit_execution_record(g, config, NewTraversal, x, 0)
    IN  IF input.include_evidence_resources /\ st.evidence > 0 /\ ~granted
        THEN Warn(st, "object-scope-not-granted", x, 0) ELSE st

(***************************************************************************)
(* Both walks of one store, from the same record and with the same limits. *)
(***************************************************************************)
Walk(g, input, x) ==
    /\ walked = NoParent /\ x \in g.readable
    /\ walked' = [g |-> g, input |-> input, x |-> x,
                  why |-> load_why_lineage(g, input, x),
                  tree |-> explain_execution_tree(g, input, x)]

(***************************************************************************)
(* Properties.                                                             *)
(***************************************************************************)
Listed(list) == {list[i][2] : i \in DOMAIN list}

RECURSIVE Above(_, _, _)
Above(g, x, fuel) ==
    IF fuel = 0 \/ g.parent[x] = NoParent THEN {}
    ELSE {g.parent[x]} \cup Above(g, g.parent[x], fuel - 1)

RECURSIVE Below(_, _)
Below(g, reached) ==
    LET next == reached \cup UNION {{g.children[x][i] : i \in DOMAIN g.children[x]} : x \in reached}
    IN  IF next = reached THEN reached ELSE Below(g, next)

\* However the links of the stored records run, in circles too, each walk ends, lists no
\* execution twice, and stays within the depth and the node limit; `why` counts ancestors
\* and descendants together (load_why_lineage, visit_execution_record).
LineageIsBounded ==
    walked # NoParent =>
        LET why == walked.why tree == walked.tree
            above == {why.ancestry[i] : i \in DOMAIN why.ancestry}
        IN  /\ Cardinality(Listed(why.listed)) = Len(why.listed)
            /\ Cardinality(above) = Len(why.ancestry) /\ above \cap Listed(why.listed) = {}
            /\ Len(why.ancestry) + Len(why.listed) <= walked.input.max_nodes
            /\ Len(why.ancestry) <= walked.input.max_depth
            /\ Cardinality(Listed(tree.listed)) = Len(tree.listed)
            /\ Len(tree.listed) = tree.nodes /\ tree.nodes <= walked.input.max_nodes
            /\ \A list \in {why.listed, tree.listed} :
                   \A i \in DOMAIN list : list[i][1] <= walked.input.max_depth

\* A lineage printed without a warning is the whole of it: every ancestor, and everything
\* that can be reached through child links, is listed. Nothing is cut off silently.
UnwarnedLineageIsComplete ==
    walked # NoParent =>
        LET g == walked.g why == walked.why tree == walked.tree
            below == Below(g, {walked.x})
        IN  /\ why.warnings = <<>> =>
                   /\ Listed(why.listed) = below
                   /\ {why.ancestry[i] : i \in DOMAIN why.ancestry}
                         = Above(g, walked.x, Cardinality(DOMAIN g.parent))
            /\ {i \in DOMAIN tree.warnings :
                    tree.warnings[i].code # "object-scope-not-granted"} = {}
                  => Listed(tree.listed) = below
            /\ tree.truncated => tree.warnings # <<>>

\* For an execution without a parent, `guild why` and the skill tell the same story: the
\* same executions at the same depths in the same order, cut off at the same places for the
\* same reasons (WhyDescendantTraversal::visit, visit_execution_record).
WalksAgree ==
    walked # NoParent /\ walked.g.parent[walked.x] = NoParent =>
        LET told(w) == SelectSeq(w.warnings, LAMBDA v : v.code # "object-scope-not-granted")
            why == told(walked.why) tree == told(walked.tree)
        IN  /\ walked.why.listed = walked.tree.listed
            /\ Len(why) = Len(tree)
            /\ \A i \in DOMAIN why : why[i].code = tree[i].code /\ why[i].depth = tree[i].depth

Having(P(_)) == Cardinality({x \in Listed(walked.tree.listed) : P(walked.g.facts[x])})
CountOf(map, key) == IF key \in DOMAIN map THEN map[key].count ELSE 0

\* The sums of the tree count every listed execution once: by status, by termination and by
\* denial (a rejected one by its termination, or else as policy-rejected). Only the lists of
\* examples are cut at their limits, and they hold no record twice
\* (TraversalState::record_status, record_aggregate, record_evidence).
TreeSumsAddUp ==
    walked # NoParent =>
        LET tree == walked.tree facts == walked.g.facts
            endings == {facts[x].termination : x \in DOMAIN facts} \ {NoParent}
            rejected(f) == f.status = "rejected" \/ f.policy_rejected
            sampled(map) == \A k \in DOMAIN map : Len(map[k].samples) <= map[k].count
                                                  /\ Len(map[k].samples) <= SampleLimit
        IN  /\ \A s \in DOMAIN tree.statuses : tree.statuses[s] = Having(LAMBDA f : f.status = s)
            /\ \A t \in endings :
                  /\ CountOf(tree.terminations, t) = Having(LAMBDA f : f.termination = t)
                  /\ CountOf(tree.denials, t) = Having(LAMBDA f : f.termination = t /\ rejected(f))
            /\ CountOf(tree.denials, "policy-rejected")
                  = Having(LAMBDA f : f.policy_rejected /\ f.termination = NoParent)
            /\ sampled(tree.terminations) /\ sampled(tree.denials)
            /\ Cardinality({tree.notable[i] : i \in DOMAIN tree.notable}) = Len(tree.notable)
            /\ Len(tree.notable) = IF Cardinality(tree.seen_evidence) < NOTABLE_EVIDENCE_LIMIT
                                   THEN Cardinality(tree.seen_evidence) ELSE NOTABLE_EVIDENCE_LIMIT
            /\ tree.descriptors # <<>> => can_read_object_record_resources(walked.input.grants)

\* Both walks end within their limits, leave nothing out without a warning, and tell the
\* same story with sums that add up, however the records link to each other.
WalksAreHonest ==
    LineageIsBounded /\ UnwarnedLineageIsComplete /\ WalksAgree /\ TreeSumsAddUp

================================================================================
