------------------------------ MODULE LiveProof ------------------------------
(***************************************************************************)
(* `prove_live_authority' of guild-runner: starting from one execution of  *)
(* a skill under an envelope of grants, it looks for a smaller envelope    *)
(* under which the skill still does the same.  It goes through the         *)
(* capability families one at a time; for each it runs the skill again     *)
(* with the family removed, then with the family cut down to what the      *)
(* baseline was observed to use, and compares a projection of every run    *)
(* with the projection of the baseline.  What it cannot settle is left in  *)
(* the residual authority.                                                 *)
(*                                                                         *)
(* A grant is its family with the set of uses it allows; how constraints   *)
(* are written and reduced field by field is the business of Policy.       *)
(* Vectors of grants are sets.  A skill is what its component does: it     *)
(* follows one of its ways, which is a sequence of host calls.  It may     *)
(* look at its grants first (they are part of the context a guest gets)    *)
(* and take the first way they allow.  Reason codes and notes are left     *)
(* out, and a digest of replay inputs is the set of what it binds.         *)
(***************************************************************************)
EXTENDS Naturals, Sequences, FiniteSets, Functions

CONSTANTS
    Skills,     \* name -> [ways, adaptive, timed, echoes, required]
    Envelopes,  \* the envelopes that a proof may start from: sets of grants
    FamilyOf,   \* use -> family
    Immutable,  \* the uses whose answer is the same in every run
    Provable,   \* the uses of a shape the search knows how to narrow
    Fixtures,   \* BOOLEAN: the runner has HTTP replay fixtures
    Nothing

VARIABLES
    proved, comparator, envelope,   \* the arguments of the call
    world,      \* what mutable uses, and the clock in the context, answer from
    baseline,   \* [record, projection] of the first run
    at,         \* index in FamilyOrder of the family being worked on
    step,       \* what to do next for it
    reduced,    \* its grants, cut down to the observed use
    left,       \* subsets of reduced that are still to be tried
    beaten,     \* some strict subset did as well
    proven, residual, statuses, trials

proof_vars == <<proved, comparator, envelope, world, baseline, at, step, reduced, left, beaten,
          proven, residual, statuses, trials>>

FamilyOrder == <<"http-request", "read-resource", "invoke-skill", "emit-evidence", "log-write">>

Families == Range(FamilyOrder)

\* A grant names a family of the search and uses that belong to this family.
ASSUME EnvelopesAssumption ==
    \A e \in Envelopes :
        /\ e \subseteq [family : Families, scope : SUBSET DOMAIN FamilyOf]
        /\ \A g \in e : \A u \in g.scope : FamilyOf[u] = g.family

\* A component has a first way to go, and its ways are sequences of uses.
ASSUME SkillsAssumption ==
    \A n \in DOMAIN Skills :
        /\ 1 \in DOMAIN Skills[n].ways /\ DOMAIN Skills[n].ways \subseteq Nat
        /\ \A i \in DOMAIN Skills[n].ways : Skills[n].ways[i].calls \in Seq(DOMAIN FamilyOf)

Comparators == {"exact", "normalized", "single-child", "multi-child", "single-sink"}

-----------------------------------------------------------------------------
(* One execution of the skill *)

Allowed(grants) == UNION {g.scope : g \in grants}

Permits(grants, way) == Range(way.calls) \subseteq Allowed(grants)

\* The way the component takes under these grants.
WayOf(s, grants) ==
    LET open == {i \in DOMAIN s.ways : Permits(grants, s.ways[i])}
    IN  IF s.adaptive /\ open # {} THEN s.ways[CHOOSE i \in open : \A j \in open : i <= j]
        ELSE s.ways[1]

\* A host call that is not allowed traps: what came before it was exercised.
Exercised(grants, calls) ==
    LET blocked == {i \in DOMAIN calls : calls[i] \notin Allowed(grants)}
    IN  IF blocked = {} THEN calls
        ELSE SubSeq(calls, 1, (CHOOSE i \in blocked : \A j \in blocked : i <= j) - 1)

\* The error of an execution that was refused before anything ran.
Refused == [status |-> "refused", says |-> Nothing, sees |-> 0, echo |-> {}, calls |-> <<>>,
            blocked |-> <<>>]

\* Runner::execute: grants that do not cover the required capabilities are refused.
Execute(s, grants, w) ==
    LET way == WayOf(s, grants)
        done == Exercised(grants, way.calls)
        ok == done = way.calls
    IN  IF ~(s.required \subseteq Allowed(grants)) THEN Refused
        ELSE [status |-> IF ok THEN "succeeded" ELSE "rejected",
              says |-> IF ok THEN way.says ELSE Nothing,
              sees |-> IF ~s.timed /\ Range(done) \subseteq Immutable THEN 0 ELSE w,
              echo |-> IF ok /\ s.echoes THEN grants ELSE {},
              calls |-> done,
              blocked |-> IF ok THEN <<>> ELSE <<way.calls[Len(done) + 1]>>]

\* The calls of one family, in their order (SelectSeq, by the rank of the places it takes).
Of(family, calls) ==
    LET places == {i \in DOMAIN calls : FamilyOf[calls[i]] = family}
        place(k) == CHOOSE i \in places : Cardinality({j \in places : j <= i}) = k
    IN  [k \in 1..Cardinality(places) |-> calls[place(k)]]

-----------------------------------------------------------------------------
(* Comparing runs.  `id' is what the host mints anew for every run: evidence  *)
(* URIs and the URIs of child executions.                                     *)

\* Mutant: the single-sink comparator forgets what was emitted.
normalized_execution_projection_no_sink(record, id, c) ==
    [status |-> record.status, says |-> record.says, sees |-> record.sees,
     echo |-> IF c = "exact" THEN record.echo ELSE {},
     evidence |-> IF c = "exact" /\ Of("emit-evidence", record.calls) # <<>> THEN {id} ELSE {},
     children |-> IF c \in {"single-child", "multi-child"} \/ Of("invoke-skill", record.calls) = <<>>
                  THEN [calls |-> Of("invoke-skill", record.calls), ids |-> {}]
                  ELSE [calls |-> <<>>, ids |-> {id}],
     emitted |-> <<>>]

normalized_execution_projection(record, id, c) ==
    [status |-> record.status, says |-> record.says, sees |-> record.sees,
     echo |-> IF c = "exact" THEN record.echo ELSE {},
     evidence |-> IF c = "exact" /\ Of("emit-evidence", record.calls) # <<>> THEN {id} ELSE {},
     children |-> IF c \in {"single-child", "multi-child"} \/ Of("invoke-skill", record.calls) = <<>>
                  THEN [calls |-> Of("invoke-skill", record.calls), ids |-> {}]
                  ELSE [calls |-> <<>>, ids |-> {id}],
     emitted |-> IF c = "single-sink"
                 THEN <<Of("emit-evidence", record.calls), Of("emit-evidence", record.blocked)>>
                 ELSE <<>>]

\* run_family_trial: the candidate is accepted.
Matches(grants, w, id) ==
    LET record == Execute(Skills[proved], grants, w)
    IN  /\ record.status # "refused"
        /\ normalized_execution_projection(record, id, comparator) = baseline.projection
        /\ record.status = "succeeded"

-----------------------------------------------------------------------------
(* Cutting a family down to what the baseline used *)

family_grants(grants, family) == {g \in grants : g.family = family}

remove_family_grants(grants, family) == grants \ family_grants(grants, family)

replace_family_grants(grants, family, new) == remove_family_grants(grants, family) \cup new

Used(family) == Of(family, baseline.record.calls)

Blocked(family) == Of(family, baseline.record.blocked)

\* So many exercised calls, all of one provable kind, none blocked.
ExactSlice(family, n) ==
    /\ Len(Used(family)) = n /\ Blocked(family) = <<>>
    /\ Cardinality(Range(Used(family))) = 1 /\ Range(Used(family)) \subseteq Provable

\* Provable: a GET or HEAD of a loopback address over plain HTTP, without query, fragment,
\* redirect or error.
observed_http_request_cap == ExactSlice("http-request", 1)

\* Provable: a declared dependency, pinned by digest, whose persisted record is an inspect
\* execution that agrees with the observation, holds no authority and invoked nothing.
observed_invoke_skill_slice(n) == ExactSlice("invoke-skill", n)

observed_invoke_skill_slice_for_comparator ==
    \/ comparator = "single-child" /\ observed_invoke_skill_slice(1)
    \/ comparator = "multi-child" /\ observed_invoke_skill_slice(2)

\* Provable: one emission whose persisted record agrees with the observation, into the
\* local object store.
observed_emit_evidence_slice == ExactSlice("emit-evidence", 1)

\* One cap with all observed scopes, or Nothing when one of them is mutable.
observed_read_resource_caps ==
    IF ~(Range(Used("read-resource")) \subseteq Provable) THEN Nothing
    ELSE {Range(Used("read-resource"))} \ {{}}

\* One cap for every observed level.
observed_log_caps == {{u} : u \in Range(Used("log-write"))}

\* reduce_grant_to_cap_set over the grants of a family.
Reduce(family, caps) ==
    {r \in {[family |-> family, scope |-> g.scope \cap cap] :
                g \in family_grants(envelope, family), cap \in caps} : r.scope # {}}

\* An emit-evidence grant has to cover the exact slice.
emit_evidence_constraints_cover(grant) == Range(Used("emit-evidence")) \subseteq grant.scope

\* Whether the reduced grants still stand for everything that was observed.
grants_collectively_cover(family, grants) ==
    grants # {} /\ Range(Used(family)) \subseteq Allowed(grants)

proper_nonempty_subsets(grants) == (SUBSET grants) \ {{}, grants}

-----------------------------------------------------------------------------
(* The search *)

ProofTypeOK ==
    /\ proved \in DOMAIN Skills /\ comparator \in Comparators /\ envelope \in Envelopes
    /\ world \in 0..1 /\ at \in 1..6 /\ beaten \in BOOLEAN
    /\ step \in {"baseline", "observe", "remove", "shrink", "subsets", "done", "failed"}
    /\ proven \cup residual \cup reduced \subseteq [family : Families, scope : SUBSET DOMAIN FamilyOf]
    /\ left \subseteq SUBSET reduced
    /\ \A f \in DOMAIN statuses :
        /\ statuses[f].support \in {"supported", "bounded", "not_proven"}
        /\ statuses[f].proof \in {"exact_minimal", "bounded_minimal", "no_reduction", "reduced",
                                  "not_proven"}

ProofInit ==
    /\ proved \in DOMAIN Skills /\ comparator \in Comparators /\ envelope \in Envelopes
    /\ world = 0 /\ baseline = Nothing /\ at = 1 /\ step = "baseline"
    /\ reduced = {} /\ left = {} /\ beaten = FALSE
    /\ proven = {} /\ residual = {} /\ statuses = <<>> /\ trials = <<>>

Asked == <<proved, comparator, envelope>>

Family == FamilyOrder[at]

\* The baseline: an error ends the call, a run that was rejected does not.
Baseline ==
    /\ step = "baseline"
    /\ LET record == Execute(Skills[proved], envelope, world)
       IN  IF record.status = "refused" THEN step' = "failed" /\ UNCHANGED baseline
           ELSE /\ baseline' = [record |-> record,
                                projection |-> normalized_execution_projection(record, 0, comparator)]
                /\ step' = "observe"
    /\ UNCHANGED <<Asked, world, at, reduced, left, beaten, proven, residual, statuses, trials>>

\* Mutable resources and remote answers change while the search runs.
WorldChanges ==
    /\ step \notin {"baseline", "done", "failed"} /\ world = 0
    /\ world' = 1
    /\ UNCHANGED <<Asked, baseline, at, step, reduced, left, beaten, proven, residual, statuses,
                   trials>>

\* Mutant: the residual authority is that of the last family.
Conclude_drops_residual(grants, rest, support, proof) ==
    /\ proven' = proven \cup grants /\ residual' = rest
    /\ statuses' = Append(statuses, [family |-> Family, support |-> support, proof |-> proof])
    /\ at' = at + 1 /\ step' = IF at = 5 THEN "done" ELSE "observe"
    /\ reduced' = {} /\ left' = {} /\ beaten' = FALSE

\* The end of prove_live_authority's loop body: what a family adds to the outcome.
Conclude(grants, rest, support, proof) ==
    /\ proven' = proven \cup grants /\ residual' = residual \cup rest
    /\ statuses' = Append(statuses, [family |-> Family, support |-> support, proof |-> proof])
    /\ at' = at + 1 /\ step' = IF at = 5 THEN "done" ELSE "observe"
    /\ reduced' = {} /\ left' = {} /\ beaten' = FALSE

not_proven == Conclude({}, family_grants(envelope, Family), "not_proven", "not_proven")

Goto(s) == step' = s /\ UNCHANGED <<at, left, beaten, proven, residual, statuses>>

Try(kind, grants) ==
    /\ trials' = Append(trials, [family |-> Family, kind |-> kind, grants |-> grants,
                                 accepted |-> Matches(grants, world, Len(trials) + 1)])
    /\ UNCHANGED <<Asked, world, baseline>>

\* A family without grants is passed over.
SkipFamily ==
    /\ step = "observe" /\ family_grants(envelope, Family) = {}
    /\ at' = at + 1 /\ step' = IF at = 5 THEN "done" ELSE "observe"
    /\ UNCHANGED <<Asked, world, baseline, reduced, left, beaten, proven, residual, statuses, trials>>

\* A family whose use cannot be observed is given up before any trial.
Start(family, observable) ==
    /\ step = "observe" /\ Family = family /\ family_grants(envelope, family) # {}
    /\ IF observable THEN Goto("remove") /\ UNCHANGED reduced ELSE not_proven
    /\ UNCHANGED <<Asked, world, baseline, trials>>

\* The trial without the family.  Where it is accepted the family is settled; where it is
\* not, the observed use has to leave something to narrow to.
TryRemoval(family) ==
    /\ step = "remove" /\ Family = family
    /\ Try("remove_grant", remove_family_grants(envelope, family))

NarrowTo(family, candidate) ==
    IF grants_collectively_cover(family, candidate)
    THEN reduced' = candidate /\ Goto("shrink")
    ELSE not_proven

\* The trial with the family as reduced.
TryReduced(family) ==
    /\ step = "shrink" /\ Family = family
    /\ Try("shrink_scope", replace_family_grants(envelope, family, reduced))

NoReduction(otherwise) ==
    IF reduced = family_grants(envelope, Family) THEN "no_reduction" ELSE otherwise

BoundedMinimal == Conclude(reduced, {}, "bounded", NoReduction("bounded_minimal"))

Accepted == trials'[Len(trials')].accepted

StartHttp == Start("http-request", comparator = "normalized" /\ Fixtures /\ observed_http_request_cap)

RemoveHttp ==
    /\ TryRemoval("http-request")
    /\ IF Accepted THEN Conclude({}, {}, "bounded", "bounded_minimal")
       ELSE NarrowTo("http-request", Reduce("http-request", {Range(Used("http-request"))}))

ShrinkHttp == TryReduced("http-request") /\ IF Accepted THEN BoundedMinimal ELSE not_proven

StartRead == Start("read-resource", TRUE)

RemoveRead ==
    /\ TryRemoval("read-resource")
    /\ IF Accepted THEN Conclude({}, {}, "bounded", "bounded_minimal")
       ELSE IF observed_read_resource_caps = Nothing THEN not_proven
       ELSE NarrowTo("read-resource", Reduce("read-resource", observed_read_resource_caps))

ShrinkRead == TryReduced("read-resource") /\ IF Accepted THEN BoundedMinimal ELSE not_proven

StartInvoke == Start("invoke-skill", observed_invoke_skill_slice_for_comparator)

RemoveInvoke ==
    /\ TryRemoval("invoke-skill")
    /\ IF Accepted THEN Conclude({}, {}, "bounded", "bounded_minimal")
       ELSE NarrowTo("invoke-skill", Reduce("invoke-skill", {Range(Used("invoke-skill"))}))

ShrinkInvoke == TryReduced("invoke-skill") /\ IF Accepted THEN BoundedMinimal ELSE not_proven

StartEmit == Start("emit-evidence", comparator = "single-sink" /\ observed_emit_evidence_slice)

\* The trial without the family is run and its answer is not used.
RemoveEmit ==
    /\ TryRemoval("emit-evidence")
    /\ NarrowTo("emit-evidence",
                {[g EXCEPT !.scope = Range(Used("emit-evidence"))] :
                    g \in {h \in family_grants(envelope, "emit-evidence") :
                              emit_evidence_constraints_cover(h)}})

\* A grant that was wider than the one emission is not narrowed: the family is given up.
ShrinkEmit ==
    /\ TryReduced("emit-evidence")
    /\ IF Accepted /\ reduced = family_grants(envelope, "emit-evidence")
       THEN Conclude(reduced, {}, "bounded", "exact_minimal")
       ELSE not_proven

StartLog == Start("log-write", TRUE)

RemoveLog ==
    /\ TryRemoval("log-write")
    /\ IF Accepted THEN Conclude({}, {}, "supported", "exact_minimal")
       ELSE NarrowTo("log-write", Reduce("log-write", observed_log_caps))

ShrinkLog ==
    /\ TryReduced("log-write")
    /\ IF Accepted
       THEN /\ left' = proper_nonempty_subsets(reduced) /\ step' = "subsets"
            /\ UNCHANGED <<at, reduced, beaten, proven, residual, statuses>>
       ELSE not_proven

\* The discrete search over the observed levels: every strict subset is tried, and none
\* of them replaces the reduced grants.
TrySubset ==
    /\ step = "subsets"
    /\ \E subset \in left :
        /\ Try("shrink_scope", replace_family_grants(envelope, "log-write", subset))
        /\ left' = left \ {subset}
        /\ beaten' = (beaten \/ Accepted)
    /\ UNCHANGED <<at, step, reduced, proven, residual, statuses>>

SubsetsTried ==
    /\ step = "subsets" /\ left = {}
    /\ Conclude(reduced, {}, "supported",
                NoReduction(IF beaten THEN "reduced" ELSE "exact_minimal"))
    /\ UNCHANGED <<Asked, world, baseline, trials>>

Finished == step \in {"done", "failed"} /\ UNCHANGED proof_vars

ProofNext ==
    \/ Baseline \/ WorldChanges \/ SkipFamily
    \/ StartHttp \/ RemoveHttp \/ ShrinkHttp
    \/ StartRead \/ RemoveRead \/ ShrinkRead
    \/ StartInvoke \/ RemoveInvoke \/ ShrinkInvoke
    \/ StartEmit \/ RemoveEmit \/ ShrinkEmit
    \/ StartLog \/ RemoveLog \/ ShrinkLog \/ TrySubset \/ SubsetsTried
    \/ Finished

ProofSpec == ProofInit /\ [][ProofNext]_proof_vars

-----------------------------------------------------------------------------
(* What the proof says *)

overall_proof_status ==
    LET all == Range(statuses)
        any_reduced == proven # envelope \/ residual # {}
        all_exact == /\ all # {} /\ residual = {}
                     /\ \A s \in all : /\ s.support = "supported"
                                       /\ s.proof \in {"exact_minimal", "no_reduction"}
    IN  IF proven = {} /\ residual # {} THEN "not_proven"
        ELSE IF all_exact THEN (IF any_reduced THEN "exact_minimal" ELSE "no_reduction")
        ELSE IF \E s \in all : s.support = "bounded" THEN "bounded_minimal"
        ELSE IF any_reduced THEN "reduced" ELSE "not_proven"

\* What the outcome grants of one family.
ProvenFor(family) == family_grants(proven, family)

Settled(s) == s.support # "not_proven"

\* Whether the skill does the same under these grants as in the baseline.
Reproduces(grants) == Matches(grants, 0, Len(trials) + 1)

\* HostExactBinding: the one emission that an exact emit-evidence proof is about.
host_exact_bindings ==
    IF observed_emit_evidence_slice /\ \E s \in Range(statuses) :
            s.family = "emit-evidence" /\ s.proof = "exact_minimal" /\ s.support = "bounded"
    THEN {Range(Used("emit-evidence"))} ELSE {}

invoke_replay_input_digest ==
    IF observed_invoke_skill_slice_for_comparator THEN {"invoke-skill"} ELSE {}

emit_evidence_replay_input_digest ==
    IF comparator = "single-sink" /\ observed_emit_evidence_slice THEN {"emit-evidence"} ELSE {}

\* The families whose replay input the proof is bound to.
build_replay_input_digest ==
    (IF Fixtures THEN {"http-request"} ELSE {})
        \cup (IF \E s \in Range(statuses) : s.family = "invoke-skill" /\ Settled(s)
              THEN invoke_replay_input_digest ELSE {})
        \cup emit_evidence_replay_input_digest

\* A proof is bound to what its trials replayed: whenever a family whose answers come from
\* outside the guest is settled, its replay input is part of the digest, and an exact
\* binding speaks of exactly the emission that the proven grants allow.
ReplayIsBound ==
    step = "done" =>
        /\ \A s \in Range(statuses) :
            Settled(s) /\ s.family \in {"http-request", "invoke-skill", "emit-evidence"} =>
                s.family \in build_replay_input_digest
        /\ \A emission \in host_exact_bindings :
            emission = Allowed(ProvenFor("emit-evidence"))

\* A proof only keeps or reduces the authority it started from: nothing that the proven
\* and the residual authority of a family allow, and nothing that a trial ran with, was
\* outside the envelope; and a family that is not settled stays residual as a whole, so
\* that no grant is dropped without a trial that did without it.
ProofNeverWidens ==
    /\ Allowed(proven \cup residual) \subseteq Allowed(envelope)
    /\ \A t \in Range(trials) : Allowed(t.grants) \subseteq Allowed(envelope)
    /\ step = "done" =>
        \A g \in envelope : g \in residual \/ \E s \in Range(statuses) : s.family = g.family /\ Settled(s)

\* Whatever a settled family kept is enough on its own: with that family narrowed and all
\* the others as they were granted, the skill does what it did in the baseline, even if
\* the mutable world changed under the search.
EachFamilySuffices ==
    \A s \in Range(statuses) :
        Settled(s) => Reproduces(replace_family_grants(envelope, s.family, ProvenFor(s.family)))

\* `exact_minimal' is a claim about every smaller set of grants: with fewer of the
\* family's proven grants the skill does not do the same.  It rests on trials that failed,
\* so it is only made of a world that did not change.  For emit-evidence the code does not
\* look at the trial without the family, and the comparator alone has to rule it out.
ExactIsMinimal ==
    \A s \in Range(statuses) :
        s.proof = "exact_minimal" /\ world = 0 =>
            \A fewer \in (SUBSET ProvenFor(s.family)) \ {ProvenFor(s.family)} :
                ~Reproduces(replace_family_grants(envelope, s.family, fewer))

\* The families are narrowed one at a time and the narrowed envelope as a whole is never
\* run.  When the overall status is `exact_minimal' or `no_reduction' the whole is enough
\* all the same: the skill does what it did in the baseline under the proven authority.
ExactIsSufficient ==
    step = "done" /\ overall_proof_status \in {"exact_minimal", "no_reduction"} =>
        Reproduces(proven)

\* For a skill that does not look at its grants the outcome as a whole is enough: once
\* anything is settled, the proven together with the residual authority reproduce the
\* baseline.  (A skill that chooses by its grants may do without one family because of the
\* other and without the other because of the one.)
WholeSuffices ==
    step = "done" /\ ~Skills[proved].adaptive /\ (\E s \in Range(statuses) : Settled(s)) =>
        Reproduces(proven \cup residual)

\* The verdicts of prove_live_authority are true: what it keeps of a family is enough, what
\* it keeps as a whole is, what it calls exact is minimal, and what it settled is bound.
VerdictsAreTrue ==
    EachFamilySuffices /\ WholeSuffices /\ ExactIsSufficient /\ ExactIsMinimal /\ ReplayIsBound

==============================================================================
