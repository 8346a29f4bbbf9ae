-------------------------- MODULE LiveProofProofs --------------------------
(***************************************************************************)
(* What prove_live_authority keeps for every skill, comparator and         *)
(* envelope.  First, whatever the runs of its trials do: nothing it        *)
(* proves, leaves residual or tries goes beyond the envelope, and no grant *)
(* is dropped without a settled trial of its family.  Then, from what the  *)
(* runs and the comparators do: its verdicts are true.                     *)
(***************************************************************************)
EXTENDS LiveProof, FiniteSetTheorems, TLAPS

GrantSet == SUBSET [family : Families, scope : SUBSET DOMAIN FamilyOf]

Trial ==
    [family : Families, kind : {"remove_grant", "shrink_scope"}, grants : GrantSet,
     accepted : BOOLEAN]

FamilyStatus ==
    [family : Families, support : {"supported", "bounded", "not_proven"},
     proof : {"exact_minimal", "bounded_minimal", "no_reduction", "reduced", "not_proven"}]

Within(grants) == grants \in GrantSet /\ Allowed(grants) \subseteq Allowed(envelope)

Working == step \notin {"done", "failed"}

\* Every grant of the families that were worked on is residual, or its family is settled.
Accounted ==
    \A i \in 1..(at - 1) : \A g \in family_grants(envelope, FamilyOrder[i]) :
        \/ g \in residual
        \/ \E k \in DOMAIN statuses : statuses[k].family = g.family /\ Settled(statuses[k])

\* Inductive strengthening: the grants a family is cut down to stay within the envelope.
SearchInv ==
    /\ envelope \in Envelopes
    /\ at \in 1..6 /\ (Working => at \in 1..5) /\ (step = "done" => at = 6)
    /\ Within(proven) /\ Within(residual) /\ Within(reduced)
    /\ left \subseteq SUBSET reduced /\ (step # "subsets" => left = {})
    /\ statuses \in Seq(FamilyStatus)
    /\ Accounted

TrialsInv ==
    /\ trials \in Seq(Trial)
    /\ \A i \in DOMAIN trials : Within(trials[i].grants)

-----------------------------------------------------------------------------
(* Sets of grants *)

\* FamilyOrder has the five families.
LEMMA FiveFamilies ==
    /\ Families = {"http-request", "read-resource", "invoke-skill", "emit-evidence", "log-write"}
    /\ DOMAIN FamilyOrder = 1..5
    /\ \A i \in 1..5 : FamilyOrder[i] \in Families
    /\ \A f \in Families : \E i \in 1..5 : FamilyOrder[i] = f
  <1>1. /\ DOMAIN FamilyOrder = 1..5
        /\ FamilyOrder[1] = "http-request" /\ FamilyOrder[2] = "read-resource"
        /\ FamilyOrder[3] = "invoke-skill" /\ FamilyOrder[4] = "emit-evidence"
        /\ FamilyOrder[5] = "log-write"
    BY DEF FamilyOrder
  <1>2. \A i : i \in 1..5 <=> i = 1 \/ i = 2 \/ i = 3 \/ i = 4 \/ i = 5
    OBVIOUS
  <1>3. Families = {"http-request", "read-resource", "invoke-skill", "emit-evidence", "log-write"}
    BY Zenon, <1>1, <1>2 DEF Families, Range
  <1> QED
    BY Zenon, <1>1, <1>2, <1>3

\* Fewer grants allow no more.
LEMMA FewerWithin ==
    ASSUME NEW grants, Within(grants), NEW fewer \in SUBSET grants
    PROVE  Within(fewer)
  BY Zenon DEF Within, Allowed, GrantSet

\* Neither does a union of what is within.
LEMMA UnionWithin ==
    ASSUME NEW grants, Within(grants), NEW more, Within(more)
    PROVE  Within(grants \cup more)
  BY Zenon DEF Within, Allowed, GrantSet

\* The envelope, and what is left of it without a family, are within it.
LEMMA EnvelopeWithin ==
    ASSUME envelope \in Envelopes, NEW family
    PROVE  /\ Within(envelope) /\ Within(family_grants(envelope, family))
           /\ Within(remove_family_grants(envelope, family))
  <1>1. Within(envelope)
    BY Zenon, EnvelopesAssumption DEF Within, GrantSet
  <1> QED
    BY Zenon, <1>1, FewerWithin DEF family_grants, remove_family_grants

\* reduce_grant_to_cap_set intersects.
LEMMA ReduceWithin ==
    ASSUME envelope \in Envelopes, NEW family \in Families, NEW caps
    PROVE  Within(Reduce(family, caps))
  <1>1. ASSUME NEW r \in Reduce(family, caps)
        PROVE  \E g \in envelope : r.family = family /\ r.scope \subseteq g.scope
                    /\ r = [family |-> family, scope |-> r.scope] /\ g.scope \subseteq DOMAIN FamilyOf
    <2>1. PICK g \in envelope, cap \in caps : r = [family |-> family, scope |-> g.scope \cap cap]
      BY DEF Reduce, family_grants
    <2>2. g.scope \subseteq DOMAIN FamilyOf
      BY Zenon, EnvelopesAssumption
    <2> QED
      BY Zenon, <2>1, <2>2
  <1>2. Reduce(family, caps) \in GrantSet
    BY <1>1 DEF GrantSet
  <1>3. Allowed(Reduce(family, caps)) \subseteq Allowed(envelope)
    BY <1>1 DEF Allowed
  <1> QED
    BY Zenon, <1>2, <1>3 DEF Within

\* The exact slice of emit-evidence is only taken from grants that cover it.
LEMMA EmitWithin ==
    ASSUME envelope \in Envelopes
    PROVE  Within({[g EXCEPT !.scope = Range(Used("emit-evidence"))] :
                        g \in {h \in family_grants(envelope, "emit-evidence") :
                                  emit_evidence_constraints_cover(h)}})
  <1> DEFINE used == Range(Used("emit-evidence"))
             base == {h \in family_grants(envelope, "emit-evidence") :
                        emit_evidence_constraints_cover(h)}
             narrowed == {[g EXCEPT !.scope = used] : g \in base}
  <1> SUFFICES Within(narrowed)
    BY Zenon
  <1>1. ASSUME NEW g \in base
        PROVE  /\ g \in envelope /\ g \in [family : Families, scope : SUBSET DOMAIN FamilyOf]
               /\ used \subseteq g.scope
    BY Zenon, EnvelopesAssumption DEF family_grants, emit_evidence_constraints_cover
  <1> HIDE DEF base, used
  <1>2. ASSUME NEW r \in narrowed
        PROVE  /\ r \in [family : Families, scope : SUBSET DOMAIN FamilyOf]
               /\ \E g \in envelope : r.scope \subseteq g.scope
    <2>1. PICK g \in base : r = [g EXCEPT !.scope = used]
      BY Zenon
    <2> QED
      BY Zenon, <1>1, <2>1
  <1> HIDE DEF narrowed
  <1> QED
    BY <1>2 DEF Within, GrantSet, Allowed

-----------------------------------------------------------------------------
(* The parts of a step *)

\* A trial with grants within the envelope.
LEMMA TryKeeps ==
    ASSUME SearchInv, Working, TrialsInv, NEW kind \in {"remove_grant", "shrink_scope"},
           NEW grants, Within(grants), Try(kind, grants)
    PROVE  TrialsInv' /\ UNCHANGED Asked
  <1>1. PICK t : /\ t = [family |-> Family, kind |-> kind, grants |-> grants,
                         accepted |-> Matches(grants, world, Len(trials) + 1)]
                 /\ trials' = Append(trials, t)
    BY Zenon DEF Try
  <1>2. UNCHANGED Asked /\ envelope' = envelope
    BY Zenon DEF Try, Asked
  <1>3. Matches(grants, world, Len(trials) + 1) \in BOOLEAN
    BY Zenon DEF Matches
  <1>4. Family \in Families /\ grants \in GrantSet
    BY Zenon, FiveFamilies DEF Family, SearchInv, Within
  <1>5. t \in Trial /\ t.grants = grants
    BY Zenon, <1>1, <1>3, <1>4 DEF Trial
  <1>6. trials \in Seq(Trial)
    BY Zenon DEF TrialsInv
  <1>7. trials' \in Seq(Trial)
    BY <1>1, <1>5, <1>6
  <1>8. ASSUME NEW i \in DOMAIN trials' PROVE Within(trials'[i].grants)
    <2>1. CASE i \in DOMAIN trials
      BY <1>1, <1>6, <2>1 DEF TrialsInv
    <2>2. CASE i \notin DOMAIN trials
      BY <1>1, <1>5, <1>6, <1>8, <2>2
    <2> QED
      BY Zenon, <2>1, <2>2
  <1> QED
    BY Zenon, <1>2, <1>7, <1>8 DEF TrialsInv, Within

\* The end of a family, settled or with all its grants residual.
LEMMA ConcludeKeeps ==
    ASSUME SearchInv, Working, UNCHANGED Asked, NEW grants, Within(grants), NEW rest, Within(rest),
           NEW support \in {"supported", "bounded", "not_proven"},
           NEW proof \in {"exact_minimal", "bounded_minimal", "no_reduction", "reduced", "not_proven"},
           support = "not_proven" => family_grants(envelope, Family) \subseteq rest,
           Conclude(grants, rest, support, proof)
    PROVE  SearchInv'
  <1>1. envelope' = envelope /\ envelope \in Envelopes
    BY Zenon DEF Asked, SearchInv
  <1>2. PICK s : /\ s = [family |-> Family, support |-> support, proof |-> proof]
                 /\ statuses' = Append(statuses, s)
    BY Zenon DEF Conclude
  <1>3. at \in 1..5 /\ at' = at + 1 /\ step' = (IF at = 5 THEN "done" ELSE "observe")
    BY Zenon DEF Conclude, SearchInv
  <1>4. s \in FamilyStatus /\ s.family = Family /\ s.support = support
    BY Zenon, <1>2, <1>3, FiveFamilies DEF FamilyStatus, Family
  <1>5. statuses \in Seq(FamilyStatus)
    BY Zenon DEF SearchInv
  <1>6. statuses' \in Seq(FamilyStatus) /\ \A k \in DOMAIN statuses : k \in DOMAIN statuses' /\ statuses'[k] = statuses[k]
    BY <1>2, <1>4, <1>5
  <1>7. \E k \in DOMAIN statuses' : statuses'[k] = s
    <2>1. Len(statuses) + 1 \in DOMAIN statuses' /\ statuses'[Len(statuses) + 1] = s
      BY <1>2, <1>4, <1>5
    <2> QED
      BY Zenon, <2>1
  <1>8. residual' = residual \cup rest /\ proven' = proven \cup grants /\ reduced' = {} /\ left' = {}
    BY Zenon DEF Conclude
  <1>9. Accounted'
    <2> SUFFICES ASSUME NEW i \in 1..at, NEW g \in family_grants(envelope, FamilyOrder[i])
                 PROVE  \/ g \in residual'
                        \/ \E k \in DOMAIN statuses' :
                                statuses'[k].family = g.family /\ Settled(statuses'[k])
      BY <1>1, <1>3 DEF Accounted, Settled, family_grants
    <2>1. CASE i = at
      <3>1. g.family = Family
        BY Zenon, <2>1 DEF Family, family_grants
      <3>2. CASE support = "not_proven"
        BY Zenon, <1>8, <2>1, <3>2 DEF Family
      <3>3. CASE support # "not_proven"
        BY Zenon, <1>4, <1>7, <3>1, <3>3 DEF Settled
      <3> QED
        BY Zenon, <3>2, <3>3
    <2>2. CASE i # at
      <3>1. i \in 1..(at - 1)
        BY <1>3, <2>2
      <3>2. \/ g \in residual
            \/ \E k \in DOMAIN statuses : statuses[k].family = g.family /\ Settled(statuses[k])
        BY Zenon, <3>1 DEF SearchInv, Accounted
      <3> QED
        BY Zenon, <1>6, <1>8, <3>2
    <2> QED
      BY Zenon, <2>1, <2>2
  <1>10. Within(proven') /\ Within(residual') /\ Within({})
    <2>1. Within(proven) /\ Within(residual)
      BY Zenon DEF SearchInv
    <2>2. Within({})
      BY Zenon, <2>1, FewerWithin
    <2> QED
      BY Zenon, <1>8, <2>1, <2>2, UnionWithin
  <1>11. Within(proven)' /\ Within(residual)' /\ Within(reduced)'
    BY Zenon, <1>1, <1>8, <1>10 DEF Within
  <1>12. at' \in 1..6 /\ (Working' => at' \in 1..5) /\ (step' = "done" => at' = 6)
    BY <1>3 DEF Working
  <1> QED
    BY Zenon, <1>1, <1>3, <1>6, <1>8, <1>9, <1>11, <1>12 DEF SearchInv

\* A family that is given up stays residual as a whole.
LEMMA NotProvenKeeps ==
    ASSUME SearchInv, Working, UNCHANGED Asked, not_proven
    PROVE  SearchInv'
  <1>1. Within({}) /\ Within(family_grants(envelope, Family))
    BY Zenon, EnvelopeWithin, FewerWithin DEF SearchInv
  <1> QED
    BY Zenon, <1>1, ConcludeKeeps DEF not_proven

\* On to the next trial of the family.
LEMMA GotoKeeps ==
    ASSUME SearchInv, Working, step # "subsets", UNCHANGED Asked, NEW s \in {"remove", "shrink"},
           Goto(s), Within(reduced')
    PROVE  SearchInv'
  <1>1. /\ UNCHANGED <<at, left, proven, residual, statuses, envelope>>
        /\ step' = s /\ left = {}
    BY Zenon DEF Goto, Asked, SearchInv
  <1>2. Accounted'
    BY <1>1 DEF SearchInv, Accounted, Settled, family_grants
  <1>3. Within(proven)' /\ Within(residual)' /\ Within(reduced)'
    BY Zenon, <1>1 DEF SearchInv, Within
  <1> QED
    BY Zenon, <1>1, <1>2, <1>3 DEF SearchInv, Working

\* A family is narrowed to the candidate, or given up.
LEMMA NarrowKeeps ==
    ASSUME SearchInv, Working, step # "subsets", UNCHANGED Asked, NEW family, NEW candidate,
           Within(candidate), NarrowTo(family, candidate)
    PROVE  SearchInv'
  <1>1. CASE reduced' = candidate /\ Goto("shrink")
    BY Zenon, <1>1, GotoKeeps
  <1>2. CASE not_proven
    BY Zenon, <1>2, NotProvenKeeps
  <1> QED
    BY Zenon, <1>1, <1>2 DEF NarrowTo

-----------------------------------------------------------------------------
(* The steps *)

\* Looking at a family: on to its removal, or given up, or passed over.
LEMMA StartKeeps ==
    ASSUME SearchInv, TrialsInv, NEW family, NEW observable, Start(family, observable)
    PROVE  SearchInv' /\ TrialsInv'
  <1>1. step = "observe" /\ UNCHANGED Asked /\ trials' = trials /\ envelope' = envelope
    BY Zenon DEF Start, Asked
  <1>2. Working /\ step # "subsets"
    BY Zenon, <1>1 DEF Working
  <1>3. TrialsInv'
    BY Zenon, <1>1 DEF TrialsInv, Within
  <1>4. CASE Goto("remove") /\ UNCHANGED reduced
    <2>1. Within(reduced')
      BY Zenon, <1>4 DEF SearchInv
    <2> QED
      BY Zenon, <1>1, <1>2, <1>3, <1>4, <2>1, GotoKeeps
  <1>5. CASE not_proven
    BY Zenon, <1>1, <1>2, <1>3, <1>5, NotProvenKeeps
  <1> QED
    BY Zenon, <1>4, <1>5 DEF Start

\* The trial without a family keeps the envelope otherwise.
LEMMA RemovalKeeps ==
    ASSUME SearchInv, TrialsInv, NEW family, TryRemoval(family)
    PROVE  /\ TrialsInv' /\ UNCHANGED Asked /\ Working /\ step # "subsets"
           /\ Family = family /\ family \in Families /\ envelope \in Envelopes
  <1>1. /\ step = "remove" /\ Family = family
        /\ Try("remove_grant", remove_family_grants(envelope, family))
    BY Zenon DEF TryRemoval
  <1>2. Working /\ envelope \in Envelopes
    BY Zenon, <1>1 DEF Working, SearchInv
  <1>3. Within(remove_family_grants(envelope, family))
    BY Zenon, <1>2, EnvelopeWithin
  <1>4. Family \in Families
    BY Zenon, <1>2, FiveFamilies DEF Family, SearchInv
  <1> QED
    BY Zenon, <1>1, <1>2, <1>3, <1>4, TryKeeps

\* So does the trial with the family as reduced, and with fewer of the reduced grants.
LEMMA ReplacedWithin ==
    ASSUME SearchInv, NEW family, NEW fewer \in SUBSET reduced
    PROVE  Within(replace_family_grants(envelope, family, fewer))
  <1>1. Within(remove_family_grants(envelope, family)) /\ Within(fewer)
    BY Zenon, EnvelopeWithin, FewerWithin DEF SearchInv
  <1> QED
    BY Zenon, <1>1, UnionWithin DEF replace_family_grants

\* The trial with the family as reduced.
LEMMA ReducedKeeps ==
    ASSUME SearchInv, TrialsInv, NEW family, TryReduced(family)
    PROVE  TrialsInv' /\ UNCHANGED Asked /\ Working /\ step = "shrink" /\ Within(reduced)
  <1>1. step = "shrink" /\ Try("shrink_scope", replace_family_grants(envelope, family, reduced))
    BY Zenon DEF TryReduced
  <1>2. Working /\ Within(reduced)
    BY Zenon, <1>1 DEF Working, SearchInv
  <1>3. Within(replace_family_grants(envelope, family, reduced))
    BY Zenon, ReplacedWithin
  <1> QED
    BY Zenon, <1>1, <1>2, <1>3, TryKeeps

\* A family is settled with the grants it was reduced to, or with none.
LEMMA SettleKeeps ==
    ASSUME SearchInv, Working, UNCHANGED Asked, NEW grants \in {{}, reduced},
           NEW support \in {"supported", "bounded"},
           NEW proof \in {"exact_minimal", "bounded_minimal", "no_reduction", "reduced"},
           Conclude(grants, {}, support, proof)
    PROVE  SearchInv'
  <1>1. Within(grants) /\ Within({})
    BY Zenon, FewerWithin DEF SearchInv
  <1> QED
    BY Zenon, <1>1, ConcludeKeeps

\* NoReduction names a verdict.
LEMMA NoReductionNames ==
    ASSUME NEW otherwise \in {"bounded_minimal", "reduced", "exact_minimal"}
    PROVE  NoReduction(otherwise) \in {"exact_minimal", "bounded_minimal", "no_reduction", "reduced"}
  BY Zenon DEF NoReduction

\* The three families that are settled as bounded_minimal, from either trial.
LEMMA BoundedKeeps ==
    ASSUME SearchInv, Working, UNCHANGED Asked, BoundedMinimal
    PROVE  SearchInv'
  BY Zenon, SettleKeeps, NoReductionNames DEF BoundedMinimal

\* http-request, read-resource and invoke-skill.
LEMMA BoundedFamilies ==
    ASSUME SearchInv, TrialsInv,
           \/ RemoveHttp \/ ShrinkHttp \/ RemoveRead \/ ShrinkRead \/ RemoveInvoke \/ ShrinkInvoke
    PROVE  SearchInv' /\ TrialsInv'
  <1>1. ASSUME NEW family, TryRemoval(family), NEW caps,
               \/ Conclude({}, {}, "bounded", "bounded_minimal")
               \/ NarrowTo(family, Reduce(family, caps))
               \/ not_proven
        PROVE  SearchInv' /\ TrialsInv'
    <2>1. /\ TrialsInv' /\ UNCHANGED Asked /\ Working /\ step # "subsets"
          /\ family \in Families /\ envelope \in Envelopes
      BY Zenon, <1>1, RemovalKeeps
    <2>2. Within(Reduce(family, caps))
      BY Zenon, <2>1, ReduceWithin
    <2> QED
      BY Zenon, <1>1, <2>1, <2>2, SettleKeeps, NarrowKeeps, NotProvenKeeps
  <1>2. ASSUME NEW family, TryReduced(family), BoundedMinimal \/ not_proven
        PROVE  SearchInv' /\ TrialsInv'
    BY Zenon, <1>2, ReducedKeeps, BoundedKeeps, NotProvenKeeps
  <1>3. CASE RemoveHttp
    BY Zenon, <1>1, <1>3 DEF RemoveHttp
  <1>4. CASE RemoveRead
    BY Zenon, <1>1, <1>4 DEF RemoveRead
  <1>5. CASE RemoveInvoke
    BY Zenon, <1>1, <1>5 DEF RemoveInvoke
  <1>6. CASE ShrinkHttp \/ ShrinkRead \/ ShrinkInvoke
    BY Zenon, <1>2, <1>6 DEF ShrinkHttp, ShrinkRead, ShrinkInvoke
  <1> QED
    BY Zenon, <1>3, <1>4, <1>5, <1>6

\* emit-evidence.
LEMMA EmitKeeps ==
    ASSUME SearchInv, TrialsInv, RemoveEmit \/ ShrinkEmit
    PROVE  SearchInv' /\ TrialsInv'
  <1>1. CASE RemoveEmit
    <2>1. /\ TrialsInv' /\ UNCHANGED Asked /\ Working /\ step # "subsets" /\ envelope \in Envelopes
      BY Zenon, <1>1, RemovalKeeps DEF RemoveEmit
    <2> QED
      BY Zenon, <1>1, <2>1, EmitWithin, NarrowKeeps DEF RemoveEmit
  <1>2. CASE ShrinkEmit
    <2>1. TrialsInv' /\ UNCHANGED Asked /\ Working
      BY Zenon, <1>2, ReducedKeeps DEF ShrinkEmit
    <2> QED
      BY Zenon, <1>2, <2>1, SettleKeeps, NotProvenKeeps DEF ShrinkEmit
  <1> QED
    BY Zenon, <1>1, <1>2

\* log-write, with its search over subsets.
LEMMA LogKeeps ==
    ASSUME SearchInv, TrialsInv, RemoveLog \/ ShrinkLog \/ TrySubset \/ SubsetsTried
    PROVE  SearchInv' /\ TrialsInv'
  <1>1. CASE RemoveLog
    <2>1. /\ TrialsInv' /\ UNCHANGED Asked /\ Working /\ step # "subsets"
          /\ "log-write" \in Families /\ envelope \in Envelopes
      BY Zenon, <1>1, RemovalKeeps DEF RemoveLog
    <2>2. Within(Reduce("log-write", observed_log_caps))
      BY Zenon, <2>1, ReduceWithin
    <2> QED
      BY Zenon, <1>1, <2>1, <2>2, SettleKeeps, NarrowKeeps DEF RemoveLog
  <1>2. CASE ShrinkLog
    <2>1. TrialsInv' /\ UNCHANGED Asked /\ Working /\ envelope' = envelope
      BY Zenon, <1>2, ReducedKeeps DEF ShrinkLog, Asked
    <2>2. CASE /\ left' = proper_nonempty_subsets(reduced) /\ step' = "subsets"
               /\ UNCHANGED <<at, reduced, beaten, proven, residual, statuses>>
      <3>1. left' \subseteq SUBSET reduced
        BY Zenon, <2>2 DEF proper_nonempty_subsets
      <3>2. Accounted'
        BY Zenon, <2>1, <2>2 DEF SearchInv, Accounted, Settled, family_grants
      <3> QED
        BY Zenon, <2>1, <2>2, <3>1, <3>2 DEF SearchInv, Working, Within
    <2>3. CASE not_proven
      BY Zenon, <2>1, <2>3, NotProvenKeeps
    <2> QED
      BY Zenon, <1>2, <2>2, <2>3 DEF ShrinkLog
  <1>3. CASE TrySubset
    <2>1. PICK subset \in left :
            /\ Try("shrink_scope", replace_family_grants(envelope, "log-write", subset))
            /\ left' = left \ {subset}
      BY Zenon, <1>3 DEF TrySubset
    <2>2. Working /\ step = "subsets" /\ UNCHANGED <<at, step, reduced, proven, residual, statuses>>
      BY Zenon, <1>3 DEF TrySubset, Working
    <2>3. Within(replace_family_grants(envelope, "log-write", subset))
      BY Zenon, ReplacedWithin DEF SearchInv
    <2>4. TrialsInv' /\ UNCHANGED Asked /\ envelope' = envelope
      BY Zenon, <2>1, <2>2, <2>3, TryKeeps DEF Asked
    <2>5. Accounted'
      BY <2>2, <2>4 DEF SearchInv, Accounted, Settled, family_grants
    <2> QED
      BY Zenon, <2>1, <2>2, <2>4, <2>5 DEF SearchInv, Working, Within
  <1>4. CASE SubsetsTried
    <2>1. UNCHANGED Asked /\ Working /\ trials' = trials /\ envelope' = envelope
      BY Zenon, <1>4 DEF SubsetsTried, Working, Asked
    <2>2. TrialsInv'
      BY Zenon, <2>1 DEF TrialsInv, Within
    <2> QED
      BY Zenon, <1>4, <2>1, <2>2, SettleKeeps, NoReductionNames DEF SubsetsTried
  <1> QED
    BY Zenon, <1>1, <1>2, <1>3, <1>4

\* The baseline, the world and the families that have no grants.
LEMMA OutsideKeeps ==
    ASSUME SearchInv, TrialsInv, Baseline \/ WorldChanges \/ SkipFamily \/ UNCHANGED proof_vars
    PROVE  SearchInv' /\ TrialsInv'
  <1>1. UNCHANGED <<envelope, reduced, left, proven, residual, statuses, trials>>
    BY Zenon DEF Baseline, WorldChanges, SkipFamily, proof_vars, Asked
  <1>2. TrialsInv'
    BY Zenon, <1>1 DEF TrialsInv, Within
  <1>3. Within(proven)' /\ Within(residual)' /\ Within(reduced)'
    BY Zenon, <1>1 DEF SearchInv, Within
  <1>4. CASE Baseline \/ WorldChanges \/ UNCHANGED proof_vars
    <2>1. at' = at /\ (step' = step \/ (step = "baseline" /\ step' \in {"observe", "failed"}))
      BY Zenon, <1>4 DEF Baseline, WorldChanges, proof_vars
    <2>2. Accounted'
      BY <1>1, <2>1 DEF SearchInv, Accounted, Settled, family_grants
    <2> QED
      BY Zenon, <1>1, <1>2, <1>3, <2>1, <2>2 DEF SearchInv, Working
  <1>5. CASE SkipFamily
    <2>1. /\ at \in 1..5 /\ at' = at + 1 /\ step' = (IF at = 5 THEN "done" ELSE "observe")
          /\ left = {} /\ family_grants(envelope, FamilyOrder[at]) = {}
      BY Zenon, <1>5 DEF SkipFamily, SearchInv, Working, Family
    <2>2. \A i \in 1..(at' - 1) : i = at \/ i \in 1..(at - 1)
      BY <2>1
    <2>3. Accounted'
      BY <1>1, <2>1, <2>2 DEF SearchInv, Accounted, Settled, family_grants
    <2> QED
      BY <1>1, <1>2, <1>3, <2>1, <2>3 DEF SearchInv, Working
  <1> QED
    BY Zenon, <1>4, <1>5

\* SearchInv and TrialsInv hold of every behaviour.
LEMMA SearchIsSound == ProofSpec => [](SearchInv /\ TrialsInv)
  <1>1. ProofInit => SearchInv /\ TrialsInv
    <2> SUFFICES ASSUME ProofInit PROVE SearchInv /\ TrialsInv
      BY Zenon
    <2>1. Within({})
      BY Zenon DEF Within, GrantSet, Allowed
    <2> QED
      BY <2>1 DEF ProofInit, SearchInv, TrialsInv, Working, Accounted
  <1>2. SearchInv /\ TrialsInv /\ [ProofNext]_proof_vars => SearchInv' /\ TrialsInv'
    BY Zenon, StartKeeps, BoundedFamilies, EmitKeeps, LogKeeps, OutsideKeeps
       DEF ProofNext, StartHttp, StartRead, StartInvoke, StartEmit, StartLog, Finished
  <1> QED
    BY <1>1, <1>2, PTL DEF ProofSpec

\* prove_live_authority, for every skill, comparator and envelope: what it proves, what it
\* leaves residual and what its trials run with stays within the envelope, and at the end
\* every grant is residual or its family is settled.
THEOREM SearchNeverWidens == ProofSpec => []ProofNeverWidens
  <1>1. SearchInv /\ TrialsInv => ProofNeverWidens
    <2> SUFFICES ASSUME SearchInv, TrialsInv PROVE ProofNeverWidens
      BY Zenon
    <2>1. Within(proven \cup residual)
      BY Zenon, UnionWithin DEF SearchInv
    <2>2. \A t \in Range(trials) : Allowed(t.grants) \subseteq Allowed(envelope)
      BY Zenon DEF TrialsInv, Within, Range
    <2>3. ASSUME step = "done", NEW g \in envelope
          PROVE  g \in residual \/ \E s \in Range(statuses) : s.family = g.family /\ Settled(s)
      <3>1. g.family \in Families
        BY Zenon, EnvelopesAssumption DEF SearchInv
      <3>2. PICK i \in 1..5 : FamilyOrder[i] = g.family
        BY Zenon, <3>1, FiveFamilies
      <3>3. g \in family_grants(envelope, FamilyOrder[i]) /\ at = 6
        BY Zenon, <2>3, <3>2 DEF family_grants, SearchInv
      <3>4. i \in 1..(at - 1)
        BY <3>3
      <3> QED
        BY Zenon, <3>3, <3>4 DEF SearchInv, Accounted, Range
    <2> QED
      BY Zenon, <2>1, <2>2, <2>3 DEF ProofNeverWidens, Within
  <1> QED
    BY <1>1, SearchIsSound, PTL

\* What SearchInv does not say of the types: the arguments of the call, the world and the
\* place in the search.
PlaceInv ==
    /\ proved \in DOMAIN Skills /\ comparator \in Comparators
    /\ world \in 0..1 /\ beaten \in BOOLEAN
    /\ step \in {"baseline", "observe", "remove", "shrink", "subsets", "done", "failed"}

\* A step that ends a family, or goes on with it, leaves the search at a place it knows.
LEMMA PlaceKeeps ==
    ASSUME PlaceInv, [ProofNext]_proof_vars
    PROVE  PlaceInv'
  <1>1. proved' = proved /\ comparator' = comparator
    BY Zenon DEF ProofNext, proof_vars, Baseline, WorldChanges, SkipFamily, StartHttp, RemoveHttp, ShrinkHttp,
           StartRead, RemoveRead, ShrinkRead, StartInvoke, RemoveInvoke, ShrinkInvoke, StartEmit, RemoveEmit,
           ShrinkEmit, StartLog, RemoveLog, ShrinkLog, TrySubset, SubsetsTried, Finished, Start, TryRemoval,
           TryReduced, Try, Asked
  <1>2. world' = world \/ world' = 1
    BY Zenon DEF ProofNext, proof_vars, Baseline, WorldChanges, SkipFamily, StartHttp, RemoveHttp, ShrinkHttp,
           StartRead, RemoveRead, ShrinkRead, StartInvoke, RemoveInvoke, ShrinkInvoke, StartEmit, RemoveEmit,
           ShrinkEmit, StartLog, RemoveLog, ShrinkLog, TrySubset, SubsetsTried, Finished, Start, TryRemoval,
           TryReduced, Try
  <1>3. ASSUME NEW grants, NEW rest, NEW support, NEW proof, Conclude(grants, rest, support, proof)
        PROVE  step' \in {"done", "observe"} /\ beaten' = FALSE
    BY Zenon, <1>3 DEF Conclude
  <1>4. ASSUME NEW s, Goto(s) PROVE step' = s /\ beaten' = beaten
    BY Zenon, <1>4 DEF Goto
  <1>5. ASSUME not_proven PROVE step' \in {"done", "observe"} /\ beaten' = FALSE
    BY Zenon, <1>3, <1>5 DEF not_proven
  <1>6. ASSUME BoundedMinimal PROVE step' \in {"done", "observe"} /\ beaten' = FALSE
    BY Zenon, <1>3, <1>6 DEF BoundedMinimal
  <1>7. ASSUME NEW family, NEW candidate, NarrowTo(family, candidate)
        PROVE  step' \in {"done", "observe", "shrink"} /\ beaten' \in {FALSE, beaten}
    BY Zenon, <1>4, <1>5, <1>7 DEF NarrowTo
  <1>8. ASSUME NEW family, NEW observable, Start(family, observable)
        PROVE  step' \in {"done", "observe", "remove"} /\ beaten' \in {FALSE, beaten}
    BY Zenon, <1>4, <1>5, <1>8 DEF Start
  <1> DEFINE Places == {"baseline", "observe", "remove", "shrink", "subsets", "done", "failed"}
  <1>9. step' \in Places /\ beaten' \in BOOLEAN
    <2>1. CASE Baseline \/ WorldChanges \/ SkipFamily \/ Finished \/ UNCHANGED proof_vars
      BY Zenon, <2>1 DEF PlaceInv, Baseline, WorldChanges, SkipFamily, Finished, proof_vars
    <2>2. CASE StartHttp \/ StartRead \/ StartInvoke \/ StartEmit \/ StartLog
      <3>1. \E family, observable : Start(family, observable)
        BY <2>2, Zenon DEF StartHttp, StartRead, StartInvoke, StartEmit, StartLog
      <3> QED
        BY Zenon, <1>8, <3>1 DEF PlaceInv
    <2>3. CASE RemoveHttp \/ RemoveRead \/ RemoveInvoke \/ RemoveEmit \/ RemoveLog
      <3>1. \/ \E support, proof : Conclude({}, {}, support, proof)
            \/ not_proven \/ \E family, candidate : NarrowTo(family, candidate)
        BY <2>3, Zenon DEF RemoveHttp, RemoveRead, RemoveInvoke, RemoveEmit, RemoveLog
      <3> QED
        BY Zenon, <1>3, <1>5, <1>7, <3>1 DEF PlaceInv
    <2>4. CASE ShrinkHttp \/ ShrinkRead \/ ShrinkInvoke
      BY Zenon, <1>5, <1>6, <2>4 DEF ShrinkHttp, ShrinkRead, ShrinkInvoke
    <2>5. CASE ShrinkEmit
      BY Zenon, <1>3, <1>5, <2>5 DEF ShrinkEmit
    <2>6. CASE ShrinkLog
      BY Zenon, <1>5, <2>6 DEF ShrinkLog, PlaceInv
    <2>7. CASE TrySubset
      <3>1. step' = step
        BY Zenon, <2>7 DEF TrySubset
      <3>2. PICK subset \in left : beaten' = (beaten \/ Accepted)
        BY <2>7, Zenon DEF TrySubset
      <3> QED
        BY <3>1, <3>2, Zenon DEF PlaceInv
    <2>8. CASE SubsetsTried
      BY Zenon, <1>3, <2>8 DEF SubsetsTried
    <2> QED
      BY Zenon, <2>1, <2>2, <2>3, <2>4, <2>5, <2>6, <2>7, <2>8 DEF ProofNext
  <1>10. world' \in 0..1
    BY <1>2 DEF PlaceInv
  <1> QED
    BY <1>1, <1>9, <1>10, Zenon DEF PlaceInv

\* ProofTypeOK holds of every behaviour: the search is at a place it knows, of a family it
\* knows, and all grants it proves, cuts down or leaves are grants of the families.
THEOREM ProofTypeCorrect == ProofSpec => []ProofTypeOK
  <1>1. ProofInit => PlaceInv
    <2> SUFFICES ASSUME ProofInit PROVE PlaceInv
      BY Zenon
    <2>1. world \in 0..1
      BY DEF ProofInit
    <2> QED
      BY <2>1, Zenon DEF ProofInit, PlaceInv
  <1>2. PlaceInv /\ [ProofNext]_proof_vars => PlaceInv'
    BY Zenon, PlaceKeeps
  <1>3. PlaceInv /\ SearchInv => ProofTypeOK
    <2> SUFFICES ASSUME PlaceInv, SearchInv PROVE ProofTypeOK
      BY Zenon
    <2>1. proven \cup residual \cup reduced \subseteq [family : Families, scope : SUBSET DOMAIN FamilyOf]
      BY Zenon DEF SearchInv, Within, GrantSet
    <2>2. \A f \in DOMAIN statuses :
            /\ statuses[f].support \in {"supported", "bounded", "not_proven"}
            /\ statuses[f].proof \in {"exact_minimal", "bounded_minimal", "no_reduction", "reduced", "not_proven"}
      <3>1. ASSUME NEW f \in DOMAIN statuses PROVE statuses[f] \in FamilyStatus
        BY DEF SearchInv
      <3> QED
        BY Zenon, <3>1 DEF FamilyStatus
    <2> QED
      BY <2>1, <2>2, Zenon DEF PlaceInv, SearchInv, ProofTypeOK
  <1> QED
    BY <1>1, <1>2, <1>3, SearchIsSound, PTL DEF ProofSpec

-----------------------------------------------------------------------------
(* Places in a sequence of calls *)

\* A set of numbers that is not empty has a least one.
LEMMA Least ==
    ASSUME NEW T, T \subseteq Nat, T # {}
    PROVE  \E x \in T : \A y \in T : x <= y
  <1>1. PICK R : R = {ss \in Nat \X Nat : ss[1] < ss[2]}
    BY Zenon
  <1>2. IsWellFoundedOn(R, Nat)
    BY Zenon, <1>1, NatLessThanWellFounded DEF OpToRel
  <1>3. PICK x \in T : \A y \in T : ~ (<<y, x>> \in R)
    BY Zenon, <1>2, WFMin
  <1>4. \A a, b \in Nat : a < b => <<a, b>> \in R
    <2> TAKE a, b \in Nat
    <2> HAVE a < b
    <2>1. PICK p : p = <<a, b>>
      BY Zenon
    <2>2. p \in Nat \X Nat /\ p[1] < p[2]
      BY SMT, <2>1
    <2> QED
      BY Zenon, <1>1, <2>1, <2>2
  <1>5. \A y \in T : ~ (y < x)
    BY Zenon, <1>3, <1>4
  <1> QED
    BY SMT, <1>5

\* In a set of places every rank is taken.
LEMMA RankIsTaken ==
    ASSUME NEW n \in Nat, NEW P \in SUBSET (1..n), NEW k \in 1..Cardinality(P)
    PROVE  \E i \in P : Cardinality({j \in P : j <= i}) = k
  <1> DEFINE Up(m) == {j \in P : j <= m}
             Reached == {m \in Nat : Cardinality(Up(m)) >= k}
  <1>1. IsFiniteSet(P) /\ Cardinality(P) \in Nat
    <2>1. 1 \in Int /\ n \in Int
      BY SMT
    <2> QED
      BY Zenon, <2>1, FS_Interval, FS_Subset, FS_CardinalityType
  <1>2. \A m : IsFiniteSet(Up(m)) /\ Cardinality(Up(m)) \in Nat
    BY Zenon, <1>1, FS_Subset, FS_CardinalityType
  <1>3. Up(n) = P
    <2>1. \A j \in P : j <= n
      BY SMT
    <2> QED
      BY Zenon, <2>1
  <1>4. n \in Reached
    BY SMT, <1>1, <1>3
  <1>5. PICK m \in Reached : \A y \in Reached : m <= y
    BY Zenon, <1>4, Least
  <1>6. m # 0
    <2>1. \A j \in P : ~ (j <= 0)
      BY SMT
    <2>2. Up(0) = {}
      BY Zenon, <2>1
    <2>3. Cardinality(Up(0)) = 0
      BY Zenon, <2>2, FS_EmptySet
    <2> HIDE DEF Up
    <2> QED
      BY SMT, <1>1, <2>3
  <1>7. m \in Nat /\ m - 1 \in Nat /\ ~ (m <= m - 1)
    BY SMT, <1>6
  <1>8. ~ (Cardinality(Up(m - 1)) >= k)
    BY Zenon, <1>5, <1>7
  <1>9. Cardinality(Up(m)) >= k
    BY Zenon, <1>5
  <1>10. m \in P /\ Up(m) = Up(m - 1) \cup {m} /\ m \notin Up(m - 1)
    <2>1. \A j \in P : j <= m <=> j <= m - 1 \/ j = m
      BY SMT, <1>7
    <2>2. m \in P
      <3> SUFFICES ASSUME m \notin P PROVE FALSE
        BY Zenon
      <3>1. Up(m) = Up(m - 1)
        BY Zenon, <2>1
      <3> QED
        BY Zenon, <1>8, <1>9, <3>1
    <2> QED
      BY Zenon, <1>7, <2>1, <2>2
  <1>11. Cardinality(Up(m)) = Cardinality(Up(m - 1)) + 1
    <2>1. PICK S : S = Up(m - 1)
      BY Zenon
    <2>2. IsFiniteSet(S) /\ m \notin S /\ Up(m) = S \cup {m}
      BY Zenon, <1>2, <1>10, <2>1
    <2>3. Cardinality(S \cup {m}) = Cardinality(S) + 1
      BY SMT, <2>2, FS_AddElement, FS_CardinalityType
    <2> QED
      BY Zenon, <2>1, <2>2, <2>3
  <1>12. Cardinality(Up(m)) = k
    <2>1. Cardinality(Up(m - 1)) \in Nat
      BY Zenon, <1>2
    <2> HIDE DEF Up
    <2> QED
      BY SMT, <1>1, <1>8, <1>9, <1>11, <2>1
  <1> QED
    BY Zenon, <1>10, <1>12

\* The calls of a family are calls, and of that family.
LEMMA OfRange ==
    ASSUME NEW family, NEW calls \in Seq(DOMAIN FamilyOf), NEW u \in Range(Of(family, calls))
    PROVE  u \in Range(calls) /\ FamilyOf[u] = family
  <1> DEFINE places == {i \in DOMAIN calls : FamilyOf[calls[i]] = family}
             place(k) == CHOOSE i \in places : Cardinality({j \in places : j <= i}) = k
  <1>1. PICK k \in 1..Cardinality(places) : u = calls[place(k)]
    BY Zenon DEF Range, Of
  <1>2. Len(calls) \in Nat /\ places \in SUBSET (1..Len(calls))
    BY SMT
  <1>3. \E i \in places : Cardinality({j \in places : j <= i}) = k
    <2> HIDE DEF places
    <2> QED
      BY Zenon, <1>2, RankIsTaken
  <1>4. place(k) \in places
    BY Zenon, <1>3
  <1> QED
    BY Zenon, <1>1, <1>4 DEF Range

\* A run exercises all its calls exactly when its grants permit them.
LEMMA ExercisesAll ==
    ASSUME NEW grants, NEW calls \in Seq(DOMAIN FamilyOf)
    PROVE  Exercised(grants, calls) = calls <=> Range(calls) \subseteq Allowed(grants)
  <1> DEFINE blocked == {i \in DOMAIN calls : calls[i] \notin Allowed(grants)}
             first == CHOOSE i \in blocked : \A j \in blocked : i <= j
  <1>1. CASE blocked = {}
    BY Zenon, <1>1 DEF Exercised, Range
  <1>2. CASE blocked # {}
    <2>1. blocked \subseteq Nat /\ blocked \subseteq DOMAIN calls
      BY SMT
    <2>2. \E i \in blocked : \A j \in blocked : i <= j
      <3> HIDE DEF blocked
      <3> QED
        BY Zenon, <1>2, <2>1, Least
    <2>3. first \in blocked
      BY Zenon, <2>2
    <2>4. first \in DOMAIN calls /\ calls[first] \notin Allowed(grants)
      BY Zenon, <2>3
    <2>5. Exercised(grants, calls) = SubSeq(calls, 1, first - 1)
      BY Zenon, <1>2 DEF Exercised
    <2>6. PICK k : k = first
      BY Zenon
    <2>7. SubSeq(calls, 1, k - 1) # calls
      <3>1. k \in 1..Len(calls)
        BY SMT, <2>4, <2>6
      <3>2. Len(SubSeq(calls, 1, k - 1)) = k - 1
        BY SMT, <3>1
      <3> QED
        BY SMT, <3>1, <3>2
    <2>8. ~ (Range(calls) \subseteq Allowed(grants))
      BY Zenon, <2>4 DEF Range
    <2> QED
      BY Zenon, <2>5, <2>6, <2>7, <2>8
  <1> QED
    BY Zenon, <1>1, <1>2

\* The way a component takes is one of its ways.
LEMMA WayIsOne ==
    ASSUME NEW n \in DOMAIN Skills, NEW grants
    PROVE  /\ WayOf(Skills[n], grants).calls \in Seq(DOMAIN FamilyOf)
           /\ ~ Skills[n].adaptive => WayOf(Skills[n], grants) = Skills[n].ways[1]
  <1> DEFINE s == Skills[n]
             open == {i \in DOMAIN s.ways : Permits(grants, s.ways[i])}
             pick == CHOOSE i \in open : \A j \in open : i <= j
  <1>1. s.ways[1].calls \in Seq(DOMAIN FamilyOf)
    BY Zenon, SkillsAssumption
  <1>2. CASE ~ (s.adaptive /\ open # {})
    BY Zenon, <1>1, <1>2 DEF WayOf
  <1>3. CASE s.adaptive /\ open # {}
    <2>1. open \subseteq Nat
      BY Zenon, SkillsAssumption
    <2>2. \E i \in open : \A j \in open : i <= j
      <3> HIDE DEF open
      <3> QED
        BY Zenon, <1>3, <2>1, Least
    <2>3. pick \in open
      BY Zenon, <2>2
    <2>4. s.ways[pick].calls \in Seq(DOMAIN FamilyOf)
      BY Zenon, <2>3, SkillsAssumption
    <2>5. WayOf(s, grants) = s.ways[pick]
      BY Zenon, <1>3 DEF WayOf
    <2> QED
      BY Zenon, <1>3, <2>4, <2>5
  <1> QED
    BY Zenon, <1>2, <1>3

-----------------------------------------------------------------------------
(* What a run and its projection hold *)

\* The grants let the skill run to its end.
Succeeds(n, grants) ==
    Skills[n].required \subseteq Allowed(grants) /\ Permits(grants, WayOf(Skills[n], grants))

\* What a run that got to its end saw of the world.
Sees(n, grants, w) ==
    IF ~ Skills[n].timed /\ Range(WayOf(Skills[n], grants).calls) \subseteq Immutable THEN 0 ELSE w

\* A run that got to its end has these parts.
Completed(record, n, grants, w) ==
    /\ record.status = "succeeded" /\ record.says = WayOf(Skills[n], grants).says
    /\ record.sees = Sees(n, grants, w)
    /\ record.echo = (IF Skills[n].echoes THEN grants ELSE {})
    /\ record.calls = WayOf(Skills[n], grants).calls /\ record.blocked = <<>>

\* The fields of a record of an execution.
RecordHas(r, a, b, c, d, e, f) ==
    r.status = a /\ r.says = b /\ r.sees = c /\ r.echo = d /\ r.calls = e /\ r.blocked = f

\* Runner::execute gets to the end where the grants let it, and nowhere else.
LEMMA ExecuteEnds ==
    ASSUME NEW n \in DOMAIN Skills, NEW grants, NEW w
    PROVE  /\ Execute(Skills[n], grants, w).status = "succeeded" => Succeeds(n, grants)
           /\ Succeeds(n, grants) => Completed(Execute(Skills[n], grants, w), n, grants, w)
           /\ Skills[n].required \subseteq Allowed(grants) <=> Execute(Skills[n], grants, w).status # "refused"
  <1> DEFINE s == Skills[n]
             way == WayOf(s, grants)
             done == Exercised(grants, way.calls)
             ok == done = way.calls
             run == Execute(s, grants, w)
  <1>1. ok <=> Permits(grants, way)
    BY Zenon, WayIsOne, ExercisesAll DEF Permits
  <1>2. CASE ~ (s.required \subseteq Allowed(grants))
    <2>1. run = Refused
      BY Zenon, <1>2 DEF Execute
    <2>2. Refused.status = "refused"
      BY Zenon DEF Refused
    <2> QED
      BY Zenon, <1>2, <2>1, <2>2 DEF Succeeds
  <1>3. CASE s.required \subseteq Allowed(grants)
    <2>1. run = [status |-> IF ok THEN "succeeded" ELSE "rejected",
                 says |-> IF ok THEN way.says ELSE Nothing,
                 sees |-> IF ~s.timed /\ Range(done) \subseteq Immutable THEN 0 ELSE w,
                 echo |-> IF ok /\ s.echoes THEN grants ELSE {},
                 calls |-> done,
                 blocked |-> IF ok THEN <<>> ELSE <<way.calls[Len(done) + 1]>>]
      BY Zenon, <1>3 DEF Execute
    <2>2. \A a, b, c, d, e, f :
            RecordHas([status |-> a, says |-> b, sees |-> c, echo |-> d, calls |-> e, blocked |-> f],
                      a, b, c, d, e, f)
      BY SMT DEF RecordHas
    <2>3. /\ run.status = (IF ok THEN "succeeded" ELSE "rejected")
          /\ run.says = (IF ok THEN way.says ELSE Nothing)
          /\ run.sees = (IF ~s.timed /\ Range(done) \subseteq Immutable THEN 0 ELSE w)
          /\ run.echo = (IF ok /\ s.echoes THEN grants ELSE {})
          /\ run.calls = done
          /\ run.blocked = (IF ok THEN <<>> ELSE <<way.calls[Len(done) + 1]>>)
      <3>1. RecordHas(run, IF ok THEN "succeeded" ELSE "rejected", IF ok THEN way.says ELSE Nothing,
                      IF ~s.timed /\ Range(done) \subseteq Immutable THEN 0 ELSE w,
                      IF ok /\ s.echoes THEN grants ELSE {}, done,
                      IF ok THEN <<>> ELSE <<way.calls[Len(done) + 1]>>)
        BY Zenon, <2>1, <2>2
      <3> HIDE DEF run, done, way, s
      <3> QED
        BY Zenon, <3>1 DEF RecordHas
    <2> HIDE DEF run, done, way, s
    <2>4. run.status # "refused" /\ (run.status = "succeeded" => ok)
      BY Zenon, <2>3
    <2>5. ASSUME ok PROVE Completed(run, n, grants, w)
      BY Zenon, <2>3, <2>5 DEF Completed, Sees, way, s
    <2> QED
      BY Zenon, <1>1, <1>3, <2>4, <2>5 DEF Succeeds, run, way, s
  <1> QED
    BY Zenon, <1>2, <1>3

\* The fields of a projection.
ProjectionHas(r, a, b, c, d, e, f, g) ==
    /\ r.status = a /\ r.says = b /\ r.sees = c /\ r.echo = d /\ r.evidence = e /\ r.children = f
    /\ r.emitted = g

\* A projection has these fields and no others.
Whole(r) ==
    r = [status |-> r.status, says |-> r.says, sees |-> r.sees, echo |-> r.echo,
         evidence |-> r.evidence, children |-> r.children, emitted |-> r.emitted]

\* What a comparator keeps of the evidence, the children and the emissions of a run.
EvidenceOf(record, id, c) ==
    IF c = "exact" /\ Of("emit-evidence", record.calls) # <<>> THEN {id} ELSE {}

ChildrenOf(record, id, c) ==
    IF c \in {"single-child", "multi-child"} \/ Of("invoke-skill", record.calls) = <<>>
    THEN [calls |-> Of("invoke-skill", record.calls), ids |-> {}]
    ELSE [calls |-> <<>>, ids |-> {id}]

EmittedOf(record, c) ==
    IF c = "single-sink" THEN <<Of("emit-evidence", record.calls), Of("emit-evidence", record.blocked)>>
    ELSE <<>>

\* The parts of a projection.
LEMMA ProjectionParts ==
    ASSUME NEW record, NEW id, NEW c
    PROVE  ProjectionHas(normalized_execution_projection(record, id, c), record.status, record.says,
                         record.sees, IF c = "exact" THEN record.echo ELSE {}, EvidenceOf(record, id, c),
                         ChildrenOf(record, id, c), EmittedOf(record, c))
  <1>1. \A a, b, d, e, f, g, h :
            ProjectionHas([status |-> a, says |-> b, sees |-> d, echo |-> e, evidence |-> f,
                           children |-> g, emitted |-> h], a, b, d, e, f, g, h)
    BY SMT DEF ProjectionHas
  <1> QED
    BY Zenon, <1>1 DEF normalized_execution_projection, EvidenceOf, ChildrenOf, EmittedOf

\* Projections with the same parts are the same.
LEMMA ProjectionIs ==
    ASSUME NEW record, NEW id, NEW c, NEW q,
           \E other, id2 : q = normalized_execution_projection(other, id2, c),
           ProjectionHas(q, record.status, record.says, record.sees,
                         IF c = "exact" THEN record.echo ELSE {}, EvidenceOf(record, id, c),
                         ChildrenOf(record, id, c), EmittedOf(record, c))
    PROVE  normalized_execution_projection(record, id, c) = q
  <1>1. PICK other, id2 : q = normalized_execution_projection(other, id2, c)
    BY Zenon
  <1>2. Whole(q)
    <2>1. \A a, b, d, e, f, g, h :
            Whole([status |-> a, says |-> b, sees |-> d, echo |-> e, evidence |-> f, children |-> g,
                   emitted |-> h])
      BY SMT DEF Whole
    <2> QED
      BY Zenon, <1>1, <2>1 DEF normalized_execution_projection
  <1>3. q = [status |-> record.status, says |-> record.says, sees |-> record.sees,
             echo |-> IF c = "exact" THEN record.echo ELSE {}, evidence |-> EvidenceOf(record, id, c),
             children |-> ChildrenOf(record, id, c), emitted |-> EmittedOf(record, c)]
    BY Zenon, <1>2 DEF Whole, ProjectionHas
  <1>4. normalized_execution_projection(record, id, c) =
            [status |-> record.status, says |-> record.says, sees |-> record.sees,
             echo |-> IF c = "exact" THEN record.echo ELSE {}, evidence |-> EvidenceOf(record, id, c),
             children |-> ChildrenOf(record, id, c), emitted |-> EmittedOf(record, c)]
    BY Zenon DEF normalized_execution_projection, EvidenceOf, ChildrenOf, EmittedOf
  <1> QED
    BY Zenon, <1>3, <1>4

-----------------------------------------------------------------------------
(* Runs that agree with the baseline *)

\* The baseline is the run under the whole envelope, of the world as it was then.
BaselineIs ==
    /\ proved \in DOMAIN Skills
    /\ baseline.record = Execute(Skills[proved], envelope, 0)
    /\ baseline.projection = normalized_execution_projection(baseline.record, 0, comparator)
    /\ Skills[proved].required \subseteq Allowed(envelope)

\* What the comparators keep of a way.
Children(calls) == [calls |-> Of("invoke-skill", calls), ids |-> {}]

Emitted(calls) ==
    IF comparator = "single-sink" THEN <<Of("emit-evidence", calls), Of("emit-evidence", <<>>)>> ELSE <<>>

\* Under these grants the skill does what it did in the baseline: no fresh identity is compared
\* and what is compared does not come from the world.
Agrees(grants) ==
    LET way == WayOf(Skills[proved], grants)
    IN  /\ Succeeds(proved, grants)
        /\ comparator = "exact" => Of("emit-evidence", way.calls) = <<>>
        /\ comparator \in {"single-child", "multi-child"} \/ Of("invoke-skill", way.calls) = <<>>
        /\ ProjectionHas(baseline.projection, "succeeded", way.says, 0,
                         IF comparator = "exact" /\ Skills[proved].echoes THEN grants ELSE {}, {},
                         Children(way.calls), Emitted(way.calls))

\* In the world of the baseline a run sees that world.
LEMMA SeesZero ==
    ASSUME NEW s, NEW grants
    PROVE  Execute(s, grants, 0).sees = 0
  <1> DEFINE way == WayOf(s, grants)
             done == Exercised(grants, way.calls)
             ok == done = way.calls
  <1>1. \A a, b, c, d, e, f :
            RecordHas([status |-> a, says |-> b, sees |-> c, echo |-> d, calls |-> e, blocked |-> f],
                      a, b, c, d, e, f)
    BY SMT DEF RecordHas
  <1>2. CASE ~ (s.required \subseteq Allowed(grants))
    <2>1. Refused.sees = 0
      BY Zenon DEF Refused
    <2> QED
      BY Zenon, <1>2, <2>1 DEF Execute
  <1>3. CASE s.required \subseteq Allowed(grants)
    <2>1. (IF ~s.timed /\ Range(done) \subseteq Immutable THEN 0 ELSE 0) = 0
      BY Zenon
    <2>2. RecordHas(Execute(s, grants, 0), IF ok THEN "succeeded" ELSE "rejected",
                    IF ok THEN way.says ELSE Nothing,
                    IF ~s.timed /\ Range(done) \subseteq Immutable THEN 0 ELSE 0,
                    IF ok /\ s.echoes THEN grants ELSE {}, done,
                    IF ok THEN <<>> ELSE <<way.calls[Len(done) + 1]>>)
      BY Zenon, <1>1, <1>3 DEF Execute
    <2> HIDE DEF way, done
    <2> QED
      BY Zenon, <2>1, <2>2 DEF RecordHas
  <1> QED
    BY Zenon, <1>2, <1>3

\* The parts of the projection of a run that got to its end.
LEMMA CompletedParts ==
    ASSUME proved \in DOMAIN Skills, NEW grants, Succeeds(proved, grants), NEW w, NEW id
    PROVE  LET record == Execute(Skills[proved], grants, w)
               way == WayOf(Skills[proved], grants)
           IN  /\ record.status = "succeeded" /\ record.says = way.says
               /\ record.sees = Sees(proved, grants, w) /\ record.calls = way.calls
               /\ (IF comparator = "exact" THEN record.echo ELSE {})
                    = (IF comparator = "exact" /\ Skills[proved].echoes THEN grants ELSE {})
               /\ EmittedOf(record, comparator) = Emitted(way.calls)
  <1>1. PICK record : record = Execute(Skills[proved], grants, w)
    BY Zenon
  <1>2. Completed(record, proved, grants, w)
    BY Zenon, <1>1, ExecuteEnds
  <1>3. (IF comparator = "exact" THEN record.echo ELSE {})
            = (IF comparator = "exact" /\ Skills[proved].echoes THEN grants ELSE {})
    BY Zenon, <1>2 DEF Completed
  <1>4. EmittedOf(record, comparator) = Emitted(WayOf(Skills[proved], grants).calls)
    BY Zenon, <1>2 DEF Completed, EmittedOf, Emitted
  <1> QED
    BY Zenon, <1>1, <1>2, <1>3, <1>4 DEF Completed

\* What the projection of the baseline can hold of the world and of fresh identities.
LEMMA BaselineParts ==
    ASSUME BaselineIs
    PROVE  /\ baseline.projection.sees = 0 /\ baseline.projection.evidence \in {{}, {0}}
           /\ baseline.projection.children.ids \in {{}, {0}}
  <1>1. PICK record : record = baseline.record
    BY Zenon
  <1>2. ProjectionHas(baseline.projection, record.status, record.says, record.sees,
                      IF comparator = "exact" THEN record.echo ELSE {}, EvidenceOf(record, 0, comparator),
                      ChildrenOf(record, 0, comparator), EmittedOf(record, comparator))
    BY Zenon, <1>1, ProjectionParts DEF BaselineIs
  <1>3. record.sees = 0
    BY Zenon, <1>1, SeesZero DEF BaselineIs
  <1>4. EvidenceOf(record, 0, comparator) \in {{}, {0}}
    BY Zenon DEF EvidenceOf
  <1>5. ChildrenOf(record, 0, comparator).ids \in {{}, {0}}
    <2>1. \A a, b : [calls |-> a, ids |-> b].ids = b
      BY Zenon
    <2> QED
      BY Zenon, <2>1 DEF ChildrenOf
  <1> QED
    BY Zenon, <1>2, <1>3, <1>4, <1>5 DEF ProjectionHas

\* An accepted trial agrees with the baseline in whatever world it ran.
LEMMA MatchesAgree ==
    ASSUME BaselineIs, NEW grants, NEW w \in {0, 1}, NEW n \in Nat \ {0}, Matches(grants, w, n)
    PROVE  Agrees(grants)
  <1>1. PICK record : record = Execute(Skills[proved], grants, w)
    BY Zenon
  <1>2. PICK way : way = WayOf(Skills[proved], grants)
    BY Zenon
  <1>3. PICK p : p = baseline.projection
    BY Zenon
  <1>4. record.status = "succeeded" /\ normalized_execution_projection(record, n, comparator) = p
    BY Zenon, <1>1, <1>3 DEF Matches
  <1>5. proved \in DOMAIN Skills /\ Succeeds(proved, grants)
    BY Zenon, <1>1, <1>4, ExecuteEnds DEF BaselineIs
  <1>6. /\ record.says = way.says /\ record.calls = way.calls
        /\ (IF comparator = "exact" THEN record.echo ELSE {})
              = (IF comparator = "exact" /\ Skills[proved].echoes THEN grants ELSE {})
        /\ EmittedOf(record, comparator) = Emitted(way.calls)
    BY Zenon, <1>1, <1>2, <1>5, CompletedParts
  <1>7. ProjectionHas(p, record.status, record.says, record.sees,
                      IF comparator = "exact" THEN record.echo ELSE {}, EvidenceOf(record, n, comparator),
                      ChildrenOf(record, n, comparator), EmittedOf(record, comparator))
    BY Zenon, <1>4, ProjectionParts
  <1>8. p.sees = 0 /\ p.evidence \in {{}, {0}} /\ p.children.ids \in {{}, {0}}
    BY Zenon, <1>3, BaselineParts
  <1>9. {n} \notin {{}, {0}}
    <2>1. n # 0
      BY SMT
    <2> QED
      BY Zenon, <2>1
  <1>10. /\ comparator = "exact" => Of("emit-evidence", way.calls) = <<>>
         /\ p.evidence = {}
    <2>1. EvidenceOf(record, n, comparator) \in {{}, {0}} /\ p.evidence = EvidenceOf(record, n, comparator)
      BY Zenon, <1>7, <1>8 DEF ProjectionHas
    <2> QED
      BY Zenon, <1>6, <1>9, <2>1 DEF EvidenceOf
  <1>11. /\ comparator \in {"single-child", "multi-child"} \/ Of("invoke-skill", way.calls) = <<>>
         /\ p.children = Children(way.calls)
    <2>1. ChildrenOf(record, n, comparator).ids \in {{}, {0}} /\ p.children = ChildrenOf(record, n, comparator)
      BY Zenon, <1>7, <1>8 DEF ProjectionHas
    <2>2. comparator \in {"single-child", "multi-child"} \/ Of("invoke-skill", way.calls) = <<>>
      <3> SUFFICES ASSUME ~ (comparator \in {"single-child", "multi-child"} \/ Of("invoke-skill", way.calls) = <<>>)
                   PROVE  FALSE
        BY Zenon
      <3>1. ChildrenOf(record, n, comparator) = [calls |-> <<>>, ids |-> {n}]
        BY Zenon, <1>6 DEF ChildrenOf
      <3>2. [calls |-> <<>>, ids |-> {n}].ids = {n}
        BY SMT
      <3>3. ChildrenOf(record, n, comparator).ids = {n}
        BY Zenon, <3>1, <3>2
      <3> QED
        BY Zenon, <1>9, <2>1, <3>3
    <2> QED
      BY Zenon, <1>6, <2>1, <2>2 DEF ChildrenOf, Children
  <1>12. ProjectionHas(p, "succeeded", way.says, 0,
                       IF comparator = "exact" /\ Skills[proved].echoes THEN grants ELSE {}, {},
                       Children(way.calls), Emitted(way.calls))
    BY Zenon, <1>4, <1>6, <1>7, <1>8, <1>10, <1>11 DEF ProjectionHas
  <1> QED
    BY Zenon, <1>2, <1>3, <1>5, <1>10, <1>11, <1>12 DEF Agrees

\* Grants that agree are accepted in the world of the baseline, by any trial.
LEMMA AgreesMatch ==
    ASSUME BaselineIs, NEW grants, Agrees(grants), NEW n
    PROVE  Matches(grants, 0, n)
  <1>1. PICK record : record = Execute(Skills[proved], grants, 0)
    BY Zenon
  <1>2. PICK way : way = WayOf(Skills[proved], grants)
    BY Zenon
  <1>3. proved \in DOMAIN Skills /\ Succeeds(proved, grants)
    BY Zenon DEF BaselineIs, Agrees
  <1>4. /\ record.status = "succeeded" /\ record.says = way.says /\ record.calls = way.calls
        /\ (IF comparator = "exact" THEN record.echo ELSE {})
              = (IF comparator = "exact" /\ Skills[proved].echoes THEN grants ELSE {})
        /\ EmittedOf(record, comparator) = Emitted(way.calls)
    BY Zenon, <1>1, <1>2, <1>3, CompletedParts
  <1>5. record.sees = 0
    BY Zenon, <1>1, SeesZero
  <1>6. EvidenceOf(record, n, comparator) = {}
    BY Zenon, <1>2, <1>4 DEF Agrees, EvidenceOf
  <1>7. ChildrenOf(record, n, comparator) = Children(way.calls)
    BY Zenon, <1>2, <1>4 DEF Agrees, ChildrenOf, Children
  <1>8. ProjectionHas(baseline.projection, record.status, record.says, record.sees,
                      IF comparator = "exact" THEN record.echo ELSE {}, EvidenceOf(record, n, comparator),
                      ChildrenOf(record, n, comparator), EmittedOf(record, comparator))
    BY Zenon, <1>2, <1>4, <1>5, <1>6, <1>7 DEF Agrees
  <1>9. normalized_execution_projection(record, n, comparator) = baseline.projection
    <2>1. baseline.projection = normalized_execution_projection(baseline.record, 0, comparator)
      BY Zenon DEF BaselineIs
    <2> QED
      BY Zenon, <1>8, <2>1, ProjectionIs
  <1> QED
    BY Zenon, <1>1, <1>4, <1>9 DEF Matches

-----------------------------------------------------------------------------
(* What the verdicts rest on *)

\* What the replay digest has to hold of a family before its trials start.
Bound(family) ==
    /\ family = "http-request" => Fixtures
    /\ family = "invoke-skill" => observed_invoke_skill_slice_for_comparator
    /\ family = "emit-evidence" => comparator = "single-sink" /\ observed_emit_evidence_slice

\* What the status of a family says of the grants that were kept.
Verdict(s, kept) ==
    /\ Settled(s) => Agrees(replace_family_grants(envelope, s.family, kept)) /\ Bound(s.family)
    /\ s.support = "supported" => s.family = "log-write"
    /\ s.proof = "exact_minimal" /\ world = 0 =>
            \A fewer \in (SUBSET kept) \ {kept} : ~Agrees(replace_family_grants(envelope, s.family, fewer))
    /\ s.proof = "exact_minimal" /\ s.family = "emit-evidence" =>
            Allowed(kept) = Range(Used("emit-evidence"))

\* The families that the search is done with.
Passed(family) == \E i \in 1..(at - 1) : FamilyOrder[i] = family

\* Inductive strengthening: every status says what is true of the grants it kept.
VerdictInv ==
    /\ step = "baseline" => world = 0
    /\ step \in {"baseline", "failed"} => statuses = <<>>
    /\ step \notin {"baseline", "failed"} => BaselineIs
    /\ residual \subseteq envelope
    /\ \A k \in DOMAIN statuses :
        Passed(statuses[k].family) /\ Verdict(statuses[k], ProvenFor(statuses[k].family))
    /\ \A g \in proven :
        /\ Passed(g.family)
        /\ \E k \in DOMAIN statuses : statuses[k].family = g.family /\ Settled(statuses[k])

\* Inductive strengthening: what the trials of the family that is worked on have shown.
FamilyInv ==
    /\ \A g \in reduced : g.family = Family
    /\ step \notin {"shrink", "subsets"} => reduced = {}
    /\ step \in {"remove", "shrink", "subsets"} => Bound(Family)
    /\ step = "shrink" /\ Family = "emit-evidence" =>
            reduced # {} /\ \A g \in reduced : g.scope = Range(Used("emit-evidence"))
    /\ step \in {"shrink", "subsets"} /\ Family = "log-write" /\ world = 0 =>
            ~Agrees(remove_family_grants(envelope, "log-write"))
    /\ step = "subsets" =>
            /\ Family = "log-write" /\ Agrees(replace_family_grants(envelope, "log-write", reduced))
            /\ world = 0 /\ ~beaten =>
                \A fewer \in proper_nonempty_subsets(reduced) \ left :
                    ~Agrees(replace_family_grants(envelope, "log-write", fewer))

\* What a call of prove_live_authority keeps from its baseline on.
Same == UNCHANGED <<Asked, baseline>>

\* What agrees with the baseline goes on to agree.
LEMMA AgreesSame ==
    ASSUME Same, NEW grants
    PROVE  Agrees(grants)' <=> Agrees(grants)
  <1>1. proved' = proved /\ comparator' = comparator /\ baseline' = baseline
    BY Zenon DEF Same, Asked
  <1> QED
    BY Zenon, <1>1 DEF Agrees, Emitted

\* What was observed stays observed.
LEMMA BoundSame ==
    ASSUME Same
    PROVE  /\ \A family : Bound(family)' <=> Bound(family)
           /\ Used("emit-evidence")' = Used("emit-evidence")
           /\ (BaselineIs => BaselineIs')
  <1>1. proved' = proved /\ comparator' = comparator /\ baseline' = baseline /\ envelope' = envelope
    BY Zenon DEF Same, Asked
  <1>2. ASSUME NEW family, NEW n PROVE ExactSlice(family, n)' <=> ExactSlice(family, n)
    BY Zenon, <1>1 DEF ExactSlice, Used, Blocked
  <1>3. \A family : Bound(family)' <=> Bound(family)
    <2>1. observed_invoke_skill_slice_for_comparator' <=> observed_invoke_skill_slice_for_comparator
      BY Zenon, <1>1, <1>2 DEF observed_invoke_skill_slice_for_comparator, observed_invoke_skill_slice
    <2>2. observed_emit_evidence_slice' <=> observed_emit_evidence_slice
      BY Zenon, <1>2 DEF observed_emit_evidence_slice
    <2> QED
      BY Zenon, <1>1, <2>1, <2>2 DEF Bound
  <1>4. Used("emit-evidence")' = Used("emit-evidence")
    BY Zenon, <1>1 DEF Used
  <1> QED
    BY Zenon, <1>1, <1>3, <1>4 DEF BaselineIs

\* A verdict stays true, also when the world moves on.
LEMMA VerdictSame ==
    ASSUME Same, world' = world \/ world' = 1, NEW s, NEW kept, Verdict(s, kept)
    PROVE  Verdict(s, kept)'
  <1>1. envelope' = envelope /\ (world' = 0 => world = 0)
    <2>1. 1 # 0
      BY SMT
    <2> QED
      BY Zenon, <2>1 DEF Same, Asked
  <1>2. \A grants : Agrees(grants)' <=> Agrees(grants)
    BY Zenon, AgreesSame
  <1>3. Used("emit-evidence")' = Used("emit-evidence") /\ (Bound(s.family)' <=> Bound(s.family))
    BY Zenon, BoundSame
  <1> QED
    BY Zenon, <1>1, <1>2, <1>3 DEF Verdict

\* A family is not passed before its turn.
LEMMA NotYet ==
    ASSUME at \in 1..5
    PROVE  ~ Passed(Family)
  <1>1. ASSUME NEW i \in 1..5, NEW j \in 1..5, FamilyOrder[i] = FamilyOrder[j] PROVE i = j
    BY <1>1 DEF FamilyOrder
  <1>2. \A i \in 1..(at - 1) : i \in 1..5 /\ i # at
    BY SMT
  <1> QED
    BY Zenon, <1>1, <1>2 DEF Passed, Family

\* The next family leaves this one passed.
LEMMA PassedNext ==
    ASSUME at \in 1..5, at' = at + 1, NEW family
    PROVE  Passed(family)' <=> Passed(family) \/ family = Family
  <1>1. \A i : i \in 1..(at' - 1) <=> i \in 1..(at - 1) \/ i = at
    BY SMT
  <1> QED
    BY Zenon, <1>1 DEF Passed, Family

-----------------------------------------------------------------------------
(* The parts of a step, again: what they leave of the verdicts *)

\* The end of a family adds its status and its grants, and no family sees the grants of another.
LEMMA ConcludeVerdicts ==
    ASSUME SearchInv, VerdictInv, Working, step # "baseline", Same, world' = world,
           NEW grants, \A g \in grants : g.family = Family, NEW rest \in SUBSET envelope,
           NEW support \in {"supported", "bounded", "not_proven"},
           NEW proof \in {"exact_minimal", "bounded_minimal", "no_reduction", "reduced", "not_proven"},
           support = "not_proven" => grants = {},
           Conclude(grants, rest, support, proof),
           NEW s, s = [family |-> Family, support |-> support, proof |-> proof], Verdict(s, grants)
    PROVE  VerdictInv' /\ FamilyInv'
  <1>1. /\ at \in 1..5 /\ at' = at + 1 /\ step' \in {"done", "observe"} /\ statuses \in Seq(FamilyStatus)
        /\ BaselineIs /\ envelope' = envelope
    BY Zenon DEF SearchInv, VerdictInv, Working, Conclude, Same, Asked
  <1>2. /\ proven' = proven \cup grants /\ residual' = residual \cup rest /\ reduced' = {}
        /\ statuses' = Append(statuses, s)
    BY Zenon DEF Conclude
  <1>3. s \in FamilyStatus /\ s.family = Family /\ s.support = support
    BY Zenon, <1>1, FiveFamilies DEF FamilyStatus, Family
  <1>4. /\ \A k \in DOMAIN statuses' : (k \in DOMAIN statuses /\ statuses'[k] = statuses[k]) \/ statuses'[k] = s
        /\ \A k \in DOMAIN statuses : k \in DOMAIN statuses' /\ statuses'[k] = statuses[k]
        /\ \E k \in DOMAIN statuses' : statuses'[k] = s
    <2>1. DOMAIN statuses' = DOMAIN statuses \cup {Len(statuses) + 1} /\ statuses'[Len(statuses) + 1] = s
      BY SMT, <1>1, <1>2, <1>3
    <2>2. \A k \in DOMAIN statuses : statuses'[k] = statuses[k]
      BY SMT, <1>1, <1>2, <1>3
    <2> QED
      BY Zenon, <2>1, <2>2
  <1>5. \A family : Passed(family)' <=> Passed(family) \/ family = Family
    BY Zenon, <1>1, PassedNext
  <1>6. ~ Passed(Family)
    BY Zenon, <1>1, NotYet
  <1>7. ASSUME NEW family, Passed(family)
        PROVE  family_grants(proven', family) = family_grants(proven, family)
    <2>1. family # Family
      BY Zenon, <1>6, <1>7
    <2> QED
      BY Zenon, <1>2, <2>1 DEF family_grants
  <1>8. family_grants(proven', Family) = grants
    <2>1. \A g \in proven : g.family # Family
      BY Zenon, <1>6 DEF VerdictInv
    <2> QED
      BY Zenon, <1>2, <2>1 DEF family_grants
  <1>9. ASSUME NEW k \in DOMAIN statuses', NEW t, t = statuses'[k],
               NEW kept, kept = family_grants(proven', t.family)
        PROVE  Passed(t.family)' /\ Verdict(t, kept)'
    <2>1. CASE k \in DOMAIN statuses /\ t = statuses[k]
      <3>1. Passed(t.family) /\ Verdict(t, family_grants(proven, t.family))
        BY Zenon, <2>1 DEF VerdictInv, ProvenFor
      <3>2. Verdict(t, kept)
        BY Zenon, <1>7, <1>9, <3>1
      <3> QED
        BY Zenon, <1>5, <3>1, <3>2, VerdictSame
    <2>2. CASE t = s
      <3>1. Passed(t.family)'
        BY Zenon, <1>3, <1>5, <2>2
      <3>2. Verdict(t, kept)
        BY Zenon, <1>3, <1>8, <1>9, <2>2
      <3> QED
        BY Zenon, <3>1, <3>2, VerdictSame
    <2> QED
      BY Zenon, <1>4, <1>9, <2>1, <2>2
  <1>10. ASSUME NEW g \in proven'
         PROVE  /\ Passed(g.family)'
                /\ \E k \in DOMAIN statuses' : statuses'[k].family = g.family /\ Settled(statuses'[k])
    <2>1. CASE g \in proven
      <3>1. /\ Passed(g.family)
            /\ \E k \in DOMAIN statuses : statuses[k].family = g.family /\ Settled(statuses[k])
        BY Zenon, <2>1 DEF VerdictInv
      <3> QED
        BY Zenon, <1>4, <1>5, <3>1
    <2>2. CASE g \in grants
      <3>1. g.family = Family /\ Settled(s)
        BY Zenon, <1>3, <2>2 DEF Settled
      <3> QED
        BY Zenon, <1>3, <1>4, <1>5, <3>1
    <2> QED
      BY Zenon, <1>2, <2>1, <2>2
  <1>11. BaselineIs' /\ residual' \subseteq envelope'
    BY Zenon, <1>1, <1>2, BoundSame DEF VerdictInv
  <1>12. VerdictInv'
    BY Zenon, <1>1, <1>9, <1>10, <1>11 DEF VerdictInv, ProvenFor
  <1>13. FamilyInv'
    BY Zenon, <1>1, <1>2 DEF FamilyInv
  <1> QED
    BY Zenon, <1>12, <1>13

\* A family that is given up keeps nothing.
LEMMA NotProvenVerdicts ==
    ASSUME SearchInv, VerdictInv, Working, step # "baseline", Same, world' = world, not_proven
    PROVE  VerdictInv' /\ FamilyInv'
  <1>1. PICK s : s = [family |-> Family, support |-> "not_proven", proof |-> "not_proven"]
    BY Zenon
  <1>2. s.support = "not_proven" /\ s.proof = "not_proven"
    BY Zenon, <1>1
  <1>3. Verdict(s, {})
    BY Zenon, <1>2 DEF Verdict, Settled
  <1>4. family_grants(envelope, Family) \in SUBSET envelope
    BY Zenon DEF family_grants
  <1> QED
    BY Zenon, <1>1, <1>3, <1>4, ConcludeVerdicts DEF not_proven

\* On to the next trial of the family, with what it was narrowed to.
LEMMA GotoVerdicts ==
    ASSUME SearchInv, VerdictInv, Working, step # "baseline", Same, world' = world,
           NEW next \in {"remove", "shrink"}, Goto(next),
           \A g \in reduced' : g.family = Family, next = "remove" => reduced' = {},
           Bound(Family),
           next = "shrink" /\ Family = "emit-evidence" =>
               reduced' # {} /\ \A g \in reduced' : g.scope = Range(Used("emit-evidence")),
           next = "shrink" /\ Family = "log-write" /\ world = 0 =>
               ~Agrees(remove_family_grants(envelope, "log-write"))
    PROVE  VerdictInv' /\ FamilyInv'
  <1>1. /\ step' = next /\ at' = at /\ UNCHANGED <<proven, residual, statuses>> /\ envelope' = envelope
        /\ BaselineIs
    BY Zenon DEF Goto, Same, Asked, VerdictInv, Working
  <1>2. \A s, kept : Verdict(s, kept) => Verdict(s, kept)'
    BY Zenon, VerdictSame
  <1>3. \A family : Passed(family)' <=> Passed(family)
    BY Zenon, <1>1 DEF Passed
  <1>4. Family' = Family
    BY Zenon, <1>1 DEF Family
  <1>5. /\ \A family : Bound(family)' <=> Bound(family)
        /\ Used("emit-evidence")' = Used("emit-evidence") /\ BaselineIs'
    BY Zenon, <1>1, BoundSame
  <1>6. \A grants : Agrees(grants)' <=> Agrees(grants)
    BY Zenon, AgreesSame
  <1>7. VerdictInv'
    BY Zenon, <1>1, <1>2, <1>3, <1>5 DEF VerdictInv, ProvenFor
  <1>8. Bound(Family)'
    BY Zenon, <1>4, <1>5
  <1>9. FamilyInv'
    BY Zenon, <1>1, <1>4, <1>5, <1>6, <1>8 DEF FamilyInv
  <1> QED
    BY Zenon, <1>7, <1>9

\* What a trial tells: accepted, the grants agree; refused by an unchanged world, they do not.
LEMMA TrialTells ==
    ASSUME VerdictInv, PlaceInv, TrialsInv, step \notin {"baseline", "failed"},
           Family \in Families, NEW kind \in {"remove_grant", "shrink_scope"},
           NEW grants \in GrantSet, Try(kind, grants)
    PROVE  /\ Same /\ world' = world
           /\ Accepted => Agrees(grants)
           /\ ~Accepted /\ world = 0 => ~Agrees(grants)
  <1>1. PICK n, m : n = Len(trials) + 1 /\ m = Matches(grants, world, n)
    BY Zenon
  <1>2. PICK t : t = [family |-> Family, kind |-> kind, grants |-> grants, accepted |-> m]
                 /\ trials' = Append(trials, t)
    BY Zenon, <1>1 DEF Try
  <1>3. trials \in Seq(Trial)
    BY Zenon DEF TrialsInv
  <1>4. n \in Nat \ {0}
    BY SMT, <1>1, <1>3
  <1>5. m \in BOOLEAN
    BY Zenon, <1>1 DEF Matches
  <1>6. t \in Trial /\ t.accepted = m
    BY Zenon, <1>2, <1>5 DEF Trial
  <1>7. trials'[Len(trials')] = t
    BY SMT, <1>2, <1>3, <1>6
  <1>8. Accepted <=> Matches(grants, world, n)
    BY Zenon, <1>1, <1>6, <1>7 DEF Accepted
  <1>9. BaselineIs /\ Same /\ world' = world
    BY Zenon DEF VerdictInv, Try, Same
  <1>10. world \in {0, 1}
    BY SMT DEF PlaceInv
  <1>11. Matches(grants, world, n) => Agrees(grants)
    BY Zenon, <1>4, <1>9, <1>10, MatchesAgree
  <1>12. world = 0 /\ Agrees(grants) => Matches(grants, world, n)
    BY Zenon, <1>9, AgreesMatch
  <1> QED
    BY Zenon, <1>8, <1>9, <1>11, <1>12

\* Without a family, and with none of its grants put back, is the same.
LEMMA RemoveIsReplace ==
    ASSUME NEW grants, NEW family
    PROVE  replace_family_grants(grants, family, {}) = remove_family_grants(grants, family)
  BY Zenon DEF replace_family_grants

\* A family that is settled as bounded, on the word of an accepted trial.
LEMMA BoundedVerdicts ==
    ASSUME SearchInv, VerdictInv, Working, step # "baseline", Same, world' = world, Bound(Family),
           NEW kept, \A g \in kept : g.family = Family,
           Agrees(replace_family_grants(envelope, Family, kept)),
           NEW proof \in {"bounded_minimal", "no_reduction"}, Conclude(kept, {}, "bounded", proof)
    PROVE  VerdictInv' /\ FamilyInv'
  <1>1. PICK s : s = [family |-> Family, support |-> "bounded", proof |-> proof]
    BY Zenon
  <1>2. s.family = Family /\ s.support = "bounded" /\ s.proof = proof
    BY Zenon, <1>1
  <1>3. Verdict(s, kept)
    BY Zenon, <1>2 DEF Verdict
  <1> QED
    BY Zenon, <1>1, <1>3, ConcludeVerdicts

\* What a family is reduced to is of that family.
LEMMA ReduceFamily ==
    ASSUME NEW family, NEW caps, NEW r \in Reduce(family, caps)
    PROVE  r.family = family
  <1>1. PICK g \in envelope, cap \in caps : r = [family |-> family, scope |-> g.scope \cap cap]
    BY SMT DEF Reduce, family_grants
  <1> QED
    BY Zenon, <1>1

\* The family is narrowed, or given up.
LEMMA NarrowVerdicts ==
    ASSUME SearchInv, VerdictInv, FamilyInv, Working, step = "remove", Same, world' = world,
           NEW candidate, \A g \in candidate : g.family = Family,
           Family = "emit-evidence" => \A g \in candidate : g.scope = Range(Used("emit-evidence")),
           Family = "log-write" /\ world = 0 => ~Agrees(remove_family_grants(envelope, "log-write")),
           NarrowTo(Family, candidate)
    PROVE  VerdictInv' /\ FamilyInv'
  <1>1. step # "baseline" /\ Bound(Family)
    BY Zenon DEF FamilyInv
  <1>2. CASE not_proven
    BY Zenon, <1>1, <1>2, NotProvenVerdicts
  <1>3. CASE candidate # {} /\ reduced' = candidate /\ Goto("shrink")
    BY Zenon, <1>1, <1>3, GotoVerdicts
  <1> QED
    BY Zenon, <1>2, <1>3 DEF NarrowTo, grants_collectively_cover

\* Looking at a family: what its trials would have to be bound to was observed.
LEMMA StartVerdicts ==
    ASSUME SearchInv, VerdictInv, FamilyInv, NEW family, NEW observable, Start(family, observable),
           observable => Bound(family)
    PROVE  VerdictInv' /\ FamilyInv'
  <1>1. step = "observe" /\ Family = family /\ Same /\ world' = world /\ reduced = {}
    BY Zenon DEF Start, Same, FamilyInv
  <1>2. Working /\ step # "baseline"
    BY Zenon, <1>1 DEF Working
  <1>3. CASE not_proven
    BY Zenon, <1>1, <1>2, <1>3, NotProvenVerdicts
  <1>4. CASE observable /\ Goto("remove") /\ UNCHANGED reduced
    <2>1. reduced' = {} /\ Bound(Family)
      BY Zenon, <1>1, <1>4
    <2> QED
      BY Zenon, <1>1, <1>2, <1>4, <2>1, GotoVerdicts
  <1> QED
    BY Zenon, <1>3, <1>4 DEF Start

-----------------------------------------------------------------------------
(* The steps, again *)

\* All that holds of the search.
LiveInv == SearchInv /\ TrialsInv /\ PlaceInv /\ VerdictInv /\ FamilyInv

\* The trial without a family.
LEMMA RemovalTells ==
    ASSUME LiveInv, NEW family, TryRemoval(family)
    PROVE  /\ Working /\ step = "remove" /\ Family = family /\ family \in Families
           /\ Same /\ world' = world /\ Bound(family)
           /\ Accepted => Agrees(replace_family_grants(envelope, family, {}))
           /\ ~Accepted /\ world = 0 => ~Agrees(remove_family_grants(envelope, family))
  <1>1. /\ step = "remove" /\ Family = family
        /\ Try("remove_grant", remove_family_grants(envelope, family))
    BY Zenon DEF TryRemoval
  <1>2. Working /\ Bound(family) /\ step \notin {"baseline", "failed"}
    BY Zenon, <1>1 DEF Working, LiveInv, FamilyInv
  <1>3. Family \in Families /\ envelope \in Envelopes
    BY Zenon, <1>2, FiveFamilies DEF Family, LiveInv, SearchInv
  <1>4. remove_family_grants(envelope, family) \in GrantSet
    BY Zenon, <1>3, EnvelopeWithin DEF Within
  <1>5. VerdictInv /\ PlaceInv /\ TrialsInv
    BY Zenon DEF LiveInv
  <1>6. /\ Same /\ world' = world
        /\ Accepted => Agrees(remove_family_grants(envelope, family))
        /\ ~Accepted /\ world = 0 => ~Agrees(remove_family_grants(envelope, family))
    BY Zenon, <1>1, <1>2, <1>3, <1>4, <1>5, TrialTells
  <1> QED
    BY Zenon, <1>1, <1>2, <1>3, <1>6, RemoveIsReplace

\* The trial with the family as reduced.
LEMMA ReducedTells ==
    ASSUME LiveInv, NEW family, TryReduced(family)
    PROVE  /\ Working /\ step = "shrink" /\ Family = family
           /\ Same /\ world' = world /\ Bound(family) /\ \A g \in reduced : g.family = Family
           /\ Accepted => Agrees(replace_family_grants(envelope, family, reduced))
  <1>1. /\ step = "shrink" /\ Family = family
        /\ Try("shrink_scope", replace_family_grants(envelope, family, reduced))
    BY Zenon DEF TryReduced
  <1>2. /\ Working /\ Bound(family) /\ step \notin {"baseline", "failed"}
        /\ \A g \in reduced : g.family = Family
    BY Zenon, <1>1 DEF Working, LiveInv, FamilyInv
  <1>3. Family \in Families
    BY Zenon, <1>2, FiveFamilies DEF Family, LiveInv, SearchInv
  <1>4. replace_family_grants(envelope, family, reduced) \in GrantSet
    BY Zenon, ReplacedWithin DEF Within, LiveInv
  <1>5. VerdictInv /\ PlaceInv /\ TrialsInv
    BY Zenon DEF LiveInv
  <1>6. /\ Same /\ world' = world
        /\ Accepted => Agrees(replace_family_grants(envelope, family, reduced))
    BY Zenon, <1>1, <1>2, <1>3, <1>4, <1>5, TrialTells
  <1> QED
    BY Zenon, <1>1, <1>2, <1>6

\* http-request, read-resource and invoke-skill.
LEMMA BoundedFamiliesVerdicts ==
    ASSUME LiveInv,
           \/ RemoveHttp \/ ShrinkHttp \/ RemoveRead \/ ShrinkRead \/ RemoveInvoke \/ ShrinkInvoke
    PROVE  VerdictInv' /\ FamilyInv'
  <1>0. SearchInv /\ VerdictInv /\ FamilyInv
    BY Zenon DEF LiveInv
  <1>1. ASSUME NEW family, TryRemoval(family), NEW caps, family \notin {"emit-evidence", "log-write"},
               \/ Accepted /\ Conclude({}, {}, "bounded", "bounded_minimal")
               \/ NarrowTo(family, Reduce(family, caps))
               \/ not_proven
        PROVE  VerdictInv' /\ FamilyInv'
    <2>1. /\ Working /\ step = "remove" /\ step # "baseline" /\ Family = family
          /\ Same /\ world' = world /\ Bound(Family)
          /\ Accepted => Agrees(replace_family_grants(envelope, Family, {}))
      BY Zenon, <1>1, RemovalTells
    <2>2. \A g \in Reduce(family, caps) : g.family = Family
      BY Zenon, <2>1, ReduceFamily
    <2>3. CASE Accepted /\ Conclude({}, {}, "bounded", "bounded_minimal")
      BY Zenon, <1>0, <2>1, <2>3, BoundedVerdicts
    <2>4. CASE NarrowTo(family, Reduce(family, caps))
      <3>1. NarrowTo(Family, Reduce(family, caps)) /\ Family \notin {"emit-evidence", "log-write"}
        BY Zenon, <1>1, <2>1, <2>4
      <3> QED
        BY Zenon, <1>0, <2>1, <2>2, <3>1, NarrowVerdicts
    <2>5. CASE not_proven
      BY Zenon, <1>0, <2>1, <2>5, NotProvenVerdicts
    <2> QED
      BY Zenon, <1>1, <2>3, <2>4, <2>5
  <1>2. ASSUME NEW family, TryReduced(family), (Accepted /\ BoundedMinimal) \/ not_proven
        PROVE  VerdictInv' /\ FamilyInv'
    <2>1. /\ Working /\ step # "baseline" /\ Same /\ world' = world /\ Bound(Family)
          /\ \A g \in reduced : g.family = Family
          /\ Accepted => Agrees(replace_family_grants(envelope, Family, reduced))
      BY Zenon, <1>2, ReducedTells
    <2>2. CASE Accepted /\ BoundedMinimal
      <3>1. PICK proof \in {"bounded_minimal", "no_reduction"} : Conclude(reduced, {}, "bounded", proof)
        BY Zenon, <2>2 DEF BoundedMinimal, NoReduction
      <3> QED
        BY Zenon, <1>0, <2>1, <2>2, <3>1, BoundedVerdicts
    <2>3. CASE not_proven
      BY Zenon, <1>0, <2>1, <2>3, NotProvenVerdicts
    <2> QED
      BY Zenon, <1>2, <2>2, <2>3
  <1>3. CASE RemoveHttp
    <2>1. "http-request" \notin {"emit-evidence", "log-write"}
      BY Zenon
    <2> QED
      BY Zenon, <1>1, <1>3, <2>1 DEF RemoveHttp
  <1>4. CASE RemoveRead
    <2>1. "read-resource" \notin {"emit-evidence", "log-write"}
      BY Zenon
    <2> QED
      BY Zenon, <1>1, <1>4, <2>1 DEF RemoveRead
  <1>5. CASE RemoveInvoke
    <2>1. "invoke-skill" \notin {"emit-evidence", "log-write"}
      BY Zenon
    <2> QED
      BY Zenon, <1>1, <1>5, <2>1 DEF RemoveInvoke
  <1>6. CASE ShrinkHttp \/ ShrinkRead \/ ShrinkInvoke
    BY Zenon, <1>2, <1>6 DEF ShrinkHttp, ShrinkRead, ShrinkInvoke
  <1> QED
    BY Zenon, <1>3, <1>4, <1>5, <1>6

\* Under the single-sink comparator the one emission of the baseline has to be emitted again, and
\* no other family allows that.
LEMMA EmissionIsNeeded ==
    ASSUME BaselineIs, envelope \in Envelopes, Bound("emit-evidence")
    PROVE  ~ Agrees(remove_family_grants(envelope, "emit-evidence"))
  <1> SUFFICES ASSUME Agrees(remove_family_grants(envelope, "emit-evidence")) PROVE FALSE
    BY Zenon
  <1>1. PICK rest : rest = remove_family_grants(envelope, "emit-evidence")
    BY Zenon
  <1>2. PICK calls : calls = WayOf(Skills[proved], rest).calls
    BY Zenon
  <1>3. comparator = "single-sink" /\ observed_emit_evidence_slice
    BY Zenon DEF Bound
  <1>4. baseline.projection.emitted = Emitted(calls) /\ Succeeds(proved, rest) /\ proved \in DOMAIN Skills
    BY Zenon, <1>1, <1>2 DEF Agrees, ProjectionHas, BaselineIs
  <1>5. baseline.projection.emitted = EmittedOf(baseline.record, comparator)
    <2>1. baseline.projection = normalized_execution_projection(baseline.record, 0, comparator)
      BY Zenon DEF BaselineIs
    <2>2. PICK record : record = baseline.record
      BY Zenon
    <2>3. ProjectionHas(baseline.projection, record.status, record.says, record.sees,
                        IF comparator = "exact" THEN record.echo ELSE {}, EvidenceOf(record, 0, comparator),
                        ChildrenOf(record, 0, comparator), EmittedOf(record, comparator))
      BY Zenon, <2>1, <2>2, ProjectionParts
    <2> QED
      BY Zenon, <2>2, <2>3 DEF ProjectionHas
  <1>6. <<Used("emit-evidence"), Blocked("emit-evidence")>> =
            <<Of("emit-evidence", calls), Of("emit-evidence", <<>>)>>
    BY Zenon, <1>3, <1>4, <1>5 DEF EmittedOf, Emitted, Used, Blocked
  <1>7. Used("emit-evidence") = Of("emit-evidence", calls)
    <2>1. ASSUME NEW a, NEW b, NEW c, NEW d, <<a, b>> = <<c, d>> PROVE a = c
      BY SMT, <2>1
    <2> QED
      BY Zenon, <1>6, <2>1
  <1>8. PICK u : u \in Range(Used("emit-evidence"))
    <2>1. Cardinality(Range(Used("emit-evidence"))) = 1
      BY Zenon, <1>3 DEF observed_emit_evidence_slice, ExactSlice
    <2>2. Cardinality({}) = 0 /\ 0 # 1
      BY SMT, FS_EmptySet
    <2> QED
      BY Zenon, <2>1, <2>2
  <1>9. calls \in Seq(DOMAIN FamilyOf)
    BY Zenon, <1>2, <1>4, WayIsOne
  <1>10. u \in Range(calls) /\ FamilyOf[u] = "emit-evidence"
    BY Zenon, <1>7, <1>8, <1>9, OfRange
  <1>11. u \in Allowed(rest)
    BY Zenon, <1>2, <1>4, <1>10 DEF Succeeds, Permits
  <1>12. PICK g \in envelope : g.family # "emit-evidence" /\ u \in g.scope
    BY Zenon, <1>1, <1>11 DEF Allowed, remove_family_grants, family_grants
  <1>13. FamilyOf[u] = g.family
    BY Zenon, <1>12, EnvelopesAssumption
  <1> QED
    BY Zenon, <1>10, <1>12, <1>13

\* emit-evidence.
LEMMA EmitVerdicts ==
    ASSUME LiveInv, RemoveEmit \/ ShrinkEmit
    PROVE  VerdictInv' /\ FamilyInv'
  <1>0. SearchInv /\ VerdictInv /\ FamilyInv /\ envelope \in Envelopes
    BY Zenon DEF LiveInv, SearchInv
  <1>1. CASE RemoveEmit
    <2> DEFINE used == Range(Used("emit-evidence"))
               base == {h \in family_grants(envelope, "emit-evidence") : emit_evidence_constraints_cover(h)}
               candidate == {[g EXCEPT !.scope = used] : g \in base}
    <2>1. TryRemoval("emit-evidence") /\ NarrowTo("emit-evidence", candidate)
      BY Zenon, <1>1 DEF RemoveEmit
    <2>2. Working /\ step = "remove" /\ Family = "emit-evidence" /\ Same /\ world' = world
      BY Zenon, <2>1, RemovalTells
    <2>3. \A g \in base : /\ g \in [family : Families, scope : SUBSET DOMAIN FamilyOf]
                          /\ g.family = "emit-evidence"
      BY Zenon, <1>0, EnvelopesAssumption DEF family_grants
    <2> HIDE DEF base, used
    <2>4. ASSUME NEW r \in candidate PROVE r.family = "emit-evidence" /\ r.scope = used
      <3>1. PICK g \in base : r = [g EXCEPT !.scope = used]
        BY Zenon
      <3> QED
        BY Zenon, <2>3, <3>1
    <2>5. "emit-evidence" # "log-write"
      BY Zenon
    <2> HIDE DEF candidate
    <2> QED
      BY Zenon, <1>0, <2>1, <2>2, <2>4, <2>5, NarrowVerdicts DEF used
  <1>2. CASE ShrinkEmit
    <2>1. /\ TryReduced("emit-evidence")
          /\ \/ not_proven
             \/ Accepted /\ Conclude(reduced, {}, "bounded", "exact_minimal")
      BY Zenon, <1>2 DEF ShrinkEmit
    <2>2. /\ Working /\ step = "shrink" /\ step # "baseline" /\ Family = "emit-evidence"
          /\ Same /\ world' = world /\ Bound("emit-evidence") /\ \A g \in reduced : g.family = Family
          /\ Accepted => Agrees(replace_family_grants(envelope, "emit-evidence", reduced))
      BY Zenon, <2>1, ReducedTells
    <2>3. CASE not_proven
      BY Zenon, <1>0, <2>2, <2>3, NotProvenVerdicts
    <2>4. CASE Accepted /\ Conclude(reduced, {}, "bounded", "exact_minimal")
      <3>1. PICK s : s = [family |-> Family, support |-> "bounded", proof |-> "exact_minimal"]
        BY Zenon
      <3>2. s.family = "emit-evidence" /\ s.support = "bounded"
        BY Zenon, <2>2, <3>1
      <3>3. reduced # {} /\ \A g \in reduced : g.scope = Range(Used("emit-evidence"))
        BY Zenon, <1>0, <2>2 DEF FamilyInv
      <3>4. ASSUME NEW g \in reduced, NEW h \in reduced PROVE g = h
        <4>1. /\ g \in [family : Families, scope : SUBSET DOMAIN FamilyOf]
              /\ h \in [family : Families, scope : SUBSET DOMAIN FamilyOf]
          BY Zenon, <1>0 DEF SearchInv, Within, GrantSet
        <4>2. g.family = h.family /\ g.scope = h.scope
          BY Zenon, <2>2, <3>3
        <4> QED
          BY SMT, <4>1, <4>2
      <3>5. ASSUME NEW fewer \in (SUBSET reduced) \ {reduced} PROVE fewer = {}
        BY Zenon, <3>4
      <3>6. BaselineIs
        BY Zenon, <1>0, <2>2 DEF VerdictInv
      <3>7. ~ Agrees(replace_family_grants(envelope, "emit-evidence", {}))
        BY Zenon, <1>0, <2>2, <3>6, EmissionIsNeeded, RemoveIsReplace
      <3>8. Allowed(reduced) = Range(Used("emit-evidence"))
        BY Zenon, <3>3 DEF Allowed
      <3>9. Agrees(replace_family_grants(envelope, "emit-evidence", reduced)) /\ Bound("emit-evidence")
        BY Zenon, <2>2, <2>4
      <3>10. \A fewer \in (SUBSET reduced) \ {reduced} :
                ~ Agrees(replace_family_grants(envelope, "emit-evidence", fewer))
        BY Zenon, <3>5, <3>7
      <3>11. Verdict(s, reduced)
        BY Zenon, <3>2, <3>8, <3>9, <3>10 DEF Verdict
      <3> QED
        BY Zenon, <1>0, <2>2, <2>4, <3>1, <3>11, ConcludeVerdicts
    <2> QED
      BY Zenon, <2>1, <2>3, <2>4
  <1> QED
    BY Zenon, <1>1, <1>2

\* A trial that settles nothing leaves the verdicts as they are.
LEMMA StaysTrue ==
    ASSUME VerdictInv, Same, world' = world \/ world' = 1, step \notin {"baseline", "failed"},
           step' \notin {"baseline", "failed"}, at' = at, UNCHANGED <<proven, residual, statuses>>
    PROVE  VerdictInv'
  <1>1. envelope' = envelope /\ BaselineIs /\ proven' = proven /\ statuses' = statuses /\ residual' = residual
    BY Zenon DEF Same, Asked, VerdictInv
  <1>2. \A s, kept : Verdict(s, kept) => Verdict(s, kept)'
    BY Zenon, VerdictSame
  <1>3. \A family : Passed(family)' <=> Passed(family)
    BY Zenon DEF Passed
  <1>4. BaselineIs'
    BY Zenon, <1>1, BoundSame
  <1> QED
    BY Zenon, <1>1, <1>2, <1>3, <1>4 DEF VerdictInv, ProvenFor

\* log-write up to the search over subsets.
LEMMA LogVerdicts ==
    ASSUME LiveInv, RemoveLog \/ ShrinkLog
    PROVE  VerdictInv' /\ FamilyInv'
  <1>0. SearchInv /\ VerdictInv /\ FamilyInv
    BY Zenon DEF LiveInv
  <1>1. CASE RemoveLog
    <2>1. /\ TryRemoval("log-write")
          /\ \/ Accepted /\ Conclude({}, {}, "supported", "exact_minimal")
             \/ ~Accepted /\ NarrowTo("log-write", Reduce("log-write", observed_log_caps))
      BY Zenon, <1>1 DEF RemoveLog
    <2>2. /\ Working /\ step = "remove" /\ step # "baseline" /\ Family = "log-write"
          /\ Same /\ world' = world /\ Bound("log-write")
          /\ Accepted => Agrees(replace_family_grants(envelope, "log-write", {}))
          /\ ~Accepted /\ world = 0 => ~Agrees(remove_family_grants(envelope, "log-write"))
      BY Zenon, <2>1, RemovalTells
    <2>3. CASE Accepted /\ Conclude({}, {}, "supported", "exact_minimal")
      <3>1. PICK s : s = [family |-> Family, support |-> "supported", proof |-> "exact_minimal"]
        BY Zenon
      <3>2. s.family = "log-write" /\ s.support = "supported"
        BY Zenon, <2>2, <3>1
      <3>3. \A fewer \in (SUBSET {}) \ {{}} : ~Agrees(replace_family_grants(envelope, "log-write", fewer))
        BY Zenon
      <3>4. Agrees(replace_family_grants(envelope, "log-write", {}))
        BY Zenon, <2>2, <2>3
      <3>5. "log-write" # "emit-evidence"
        BY Zenon
      <3>6. Verdict(s, {})
        BY Zenon, <2>2, <3>2, <3>3, <3>4, <3>5 DEF Verdict
      <3> QED
        BY Zenon, <1>0, <2>2, <2>3, <3>1, <3>6, ConcludeVerdicts
    <2>4. CASE ~Accepted /\ NarrowTo("log-write", Reduce("log-write", observed_log_caps))
      <3>1. \A g \in Reduce("log-write", observed_log_caps) : g.family = Family
        BY Zenon, <2>2, ReduceFamily
      <3>2. NarrowTo(Family, Reduce("log-write", observed_log_caps)) /\ Family # "emit-evidence"
        BY Zenon, <2>2, <2>4
      <3> QED
        BY Zenon, <1>0, <2>2, <2>4, <3>1, <3>2, NarrowVerdicts
    <2> QED
      BY Zenon, <2>1, <2>3, <2>4
  <1>2. CASE ShrinkLog
    <2>1. /\ TryReduced("log-write")
          /\ \/ not_proven
             \/ /\ Accepted /\ left' = proper_nonempty_subsets(reduced) /\ step' = "subsets"
                /\ UNCHANGED <<at, reduced, beaten, proven, residual, statuses>>
      BY Zenon, <1>2 DEF ShrinkLog
    <2>2. /\ Working /\ step = "shrink" /\ step # "baseline" /\ Family = "log-write"
          /\ Same /\ world' = world
          /\ Accepted => Agrees(replace_family_grants(envelope, "log-write", reduced))
      BY Zenon, <2>1, ReducedTells
    <2>3. CASE not_proven
      BY Zenon, <1>0, <2>2, <2>3, NotProvenVerdicts
    <2>4. CASE /\ Accepted /\ left' = proper_nonempty_subsets(reduced) /\ step' = "subsets"
               /\ UNCHANGED <<at, reduced, beaten, proven, residual, statuses>>
      <3>1. /\ at' = at /\ reduced' = reduced /\ UNCHANGED <<proven, residual, statuses>>
            /\ envelope' = envelope /\ BaselineIs
        BY Zenon, <1>0, <2>2, <2>4 DEF Same, Asked, VerdictInv
      <3>2. VerdictInv'
        BY Zenon, <1>0, <2>2, <2>4, <3>1, StaysTrue
      <3>3. /\ \A grants : Agrees(grants)' <=> Agrees(grants)
            /\ \A family : Bound(family)' <=> Bound(family)
        BY Zenon, <2>2, AgreesSame, BoundSame
      <3>4. Family' = Family
        BY Zenon, <3>1 DEF Family
      <3>5. Bound(Family)'
        BY Zenon, <1>0, <2>2, <3>3, <3>4 DEF FamilyInv
      <3>6. world' = 0 => ~Agrees(remove_family_grants(envelope, "log-write"))'
        BY Zenon, <1>0, <2>2, <3>1, <3>3 DEF FamilyInv
      <3>7. Agrees(replace_family_grants(envelope, "log-write", reduced))'
        BY Zenon, <2>2, <2>4, <3>1, <3>3
      <3>8. proper_nonempty_subsets(reduced') \ left' = {}
        BY Zenon, <2>4, <3>1
      <3>9. \A g \in reduced' : g.family = Family'
        BY Zenon, <1>0, <3>1, <3>4 DEF FamilyInv
      <3>10. FamilyInv'
        BY Zenon, <2>2, <2>4, <3>4, <3>5, <3>6, <3>7, <3>8, <3>9 DEF FamilyInv
      <3> QED
        BY Zenon, <3>2, <3>10
    <2> QED
      BY Zenon, <2>1, <2>3, <2>4
  <1> QED
    BY Zenon, <1>1, <1>2

\* The search over subsets: a subset that was tried and did not do is not enough.
LEMMA SubsetVerdicts ==
    ASSUME LiveInv, TrySubset
    PROVE  VerdictInv' /\ FamilyInv'
  <1>0. SearchInv /\ VerdictInv /\ FamilyInv /\ PlaceInv /\ TrialsInv
    BY Zenon DEF LiveInv
  <1>1. PICK subset \in left :
            /\ Try("shrink_scope", replace_family_grants(envelope, "log-write", subset))
            /\ left' = left \ {subset} /\ beaten' = (beaten \/ Accepted)
    BY Zenon, <1>0 DEF TrySubset
  <1>2. /\ step = "subsets" /\ step' = step /\ at' = at /\ reduced' = reduced
        /\ UNCHANGED <<proven, residual, statuses>>
    BY Zenon DEF TrySubset
  <1>3. Family \in Families
    BY Zenon, <1>0, <1>2, FiveFamilies DEF Family, SearchInv, Working
  <1>4. replace_family_grants(envelope, "log-write", subset) \in GrantSet
    BY Zenon, <1>0, ReplacedWithin DEF SearchInv, Within
  <1>5. /\ Same /\ world' = world
        /\ ~Accepted /\ world = 0 => ~Agrees(replace_family_grants(envelope, "log-write", subset))
    BY Zenon, <1>0, <1>1, <1>2, <1>3, <1>4, TrialTells
  <1>6. VerdictInv'
    BY Zenon, <1>0, <1>2, <1>5, StaysTrue
  <1>7. /\ \A grants : Agrees(grants)' <=> Agrees(grants)
        /\ \A family : Bound(family)' <=> Bound(family)
    BY Zenon, <1>5, AgreesSame, BoundSame
  <1>8. Family' = Family /\ envelope' = envelope
    BY Zenon, <1>2, <1>5 DEF Family, Same, Asked
  <1>9. Bound(Family)'
    BY Zenon, <1>0, <1>2, <1>7, <1>8 DEF FamilyInv
  <1>10. world' = 0 => ~Agrees(remove_family_grants(envelope, "log-write"))'
    BY Zenon, <1>0, <1>2, <1>5, <1>7, <1>8 DEF FamilyInv
  <1>11. Agrees(replace_family_grants(envelope, "log-write", reduced))'
    BY Zenon, <1>0, <1>2, <1>7, <1>8 DEF FamilyInv
  <1>12. ASSUME world' = 0, ~beaten', NEW fewer \in proper_nonempty_subsets(reduced') \ left'
         PROVE  ~Agrees(replace_family_grants(envelope, "log-write", fewer))'
    <2>1. world = 0 /\ ~beaten /\ ~Accepted
      BY Zenon, <1>1, <1>5, <1>12
    <2>2. ~Agrees(replace_family_grants(envelope, "log-write", fewer))
      <3>1. CASE fewer = subset
        BY Zenon, <1>5, <2>1, <3>1
      <3>2. CASE fewer # subset
        <4>1. fewer \in proper_nonempty_subsets(reduced) \ left
          BY Zenon, <1>1, <1>2, <1>12, <3>2
        <4> QED
          BY Zenon, <1>0, <1>2, <2>1, <4>1 DEF FamilyInv
      <3> QED
        BY Zenon, <3>1, <3>2
    <2> QED
      BY Zenon, <1>7, <1>8, <2>2
  <1>13. /\ \A g \in reduced' : g.family = Family'
         /\ Family' = "log-write"
    BY Zenon, <1>0, <1>2, <1>8 DEF FamilyInv
  <1>14. FamilyInv'
    BY Zenon, <1>2, <1>9, <1>10, <1>11, <1>12, <1>13 DEF FamilyInv
  <1> QED
    BY Zenon, <1>6, <1>14

\* When every subset was tried the family is settled.
LEMMA TriedVerdicts ==
    ASSUME LiveInv, SubsetsTried
    PROVE  VerdictInv' /\ FamilyInv'
  <1>0. SearchInv /\ VerdictInv /\ FamilyInv
    BY Zenon DEF LiveInv
  <1>1. /\ step = "subsets" /\ step # "baseline" /\ Working /\ left = {} /\ Same /\ world' = world
    BY Zenon DEF SubsetsTried, Working, Same
  <1>2. /\ Family = "log-write" /\ Bound(Family) /\ \A g \in reduced : g.family = Family
        /\ Agrees(replace_family_grants(envelope, "log-write", reduced))
        /\ world = 0 => ~Agrees(remove_family_grants(envelope, "log-write"))
        /\ world = 0 /\ ~beaten => \A fewer \in proper_nonempty_subsets(reduced) \ left :
                ~Agrees(replace_family_grants(envelope, "log-write", fewer))
    BY Zenon, <1>0, <1>1 DEF FamilyInv
  <1>3. PICK proof : proof = NoReduction(IF beaten THEN "reduced" ELSE "exact_minimal")
    BY Zenon
  <1>4. proof \in {"exact_minimal", "no_reduction", "reduced"} /\ (proof = "exact_minimal" => ~beaten)
    BY Zenon, <1>3 DEF NoReduction
  <1>5. PICK s : s = [family |-> Family, support |-> "supported", proof |-> proof]
    BY Zenon
  <1>6. s.family = "log-write" /\ s.proof = proof
    BY Zenon, <1>2, <1>5
  <1>7. ASSUME proof = "exact_minimal", world = 0, NEW fewer \in (SUBSET reduced) \ {reduced}
        PROVE  ~Agrees(replace_family_grants(envelope, "log-write", fewer))
    <2>1. CASE fewer = {}
      BY Zenon, <1>2, <1>7, <2>1, RemoveIsReplace
    <2>2. CASE fewer # {}
      <3>1. fewer \in proper_nonempty_subsets(reduced) \ left
        BY Zenon, <1>1, <1>7, <2>2 DEF proper_nonempty_subsets
      <3> QED
        BY Zenon, <1>2, <1>4, <1>7, <3>1
    <2> QED
      BY Zenon, <2>1, <2>2
  <1>8. "log-write" # "emit-evidence"
    BY Zenon
  <1>9. Verdict(s, reduced)
    BY Zenon, <1>2, <1>6, <1>7, <1>8 DEF Verdict
  <1>10. Conclude(reduced, {}, "supported", proof)
    BY Zenon, <1>3 DEF SubsetsTried
  <1> QED
    BY Zenon, <1>0, <1>1, <1>2, <1>4, <1>5, <1>9, <1>10, ConcludeVerdicts

\* The baseline, the world and the families that have no grants.
LEMMA OutsideVerdicts ==
    ASSUME LiveInv, Baseline \/ WorldChanges \/ SkipFamily \/ UNCHANGED proof_vars
    PROVE  VerdictInv' /\ FamilyInv'
  <1>0. SearchInv /\ VerdictInv /\ FamilyInv /\ PlaceInv
    BY Zenon DEF LiveInv
  <1>1. CASE Baseline
    <2>1. PICK record : record = Execute(Skills[proved], envelope, world)
      BY Zenon
    <2>2. /\ step = "baseline" /\ world = 0 /\ statuses = <<>> /\ reduced = {}
          /\ UNCHANGED <<world, at, reduced, proven, residual, statuses>>
          /\ proved' = proved /\ comparator' = comparator /\ envelope' = envelope
      BY Zenon, <1>0, <1>1 DEF Baseline, VerdictInv, FamilyInv, Asked
    <2>3. DOMAIN statuses' = {} /\ proven' = {} /\ residual' \subseteq envelope'
      <3>1. DOMAIN <<>> = {}
        BY SMT
      <3> QED
        BY Zenon, <1>0, <2>2, <3>1 DEF VerdictInv
    <2>4. step' = "failed" \/ (step' = "observe" /\ BaselineIs')
      <3>1. CASE record.status = "refused"
        BY Zenon, <1>1, <2>1, <3>1 DEF Baseline
      <3>2. CASE record.status # "refused"
        <4>1. /\ step' = "observe"
              /\ baseline' = [record |-> record,
                              projection |-> normalized_execution_projection(record, 0, comparator)]
          BY Zenon, <1>1, <2>1, <3>2 DEF Baseline
        <4>2. baseline'.record = record /\ baseline'.projection = normalized_execution_projection(record, 0, comparator)
          BY Zenon, <4>1
        <4>3. proved \in DOMAIN Skills
          BY Zenon, <1>0 DEF PlaceInv
        <4>4. Skills[proved].required \subseteq Allowed(envelope)
          BY Zenon, <2>1, <3>2, <4>3, ExecuteEnds
        <4> QED
          BY Zenon, <2>1, <2>2, <4>1, <4>2, <4>3, <4>4 DEF BaselineIs
      <3> QED
        BY Zenon, <3>1, <3>2
    <2>5. VerdictInv'
      BY Zenon, <2>2, <2>3, <2>4 DEF VerdictInv
    <2>6. FamilyInv'
      BY Zenon, <2>2, <2>4 DEF FamilyInv
    <2> QED
      BY Zenon, <2>5, <2>6
  <1>2. CASE WorldChanges
    <2>1. /\ step \notin {"baseline", "failed"} /\ step' = step /\ at' = at /\ world' = 1 /\ Same
          /\ UNCHANGED <<reduced, left, beaten, proven, residual, statuses>> /\ envelope' = envelope
      BY Zenon, <1>2 DEF WorldChanges, Same, Asked
    <2>2. VerdictInv'
      BY Zenon, <1>0, <2>1, StaysTrue
    <2>3. world' # 0
      BY SMT, <2>1
    <2>4. /\ \A grants : Agrees(grants)' <=> Agrees(grants)
          /\ \A family : Bound(family)' <=> Bound(family)
          /\ Used("emit-evidence")' = Used("emit-evidence") /\ Family' = Family
      BY Zenon, <2>1, AgreesSame, BoundSame DEF Family
    <2>5. FamilyInv'
      BY Zenon, <1>0, <2>1, <2>3, <2>4 DEF FamilyInv
    <2> QED
      BY Zenon, <2>2, <2>5
  <1>3. CASE SkipFamily
    <2>1. /\ step = "observe" /\ step' \in {"done", "observe"} /\ at' = at + 1 /\ Same /\ world' = world
          /\ UNCHANGED <<reduced, proven, residual, statuses>> /\ envelope' = envelope /\ BaselineIs
          /\ reduced = {} /\ at \in 1..5
      BY Zenon, <1>0, <1>3 DEF SkipFamily, Same, Asked, VerdictInv, FamilyInv, SearchInv, Working
    <2>2. \A s, kept : Verdict(s, kept) => Verdict(s, kept)'
      BY Zenon, <2>1, VerdictSame
    <2>3. \A family : Passed(family) => Passed(family)'
      BY Zenon, <2>1, PassedNext
    <2>4. BaselineIs'
      BY Zenon, <2>1, BoundSame
    <2>5. VerdictInv'
      BY Zenon, <1>0, <2>1, <2>2, <2>3, <2>4 DEF VerdictInv, ProvenFor
    <2>6. FamilyInv'
      BY Zenon, <2>1 DEF FamilyInv
    <2> QED
      BY Zenon, <2>5, <2>6
  <1>4. CASE UNCHANGED proof_vars
    <2>1. /\ step' = step /\ at' = at /\ world' = world /\ Same
          /\ UNCHANGED <<reduced, left, beaten, proven, residual, statuses>> /\ envelope' = envelope
      BY Zenon, <1>4 DEF proof_vars, Same, Asked
    <2>2. \A s, kept : Verdict(s, kept) => Verdict(s, kept)'
      BY Zenon, <2>1, VerdictSame
    <2>3. \A family : Passed(family)' <=> Passed(family)
      BY Zenon, <2>1 DEF Passed
    <2>4. /\ \A grants : Agrees(grants)' <=> Agrees(grants)
          /\ \A family : Bound(family)' <=> Bound(family)
          /\ Used("emit-evidence")' = Used("emit-evidence") /\ Family' = Family
          /\ BaselineIs => BaselineIs'
      BY Zenon, <2>1, AgreesSame, BoundSame DEF Family
    <2>5. VerdictInv'
      BY Zenon, <1>0, <2>1, <2>2, <2>3, <2>4 DEF VerdictInv, ProvenFor
    <2>6. FamilyInv'
      BY Zenon, <1>0, <2>1, <2>4 DEF FamilyInv
    <2> QED
      BY Zenon, <2>5, <2>6
  <1> QED
    BY Zenon, <1>1, <1>2, <1>3, <1>4

\* Looking at any of the families.
LEMMA StartsVerdicts ==
    ASSUME LiveInv, StartHttp \/ StartRead \/ StartInvoke \/ StartEmit \/ StartLog
    PROVE  VerdictInv' /\ FamilyInv'
  <1>0. SearchInv /\ VerdictInv /\ FamilyInv
    BY Zenon DEF LiveInv
  <1>1. CASE StartHttp
    <2>1. comparator = "normalized" /\ Fixtures /\ observed_http_request_cap => Bound("http-request")
      BY Zenon DEF Bound
    <2> QED
      BY Zenon, <1>0, <1>1, <2>1, StartVerdicts DEF StartHttp
  <1>2. CASE StartRead
    <2>1. Bound("read-resource")
      BY Zenon DEF Bound
    <2> QED
      BY Zenon, <1>0, <1>2, <2>1, StartVerdicts DEF StartRead
  <1>3. CASE StartInvoke
    <2>1. observed_invoke_skill_slice_for_comparator => Bound("invoke-skill")
      BY Zenon DEF Bound
    <2> QED
      BY Zenon, <1>0, <1>3, <2>1, StartVerdicts DEF StartInvoke
  <1>4. CASE StartEmit
    <2>1. comparator = "single-sink" /\ observed_emit_evidence_slice => Bound("emit-evidence")
      BY Zenon DEF Bound
    <2> QED
      BY Zenon, <1>0, <1>4, <2>1, StartVerdicts DEF StartEmit
  <1>5. CASE StartLog
    <2>1. Bound("log-write")
      BY Zenon DEF Bound
    <2> QED
      BY Zenon, <1>0, <1>5, <2>1, StartVerdicts DEF StartLog
  <1> QED
    BY Zenon, <1>1, <1>2, <1>3, <1>4, <1>5

\* All of it holds of every behaviour.
LEMMA LiveIsSound == ProofSpec => []LiveInv
  <1>1. ProofInit => PlaceInv /\ VerdictInv /\ FamilyInv
    <2> SUFFICES ASSUME ProofInit PROVE PlaceInv /\ VerdictInv /\ FamilyInv
      BY Zenon
    <2>1. world \in 0..1
      BY DEF ProofInit
    <2>2. DOMAIN <<>> = {}
      BY SMT
    <2> QED
      BY Zenon, <2>1, <2>2 DEF ProofInit, PlaceInv, VerdictInv, FamilyInv
  <1>2. ASSUME LiveInv, [ProofNext]_proof_vars PROVE VerdictInv' /\ FamilyInv'
    <2>1. CASE Baseline \/ WorldChanges \/ SkipFamily \/ Finished \/ UNCHANGED proof_vars
      BY Zenon, <1>2, <2>1, OutsideVerdicts DEF Finished
    <2>2. CASE StartHttp \/ StartRead \/ StartInvoke \/ StartEmit \/ StartLog
      BY Zenon, <1>2, <2>2, StartsVerdicts
    <2>3. CASE RemoveHttp \/ ShrinkHttp \/ RemoveRead \/ ShrinkRead \/ RemoveInvoke \/ ShrinkInvoke
      BY Zenon, <1>2, <2>3, BoundedFamiliesVerdicts
    <2>4. CASE RemoveEmit \/ ShrinkEmit
      BY Zenon, <1>2, <2>4, EmitVerdicts
    <2>5. CASE RemoveLog \/ ShrinkLog
      BY Zenon, <1>2, <2>5, LogVerdicts
    <2>6. CASE TrySubset \/ SubsetsTried
      BY Zenon, <1>2, <2>6, SubsetVerdicts, TriedVerdicts
    <2> QED
      BY Zenon, <1>2, <2>1, <2>2, <2>3, <2>4, <2>5, <2>6 DEF ProofNext
  <1>3. PlaceInv /\ [ProofNext]_proof_vars => PlaceInv'
    BY Zenon, PlaceKeeps
  <1>4. LiveInv <=> (SearchInv /\ TrialsInv) /\ PlaceInv /\ VerdictInv /\ FamilyInv
    BY Zenon DEF LiveInv
  <1> QED
    BY <1>1, <1>2, <1>3, <1>4, SearchIsSound, PTL DEF ProofSpec

-----------------------------------------------------------------------------
(* The verdicts *)

\* A status is the word of a search that has its baseline.
LEMMA StatusHasBaseline ==
    ASSUME LiveInv, NEW s \in Range(statuses)
    PROVE  /\ BaselineIs /\ step \notin {"baseline", "failed"}
           /\ Passed(s.family) /\ Verdict(s, ProvenFor(s.family))
  <1>1. PICK k \in DOMAIN statuses : s = statuses[k]
    BY Zenon DEF Range
  <1>2. DOMAIN <<>> = {}
    BY SMT
  <1> QED
    BY Zenon, <1>1, <1>2 DEF LiveInv, VerdictInv

\* To do the same as the baseline is to agree with it.
LEMMA ReproducesAgrees ==
    ASSUME LiveInv, BaselineIs, NEW grants
    PROVE  Reproduces(grants) <=> Agrees(grants)
  <1>1. PICK n : n = Len(trials) + 1
    BY Zenon
  <1>2. n \in Nat \ {0}
    BY SMT, <1>1 DEF LiveInv, TrialsInv
  <1>3. Matches(grants, 0, n) => Agrees(grants)
    BY Zenon, <1>2, MatchesAgree
  <1>4. Agrees(grants) => Matches(grants, 0, n)
    BY Zenon, AgreesMatch
  <1> QED
    BY Zenon, <1>1, <1>3, <1>4 DEF Reproduces

\* What every family kept is enough, and what is called exact is minimal.
LEMMA FamiliesAreTrue ==
    ASSUME LiveInv
    PROVE  EachFamilySuffices /\ ExactIsMinimal
  <1>1. ASSUME NEW s \in Range(statuses), Settled(s)
        PROVE  Reproduces(replace_family_grants(envelope, s.family, ProvenFor(s.family)))
    BY Zenon, <1>1, StatusHasBaseline, ReproducesAgrees DEF Verdict
  <1>2. ASSUME NEW s \in Range(statuses), s.proof = "exact_minimal", world = 0,
               NEW fewer \in (SUBSET ProvenFor(s.family)) \ {ProvenFor(s.family)}
        PROVE  ~Reproduces(replace_family_grants(envelope, s.family, fewer))
    BY Zenon, <1>2, StatusHasBaseline, ReproducesAgrees DEF Verdict
  <1> QED
    BY Zenon, <1>1, <1>2 DEF EachFamilySuffices, ExactIsMinimal

\* The replay input of a settled family is bound.
LEMMA ReplayStaysBound ==
    ASSUME LiveInv
    PROVE  ReplayIsBound
  <1>1. ASSUME NEW s \in Range(statuses), Settled(s),
               s.family \in {"http-request", "invoke-skill", "emit-evidence"}
        PROVE  s.family \in build_replay_input_digest
    <2>1. Bound(s.family)
      BY Zenon, <1>1, StatusHasBaseline DEF Verdict
    <2>2. CASE s.family = "http-request"
      BY Zenon, <2>1, <2>2 DEF Bound, build_replay_input_digest
    <2>3. CASE s.family = "invoke-skill"
      BY Zenon, <1>1, <2>1, <2>3 DEF Bound, build_replay_input_digest, invoke_replay_input_digest
    <2>4. CASE s.family = "emit-evidence"
      BY Zenon, <2>1, <2>4 DEF Bound, build_replay_input_digest, emit_evidence_replay_input_digest
    <2> QED
      BY Zenon, <1>1, <2>2, <2>3, <2>4
  <1>2. ASSUME NEW emission \in host_exact_bindings
        PROVE  emission = Allowed(ProvenFor("emit-evidence"))
    <2>1. emission = Range(Used("emit-evidence"))
      BY Zenon, <1>2 DEF host_exact_bindings
    <2>2. PICK s \in Range(statuses) : s.family = "emit-evidence" /\ s.proof = "exact_minimal"
      BY Zenon, <1>2 DEF host_exact_bindings
    <2> QED
      BY Zenon, <2>1, <2>2, StatusHasBaseline DEF Verdict
  <1> QED
    BY Zenon, <1>1, <1>2 DEF ReplayIsBound

\* At the end every grant is residual or its family is settled.
LEMMA AllAccounted ==
    ASSUME LiveInv, step = "done", NEW g \in envelope
    PROVE  g \in residual \/ \E s \in Range(statuses) : s.family = g.family /\ Settled(s)
  <1>1. g.family \in Families
    BY Zenon, EnvelopesAssumption DEF LiveInv, SearchInv
  <1>2. PICK i \in 1..5 : FamilyOrder[i] = g.family
    BY Zenon, <1>1, FiveFamilies
  <1>3. g \in family_grants(envelope, FamilyOrder[i]) /\ at = 6
    BY Zenon, <1>2 DEF family_grants, LiveInv, SearchInv
  <1>4. i \in 1..(at - 1)
    BY SMT, <1>3
  <1> QED
    BY Zenon, <1>3, <1>4 DEF LiveInv, SearchInv, Accounted, Range

\* When only what is exact was said, log-write is all there is.
LEMMA ExactSuffices ==
    ASSUME LiveInv
    PROVE  ExactIsSufficient
  <1> SUFFICES ASSUME step = "done", overall_proof_status \in {"exact_minimal", "no_reduction"}
               PROVE  Reproduces(proven)
    BY Zenon DEF ExactIsSufficient
  <1>1. /\ Range(statuses) # {} /\ residual = {}
        /\ \A s \in Range(statuses) : s.support = "supported"
    BY Zenon DEF overall_proof_status
  <1>2. PICK s : s \in Range(statuses)
    BY Zenon, <1>1
  <1>3. \A t \in Range(statuses) : t.family = "log-write" /\ Settled(t)
    BY Zenon, <1>1, StatusHasBaseline DEF Verdict, Settled
  <1>4. \A g \in envelope : g.family = "log-write"
    BY Zenon, <1>1, <1>3, AllAccounted
  <1>5. \A g \in proven : g.family = "log-write"
    BY Zenon, <1>3 DEF LiveInv, VerdictInv, Range
  <1>6. ProvenFor("log-write") = proven
    BY Zenon, <1>5 DEF ProvenFor, family_grants
  <1>7. replace_family_grants(envelope, "log-write", proven) = proven
    BY Zenon, <1>4 DEF replace_family_grants, remove_family_grants, family_grants
  <1>8. BaselineIs /\ Agrees(proven)
    BY Zenon, <1>2, <1>3, <1>6, <1>7, StatusHasBaseline DEF Verdict
  <1> QED
    BY Zenon, <1>8, ReproducesAgrees

\* A use that the envelope allows and that is allowed with each settled family as it was kept, is
\* allowed by the outcome: it belongs to one family, which is residual or settled.
LEMMA OutcomeAllows ==
    ASSUME LiveInv, step = "done", NEW u \in Allowed(envelope),
           \A s \in Range(statuses) : Settled(s) =>
               u \in Allowed(replace_family_grants(envelope, s.family, ProvenFor(s.family)))
    PROVE  u \in Allowed(proven \cup residual)
  <1>1. PICK g \in envelope : u \in g.scope
    BY Zenon DEF Allowed
  <1>2. envelope \in Envelopes
    BY Zenon DEF LiveInv, SearchInv
  <1>3. \A h \in envelope : u \in h.scope => FamilyOf[u] = h.family
    BY Zenon, <1>2, EnvelopesAssumption
  <1>4. CASE g \in residual
    BY Zenon, <1>1, <1>4 DEF Allowed
  <1>5. CASE g \notin residual
    <2>1. PICK s \in Range(statuses) : s.family = g.family /\ Settled(s)
      BY Zenon, <1>5, AllAccounted
    <2>2. u \in Allowed(replace_family_grants(envelope, s.family, ProvenFor(s.family)))
      BY Zenon, <2>1
    <2>3. PICK h : /\ u \in h.scope
                   /\ h \in ProvenFor(s.family) \/ (h \in envelope /\ h.family # s.family)
      BY Zenon, <2>2 DEF Allowed, replace_family_grants, remove_family_grants, family_grants
    <2>4. h \in proven
      BY Zenon, <1>1, <1>3, <2>1, <2>3 DEF ProvenFor, family_grants
    <2> QED
      BY Zenon, <2>3, <2>4 DEF Allowed
  <1> QED
    BY Zenon, <1>4, <1>5

\* An accepted trial of a skill that hands its grants on, compared exactly, kept all grants.
LEMMA EchoKeepsAll ==
    ASSUME BaselineIs, NEW grants, Agrees(grants), comparator = "exact", Skills[proved].echoes
    PROVE  grants = envelope
  <1>1. PICK p : p = baseline.projection
    BY Zenon
  <1>2. p.echo = grants /\ p.status = "succeeded"
    BY Zenon, <1>1 DEF Agrees, ProjectionHas
  <1>3. PICK record : record = Execute(Skills[proved], envelope, 0)
    BY Zenon
  <1>4. ProjectionHas(p, record.status, record.says, record.sees,
                      IF comparator = "exact" THEN record.echo ELSE {}, EvidenceOf(record, 0, comparator),
                      ChildrenOf(record, 0, comparator), EmittedOf(record, comparator))
    BY Zenon, <1>1, <1>3, ProjectionParts DEF BaselineIs
  <1>5. record.status = "succeeded" /\ p.echo = record.echo
    BY Zenon, <1>2, <1>4 DEF ProjectionHas
  <1>6. record.echo = envelope
    BY Zenon, <1>3, <1>5, ExecuteEnds DEF BaselineIs, Completed
  <1> QED
    BY Zenon, <1>2, <1>5, <1>6

\* The outcome as a whole, for a skill that takes the same way whatever it is granted.
LEMMA WholeIsEnough ==
    ASSUME LiveInv
    PROVE  WholeSuffices
  <1> SUFFICES ASSUME step = "done", ~Skills[proved].adaptive, NEW s \in Range(statuses), Settled(s)
               PROVE  Reproduces(proven \cup residual)
    BY Zenon DEF WholeSuffices
  <1>1. PICK outcome, way : outcome = proven \cup residual /\ way = Skills[proved].ways[1]
    BY Zenon
  <1>2. BaselineIs /\ proved \in DOMAIN Skills
    BY Zenon, StatusHasBaseline DEF BaselineIs
  <1>3. \A grants : WayOf(Skills[proved], grants) = way
    BY Zenon, <1>1, <1>2, WayIsOne
  <1>4. ASSUME NEW t \in Range(statuses), Settled(t)
        PROVE  Agrees(replace_family_grants(envelope, t.family, ProvenFor(t.family)))
    BY Zenon, <1>4, StatusHasBaseline DEF Verdict
  <1>5. PICK kept : kept = replace_family_grants(envelope, s.family, ProvenFor(s.family)) /\ Agrees(kept)
    BY Zenon, <1>4
  <1>6. Range(way.calls) \subseteq Allowed(envelope) /\ Skills[proved].required \subseteq Allowed(envelope)
    <2>1. baseline.projection.status = "succeeded"
      BY Zenon, <1>5 DEF Agrees, ProjectionHas
    <2>2. PICK record : record = Execute(Skills[proved], envelope, 0)
      BY Zenon
    <2>3. ProjectionHas(baseline.projection, record.status, record.says, record.sees,
                        IF comparator = "exact" THEN record.echo ELSE {}, EvidenceOf(record, 0, comparator),
                        ChildrenOf(record, 0, comparator), EmittedOf(record, comparator))
      BY Zenon, <1>2, <2>2, ProjectionParts DEF BaselineIs
    <2>4. record.status = "succeeded"
      BY Zenon, <2>1, <2>3 DEF ProjectionHas
    <2>5. Succeeds(proved, envelope)
      BY Zenon, <1>2, <2>2, <2>4, ExecuteEnds
    <2> QED
      BY Zenon, <1>3, <2>5 DEF Succeeds, Permits
  <1>7. ASSUME NEW t \in Range(statuses), Settled(t)
        PROVE  LET cut == Allowed(replace_family_grants(envelope, t.family, ProvenFor(t.family)))
               IN  Range(way.calls) \subseteq cut /\ Skills[proved].required \subseteq cut
    BY Zenon, <1>3, <1>4, <1>7 DEF Agrees, Succeeds, Permits
  <1>8. Range(way.calls) \subseteq Allowed(outcome) /\ Skills[proved].required \subseteq Allowed(outcome)
    BY Zenon, <1>1, <1>6, <1>7, OutcomeAllows
  <1>9. Succeeds(proved, outcome)
    BY Zenon, <1>3, <1>8 DEF Succeeds, Permits
  <1>10. ASSUME comparator = "exact", Skills[proved].echoes PROVE outcome = kept
    <2>1. kept = envelope
      BY Zenon, <1>2, <1>5, <1>10, EchoKeepsAll
    <2>2. ASSUME NEW t \in Range(statuses), Settled(t)
          PROVE  replace_family_grants(envelope, t.family, ProvenFor(t.family)) = envelope
      BY Zenon, <1>2, <1>4, <1>10, <2>2, EchoKeepsAll
    <2>3. residual \subseteq envelope
      BY Zenon DEF LiveInv, VerdictInv
    <2>4. ASSUME NEW g \in proven PROVE g \in envelope
      <3>1. PICK t \in Range(statuses) : t.family = g.family /\ Settled(t)
        BY Zenon DEF LiveInv, VerdictInv, Range
      <3>2. g \in replace_family_grants(envelope, t.family, ProvenFor(t.family))
        BY Zenon, <3>1 DEF replace_family_grants, ProvenFor, family_grants
      <3> QED
        BY Zenon, <2>2, <3>1, <3>2
    <2>5. ASSUME NEW g \in envelope, g \notin residual PROVE g \in proven
      <3>1. PICK t \in Range(statuses) : t.family = g.family /\ Settled(t)
        BY Zenon, <2>5, AllAccounted
      <3>2. g \in replace_family_grants(envelope, t.family, ProvenFor(t.family))
        BY Zenon, <2>2, <3>1
      <3> QED
        BY Zenon, <3>1, <3>2 DEF replace_family_grants, remove_family_grants, ProvenFor, family_grants
    <2> QED
      BY Zenon, <1>1, <2>1, <2>3, <2>4, <2>5
  <1>11. (IF comparator = "exact" /\ Skills[proved].echoes THEN kept ELSE {})
            = (IF comparator = "exact" /\ Skills[proved].echoes THEN outcome ELSE {})
    BY Zenon, <1>10
  <1>12. Agrees(outcome)
    BY Zenon, <1>3, <1>5, <1>9, <1>11 DEF Agrees
  <1> QED
    BY Zenon, <1>1, <1>2, <1>12, ReproducesAgrees

\* prove_live_authority, for every skill, comparator and envelope and whenever the world changes
\* under the search: what it kept of a family it settled is enough, what it calls exact is
\* minimal, an exact outcome is enough as a whole and so is any outcome of a skill that does
\* not choose by its grants, and what it settled is bound to the replay input it saw.
THEOREM VerdictsStayTrue == ProofSpec => []VerdictsAreTrue
  <1>1. LiveInv => VerdictsAreTrue
    BY Zenon, FamiliesAreTrue, ReplayStaysBound, ExactSuffices, WholeIsEnough DEF VerdictsAreTrue
  <1> QED
    BY <1>1, LiveIsSound, PTL

=============================================================================
