------------------------------- MODULE CliProofs -------------------------------
(***************************************************************************)
(* What the command line promises, for every root, every command line and  *)
(* every interleaving with other processes.                                *)
(***************************************************************************)
EXTENDS CliCommands, FiniteSetTheorems, TLAPS

-----------------------------------------------------------------------------
(* Labels and next steps of a failure *)

\* What FailuresAreActionable calls not there, or not named exactly.
NotThere ==
    UnmatchedRefs \cup AmbiguousRefs \cup
    {"skill-not-found", "execution-not-found", "object-not-found", "trusted publisher not present"}

\* A failure that says where to go on when what was asked for is not there.
Helpful(f) ==
    f.code \in NotThere => f.category \in {"lookup/ambiguity", "resource/read"} /\ f.steps

Failing(f) == f.code # Ok /\ Helpful(f)

\* remediation_for_failure: the two labels for things that are not there, and the one for
\* trust, carry steps of their own.
LEMMA LabelsHaveSteps ==
    ASSUME NEW code, NEW origin, NEW uri,
           NEW category \in {"lookup/ambiguity", "resource/read", "trust/verification"}
    PROVE  Failure(code, category, origin, uri).steps
  <1>1. next_steps_for_category(category)
    BY Zenon DEF next_steps_for_category
  <1> QED
    BY Zenon, <1>1 DEF Failure, remediation_for_failure

\* classify_cli_message labels whatever is not there.
LEMMA MessagesAreLabelled ==
    ASSUME NEW m \in NotThere
    PROVE  classify_cli_message(m) \in {"lookup/ambiguity", "resource/read"}
  BY Zenon DEF NotThere, UnmatchedRefs, AmbiguousRefs, classify_cli_message

\* classify_registry_error_category labels whatever is not there.
LEMMA CodesAreLabelled ==
    ASSUME NEW m \in NotThere
    PROVE  classify_registry_error_category(m) \in {"lookup/ambiguity", "resource/read"}
  <1>1. CASE m \in {"execution-not-found", "object-not-found", "skill-not-found"}
    BY Zenon, <1>1 DEF classify_registry_error_category, PolicyCodes, TrustRecordCodes, PlanCodes,
       is_bundle_integrity_error_code, ObjectCodes, DecodeCodes
  <1>2. CASE m \notin {"execution-not-found", "object-not-found", "skill-not-found"}
    <2>1. classify_registry_error_category(m) = classify_cli_message(m)
      BY Zenon, <1>2 DEF NotThere, UnmatchedRefs, AmbiguousRefs,
         classify_registry_error_category, PolicyCodes, TrustRecordCodes, PlanCodes,
         is_bundle_integrity_error_code, ObjectCodes, DecodeCodes
    <2> QED
      BY Zenon, <2>1, MessagesAreLabelled
  <1> QED
    BY Zenon, <1>1, <1>2

\* classify_mcp_error_category labels whatever is not there.
LEMMA RunsAreLabelled ==
    ASSUME NEW m \in NotThere
    PROVE  classify_mcp_error_category(m) \in {"lookup/ambiguity", "resource/read"}
  <1>1. classify_mcp_error_category(m) = classify_cli_message(m)
    BY Zenon DEF NotThere, UnmatchedRefs, AmbiguousRefs, classify_mcp_error_category,
       DeniedCodes, RuntimeCodes, PlanCodes
  <1> QED
    BY Zenon, <1>1, MessagesAreLabelled

\* CliError::new, From<RegistryError> and the failures of a run are helpful.
LEMMA ErrorsAreHelpful ==
    ASSUME NEW code, NEW uri, code # Ok
    PROVE  /\ Failing(cli_error_new(code)) /\ cli_error_new(code).code = code
           /\ Failing(cli_error_from_registry(code)) /\ cli_error_from_registry(code).code = code
           /\ Failing(cli_error_from_mcp(code, uri)) /\ cli_error_from_mcp(code, uri).code = code
  <1>1. /\ cli_error_new(code).code = code
        /\ cli_error_from_registry(code).code = code
        /\ cli_error_from_mcp(code, uri).code = code
        /\ cli_error_new(code).category = classify_cli_message(code)
        /\ cli_error_from_registry(code).category = classify_registry_error_category(code)
        /\ cli_error_from_mcp(code, uri).category = classify_mcp_error_category(code)
    BY Zenon DEF cli_error_new, cli_error_from_registry, cli_error_from_mcp, Failure
  <1>2. Helpful(cli_error_new(code))
    BY Zenon, <1>1, MessagesAreLabelled, LabelsHaveSteps DEF Helpful, cli_error_new
  <1>3. Helpful(cli_error_from_registry(code))
    BY Zenon, <1>1, CodesAreLabelled, LabelsHaveSteps DEF Helpful, cli_error_from_registry
  <1>4. Helpful(cli_error_from_mcp(code, uri))
    BY Zenon, <1>1, RunsAreLabelled, LabelsHaveSteps DEF Helpful, cli_error_from_mcp
  <1> QED
    BY Zenon, <1>1, <1>2, <1>3, <1>4 DEF Failing

\* missing_registry_root_error: set-up, with a step.
LEMMA MissingRootIsHelpful ==
    /\ Failing(missing_registry_root_error)
    /\ missing_registry_root_error.category = "root/setup" /\ missing_registry_root_error.steps
  <1>1. /\ missing_registry_root_error.code = "registry root does not exist yet"
        /\ missing_registry_root_error.category = "root/setup"
    BY Zenon DEF missing_registry_root_error, Failure
  <1>2. next_steps_for_summary("registry root does not exist yet")
    BY Zenon DEF next_steps_for_summary
  <1>3. missing_registry_root_error.steps
    BY Zenon, <1>2 DEF missing_registry_root_error, Failure, remediation_for_failure
  <1>4. Failing(missing_registry_root_error)
    BY Zenon, <1>1 DEF Failing, Helpful, NotThere, UnmatchedRefs, AmbiguousRefs, Ok
  <1> QED
    BY Zenon, <1>1, <1>3, <1>4

-----------------------------------------------------------------------------
(* Answers *)

\* An answer that is not ok helps.
Helps(answer) == answer.code # Ok => Helpful(answer)

\* A failure becomes an answer with its code, label and steps.
LEMMA FailedHelps ==
    ASSUME NEW f, Failing(f)
    PROVE  Helps(Failed(f)) /\ Failed(f).code # Ok
  BY Zenon DEF Failed, Failing, Helpful, Helps

\* What succeeds needs no help.
LEMMA AnsweredHelps ==
    ASSUME NEW got
    PROVE  Helps(Answered(got)) /\ Answered(got).code = Ok /\ Answered(got).got = got
  BY Zenon DEF Answered, Helps

\* A code of the registry as an answer.
LEMMA RegistryHelps ==
    ASSUME NEW code, code # Ok
    PROVE  Helps(Failed(cli_error_from_registry(code)))
  BY Zenon, ErrorsAreHelpful, FailedHelps

\* A message of the command line as an answer.
LEMMA MessageHelps ==
    ASSUME NEW code, code # Ok
    PROVE  Helps(Failed(cli_error_new(code)))
  BY Zenon, ErrorsAreHelpful, FailedHelps

\* load_execution_record, load_evidence_record and read_resource as an answer.
LEMMA RecordHelps ==
    ASSUME NEW code, NEW ref
    PROVE  Helps(RecordAnswer(code, ref)) /\ (RecordAnswer(code, ref).code = Ok => code = Ok)
  BY Zenon, ErrorsAreHelpful, FailedHelps, AnsweredHelps DEF RecordAnswer

\* A ref that is not resolved is a failure that helps.
Settles(r) == r.found \in BOOLEAN /\ (~r.found => Failing(r.error))

\* The two ways a resolution ends.
LEMMA Resolutions ==
    /\ \A ref : Settles(Resolved(ref)) /\ Resolved(ref).found /\ Resolved(ref).ref = ref
    /\ \A f : ~Unresolved(f).found /\ Unresolved(f).error = f
    /\ \A f : Failing(f) => Settles(Unresolved(f))
  BY Zenon DEF Resolved, Unresolved, Settles

\* A message or a code leaves a ref unresolved.
LEMMA UnresolvedSettles ==
    ASSUME NEW code, code # Ok
    PROVE  Settles(Unresolved(cli_error_new(code))) /\ Settles(Unresolved(cli_error_from_registry(code)))
  BY Zenon, Resolutions, ErrorsAreHelpful

\* None, one or several matches.
LEMMA OnlyMatchSettles ==
    ASSUME NEW found, NEW kind, NEW unmatched, NEW ambiguous, unmatched # Ok, ambiguous # Ok
    PROVE  Settles(OnlyMatch(found, kind, unmatched, ambiguous))
  BY Zenon, UnresolvedSettles, Resolutions DEF OnlyMatch

\* resolve_execution_prefix, resolve_evidence_record_by_prefix, resolve_object_blob_by_prefix
\* and resolve_object_blob_exact.
LEMMA PrefixesSettle ==
    ASSUME NEW p, NEW kind
    PROVE  /\ Settles(resolve_execution_prefix(p)) /\ Settles(resolve_evidence_record_by_prefix(p))
           /\ Settles(resolve_object_blob_by_prefix(kind, p)) /\ Settles(resolve_object_blob_exact(p))
  <1>1. Settles(resolve_execution_prefix(p))
    BY Zenon, OnlyMatchSettles, UnresolvedSettles DEF resolve_execution_prefix, Ok
  <1>2. Settles(resolve_evidence_record_by_prefix(p))
    BY Zenon, OnlyMatchSettles, UnresolvedSettles DEF resolve_evidence_record_by_prefix, Ok
  <1>3. Settles(resolve_object_blob_by_prefix(kind, p))
    BY Zenon, OnlyMatchSettles, UnresolvedSettles DEF resolve_object_blob_by_prefix, Ok
  <1>4. Settles(resolve_object_blob_exact(p))
    BY Zenon, Resolutions, UnresolvedSettles DEF resolve_object_blob_exact, Ok
  <1> QED
    BY Zenon, <1>1, <1>2, <1>3, <1>4

\* resolve_resource_ref and resolve_execution_ref.
LEMMA RefsSettle ==
    ASSUME NEW ref
    PROVE  Settles(resolve_resource_ref(ref)) /\ Settles(resolve_execution_ref(ref))
  <1>1. "unsupported resource ref" # Ok /\ "not an execution ref" # Ok /\ "unsupported execution ref" # Ok
    BY Zenon DEF Ok
  <1>2. Settles(resolve_resource_ref(ref))
    BY Zenon, <1>1, Resolutions, PrefixesSettle, UnresolvedSettles DEF resolve_resource_ref
  <1>3. Settles(resolve_execution_ref(ref))
    BY Zenon, <1>1, Resolutions, PrefixesSettle, UnresolvedSettles DEF resolve_execution_ref
  <1> QED
    BY Zenon, <1>2, <1>3

\* resolve_requested_skill_ref.
LEMMA SkillRefsSettle ==
    ASSUME NEW view, NEW ref
    PROVE  Settles(resolve_requested_skill_ref(view, ref))
  <1>1. "short skill ref unmatched" # Ok /\ "short skill ref ambiguous" # Ok /\ "skill ref invalid" # Ok
    BY Zenon DEF Ok
  <1> QED
    BY Zenon, <1>1, Resolutions, UnresolvedSettles DEF resolve_requested_skill_ref

\* The answers of `show`, `verify`, `export` and `push` for a skill.
LEMMA SkillHelps ==
    ASSUME NEW view, NEW ref
    PROVE  Helps(SkillAnswer(view, ref))
  <1>1. PICK r : r = resolve_requested_skill_ref(view, ref)
    BY Zenon
  <1>2. PICK chosen : chosen = resolve_installed_selection(view, r.ref)
    BY Zenon
  <1>3. SkillAnswer(view, ref) =
            IF ~r.found THEN Failed(r.error)
            ELSE IF chosen.code # Ok THEN Failed(cli_error_from_registry(chosen.code))
            ELSE Answered(chosen.skill)
    BY Zenon, <1>1, <1>2 DEF SkillAnswer
  <1>4. Settles(r)
    BY Zenon, <1>1, SkillRefsSettle
  <1> QED
    BY Zenon, <1>3, <1>4, FailedHelps, RegistryHelps, AnsweredHelps DEF Settles

-----------------------------------------------------------------------------
(* What a step does to the command *)

\* The command under way is one that clap accepts.
LineOK == cmd # NoCommand => <<cmd.name, cmd.ref>> \in CommandLine

\* The command goes on, or ends with an answer that helps.
GoesOn == cmd' # NoCommand /\ cmd'.name = cmd.name /\ cmd'.ref = cmd.ref /\ out' = out
Ends == \E answer : Helps(answer) /\ Finish(answer)
StepsOn == cmd # NoCommand /\ (GoesOn \/ Ends)

\* A command that takes its next step is still that command.
LEMMA Proceeds ==
    ASSUME NEW names, NEW step, At(names, step), "none" \notin names,
           NEW next, NEW view, NEW uri, NEW seen, Proceed(next, view, uri, seen)
    PROVE  StepsOn /\ cmd' # NoCommand
  <1>1. NoCommand.name = "none"
    BY Zenon DEF NoCommand, Command
  <1>2. cmd'.name = cmd.name /\ cmd'.ref = cmd.ref /\ out' = out
    BY Zenon DEF Proceed
  <1> QED
    BY Zenon, <1>1, <1>2 DEF At, StepsOn, GoesOn

\* A command that ends with an answer that helps.
LEMMA Finishes ==
    ASSUME NEW names, NEW step, At(names, step), NEW answer, Helps(answer), Finish(answer)
    PROVE  StepsOn
  BY Zenon DEF At, StepsOn, Ends

\* What a command says is its answer.
LEMMA Says ==
    ASSUME NEW answer, Finish(answer)
    PROVE  /\ cmd' = NoCommand /\ out'.name = cmd.name /\ out'.ref = cmd.ref
           /\ out'.code = answer.code /\ out'.got = answer.got /\ out'.seen = cmd.seen
           /\ out'.category = answer.category /\ out'.steps = answer.steps
  BY Zenon DEF Finish

\* build_existing_registry goes on to the open root or reports why not.
LEMMA OpenSteps == build_existing_registry => StepsOn
  <1> SUFFICES ASSUME build_existing_registry PROVE StepsOn
    BY Zenon
  <1>1. At(OpensExisting, "start") /\ "none" \notin OpensExisting
    BY Zenon DEF build_existing_registry, OpensExisting, Exports
  <1>2. \/ Proceed("open", skills, None, {})
        \/ Finish(Failed(missing_registry_root_error))
        \/ load_existing # Ok /\ Finish(Failed(cli_error_from_registry(load_existing)))
    BY Zenon DEF build_existing_registry
  <1>3. Helps(Failed(missing_registry_root_error))
    BY Zenon, MissingRootIsHelpful, FailedHelps
  <1> QED
    BY Zenon, <1>1, <1>2, <1>3, Proceeds, Finishes, RegistryHelps

\* A ref that resolves is loaded next; one that does not ends the command.
LEMMA ResolveSteps ==
    ASSUME NEW names, NEW step, At(names, step), "none" \notin names,
           NEW r, Settles(r), Resolve(r)
    PROVE  StepsOn
  <1>1. \/ ~r.found /\ Finish(Failed(r.error))
        \/ Proceed("load", cmd.view, r.ref, Seen(cmd.ref))
    BY Zenon DEF Resolve
  <1>2. ~r.found => Helps(Failed(r.error))
    BY Zenon, FailedHelps DEF Settles
  <1> QED
    BY Zenon, <1>1, <1>2, Proceeds, Finishes

\* The kinds of ref `guild show` takes.
LEMMA ShownKinds ==
    ASSUME NEW ref \in RecordRef \cup SkillRequest
    PROVE  ref.kind \in SkillKinds \cup UriKinds \cup PrefixKinds
  <1>1. \A K, S : \A x \in [kind : K, id : S] : x.kind \in K
    BY Zenon
  <1>2. \A K, N, S : \A x \in [kind : K, name : N, req : S] : x.kind \in K
    BY Zenon
  <1>3. \A K, M, N, S : \A x \in [kind : K, ns : M, name : N, req : S] : x.kind \in K
    BY Zenon
  <1>4. \A K : \A x \in [kind : K] : x.kind \in K
    BY Zenon
  <1>5. ref \in RecordRef => ref.kind \in UriKinds \cup PrefixKinds
    BY Zenon, <1>1, <1>4 DEF RecordRef, UriKinds
  <1>6. ref \in SkillRequest => ref.kind \in SkillKinds
    BY Zenon, <1>2, <1>3, <1>4 DEF SkillRequest, SkillKinds
  <1> QED
    BY Zenon, <1>5, <1>6

\* What a command is about, for the commands about a ref.
LEMMA LinesOf ==
    ASSUME LineOK, cmd # NoCommand
    PROVE  /\ cmd.name \in {"show", "get", "why"} => cmd.ref \in RecordRef \cup SkillRequest
           /\ cmd.name \in {"install", "import bundle", "import oci-layout", "pull", "import preview"} =>
                cmd.ref \in Skill
           /\ cmd.name \in {"trust generate", "trust show", "trust remove"} => cmd.ref \in Publisher
           /\ cmd.name = "trust add" => cmd.ref \in Tiers
           /\ cmd.name # "none"
  BY Zenon DEF LineOK, CommandLine, Exports

\* resolve_show_target answers, or goes on to load an execution.
LEMMA ShowSteps == LineOK /\ resolve_show_target => StepsOn
  <1> SUFFICES ASSUME LineOK, resolve_show_target PROVE StepsOn
    BY Zenon
  <1>1. At({"show"}, "open")
    BY Zenon DEF resolve_show_target
  <1>2. cmd.ref.kind \in SkillKinds \cup UriKinds \cup PrefixKinds
    BY Zenon, <1>1, LinesOf, ShownKinds DEF At
  <1>3. CASE cmd.ref.kind \in SkillKinds
    BY Zenon, <1>1, <1>3, SkillHelps, Finishes DEF resolve_show_target
  <1>4. CASE cmd.ref.kind \notin SkillKinds
    <2>1. resolve_show_resource_target(cmd.ref)
      BY Zenon, <1>4 DEF resolve_show_target
    <2>2. \/ Resolve(resolve_execution_prefix(cmd.ref.id))
          \/ \E code : Finish(RecordAnswer(code, cmd.ref))
          \/ Finish(ListAnswer(resolve_evidence_record_by_prefix(cmd.ref.id)))
          \/ \E kind : Finish(ListAnswer(resolve_object_blob_by_prefix(kind, cmd.ref.id)))
          \/ Finish(ListAnswer(resolve_object_blob_exact(cmd.ref.id)))
          \/ Finish(Failed(cli_error_new("query refs need get")))
      BY Zenon, <1>2, <1>4, <2>1 DEF resolve_show_resource_target, UriKinds, PrefixKinds
    <2>3. \A r : Settles(r) => Helps(ListAnswer(r))
      BY Zenon, FailedHelps, AnsweredHelps DEF ListAnswer, Settles
    <2>4. "query refs need get" # Ok
      BY Zenon DEF Ok
    <2> QED
      BY Zenon, <1>1, <2>2, <2>3, <2>4, PrefixesSettle, ResolveSteps, RecordHelps, MessageHelps,
         Finishes
  <1> QED
    BY Zenon, <1>3, <1>4

\* The other steps of the read-only commands: run_get, run_why, run_verify, run_ls, the
\* exports and the checks of `guild doctor`.
LEMMA ReadStepsOn == LineOK /\ ReadSteps => StepsOn
  <1> SUFFICES ASSUME LineOK, ReadSteps PROVE StepsOn
    BY Zenon
  <1>1. run_get_resolve \/ run_why_resolve => StepsOn
    <2>1. run_get_resolve => At({"get"}, "open") /\ Resolve(resolve_resource_ref(cmd.ref))
      BY Zenon DEF run_get_resolve
    <2>2. run_why_resolve => At({"why"}, "open") /\ Resolve(resolve_execution_ref(cmd.ref))
      BY Zenon DEF run_why_resolve
    <2>3. "none" \notin {"get"} /\ "none" \notin {"why"}
      BY Zenon
    <2> QED
      BY Zenon, <2>1, <2>2, <2>3, ResolveSteps, RefsSettle
  <1>2. LoadResolved \/ run_ls => StepsOn
    <2>1. LoadResolved => At({"show", "get", "why"}, "load") /\ \E code : Finish(RecordAnswer(code, cmd.uri))
      BY Zenon DEF LoadResolved
    <2>2. run_ls => At({"ls"}, "open") /\ \E code : Finish(RecordAnswer(code, cmd.ref))
      BY Zenon DEF run_ls
    <2> QED
      BY Zenon, <2>1, <2>2, RecordHelps, Finishes
  <1>3. run_verify => StepsOn
    BY Zenon, SkillHelps, Finishes DEF run_verify
  <1>4. run_export_bundle \/ run_export_oci_layout \/ run_push => StepsOn
    <2>1. ExportSigned => \/ Finish(Failed(cli_error_new("skill ref invalid")))
                          \/ \E code : code # Ok /\ Finish(Failed(cli_error_from_registry(code)))
                          \/ \E got : Finish(Answered(got))
      BY Zenon DEF ExportSigned
    <2>2. "skill ref invalid" # Ok
      BY Zenon DEF Ok
    <2>3. run_export_bundle \/ run_export_oci_layout \/ run_push =>
            (\E names : At(names, "open")) /\ ExportSigned
      BY Zenon DEF run_export_bundle, run_export_oci_layout, run_push
    <2> QED
      BY Zenon, <2>1, <2>2, <2>3, RegistryHelps, MessageHelps, AnsweredHelps, Finishes
  <1>5. DoctorRoot \/ DoctorState \/ DoctorTrust => StepsOn
    <2>1. DoctorRoot \/ DoctorState \/ DoctorTrust =>
            (\E step : At({"doctor"}, step)) /\ \E next, uri : Proceed(next, {}, uri, {})
      BY Zenon DEF DoctorRoot, DoctorState, DoctorTrust
    <2>2. "none" \notin {"doctor"}
      BY Zenon
    <2> QED
      BY Zenon, <2>1, <2>2, Proceeds
  <1>6. build_doctor_report => StepsOn
    <2>1. build_doctor_report =>
            At({"doctor"}, "policy")
            /\ \E c, s, g : Finish([code |-> Ok, category |-> c, steps |-> s, got |-> g])
      BY Zenon DEF build_doctor_report
    <2>2. \A c, s, g : Helps([code |-> Ok, category |-> c, steps |-> s, got |-> g])
      BY Zenon DEF Helps
    <2> QED
      BY Zenon, <2>1, <2>2, Finishes
  <1> QED
    BY Zenon, <1>1, <1>2, <1>3, <1>4, <1>5, <1>6, OpenSteps, ShowSteps DEF ReadSteps

\* run_run_command: resolving, opening the root for writing, and the run itself.
LEMMA RunStepsOn == RunSteps => StepsOn
  <1>1. run_resolve => StepsOn
    <2>1. run_resolve =>
            /\ At({"run"}, "open")
            /\ \E r : /\ r = resolve_requested_skill_ref(cmd.view, cmd.ref)
                      /\ \/ ~r.found /\ Finish(Failed(r.error))
                         \/ \E view, uri : Proceed("resolved", view, uri, {})
      BY Zenon DEF run_resolve
    <2>2. "none" \notin {"run"}
      BY Zenon
    <2> QED
      BY Zenon, <2>1, <2>2, SkillRefsSettle, FailedHelps, Proceeds, Finishes DEF Settles
  <1>2. build_facade => StepsOn
    <2>1. build_facade =>
            /\ At({"run"}, "resolved")
            /\ \/ load # Ok /\ Finish(Failed(cli_error_from_registry(load)))
               \/ Proceed("facade", skills, cmd.uri, {})
      BY Zenon DEF build_facade
    <2>2. "none" \notin {"run"}
      BY Zenon
    <2> QED
      BY Zenon, <2>1, <2>2, RegistryHelps, Proceeds, Finishes
  <1>3. inspect => StepsOn
    <2>1. inspect =>
            /\ At({"run"}, "facade")
            /\ \/ \E code, uri : code # Ok /\ Finish(Failed(cli_error_from_mcp(code, uri)))
               \/ \E got : Finish(Answered(got))
      BY Zenon DEF inspect, Ok
    <2>2. \A code, uri : code # Ok => Helps(Failed(cli_error_from_mcp(code, uri)))
      BY Zenon, ErrorsAreHelpful, FailedHelps
    <2> QED
      BY Zenon, <2>1, <2>2, AnsweredHelps, Finishes
  <1> QED
    BY Zenon, <1>1, <1>2, <1>3 DEF RunSteps

\* The codes of a source tree, a build and an import are failures.
LEMMA CodesFail ==
    /\ Ok \notin SourceCodes /\ Ok \notin BuildCodes /\ Ok \notin ImportCodes /\ Ok \notin DecodeCodes
    /\ Ok # "bad arguments"
  BY Zenon DEF SourceCodes, BuildCodes, ImportCodes, DecodeCodes, Ok

\* init, install and the imports.
LEMMA SetupStepsOn == SetupSteps => StepsOn
  <1>1. run_init => StepsOn
    <2>1. run_init =>
            /\ At({"init", "mcp serve"}, "start")
            /\ \/ \E got : Finish(Answered(got))
               \/ load # Ok /\ Finish(Failed(cli_error_from_registry(load)))
               \/ load # Ok /\ Finish(Failed(cli_error_new(load)))
      BY Zenon DEF run_init
    <2> QED
      BY Zenon, <2>1, AnsweredHelps, RegistryHelps, MessageHelps, Finishes
  <1>2. run_install => StepsOn
    <2>1. run_install =>
            /\ At({"install"}, "start")
            /\ \/ \E got : Finish(Answered(got))
               \/ \E code : code # Ok /\ Finish(Failed(cli_error_from_registry(code)))
      BY Zenon, CodesFail DEF run_install
    <2> QED
      BY Zenon, <2>1, AnsweredHelps, RegistryHelps, Finishes
  <1>3. ensure_existing_registry_root => StepsOn
    <2>1. ensure_existing_registry_root =>
            /\ At({"import preview", "trust show", "trust remove", "verify-plan"}, "start")
            /\ \/ Finish(Failed(missing_registry_root_error))
               \/ Proceed("exists", {}, None, {})
      BY Zenon DEF ensure_existing_registry_root
    <2>2. "none" \notin {"import preview", "trust show", "trust remove", "verify-plan"}
      BY Zenon
    <2> QED
      BY Zenon, <2>1, <2>2, MissingRootIsHelpful, FailedHelps, Proceeds, Finishes
  <1>4. preview_import => StepsOn
    <2>1. preview_import =>
            /\ At({"import preview"}, "exists")
            /\ \/ \E got : Finish(Answered(got))
               \/ \E code : code # Ok /\ Finish(Failed(cli_error_from_registry(code)))
      BY Zenon, CodesFail DEF preview_import
    <2> QED
      BY Zenon, <2>1, AnsweredHelps, RegistryHelps, Finishes
  <1>5. run_import_bundle \/ run_import_oci_layout \/ run_pull => StepsOn
    <2>1. ImportInto => \/ \E got : Finish(Answered(got))
                       \/ \E code : code # Ok /\ Finish(Failed(cli_error_from_registry(code)))
      BY Zenon, CodesFail DEF ImportInto
    <2>2. run_import_bundle \/ run_import_oci_layout \/ run_pull =>
            /\ \E names : At(names, "start")
            /\ \/ ImportInto
               \/ \E code \in DecodeCodes : Finish(Failed(cli_error_from_registry(code)))
      BY Zenon DEF run_import_bundle, run_import_oci_layout, run_pull, ImportDecoded
    <2> QED
      BY Zenon, <2>1, <2>2, CodesFail, AnsweredHelps, RegistryHelps, Finishes
  <1> QED
    BY Zenon, <1>1, <1>2, <1>3, <1>4, <1>5 DEF SetupSteps

\* Failure as the trust commands make it themselves.
LEMMA NotPresentHelps ==
    Helps(Failed(Failure("trusted publisher not present", "lookup/ambiguity", "manual", FALSE)))
  <1>1. PICK f : f = Failure("trusted publisher not present", "lookup/ambiguity", "manual", FALSE)
    BY Zenon
  <1>2. f.steps
    BY Zenon, <1>1, LabelsHaveSteps
  <1>3. f.code = "trusted publisher not present" /\ f.category = "lookup/ambiguity"
    BY Zenon, <1>1 DEF Failure
  <1>4. Failing(f)
    BY Zenon, <1>2, <1>3 DEF Failing, Helpful, Ok
  <1> QED
    BY Zenon, <1>1, <1>4, FailedHelps

\* `guild trust`: keypairs, records, signing and verifying plans.
LEMMA TrustStepsOn == TrustSteps => StepsOn
  <1> DEFINE Usual == \/ \E got : Finish(Answered(got))
                      \/ \E code : code # Ok /\ Finish(Failed(cli_error_from_registry(code)))
             Missing == Finish(Failed(Failure("trusted publisher not present", "lookup/ambiguity",
                                              "manual", FALSE)))
  <1>1. ASSUME NEW names, NEW step, At(names, step), Usual \/ Missing
        PROVE  StepsOn
    BY Zenon, <1>1, AnsweredHelps, RegistryHelps, NotPresentHelps, Finishes
  <1> HIDE DEF Missing
  <1>2. run_trust_generate => StepsOn
    BY Zenon, <1>1 DEF run_trust_generate
  <1>3. run_trust_add => StepsOn
    <2>1. run_trust_add => /\ At({"trust add"}, "start")
                           /\ Usual \/ Finish(Failed(cli_error_new("bad arguments")))
      BY Zenon DEF run_trust_add
    <2>2. Helps(Failed(cli_error_new("bad arguments")))
      BY Zenon, CodesFail, MessageHelps
    <2> QED
      BY Zenon, <1>1, <2>1, <2>2, Finishes
  <1>4. run_trust_show => StepsOn
    <2>1. run_trust_show => At({"trust show"}, "exists") /\ (Usual \/ Missing)
      BY Zenon DEF run_trust_show, Missing
    <2> QED
      BY Zenon, <1>1, <2>1
  <1>5. run_trust_list => StepsOn
    <2>1. run_trust_list => At({"trust list"}, "start") /\ \E code : Finish(RecordAnswer(code, cmd.ref))
      BY Zenon DEF run_trust_list
    <2> QED
      BY Zenon, <2>1, RecordHelps, Finishes
  <1>6. run_trust_remove => StepsOn
    <2>1. run_trust_remove => At({"trust remove"}, "exists") /\ (Usual \/ Missing)
      BY Zenon DEF run_trust_remove, Missing
    <2> QED
      BY Zenon, <1>1, <2>1
  <1>7. run_trust_sign_plan => StepsOn
    <2>1. run_trust_sign_plan => /\ At({"sign-plan"}, "start")
                                 /\ Usual \/ Finish(Failed(registry_root_default_unresolved))
      BY Zenon DEF run_trust_sign_plan
    <2>2. Failing(registry_root_default_unresolved)
      BY Zenon DEF registry_root_default_unresolved, Failing, Helpful, NotThere, UnmatchedRefs,
         AmbiguousRefs, Ok
    <2> QED
      BY Zenon, <1>1, <2>1, <2>2, FailedHelps, Finishes
  <1>8. run_trust_verify_plan => StepsOn
    <2>1. run_trust_verify_plan => At({"verify-plan"}, "exists") /\ Usual
      BY Zenon DEF run_trust_verify_plan
    <2> QED
      BY Zenon, <1>1, <2>1
  <1> QED
    BY Zenon, <1>2, <1>3, <1>4, <1>5, <1>6, <1>7, <1>8 DEF TrustSteps

\* Every step of a command goes on with it or ends it with an answer that helps.
LEMMA CommandStepsOn == LineOK /\ CommandSteps => StepsOn
  BY Zenon, ReadStepsOn, RunStepsOn, SetupStepsOn, TrustStepsOn DEF CommandSteps

\* Others do not touch the command.
LEMMA OthersKeepCommand == OthersStep => UNCHANGED <<cmd, out>>
  BY Zenon DEF OthersStep, OthersWriteRecords, OthersEditTrust, WriteExecution, PruneExecution,
     WriteEvidence, WriteBlob, OtherInstalls, SpoilManifest, DeleteRoot, EditPolicy, EditTrust,
     EditIdentity, EditPlan, Edit

\* The command under way stays one that clap accepts.
LEMMA NextLine == LineOK /\ [Next]_vars => LineOK'
  <1> SUFFICES ASSUME LineOK, [Next]_vars PROVE LineOK'
    BY Zenon
  <1>1. CASE \E line \in CommandLine : Begin(line[1], line[2])
    <2>1. PICK line \in CommandLine : Begin(line[1], line[2])
      BY Zenon, <1>1
    <2> \A A, B : \A x \in A \X B : x = <<x[1], x[2]>>
      BY SMT
    <2>2. line = <<line[1], line[2]>>
      BY Zenon DEF CommandLine
    <2>3. cmd'.name = line[1] /\ cmd'.ref = line[2]
      BY Zenon, <2>1 DEF Begin, Command
    <2> QED
      BY Zenon, <2>1, <2>2, <2>3 DEF LineOK
  <1>2. CASE CommandSteps
    <2>1. StepsOn
      BY Zenon, <1>2, CommandStepsOn
    <2> QED
      BY Zenon, <2>1 DEF StepsOn, GoesOn, Ends, Finish, LineOK
  <1>3. CASE OthersStep
    BY Zenon, <1>3, OthersKeepCommand DEF LineOK
  <1>4. CASE UNCHANGED vars
    BY Zenon, <1>4 DEF vars, LineOK
  <1> QED
    BY Zenon, <1>1, <1>2, <1>3, <1>4 DEF Next

-----------------------------------------------------------------------------
(* Failures are actionable *)

\* A command that ends in a failure about what is not there says where to go on.
LEMMA EndsHelpfully ==
    StepsOn /\ cmd' = NoCommand /\ out'.code # Ok /\ out'.code \in NotThere
        => out'.category \in {"lookup/ambiguity", "resource/read"} /\ out'.steps
  <1> SUFFICES ASSUME Ends, out'.code # Ok, out'.code \in NotThere
               PROVE  out'.category \in {"lookup/ambiguity", "resource/read"} /\ out'.steps
    BY Zenon DEF StepsOn, GoesOn
  <1>1. PICK answer : Helps(answer) /\ Finish(answer)
    BY Zenon DEF Ends
  <1> QED
    BY Zenon, <1>1, Says DEF Helps, Helpful

\* A read-only command on a missing root ends with set-up advice.
LEMMA MissingRootIsNamed ==
    ASSUME LineOK, CommandSteps, cmd' = NoCommand, root = "missing", cmd.at = "start",
           cmd.name \in ReadOnly \ {"trust list"}
    PROVE  out'.category = "root/setup" /\ out'.steps
  <1>1. StepsOn
    BY Zenon, CommandStepsOn
  <1>2. build_existing_registry \/ DoctorRoot \/ ensure_existing_registry_root
    BY Zenon DEF CommandSteps, ReadSteps, RunSteps, SetupSteps, TrustSteps, At, ReadOnly, Exports,
       resolve_show_target, run_get_resolve, run_why_resolve, LoadResolved, run_verify, run_ls,
       run_export_bundle, run_export_oci_layout, run_push, DoctorState, DoctorTrust,
       build_doctor_report, run_resolve, build_facade, inspect, run_init, run_install,
       preview_import, run_import_bundle, run_import_oci_layout, run_pull, run_trust_generate,
       run_trust_add, run_trust_show, run_trust_list, run_trust_remove, run_trust_sign_plan,
       run_trust_verify_plan
  <1>3. \A answer : Finish(answer) => out'.category = answer.category /\ out'.steps = answer.steps
    BY Zenon, Says
  <1>4. /\ Failed(missing_registry_root_error).category = "root/setup"
        /\ Failed(missing_registry_root_error).steps
    BY Zenon, MissingRootIsHelpful DEF Failed
  <1>5. CASE build_existing_registry
    <2>1. load_existing = "registry-root-missing"
      BY Zenon DEF load_existing, open_existing_registry_root, Ok
    <2>2. Finish(Failed(missing_registry_root_error))
      BY Zenon, <1>5, <2>1 DEF build_existing_registry, Ok
    <2> QED
      BY Zenon, <2>2, <1>3, <1>4
  <1>6. CASE DoctorRoot
    <2>1. At({"doctor"}, "start") /\ \E uri : Proceed("state", {}, uri, {})
      BY Zenon, <1>6 DEF DoctorRoot
    <2>2. "none" \notin {"doctor"}
      BY Zenon
    <2> QED
      BY Zenon, <2>1, <2>2, Proceeds
  <1>7. CASE ensure_existing_registry_root
    <2>1. Finish(Failed(missing_registry_root_error))
      BY Zenon, <1>7 DEF ensure_existing_registry_root
    <2> QED
      BY Zenon, <2>1, <1>3, <1>4
  <1> QED
    BY Zenon, <1>2, <1>5, <1>6, <1>7

\* The codes of a plan or a bundle that is refused, and of a trust record that does not read.
LEMMA RefusalsAreNamed ==
    ASSUME NEW code \in PlanCodes \cup ImportCodes \cup
                         {"trusted-publisher-parse-failed", "trusted-publisher-tier-invalid"}
    PROVE  /\ cli_error_from_registry(code).category \in {"trust/verification", "root/setup"}
           /\ cli_error_from_registry(code).steps
  <1>1. CASE code \in {"trusted-publisher-parse-failed", "trusted-publisher-tier-invalid"}
    <2>1. classify_registry_error_category(code) = "root/setup"
      BY Zenon, <1>1 DEF classify_registry_error_category, TrustRecordCodes, PlanCodes,
         is_bundle_integrity_error_code, DecodeCodes, ObjectCodes
    <2>2. next_steps_for_reason_code(code)
      BY Zenon, <1>1 DEF next_steps_for_reason_code, TrustRecordCodes
    <2> QED
      BY Zenon, <2>1, <2>2 DEF cli_error_from_registry, Failure, remediation_for_failure
  <1>2. CASE code \notin {"trusted-publisher-parse-failed", "trusted-publisher-tier-invalid"}
    <2>1. classify_registry_error_category(code) = "trust/verification"
      BY Zenon, <1>2 DEF classify_registry_error_category, PolicyCodes, TrustRecordCodes, PlanCodes,
         ImportCodes, is_bundle_integrity_error_code, DecodeCodes, ObjectCodes
    <2>2. cli_error_from_registry(code).category = "trust/verification"
      BY Zenon, <2>1 DEF cli_error_from_registry, Failure
    <2>3. cli_error_from_registry(code).steps
      BY Zenon, <2>1, LabelsHaveSteps DEF cli_error_from_registry
    <2> QED
      BY Zenon, <2>2, <2>3
  <1> QED
    BY Zenon, <1>1, <1>2

\* verify_execution_plan in a directory answers ok or with one of those codes.
LEMMA VerdictCodes ==
    ASSUME root = "dir"
    PROVE  verify_execution_plan \in {Ok} \cup PlanCodes \cup
                {"trusted-publisher-parse-failed", "trusted-publisher-tier-invalid"}
  <1>1. \A p : read_trusted_publisher_record(p, "execution-plan-publisher-untrusted") \in
            {Ok, "execution-plan-publisher-untrusted", "trusted-publisher-parse-failed",
             "trusted-publisher-tier-invalid"}
    BY Zenon DEF read_trusted_publisher_record, validate_trusted_publisher_record
  <1>2. \A t : verify_execution_plan_with_trusted_publisher(t) \in {Ok} \cup PlanCodes
    BY Zenon DEF verify_execution_plan_with_trusted_publisher, PlanCodes
  <1>3. {"execution-plan-publisher-untrusted", "execution-plan-signature-missing"} \subseteq PlanCodes
    BY Zenon DEF PlanCodes
  <1> QED
    BY Zenon, <1>1, <1>2, <1>3 DEF verify_execution_plan

\* A plan or a bundle that is refused is a matter of trust or of set-up, with a next step.
LEMMA RefusalsHelp ==
    ASSUME LineOK, CommandSteps, cmd' = NoCommand, out'.code # Ok, root = "dir",
           cmd.name \in {"verify-plan", "import preview"}, cmd.at = "exists"
    PROVE  out'.category \in {"trust/verification", "root/setup"} /\ out'.steps
  <1>1. preview_import \/ run_trust_verify_plan
    BY Zenon DEF CommandSteps, ReadSteps, RunSteps, SetupSteps, TrustSteps, At, OpensExisting, Exports,
       build_existing_registry, resolve_show_target, run_get_resolve, run_why_resolve, LoadResolved,
       run_verify, run_ls, run_export_bundle, run_export_oci_layout, run_push, DoctorRoot, DoctorState,
       DoctorTrust, build_doctor_report, run_resolve, build_facade, inspect, run_init, run_install,
       ensure_existing_registry_root, run_import_bundle, run_import_oci_layout, run_pull,
       run_trust_generate, run_trust_add, run_trust_show, run_trust_list, run_trust_remove,
       run_trust_sign_plan
  <1>2. ASSUME NEW code \in PlanCodes \cup ImportCodes \cup
                            {"trusted-publisher-parse-failed", "trusted-publisher-tier-invalid"},
               Finish(Failed(cli_error_from_registry(code)))
        PROVE  out'.category \in {"trust/verification", "root/setup"} /\ out'.steps
    <2>1. PICK f : f = cli_error_from_registry(code)
      BY Zenon
    <2>2. f.category \in {"trust/verification", "root/setup"} /\ f.steps
      BY Zenon, <2>1, RefusalsAreNamed
    <2>3. Failed(f).category = f.category /\ Failed(f).steps = f.steps
      BY Zenon DEF Failed
    <2>4. out'.category = Failed(f).category /\ out'.steps = Failed(f).steps
      BY Zenon, <1>2, <2>1, Says
    <2> QED
      BY Zenon, <2>2, <2>3, <2>4
  <1>3. \A got : ~Finish(Answered(got))
    BY Zenon, Says, AnsweredHelps
  <1>4. CASE preview_import
    <2>1. open_existing_registry_root = Ok
      BY Zenon DEF open_existing_registry_root
    <2> QED
      BY Zenon, <1>2, <1>3, <1>4, <2>1 DEF preview_import
  <1>5. CASE run_trust_verify_plan
    BY Zenon, <1>2, <1>3, <1>5, VerdictCodes DEF run_trust_verify_plan
  <1> QED
    BY Zenon, <1>1, <1>4, <1>5

\* Whatever the root holds and whoever writes to it: a missing root is `root/setup' for the
\* read-only commands, what is not there is `lookup/ambiguity' or `resource/read', a refused
\* plan or bundle is a matter of trust or set-up, and each comes with a next step
\* (cli_error_from_registry, cli_error_new, missing_registry_root_error).
THEOREM FailuresHelp == Spec => FailuresAreActionable
  <1>1. Init => LineOK
    BY Zenon DEF Init, LineOK
  <1>2. LineOK /\ [Next]_vars =>
          [/\ cmd # NoCommand /\ cmd' = NoCommand /\ out'.code # Ok =>
                /\ /\ root = "missing" /\ cmd.at = "start"
                   /\ cmd.name \in ReadOnly \ {"trust list"}
                   => out'.category = "root/setup" /\ out'.steps
                /\ out'.code \in UnmatchedRefs \cup AmbiguousRefs \cup
                                 {"skill-not-found", "execution-not-found", "object-not-found",
                                  "trusted publisher not present"}
                   => out'.category \in {"lookup/ambiguity", "resource/read"} /\ out'.steps
                /\ cmd.name \in {"verify-plan", "import preview"} /\ cmd.at = "exists" /\ root = "dir"
                   => out'.category \in {"trust/verification", "root/setup"} /\ out'.steps]_vars
    <2> SUFFICES ASSUME LineOK, Next, cmd # NoCommand, cmd' = NoCommand, out'.code # Ok
                 PROVE  /\ /\ root = "missing" /\ cmd.at = "start"
                           /\ cmd.name \in ReadOnly \ {"trust list"}
                           => out'.category = "root/setup" /\ out'.steps
                        /\ out'.code \in NotThere
                           => out'.category \in {"lookup/ambiguity", "resource/read"} /\ out'.steps
                        /\ cmd.name \in {"verify-plan", "import preview"} /\ cmd.at = "exists" /\ root = "dir"
                           => out'.category \in {"trust/verification", "root/setup"} /\ out'.steps
      BY Zenon DEF NotThere
    <2>1. CommandSteps
      BY Zenon, OthersKeepCommand DEF Next, Begin
    <2> QED
      BY Zenon, <2>1, CommandStepsOn, EndsHelpfully, MissingRootIsNamed, RefusalsHelp
  <1> QED
    BY <1>1, <1>2, NextLine, PTL DEF Spec, FailuresAreActionable

-----------------------------------------------------------------------------
(* Types *)

\* A function with one value replaced.
LEMMA Updated ==
    ASSUME NEW S, NEW T, NEW f \in [S -> T], NEW x \in S, NEW v \in T
    PROVE  [f EXCEPT ![x] = v] \in [S -> T]
  BY SMT

\* The steps that only read.
LEMMA Reading ==
    \/ ReadSteps \/ run_resolve \/ ensure_existing_registry_root \/ preview_import
    \/ run_trust_show \/ run_trust_list \/ run_trust_verify_plan
    => UNCHANGED <<store, planning>>
  BY Zenon DEF ReadSteps, build_existing_registry, resolve_show_target, run_get_resolve, run_why_resolve,
     LoadResolved, run_verify, run_ls, run_export_bundle, run_export_oci_layout, run_push, ExportSigned,
     DoctorRoot, DoctorState, DoctorTrust, build_doctor_report, run_resolve,
     ensure_existing_registry_root, preview_import, run_trust_show, run_trust_list,
     run_trust_verify_plan

\* ensure_registry_layout leaves a root, and no other kind of file than there was.
LEMMA LayoutMakesRoot ==
    ASSUME root \in Roots, ensure_registry_layout
    PROVE  root' \in Roots /\ root' # "missing" /\ (root # "missing" => root' = root)
  BY Zenon DEF ensure_registry_layout, Roots

\* A command that installs or imports a build leaves one more skill, or none, and no other
\* trace.
LEMMA Installing ==
    ASSUME LineOK, run_install \/ run_import_bundle \/ run_import_oci_layout \/ run_pull
    PROVE  /\ ensure_registry_layout \/ (root' = root /\ skills' = skills)
           /\ skills' = skills \/ \E s \in Skill : skills' = skills \cup {[s EXCEPT !.sound = TRUE]}
           /\ UNCHANGED <<records, trust, policy, planning>>
  <1>1. cmd.ref \in Skill
    BY Zenon, LinesOf DEF run_install, run_import_bundle, run_import_oci_layout, run_pull, At
  <1>2. ImportInto => \/ skills' = skills
                     \/ skills' = skills \cup {[cmd.ref EXCEPT !.sound = TRUE]}
    BY Zenon DEF ImportInto
  <1>3. skills' = skills \/ skills' = skills \cup {[cmd.ref EXCEPT !.sound = TRUE]}
    BY Zenon, <1>2 DEF run_install, run_import_bundle, run_import_oci_layout, run_pull, ImportDecoded
  <1>4. ensure_registry_layout \/ (root' = root /\ skills' = skills)
    BY Zenon DEF run_install, run_import_bundle, run_import_oci_layout, run_pull, ImportDecoded
  <1>5. UNCHANGED <<records, trust, policy, planning>>
    BY Zenon DEF run_install, run_import_bundle, run_import_oci_layout, run_pull, ImportDecoded
  <1> QED
    BY Zenon, <1>1, <1>3, <1>4, <1>5

\* The types of what is under the root.
StoreOK ==
    /\ root \in Roots /\ skills \subseteq Skill /\ policy \in Policies
    /\ executions \in [ExecutionId -> {"absent", "torn", "whole"}]
    /\ evidence \in [EvidenceId -> {"absent", "torn", "whole"}]
    /\ blobs \in [Digest -> {"absent", "payload", "whole"}]
    /\ trust \in [Publisher -> TrustRecord \cup {Absent, Torn}]
    /\ root = "missing" => EmptyStore

\* The types of what is outside the root.
PlanningOK ==
    /\ identity \in Identity \cup {Absent, Torn} /\ plan \in Plan
    /\ keys \in 0..MaxKeys /\ edits \in 0..MaxEdits

\* The two halves of the type invariant.
LEMMA TypeHalves == TypeOK <=> StoreOK /\ PlanningOK
  BY Zenon DEF TypeOK, StoreOK, PlanningOK

\* Marking a build as sound, or not, leaves a build.
LEMMA SkillsStaySkills ==
    ASSUME NEW s \in Skill, NEW b \in BOOLEAN
    PROVE  [s EXCEPT !.sound = b] \in Skill
  BY SMT DEF Skill

\* Initially everything has its type.
LEMMA InitType == Init => TypeOK
  <1> SUFFICES ASSUME Init PROVE TypeOK
    BY Zenon
  <1>1. StoreOK
    BY Zenon DEF Init, EmptyStore, StoreOK, Policies
  <1>2. plan \in Plan
    BY Zenon DEF Init, Plan
  <1>3. PlanningOK
    BY SMT, <1>2, CliConstants DEF Init, PlanningOK
  <1> QED
    BY Zenon, <1>1, <1>3, TypeHalves

\* The commands keep the store's types.
LEMMA CommandsKeepStore ==
    ASSUME StoreOK, PlanningOK, LineOK, CommandSteps
    PROVE  StoreOK'
  <1>1. CASE UNCHANGED store
    BY Zenon, <1>1 DEF StoreOK, store, records, EmptyStore
  <1>2. CASE build_facade \/ run_init
    <2>1. ensure_registry_layout /\ UNCHANGED <<skills, records, trust, policy>>
      BY Zenon, <1>2 DEF build_facade, run_init
    <2> QED
      BY Zenon, <2>1, LayoutMakesRoot DEF StoreOK, records
  <1>3. CASE inspect
    <2>1. CASE UNCHANGED <<root, executions>>
      BY Zenon, <1>1, <1>3, <2>1 DEF inspect, store, records
    <2>2. CASE ~ UNCHANGED <<root, executions>>
      <3>1. PICK x \in ExecutionId : executions' = [executions EXCEPT ![x] = "whole"]
        BY Zenon, <1>3, <2>2 DEF inspect
      <3>2. ensure_registry_layout
        BY Zenon, <1>3, <2>2 DEF inspect
      <3>3. executions' \in [ExecutionId -> {"absent", "torn", "whole"}]
        BY SMT, <3>1 DEF StoreOK
      <3> QED
        BY Zenon, <1>3, <3>2, <3>3, LayoutMakesRoot DEF StoreOK, inspect
    <2> QED
      BY Zenon, <2>1, <2>2
  <1>4. CASE run_install \/ run_import_bundle \/ run_import_oci_layout \/ run_pull
    <2>1. /\ ensure_registry_layout \/ (root' = root /\ skills' = skills)
          /\ skills' = skills \/ \E s \in Skill : skills' = skills \cup {[s EXCEPT !.sound = TRUE]}
          /\ UNCHANGED <<records, trust, policy, planning>>
      BY Zenon, <1>4, Installing
    <2>2. skills' \subseteq Skill
      BY Zenon, <2>1, SkillsStaySkills DEF StoreOK
    <2>3. CASE ensure_registry_layout
      BY Zenon, <2>1, <2>2, <2>3, LayoutMakesRoot DEF StoreOK, records
    <2>4. CASE root' = root /\ skills' = skills
      BY Zenon, <2>1, <2>4, <1>1 DEF store
    <2> QED
      BY Zenon, <2>1, <2>3, <2>4
  <1>5. CASE run_trust_add
    <2>1. CASE UNCHANGED <<root, trust>>
      BY Zenon, <1>1, <1>5, <2>1 DEF run_trust_add, store
    <2>2. CASE ~ UNCHANGED <<root, trust>>
      <3>1. /\ ensure_registry_layout /\ LocalPublisherIdentity_load = Ok /\ cmd.ref # "local-dev"
            /\ trust' = [trust EXCEPT ![identity.id] =
                           [id |-> identity.id, key |-> identity.public, tier |-> cmd.ref]]
        BY Zenon, <1>5, <2>2 DEF run_trust_add
      <3>2. identity \in Identity
        BY Zenon, <3>1 DEF LocalPublisherIdentity_load, PlanningOK, Ok
      <3>3. cmd.ref \in Tiers
        BY Zenon, <1>5, LinesOf DEF run_trust_add, At
      <3>4. [id |-> identity.id, key |-> identity.public, tier |-> cmd.ref] \in TrustRecord
        BY SMT, <3>2, <3>3 DEF Identity, TrustRecord
      <3>5. trust' \in [Publisher -> TrustRecord \cup {Absent, Torn}]
        <4>1. trust \in [Publisher -> TrustRecord \cup {Absent, Torn}]
          BY Zenon DEF StoreOK
        <4>2. identity.id \in Publisher
          BY Zenon, <3>2 DEF Identity
        <4> QED
          BY Zenon, <3>1, <3>4, <4>1, <4>2, Updated
      <3> QED
        BY Zenon, <1>5, <3>1, <3>5, LayoutMakesRoot DEF StoreOK, run_trust_add, records
    <2> QED
      BY Zenon, <2>1, <2>2
  <1>6. CASE run_trust_remove
    <2>1. ensure_registry_layout /\ UNCHANGED <<skills, records, policy>>
      BY Zenon, <1>6 DEF run_trust_remove
    <2>2. trust' = trust \/ trust' = [trust EXCEPT ![cmd.ref] = Absent]
      BY Zenon, <1>6 DEF run_trust_remove
    <2>3. trust' \in [Publisher -> TrustRecord \cup {Absent, Torn}]
      <3>1. trust \in [Publisher -> TrustRecord \cup {Absent, Torn}]
        BY Zenon DEF StoreOK
      <3>2. [trust EXCEPT ![cmd.ref] = Absent] \in [Publisher -> TrustRecord \cup {Absent, Torn}]
        BY Zenon, <1>6, <3>1, LinesOf, Updated DEF run_trust_remove, At
      <3> QED
        BY Zenon, <2>2, <3>1, <3>2
    <2> QED
      BY Zenon, <2>1, <2>3, LayoutMakesRoot DEF StoreOK, records
  <1> QED
    <2>1. run_trust_generate \/ run_trust_sign_plan => UNCHANGED store
      BY Zenon DEF run_trust_generate, run_trust_sign_plan
    <2> QED
      BY Zenon, <1>1, <1>2, <1>3, <1>4, <1>5, <1>6, <2>1, Reading
         DEF CommandSteps, RunSteps, SetupSteps, TrustSteps

\* The steps others take keep the store's types.
LEMMA OthersKeepStore ==
    ASSUME StoreOK, PlanningOK, OthersStep
    PROVE  StoreOK'
  <1>1. CASE \E x \in ExecutionId : WriteExecution(x) \/ PruneExecution(x)
    <2>1. PICK x \in ExecutionId : WriteExecution(x) \/ PruneExecution(x)
      BY Zenon, <1>1
    <2>2. \E v \in {"absent", "torn", "whole"} : executions' = [executions EXCEPT ![x] = v]
      BY Zenon, <2>1 DEF WriteExecution, PruneExecution
    <2>3. executions' \in [ExecutionId -> {"absent", "torn", "whole"}]
      BY Zenon, <2>2, Updated DEF StoreOK
    <2>4. root # "missing"
      <3>1. CASE PruneExecution(x)
        BY Zenon, <3>1 DEF PruneExecution, StoreOK, EmptyStore
      <3>2. CASE WriteExecution(x)
        BY Zenon, <3>2 DEF WriteExecution
      <3> QED
        BY Zenon, <2>1, <3>1, <3>2
    <2> QED
      BY Zenon, <2>1, <2>3, <2>4 DEF StoreOK, WriteExecution, PruneExecution
  <1>2. CASE \E e \in EvidenceId : WriteEvidence(e)
    <2>1. PICK e \in EvidenceId : WriteEvidence(e)
      BY Zenon, <1>2
    <2>2. \E v \in {"absent", "torn", "whole"} : evidence' = [evidence EXCEPT ![e] = v]
      BY Zenon, <2>1 DEF WriteEvidence
    <2>3. evidence' \in [EvidenceId -> {"absent", "torn", "whole"}]
      BY Zenon, <2>2, Updated DEF StoreOK
    <2> QED
      BY Zenon, <2>1, <2>3 DEF StoreOK, WriteEvidence
  <1>3. CASE \E d \in Digest : WriteBlob(d)
    <2>1. PICK d \in Digest : WriteBlob(d)
      BY Zenon, <1>3
    <2>2. \E v \in {"absent", "payload", "whole"} : blobs' = [blobs EXCEPT ![d] = v]
      BY Zenon, <2>1 DEF WriteBlob
    <2>3. blobs' \in [Digest -> {"absent", "payload", "whole"}]
      BY Zenon, <2>2, Updated DEF StoreOK
    <2> QED
      BY Zenon, <2>1, <2>3 DEF StoreOK, WriteBlob
  <1>4. CASE \E p \in Publisher : EditTrust(p)
    <2>1. PICK p \in Publisher : EditTrust(p)
      BY Zenon, <1>4
    <2>2. trust \in [Publisher -> TrustRecord \cup {Absent, Torn}]
      BY Zenon DEF StoreOK
    <2>3. trust[p] \in TrustRecord
      BY Zenon, <2>1, <2>2 DEF EditTrust
    <2>4. [trust[p] EXCEPT !.tier = "local-dev"] \in TrustRecord
      BY SMT, <2>3 DEF TrustRecord, Tiers
    <2>5. \/ trust' = [trust EXCEPT ![p] = Torn]
          \/ \E q \in Publisher : trust' = [trust EXCEPT ![q] = trust[p]]
          \/ trust' = [trust EXCEPT ![p] = [trust[p] EXCEPT !.tier = "local-dev"]]
      BY Zenon, <2>1 DEF EditTrust
    <2>6. trust' \in [Publisher -> TrustRecord \cup {Absent, Torn}]
      BY Zenon, <2>2, <2>3, <2>4, <2>5, Updated
    <2>7. root # "missing"
      BY Zenon, <2>1 DEF EditTrust, StoreOK, EmptyStore
    <2> QED
      BY Zenon, <2>1, <2>6, <2>7 DEF StoreOK, EditTrust, records
  <1>5. CASE \E s \in Skill : OtherInstalls(s) \/ SpoilManifest(s)
    <2>1. PICK s \in Skill : OtherInstalls(s) \/ SpoilManifest(s)
      BY Zenon, <1>5
    <2>2. skills' \subseteq Skill
      BY Zenon, <2>1, SkillsStaySkills DEF StoreOK, OtherInstalls, SpoilManifest
    <2>3. root # "missing"
      BY Zenon, <2>1 DEF OtherInstalls, SpoilManifest, StoreOK, EmptyStore
    <2> QED
      BY Zenon, <2>1, <2>2, <2>3 DEF StoreOK, OtherInstalls, SpoilManifest, records
  <1>6. CASE DeleteRoot
    BY Zenon, <1>6 DEF DeleteRoot, StoreOK, EmptyStore, Roots, Policies
  <1>7. CASE \E new \in Policies : EditPolicy(new)
    BY Zenon, <1>7 DEF EditPolicy, StoreOK, records
  <1>8. CASE EditIdentity \/ EditPlan
    BY Zenon, <1>8 DEF EditIdentity, EditPlan, StoreOK, store, records, EmptyStore
  <1> QED
    BY Zenon, <1>1, <1>2, <1>3, <1>4, <1>5, <1>6, <1>7, <1>8
       DEF OthersStep, OthersWriteRecords, OthersEditTrust

\* Counting a step of others.
LEMMA EditCounts ==
    ASSUME PlanningOK, edits < MaxEdits, edits' = edits + 1
    PROVE  edits' \in 0..MaxEdits /\ edits' # edits
  BY SMT, CliConstants DEF PlanningOK

\* Every step keeps the types of the identity, the plan and the counters.
LEMMA NextPlanning ==
    ASSUME StoreOK, PlanningOK, LineOK, [Next]_vars
    PROVE  PlanningOK'
  <1>1. CASE UNCHANGED planning
    BY Zenon, <1>1 DEF planning, PlanningOK
  <1>2. CASE run_trust_generate
    <2>1. cmd.ref \in Publisher
      BY Zenon, <1>2, LinesOf DEF run_trust_generate, At
    <2>2. keys' \in 0..MaxKeys /\ keys + 1 \in 1..MaxKeys
      <3>1. keys \in 0..MaxKeys /\ keys < MaxKeys /\ keys' = keys + 1 /\ MaxKeys \in Nat
        BY Zenon, <1>2, CliConstants DEF run_trust_generate, PlanningOK
      <3> QED
        BY SMT, <3>1
    <2>3. identity' \in Identity
      BY Zenon, <1>2, <2>1, <2>2 DEF run_trust_generate, Identity
    <2> QED
      BY Zenon, <1>2, <2>2, <2>3 DEF run_trust_generate, PlanningOK
  <1>3. CASE run_trust_sign_plan
    <2>1. CASE plan' = plan
      BY Zenon, <1>3, <2>1 DEF run_trust_sign_plan, PlanningOK
    <2>2. CASE plan' # plan
      <3>1. /\ LocalPublisherIdentity_load = Ok
            /\ plan' = [plan EXCEPT !.sig = [id |-> identity.id, digest |-> plan.payload,
                                              key |-> identity.secret, over |-> plan.payload]]
        BY Zenon, <1>3, <2>2 DEF run_trust_sign_plan
      <3>2. identity \in Identity
        BY Zenon, <3>1 DEF LocalPublisherIdentity_load, PlanningOK, Ok
      <3>3. plan \in Plan
        BY Zenon DEF PlanningOK
      <3>4. [id |-> identity.id, digest |-> plan.payload, key |-> identity.secret,
             over |-> plan.payload] \in Signature
        BY SMT, <3>2, <3>3 DEF Identity, Signature, Plan
      <3>5. plan' \in Plan
        BY SMT, <3>1, <3>3, <3>4 DEF Plan
      <3> QED
        BY Zenon, <1>3, <3>5 DEF run_trust_sign_plan, PlanningOK
    <2> QED
      BY Zenon, <2>1, <2>2
  <1>4. CASE EditIdentity
    <2>1. identity' \in Identity \cup {Absent, Torn}
      <3>1. identity \in Identity
        BY Zenon, <1>4 DEF EditIdentity, PlanningOK
      <3>2. \A k \in 1..keys : k \in 1..MaxKeys
        BY SMT, CliConstants DEF PlanningOK
      <3>3. \A k \in 1..MaxKeys : [identity EXCEPT !.public = k] \in Identity
        BY SMT, <3>1 DEF Identity
      <3> QED
        BY Zenon, <1>4, <3>2, <3>3 DEF EditIdentity
    <2>2. edits' \in 0..MaxEdits
      BY Zenon, <1>4, EditCounts DEF EditIdentity
    <2> QED
      BY Zenon, <1>4, <2>1, <2>2 DEF EditIdentity, PlanningOK
  <1>5. CASE EditPlan
    <2>1. plan \in Plan
      BY Zenon DEF PlanningOK
    <2>2. plan' \in Plan
      <3>1. \A c \in Payload : [plan EXCEPT !.payload = c] \in Plan
        BY SMT, <2>1 DEF Plan
      <3>2. [plan EXCEPT !.sig = None] \in Plan
        BY SMT, <2>1 DEF Plan
      <3>3. [plan EXCEPT !.kind = ~@] \in Plan
        BY Zenon, <2>1 DEF Plan
      <3>4. \A sig \in Signature : [plan EXCEPT !.sig = sig] \in Plan
        BY SMT, <2>1 DEF Plan
      <3>5. plan.sig # None => plan.sig \in Signature
        BY Zenon, <2>1 DEF Plan
      <3>6. \A sig \in Signature : \A p \in Publisher : [sig EXCEPT !.id = p] \in Signature
        BY SMT DEF Signature
      <3>7. \A sig \in Signature : \A c \in Payload : [sig EXCEPT !.digest = c] \in Signature
        BY SMT DEF Signature
      <3>8. \/ \E c \in Payload : plan' = [plan EXCEPT !.payload = c]
            \/ plan' = [plan EXCEPT !.sig = None]
            \/ plan' = [plan EXCEPT !.kind = ~@]
            \/ plan.sig # None /\ \E p \in Publisher : plan' = [plan EXCEPT !.sig = [plan.sig EXCEPT !.id = p]]
            \/ plan.sig # None /\ \E c \in Payload : plan' = [plan EXCEPT !.sig = [plan.sig EXCEPT !.digest = c]]
        BY Zenon, <1>5 DEF EditPlan
      <3> QED
        BY Zenon, <3>1, <3>2, <3>3, <3>4, <3>5, <3>6, <3>7, <3>8
    <2>3. edits' \in 0..MaxEdits
      BY Zenon, <1>5, EditCounts DEF EditPlan
    <2> QED
      BY Zenon, <1>5, <2>2, <2>3 DEF EditPlan, PlanningOK
  <1>6. CASE Edit
    <2>1. edits' \in 0..MaxEdits
      BY Zenon, <1>6, EditCounts DEF Edit
    <2> QED
      BY Zenon, <1>6, <2>1 DEF Edit, PlanningOK
  <1>7. OthersStep => EditIdentity \/ EditPlan \/ Edit
    BY Zenon DEF OthersStep, OthersWriteRecords, OthersEditTrust, WriteExecution, PruneExecution,
       WriteEvidence, WriteBlob, OtherInstalls, SpoilManifest, DeleteRoot, EditPolicy, EditTrust
  <1>8. build_facade \/ inspect \/ run_init \/ run_trust_add \/ run_trust_remove => UNCHANGED planning
    BY Zenon DEF build_facade, inspect, run_init, run_trust_add, run_trust_remove
  <1>9. run_install \/ run_import_bundle \/ run_import_oci_layout \/ run_pull => UNCHANGED planning
    BY Zenon, Installing
  <1>10. (\E line \in CommandLine : Begin(line[1], line[2])) \/ UNCHANGED vars => UNCHANGED planning
    BY Zenon DEF Begin, vars
  <1> QED
    BY Zenon, <1>1, <1>2, <1>3, <1>4, <1>5, <1>6, <1>7, <1>8, <1>9, <1>10, Reading
       DEF Next, CommandSteps, RunSteps, SetupSteps, TrustSteps

\* Every step keeps every type.
LEMMA NextType == TypeOK /\ LineOK /\ [Next]_vars => TypeOK'
  <1> SUFFICES ASSUME StoreOK, PlanningOK, LineOK, [Next]_vars PROVE StoreOK' /\ PlanningOK'
    BY Zenon, TypeHalves DEF TypeOK, StoreOK, PlanningOK
  <1>1. (\E line \in CommandLine : Begin(line[1], line[2])) \/ UNCHANGED vars => UNCHANGED store
    BY Zenon DEF Begin, vars
  <1>2. UNCHANGED store => StoreOK'
    BY Zenon DEF StoreOK, store, records, EmptyStore
  <1>3. StoreOK'
    BY Zenon, <1>1, <1>2, CommandsKeepStore, OthersKeepStore DEF Next
  <1> QED
    BY Zenon, <1>3, NextPlanning

\* Every file the commands share keeps its type, and a missing root holds nothing, whatever
\* commands run and whatever others do between their steps.
THEOREM CliTypeCorrect == Spec => []TypeOK
  <1>1. Init => LineOK
    BY Zenon DEF Init, LineOK
  <1> QED
    BY <1>1, InitType, NextType, NextLine, PTL DEF Spec

-----------------------------------------------------------------------------
(* Read-only commands *)

\* The steps that write under the root belong to commands that are not read-only.
LEMMA WritersAreNamed ==
    ASSUME CommandSteps, LineOK, ~ UNCHANGED store
    PROVE  /\ cmd # NoCommand /\ cmd.name \notin ReadOnly
           /\ cmd.name \in Creates \/ (cmd.name \in {"run", "trust remove"} /\ cmd.at # "start")
  <1>1. ~ (\/ ReadSteps \/ run_resolve \/ ensure_existing_registry_root \/ preview_import
           \/ run_trust_show \/ run_trust_list \/ run_trust_verify_plan)
    BY Zenon, Reading
  <1>2. ~ (run_trust_generate \/ run_trust_sign_plan)
    BY Zenon DEF run_trust_generate, run_trust_sign_plan
  <1>3. \/ build_facade \/ inspect \/ run_trust_remove
        \/ run_init \/ run_install \/ run_import_bundle \/ run_import_oci_layout \/ run_pull \/ run_trust_add
    BY Zenon, <1>1, <1>2 DEF CommandSteps, RunSteps, SetupSteps, TrustSteps
  <1>4. \/ At({"run"}, "resolved") \/ At({"run"}, "facade") \/ At({"trust remove"}, "exists")
        \/ At({"init", "mcp serve"}, "start") \/ At({"install"}, "start")
        \/ At({"import bundle"}, "start") \/ At({"import oci-layout"}, "start") \/ At({"pull"}, "start")
        \/ At({"trust add"}, "start")
    BY Zenon, <1>3 DEF build_facade, inspect, run_trust_remove, run_init, run_install, run_import_bundle,
       run_import_oci_layout, run_pull, run_trust_add
  <1> QED
    BY Zenon, <1>4 DEF At, ReadOnly, Exports, Creates

\* Others who write under the root are counted, and make no root.
LEMMA OthersAreCounted ==
    ASSUME TypeOK, OthersStep
    PROVE  /\ edits' # edits \/ UNCHANGED store
           /\ root = "missing" => root' = "missing"
  <1>1. edits < MaxEdits /\ edits' = edits + 1
    BY Zenon DEF OthersStep, OthersWriteRecords, OthersEditTrust, WriteExecution, PruneExecution,
       WriteEvidence, WriteBlob, OtherInstalls, SpoilManifest, DeleteRoot, EditPolicy, EditTrust,
       EditIdentity, EditPlan, Edit
  <1>2. edits' # edits
    BY Zenon, <1>1, EditCounts, TypeHalves
  <1>3. root = "missing" => root' = "missing"
    BY Zenon DEF OthersStep, OthersWriteRecords, OthersEditTrust, WriteExecution, PruneExecution,
       WriteEvidence, WriteBlob, OtherInstalls, SpoilManifest, DeleteRoot, EditPolicy, EditTrust,
       EditIdentity, EditPlan, store
  <1> QED
    BY Zenon, <1>2, <1>3

\* No read-only command writes under the root, in any interleaving with others, and only the
\* commands meant to make a root make one, or those that had found one (run_run_command,
\* run_trust_remove).
THEOREM ReadersWriteNothing == Spec => ReadOnlyCommandsWriteNothing
  <1>1. Init => LineOK
    BY Zenon DEF Init, LineOK
  <1>2. TypeOK /\ LineOK /\ [Next]_vars =>
          [/\ cmd # NoCommand /\ cmd.name \in ReadOnly /\ edits' = edits => UNCHANGED store
           /\ root = "missing" /\ root' # "missing" =>
                /\ cmd # NoCommand
                /\ cmd.name \in Creates \/ (cmd.name \in {"run", "trust remove"} /\ cmd.at # "start")]_vars
    <2> SUFFICES ASSUME TypeOK, LineOK, Next
                 PROVE  /\ cmd # NoCommand /\ cmd.name \in ReadOnly /\ edits' = edits => UNCHANGED store
                        /\ root = "missing" /\ root' # "missing" =>
                            /\ cmd # NoCommand
                            /\ \/ cmd.name \in Creates
                               \/ cmd.name \in {"run", "trust remove"} /\ cmd.at # "start"
      BY Zenon
    <2>1. UNCHANGED store => root' = root
      BY Zenon DEF store
    <2>2. CASE \E line \in CommandLine : Begin(line[1], line[2])
      BY Zenon, <2>1, <2>2 DEF Begin
    <2>3. CASE CommandSteps
      BY Zenon, <2>1, <2>3, WritersAreNamed
    <2>4. CASE OthersStep
      BY Zenon, <2>4, OthersAreCounted
    <2> QED
      BY Zenon, <2>2, <2>3, <2>4 DEF Next
  <1> QED
    BY <1>1, <1>2, InitType, NextType, NextLine, PTL DEF Spec, ReadOnlyCommandsWriteNothing

-----------------------------------------------------------------------------
(* Plans *)

\* A signature in the plan file is one that sign-plan made, over what it was made.
SignaturesAreMade == plan.sig # None => <<plan.sig.key, plan.sig.over>> \in signed

\* Only sign-plan and people touch the plan, and nothing that was signed is forgotten.
LEMMA PlanChanges ==
    ASSUME TypeOK, LineOK, [Next]_vars
    PROVE  /\ signed \subseteq signed'
           /\ run_trust_sign_plan \/ EditPlan \/ (plan' = plan /\ signed' = signed)
  <1>1. OthersStep => EditPlan \/ (plan' = plan /\ signed' = signed)
    BY Zenon DEF OthersStep, OthersWriteRecords, OthersEditTrust, WriteExecution, PruneExecution,
       WriteEvidence, WriteBlob, OtherInstalls, SpoilManifest, DeleteRoot, EditPolicy, EditTrust,
       EditIdentity, Edit
  <1>2. \/ build_facade \/ inspect \/ run_init \/ run_trust_add \/ run_trust_remove \/ run_trust_generate
        => plan' = plan /\ signed' = signed
    BY Zenon DEF build_facade, inspect, run_init, run_trust_add, run_trust_remove, run_trust_generate,
       planning
  <1>3. run_install \/ run_import_bundle \/ run_import_oci_layout \/ run_pull
        => plan' = plan /\ signed' = signed
    BY Zenon, Installing DEF planning
  <1>4. (\E line \in CommandLine : Begin(line[1], line[2])) \/ UNCHANGED vars
        => plan' = plan /\ signed' = signed
    BY Zenon DEF Begin, vars, planning
  <1>5. UNCHANGED <<store, planning>> => plan' = plan /\ signed' = signed
    BY Zenon DEF planning
  <1>6. run_trust_sign_plan \/ EditPlan \/ (plan' = plan /\ signed' = signed)
    BY Zenon, <1>1, <1>2, <1>3, <1>4, <1>5, Reading
       DEF Next, CommandSteps, RunSteps, SetupSteps, TrustSteps
  <1>7. run_trust_sign_plan \/ EditPlan => signed \subseteq signed'
    BY Zenon DEF run_trust_sign_plan, EditPlan
  <1> QED
    BY Zenon, <1>6, <1>7

\* Nobody forges a signature: people change a plan around it, or drop it.
LEMMA NextSignatures ==
    ASSUME TypeOK, LineOK, SignaturesAreMade, [Next]_vars
    PROVE  SignaturesAreMade'
  <1>1. plan \in Plan
    BY Zenon DEF TypeOK
  <1>2. CASE plan' = plan /\ signed' = signed
    BY Zenon, <1>2 DEF SignaturesAreMade
  <1>3. CASE run_trust_sign_plan /\ ~(plan' = plan /\ signed' = signed)
    <2>1. /\ plan' = [plan EXCEPT !.sig = [id |-> identity.id, digest |-> plan.payload,
                                           key |-> identity.secret, over |-> plan.payload]]
          /\ signed' = signed \cup {<<identity.secret, plan.payload>>}
      BY Zenon, <1>3 DEF run_trust_sign_plan
    <2>2. PICK sig : sig = [id |-> identity.id, digest |-> plan.payload,
                            key |-> identity.secret, over |-> plan.payload]
      BY Zenon
    <2>3. sig.key = identity.secret /\ sig.over = plan.payload
      BY Zenon, <2>2
    <2>4. plan' = [plan EXCEPT !.sig = sig]
      BY Zenon, <2>1, <2>2
    <2>5. plan'.sig = sig
      BY Zenon, <1>1, <2>4 DEF Plan
    <2>6. <<sig.key, sig.over>> \in signed'
      BY Zenon, <2>1, <2>3
    <2> QED
      BY Zenon, <2>5, <2>6 DEF SignaturesAreMade
  <1>4. CASE EditPlan
    <2>1. signed' = signed
      BY Zenon, <1>4 DEF EditPlan
    <2>2. plan.sig # None => plan.sig \in Signature
      BY Zenon, <1>1 DEF Plan
    <2>3. \/ \E c \in Payload : plan' = [plan EXCEPT !.payload = c]
          \/ plan' = [plan EXCEPT !.sig = None]
          \/ plan' = [plan EXCEPT !.kind = ~@]
          \/ plan.sig # None /\ \E p \in Publisher : plan' = [plan EXCEPT !.sig = [plan.sig EXCEPT !.id = p]]
          \/ plan.sig # None /\ \E c \in Payload : plan' = [plan EXCEPT !.sig = [plan.sig EXCEPT !.digest = c]]
      BY Zenon, <1>4 DEF EditPlan
    <2>4. \/ plan'.sig = plan.sig \/ plan'.sig = None
          \/ plan.sig # None /\ \E p \in Publisher : plan'.sig = [plan.sig EXCEPT !.id = p]
          \/ plan.sig # None /\ \E c \in Payload : plan'.sig = [plan.sig EXCEPT !.digest = c]
      BY Zenon, <1>1, <2>3 DEF Plan
    <2>5. \A sig \in Signature : \A p \in Publisher :
            [sig EXCEPT !.id = p].key = sig.key /\ [sig EXCEPT !.id = p].over = sig.over
      BY Zenon DEF Signature
    <2>6. \A sig \in Signature : \A c \in Payload :
            [sig EXCEPT !.digest = c].key = sig.key /\ [sig EXCEPT !.digest = c].over = sig.over
      BY Zenon DEF Signature
    <2>7. PICK old, sig : old = plan.sig /\ sig = plan'.sig
      BY Zenon
    <2>8. \/ sig = old \/ sig = None
          \/ old # None /\ \E p \in Publisher : sig = [old EXCEPT !.id = p]
          \/ old # None /\ \E c \in Payload : sig = [old EXCEPT !.digest = c]
      BY Zenon, <2>4, <2>7
    <2>9. old # None => old \in Signature
      BY Zenon, <2>2, <2>7
    <2>10. sig = old \/ sig = None \/ (old # None /\ sig.key = old.key /\ sig.over = old.over)
      <3>1. CASE old # None /\ \E p \in Publisher : sig = [old EXCEPT !.id = p]
        <4>1. PICK p \in Publisher : sig = [old EXCEPT !.id = p]
          BY Zenon, <3>1
        <4>2. [old EXCEPT !.id = p].key = old.key /\ [old EXCEPT !.id = p].over = old.over
          BY Zenon, <2>5, <2>9, <3>1
        <4> QED
          BY Zenon, <3>1, <4>1, <4>2
      <3>2. CASE old # None /\ \E c \in Payload : sig = [old EXCEPT !.digest = c]
        <4>1. PICK c \in Payload : sig = [old EXCEPT !.digest = c]
          BY Zenon, <3>2
        <4>2. [old EXCEPT !.digest = c].key = old.key /\ [old EXCEPT !.digest = c].over = old.over
          BY Zenon, <2>6, <2>9, <3>2
        <4> QED
          BY Zenon, <3>2, <4>1, <4>2
      <3> QED
        BY Zenon, <2>8, <3>1, <3>2
    <2> QED
      BY Zenon, <2>1, <2>7, <2>10 DEF SignaturesAreMade
  <1> QED
    BY Zenon, <1>2, <1>3, <1>4, PlanChanges

\* The only step that says a plan verifies is run_trust_verify_plan.
LEMMA VerdictsComeFrom ==
    ASSUME LineOK, CommandSteps, cmd' = NoCommand, out'.name = "verify-plan", out'.code = Ok
    PROVE  run_trust_verify_plan
  <1>1. PICK answer : Finish(answer)
    BY Zenon, CommandStepsOn DEF StepsOn, GoesOn, Ends
  <1>2. cmd.name = "verify-plan"
    BY Zenon, <1>1, Says
  <1>3. run_trust_verify_plan \/ ensure_existing_registry_root
    BY Zenon, <1>2 DEF CommandSteps, ReadSteps, RunSteps, SetupSteps, TrustSteps, At, OpensExisting,
       Exports, build_existing_registry, resolve_show_target, run_get_resolve, run_why_resolve,
       LoadResolved, run_verify, run_ls, run_export_bundle, run_export_oci_layout, run_push, DoctorRoot,
       DoctorState, DoctorTrust, build_doctor_report, run_resolve, build_facade, inspect, run_init,
       run_install, preview_import, run_import_bundle, run_import_oci_layout, run_pull,
       run_trust_generate, run_trust_add, run_trust_show, run_trust_list, run_trust_remove,
       run_trust_sign_plan
  <1>4. ~ ensure_existing_registry_root
    <2> SUFFICES ASSUME ensure_existing_registry_root PROVE FALSE
      BY Zenon
    <2>1. /\ At({"import preview", "trust show", "trust remove", "verify-plan"}, "start")
          /\ Finish(Failed(missing_registry_root_error)) \/ Proceed("exists", {}, None, {})
      BY Zenon DEF ensure_existing_registry_root
    <2>2. "none" \notin {"import preview", "trust show", "trust remove", "verify-plan"}
      BY Zenon
    <2> QED
      BY Zenon, <2>1, <2>2, Proceeds, Says, MissingRootIsHelpful, FailedHelps
  <1> QED
    BY Zenon, <1>3, <1>4

\* What run_trust_verify_plan accepts was signed by the key it trusts.
LEMMA VerdictIsSound ==
    ASSUME SignaturesAreMade, run_trust_verify_plan, out'.code = Ok
    PROVE  /\ out'.got = <<trust[plan.sig.id], plan>>
           /\ <<trust[plan.sig.id].key, plan.payload>> \in signed
           /\ trust[plan.sig.id].id = plan.sig.id /\ trust[plan.sig.id].tier # "local-dev"
  <1>1. verify_execution_plan = Ok
    <2>1. CASE verify_execution_plan # Ok
      <3>1. Finish(Failed(cli_error_from_registry(verify_execution_plan)))
        BY Zenon, <2>1 DEF run_trust_verify_plan
      <3> QED
        BY Zenon, <2>1, <3>1, ErrorsAreHelpful, FailedHelps, Says
    <2> QED
      BY Zenon, <2>1
  <1>2. out'.got = <<trust[plan.sig.id], plan>>
    <2>1. Finish(Answered(<<trust[plan.sig.id], plan>>))
      BY Zenon, <1>1 DEF run_trust_verify_plan
    <2> QED
      BY Zenon, <2>1, Says, AnsweredHelps
  <1>3. /\ plan.sig # None
        /\ read_trusted_publisher_record(plan.sig.id, "execution-plan-publisher-untrusted") = Ok
        /\ verify_execution_plan_with_trusted_publisher(trust[plan.sig.id]) = Ok
    BY Zenon, <1>1 DEF verify_execution_plan, Ok
  <1>4. trust[plan.sig.id].tier # "local-dev"
    BY Zenon, <1>3 DEF read_trusted_publisher_record, validate_trusted_publisher_record, Ok
  <1>5. /\ plan.sig.id = trust[plan.sig.id].id
        /\ <<plan.sig.key, plan.sig.over>> = <<trust[plan.sig.id].key, plan.payload>>
    BY Zenon, <1>3 DEF verify_execution_plan_with_trusted_publisher, Ok
  <1> QED
    BY Zenon, <1>2, <1>3, <1>4, <1>5 DEF SignaturesAreMade

\* What a verdict said stays true: nothing that was signed is forgotten.
LEMMA NextVerified ==
    ASSUME TypeOK, LineOK, SignaturesAreMade, VerifiedPlanWasSigned, [Next]_vars
    PROVE  VerifiedPlanWasSigned'
  <1>1. signed \subseteq signed'
    BY Zenon, PlanChanges
  <1>2. CASE out' = out
    BY Zenon, <1>1, <1>2 DEF VerifiedPlanWasSigned
  <1>3. CASE out' = None
    BY Zenon, <1>3 DEF VerifiedPlanWasSigned
  <1>4. CASE CommandSteps /\ cmd' = NoCommand
    <2> SUFFICES ASSUME out'.name = "verify-plan", out'.code = Ok
                 PROVE  /\ <<out'.got[1].key, out'.got[2].payload>> \in signed
                        /\ out'.got[1].id = out'.got[2].sig.id /\ out'.got[1].tier # "local-dev"
      BY Zenon, <1>1 DEF VerifiedPlanWasSigned
    <2>1. run_trust_verify_plan
      BY Zenon, <1>4, VerdictsComeFrom
    <2>2. PICK t : t = trust[plan.sig.id]
      BY Zenon
    <2>3. out'.got = <<t, plan>> /\ <<t.key, plan.payload>> \in signed /\ t.id = plan.sig.id
          /\ t.tier # "local-dev"
      BY Zenon, <2>1, <2>2, VerdictIsSound
    <2>4. out'.got[1] = t /\ out'.got[2] = plan
      <3>1. out'.got = <<t, plan>>
        BY Zenon, <2>3
      <3> QED
        BY SMT, <3>1
    <2> QED
      BY Zenon, <2>3, <2>4
  <1>5. CASE CommandSteps /\ cmd' # NoCommand
    <2>1. out' = out
      BY Zenon, <1>5, CommandStepsOn DEF StepsOn, GoesOn, Ends, Finish
    <2> QED
      BY Zenon, <1>2, <2>1
  <1> QED
    BY Zenon, <1>2, <1>3, <1>4, <1>5, OthersKeepCommand DEF Next, Begin, vars

\* A plan that carries its signer's signature verifies where that key is trusted.
LEMMA SignedVerifies == SignedPlanVerifies
  <1> SUFFICES ASSUME plan.kind, plan.sig # None, plan.sig.digest = plan.payload,
                      plan.sig.over = plan.payload, root # "file",
                      trust[plan.sig.id] \notin {Absent, Torn},
                      trust[plan.sig.id].id = plan.sig.id, trust[plan.sig.id].key = plan.sig.key,
                      trust[plan.sig.id].tier # "local-dev"
               PROVE  verify_execution_plan = Ok /\ sign_execution_plan # Ok
    BY Zenon DEF SignedPlanVerifies
  <1>1. sign_execution_plan # Ok
    BY Zenon DEF sign_execution_plan, Ok
  <1>2. read_trusted_publisher_record(plan.sig.id, "execution-plan-publisher-untrusted") = Ok
    BY Zenon DEF read_trusted_publisher_record, validate_trusted_publisher_record
  <1>3. verify_execution_plan_with_trusted_publisher(trust[plan.sig.id]) = Ok
    BY Zenon DEF verify_execution_plan_with_trusted_publisher
  <1> QED
    BY Zenon, <1>1, <1>2, <1>3 DEF verify_execution_plan

\* For any publishers, keys and plans, and any edits of the plan, the identity and the trust
\* records by hand: verify-plan accepts a plan only if the trusted key signed exactly it, and
\* accepts every plan that still carries its signature (sign_execution_plan,
\* verify_execution_plan).
THEOREM PlansVerify == Spec => []PlansVerifyIffSigned
  <1>1. Init => LineOK /\ SignaturesAreMade /\ VerifiedPlanWasSigned
    <2> SUFFICES ASSUME Init PROVE LineOK /\ SignaturesAreMade /\ VerifiedPlanWasSigned
      BY Zenon
    <2>1. plan.sig = None
      BY Zenon DEF Init
    <2> QED
      BY Zenon, <2>1 DEF Init, LineOK, SignaturesAreMade, VerifiedPlanWasSigned
  <1>2. TypeOK /\ LineOK /\ SignaturesAreMade /\ VerifiedPlanWasSigned /\ [Next]_vars
        => SignaturesAreMade' /\ VerifiedPlanWasSigned'
    BY Zenon, NextSignatures, NextVerified
  <1>3. VerifiedPlanWasSigned => PlansVerifyIffSigned
    BY Zenon, SignedVerifies DEF PlansVerifyIffSigned
  <1> QED
    BY <1>1, <1>2, <1>3, InitType, NextType, NextLine, PTL DEF Spec

-----------------------------------------------------------------------------
(* `guild doctor' *)

\* The codes of a trust record that was read: none of them is about the root.
LEMMA TrustCodes ==
    ASSUME root # "file", NEW p
    PROVE  read_trusted_publisher_record(p, "trusted-publisher-missing") \in
                {Ok, "trusted-publisher-missing", "trusted-publisher-parse-failed",
                 "trusted-publisher-tier-invalid"}
  BY Zenon DEF read_trusted_publisher_record, validate_trusted_publisher_record

\* Listing the trust store of a root that opens: ok alone, or failures of records.
LEMMA TrustLists ==
    ASSUME open_existing_registry_root = Ok
    PROVE  /\ \A code \in list_trusted_publishers : code # "registry-root-missing"
           /\ Ok \in list_trusted_publishers => list_trusted_publishers = {Ok}
  <1>1. root # "file"
    BY Zenon DEF open_existing_registry_root, Ok
  <1>2. PICK read : read = {read_trusted_publisher_record(p, "trusted-publisher-missing") :
                              p \in {q \in Publisher : trust[q] # Absent}}
    BY Zenon
  <1>3. list_trusted_publishers = IF FailuresOf(read) = {} THEN {Ok} ELSE FailuresOf(read)
    BY Zenon, <1>2 DEF list_trusted_publishers
  <1>4. "registry-root-missing" \notin read /\ Ok # "registry-root-missing"
    BY Zenon, <1>1, <1>2, TrustCodes DEF Ok
  <1> QED
    BY Zenon, <1>3, <1>4 DEF FailuresOf

\* The trust check says ok exactly when the trust store lists.
LEMMA TrustChecked ==
    ASSUME open_existing_registry_root = Ok, NEW t \in inspect_doctor_trust(TRUE)
    PROVE  t.status \in {"ok", "attention"} /\ (t.status = "ok" <=> list_trusted_publishers = {Ok})
  <1>1. PICK code \in list_trusted_publishers :
            t = IF code = Ok THEN Check("ok", Ok)
                ELSE IF code = "registry-root-missing" THEN Check("skipped", Ok)
                ELSE Check("attention", code)
    BY Zenon DEF inspect_doctor_trust
  <1>2. t = IF code = Ok THEN Check("ok", Ok) ELSE Check("attention", code)
    BY Zenon, <1>1, TrustLists
  <1>3. t.status = IF code = Ok THEN "ok" ELSE "attention"
    BY Zenon, <1>2 DEF Check
  <1>4. code = Ok <=> list_trusted_publishers = {Ok}
    BY Zenon, TrustLists
  <1> QED
    BY Zenon, <1>3, <1>4

\* The policy check says ok exactly when the policy loads and is no dangling link.
LEMMA PolicyChecked ==
    ASSUME policy \in Policies
    PROVE  /\ inspect_doctor_policy(TRUE).status \in {"ok", "attention"}
           /\ inspect_doctor_policy(TRUE).status = "ok" <=> load_policy_config = Ok /\ policy # "dangling"
  BY Zenon DEF Policies, inspect_doctor_policy, load_policy_config, Check, Ok

\* The state check says ok exactly when the three stores list.
LEMMA StateChecked ==
    /\ inspect_doctor_state(Ok).status \in {"ok", "attention"}
    /\ inspect_doctor_state(Ok).status = "ok" <=>
            /\ list_recent_execution_records = Ok /\ list_recent_evidence_records = Ok
            /\ list_object_blobs = Ok
  <1> DEFINE lists == <<list_recent_execution_records, list_recent_evidence_records, list_object_blobs>>
             bad == {i \in 1..3 : lists[i] # Ok}
  <1>1. Ok # "registry-root-missing"
    BY Zenon DEF Ok
  <1>2. \A code : Check("ok", code).status = "ok" /\ Check("attention", code).status = "attention"
    BY Zenon DEF Check
  <1>3. bad = {} => inspect_doctor_state(Ok) = Check("ok", Ok)
    BY Zenon, <1>1 DEF inspect_doctor_state
  <1>4. bad # {} => \E code : inspect_doctor_state(Ok) = Check("attention", code)
    BY Zenon, <1>1 DEF inspect_doctor_state
  <1>5. bad = {} <=> lists[1] = Ok /\ lists[2] = Ok /\ lists[3] = Ok
    <2>1. \A i : i \in 1..3 <=> i \in {1, 2, 3}
      BY SMT
    <2> HIDE DEF lists
    <2> QED
      BY Zenon, <2>1
  <1>6. /\ lists[1] = list_recent_execution_records /\ lists[2] = list_recent_evidence_records
        /\ lists[3] = list_object_blobs
    BY SMT
  <1> HIDE DEF bad, lists
  <1>7. inspect_doctor_state(Ok).status = "ok" <=> bad = {}
    BY Zenon, <1>2, <1>3, <1>4
  <1>8. inspect_doctor_state(Ok).status \in {"ok", "attention"}
    BY Zenon, <1>2, <1>3, <1>4
  <1> QED
    BY Zenon, <1>5, <1>6, <1>7, <1>8

\* A report is ok when none of its four checks needs attention or was skipped.
LEMMA OverallOk ==
    ASSUME NEW a, NEW b, NEW c, NEW d
    PROVE  doctor_overall_status(<<a, b, c, d>>) = "ok" <=>
                /\ a.status \notin {"attention", "skipped"} /\ b.status \notin {"attention", "skipped"}
                /\ c.status \notin {"attention", "skipped"} /\ d.status \notin {"attention", "skipped"}
  <1>1. PICK report : report = <<a, b, c, d>>
    BY Zenon
  <1>2. /\ report[1] = a /\ report[2] = b /\ report[3] = c /\ report[4] = d
        /\ \A i : i \in DOMAIN report <=> i \in {1, 2, 3, 4}
    BY SMT, <1>1
  <1>3. PICK statuses : statuses = {report[i].status : i \in DOMAIN report}
    BY Zenon
  <1>4. \A s : s \in statuses <=> s \in {a.status, b.status, c.status, d.status}
    BY Zenon, <1>2, <1>3
  <1>5. doctor_overall_status(report) =
            IF "attention" \in statuses THEN "attention"
            ELSE IF "skipped" \in statuses THEN "skipped" ELSE "ok"
    BY Zenon, <1>3 DEF doctor_overall_status
  <1> QED
    BY Zenon, <1>1, <1>4, <1>5

\* The report of one moment is ok exactly when every command finds what it needs, but for a
\* policy that is a dangling link.
LEMMA DoctorAgrees == TypeOK => DoctorAgreesWithCommands
  <1> SUFFICES ASSUME TypeOK PROVE DoctorAgreesWithCommands
    BY Zenon
  <1> DEFINE works == /\ load_existing = Ok /\ list_trusted_publishers = {Ok} /\ load_policy_config = Ok
                      /\ list_recent_execution_records = Ok /\ list_recent_evidence_records = Ok
                      /\ list_object_blobs = Ok
  <1> SUFFICES ASSUME NEW report \in ReportNow
               PROVE  (doctor_overall_status(report) = "ok") <=> (works /\ policy # "dangling")
    BY Zenon DEF DoctorAgreesWithCommands
  <1>1. PICK opened : opened = inspect_doctor_root
    BY Zenon
  <1>2. PICK state, pol : /\ state = inspect_doctor_state(opened.code)
                          /\ pol = inspect_doctor_policy(opened.status = "ok")
    BY Zenon
  <1>3. PICK t \in inspect_doctor_trust(opened.status = "ok") : report = <<opened, state, t, pol>>
    BY Zenon, <1>1, <1>2 DEF ReportNow
  <1> DEFINE Fine(check) == check.status \notin {"attention", "skipped"}
  <1>4. doctor_overall_status(report) = "ok" <=> Fine(opened) /\ Fine(state) /\ Fine(t) /\ Fine(pol)
    <2>1. doctor_overall_status(<<opened, state, t, pol>>) = "ok" <=>
                /\ opened.status \notin {"attention", "skipped"} /\ state.status \notin {"attention", "skipped"}
                /\ t.status \notin {"attention", "skipped"} /\ pol.status \notin {"attention", "skipped"}
      BY Zenon, OverallOk
    <2> QED
      BY Zenon, <1>3, <2>1
  <1>5. \A s, code : Check(s, code).status = s /\ Check(s, code).code = code
    BY Zenon DEF Check
  <1>6. CASE load_existing = Ok
    <2>1. opened = Check("ok", Ok)
      BY Zenon, <1>1, <1>6 DEF inspect_doctor_root
    <2>2. opened.code = Ok /\ opened.status = "ok" /\ (opened.status = "ok") = TRUE
      BY Zenon, <1>5, <2>1
    <2>3. open_existing_registry_root = Ok
      BY Zenon, <1>6 DEF load_existing, Ok
    <2>4. t \in inspect_doctor_trust(TRUE)
      BY Zenon, <1>3, <2>2
    <2>5. state = inspect_doctor_state(Ok) /\ pol = inspect_doctor_policy(TRUE)
      BY Zenon, <1>2, <2>2
    <2>6. t.status \in {"ok", "attention"} /\ (t.status = "ok" <=> list_trusted_publishers = {Ok})
      BY Zenon, <2>3, <2>4, TrustChecked
    <2>7. policy \in Policies
      BY Zenon DEF TypeOK
    <2>8. /\ pol.status \in {"ok", "attention"}
          /\ pol.status = "ok" <=> load_policy_config = Ok /\ policy # "dangling"
      BY Zenon, <2>5, <2>7, PolicyChecked
    <2>9. /\ state.status \in {"ok", "attention"}
          /\ state.status = "ok" <=> /\ list_recent_execution_records = Ok
                                     /\ list_recent_evidence_records = Ok /\ list_object_blobs = Ok
      BY Zenon, <2>5, StateChecked
    <2>10. Fine(opened)
      BY Zenon, <2>2
    <2> QED
      BY Zenon, <1>6, <1>4, <2>6, <2>8, <2>9, <2>10
  <1>7. CASE load_existing # Ok
    <2>1. CASE doctor_root_error_is_root_access_failure(load_existing)
      <3>1. opened = Check("attention", load_existing)
        BY Zenon, <1>1, <1>7, <2>1 DEF inspect_doctor_root
      <3>2. opened.status = "attention"
        BY Zenon, <1>5, <3>1
      <3> QED
        BY Zenon, <1>7, <1>4, <3>2
    <2>2. CASE ~doctor_root_error_is_root_access_failure(load_existing)
      <3>1. opened = Check("ok", load_existing)
        BY Zenon, <1>1, <1>7, <2>2 DEF inspect_doctor_root
      <3>2. load_existing # "registry-root-missing"
        BY Zenon, <2>2 DEF doctor_root_error_is_root_access_failure
      <3>3. inspect_doctor_state(load_existing) = Check("attention", load_existing)
        BY Zenon, <1>7, <3>2 DEF inspect_doctor_state
      <3>4. state = Check("attention", load_existing)
        <4>1. opened.code = load_existing
          BY Zenon, <1>5, <3>1
        <4> QED
          BY Zenon, <1>2, <3>3, <4>1
      <3>5. state.status = "attention"
        BY Zenon, <1>5, <3>4
      <3> QED
        BY Zenon, <1>7, <1>4, <3>5
    <2> QED
      BY Zenon, <2>1, <2>2
  <1> QED
    BY Zenon, <1>6, <1>7

\* On every root that commands and others can leave behind, `guild doctor' says ok exactly
\* when the root opens, every listing reads, the trust store lists and the policy loads; a
\* dangling policy link is the one difference (build_doctor_report).
THEOREM DoctorIsRight == Spec => []DoctorAgreesWithCommands
  <1>1. Init => LineOK
    BY Zenon DEF Init, LineOK
  <1> QED
    BY <1>1, DoctorAgrees, InitType, NextType, NextLine, PTL DEF Spec

-----------------------------------------------------------------------------
(* Prefixes of executions *)

\* The executions a root holds.
Recorded == {x \in ExecutionId : executions[x] # "absent"}

\* A root holds finitely many skills and records.
Finite == IsFiniteSet(skills) /\ IsFiniteSet(Recorded)

\* A set that gained one element at most stays finite.
LEMMA StaysFinite ==
    ASSUME NEW S, IsFiniteSet(S), NEW T, NEW x, T \subseteq S \cup {x}
    PROVE  IsFiniteSet(T)
  <1>1. IsFiniteSet(S \cup {x})
    BY Zenon, FS_AddElement
  <1> QED
    BY Zenon, <1>1, FS_Subset

\* A finite set with one element.
LEMMA OnlyOne ==
    ASSUME NEW S, IsFiniteSet(S), Cardinality(S) = 1
    PROVE  S = {CHOOSE x \in S : TRUE}
  <1>1. PICK x : S = {x}
    BY Zenon, FS_Singleton
  <1>2. (CHOOSE y \in S : TRUE) \in S
    BY Zenon, <1>1
  <1> QED
    BY Zenon, <1>1, <1>2

\* A record that is written or pruned changes one entry of the store.
LEMMA RecordsGrow ==
    ASSUME executions \in [ExecutionId -> {"absent", "torn", "whole"}], NEW x \in ExecutionId, NEW v,
           executions' = [executions EXCEPT ![x] = v]
    PROVE  Recorded' \subseteq Recorded \cup {x}
  <1>1. \A y \in ExecutionId : y # x => executions'[y] = executions[y]
    BY Zenon
  <1> QED
    BY Zenon, <1>1 DEF Recorded

\* A step adds one skill and one record at most.
LEMMA OneAtATime ==
    ASSUME TypeOK, LineOK, [Next]_vars
    PROVE  (\E s : skills' \subseteq skills \cup {s}) /\ (\E x : Recorded' \subseteq Recorded \cup {x})
  <1>1. executions' = executions => Recorded' = Recorded
    BY Zenon DEF Recorded
  <1>2. executions \in [ExecutionId -> {"absent", "torn", "whole"}]
    BY Zenon DEF TypeOK
  <1> DEFINE Skills == \E s : skills' \subseteq skills \cup {s}
             Records == \E x : Recorded' \subseteq Recorded \cup {x}
  <1>3. (skills' = skills => Skills) /\ (executions' = executions => Records)
    BY Zenon, <1>1
  <1>4. CASE UNCHANGED store \/ UNCHANGED vars
    BY Zenon, <1>3, <1>4 DEF vars, store, records
  <1>5. CASE OthersStep
    <2>1. \/ \E x \in ExecutionId : WriteExecution(x) \/ PruneExecution(x)
          \/ \E s \in Skill : OtherInstalls(s) \/ SpoilManifest(s)
          \/ DeleteRoot \/ UNCHANGED <<skills, executions>>
      BY Zenon, <1>5 DEF OthersStep, OthersWriteRecords, OthersEditTrust, WriteEvidence, WriteBlob,
         EditPolicy, EditTrust, EditIdentity, EditPlan, records, store
    <2>2. CASE \E x \in ExecutionId : WriteExecution(x) \/ PruneExecution(x)
      <3>1. PICK x \in ExecutionId : WriteExecution(x) \/ PruneExecution(x)
        BY Zenon, <2>2
      <3>2. skills' = skills /\ \E v : executions' = [executions EXCEPT ![x] = v]
        BY Zenon, <3>1 DEF WriteExecution, PruneExecution
      <3> QED
        BY Zenon, <1>2, <1>3, <3>2, RecordsGrow
    <2>3. CASE \E s \in Skill : OtherInstalls(s) \/ SpoilManifest(s)
      <3>1. PICK s \in Skill : OtherInstalls(s) \/ SpoilManifest(s)
        BY Zenon, <2>3
      <3>2. /\ executions' = executions
            /\ skills' = skills \cup {s} \/ skills' = (skills \ {s}) \cup {[s EXCEPT !.sound = FALSE]}
        BY Zenon, <3>1 DEF OtherInstalls, SpoilManifest, records
      <3> QED
        BY Zenon, <1>3, <3>2
    <2>4. CASE DeleteRoot
      <3>1. skills' = {} /\ \A x \in ExecutionId : executions'[x] = "absent"
        BY Zenon, <2>4 DEF DeleteRoot
      <3> QED
        BY Zenon, <3>1 DEF Recorded
    <2> QED
      BY Zenon, <1>3, <2>1, <2>2, <2>3, <2>4
  <1>6. CASE build_facade \/ run_init \/ run_trust_add \/ run_trust_remove
    BY Zenon, <1>3, <1>6 DEF build_facade, run_init, run_trust_add, run_trust_remove, records
  <1>7. CASE inspect
    <2>1. skills' = skills
      BY Zenon, <1>7 DEF inspect
    <2>2. executions' = executions \/ \E x \in ExecutionId : executions' = [executions EXCEPT ![x] = "whole"]
      BY Zenon, <1>7 DEF inspect
    <2> QED
      BY Zenon, <1>2, <1>3, <2>1, <2>2, RecordsGrow
  <1>8. CASE run_install \/ run_import_bundle \/ run_import_oci_layout \/ run_pull
    BY Zenon, <1>3, <1>8, Installing DEF records
  <1>9. run_trust_generate \/ run_trust_sign_plan => UNCHANGED store
    BY Zenon DEF run_trust_generate, run_trust_sign_plan
  <1>10. (\E line \in CommandLine : Begin(line[1], line[2])) => UNCHANGED store
    BY Zenon DEF Begin
  <1> QED
    BY Zenon, <1>4, <1>5, <1>6, <1>7, <1>8, <1>9, <1>10, Reading
       DEF Next, CommandSteps, RunSteps, SetupSteps, TrustSteps

\* A root stays finite.
LEMMA NextFinite ==
    ASSUME TypeOK, LineOK, Finite, [Next]_vars
    PROVE  Finite'
  BY Zenon, OneAtATime, StaysFinite DEF Finite

\* resolve_execution_prefix resolves to the one whole record that starts with the prefix.
LEMMA PrefixIsExact ==
    ASSUME TypeOK, Finite, NEW p, resolve_execution_prefix(p).found
    PROVE  whole(executions) \cap StartsWith[p] = {resolve_execution_prefix(p).ref.id}
  <1>1. PICK found : found = whole(executions) \cap StartsWith[p]
    BY Zenon
  <1>2. resolve_execution_prefix(p) =
            OnlyMatch(found, "execution uri", "execution ref unmatched", "execution ref ambiguous")
    BY Zenon, <1>1, Resolutions DEF resolve_execution_prefix
  <1>3. /\ Cardinality(found) = 1
        /\ resolve_execution_prefix(p) =
                Resolved([kind |-> "execution uri", id |-> CHOOSE x \in found : TRUE])
    BY Zenon, <1>2, Resolutions DEF OnlyMatch
  <1>4. PICK uri : uri = [kind |-> "execution uri", id |-> CHOOSE x \in found : TRUE]
    BY Zenon
  <1>5. IsFiniteSet(found)
    <2>1. DOMAIN executions = ExecutionId
      BY Zenon DEF TypeOK
    <2>2. found \subseteq Recorded
      BY Zenon, <1>1, <2>1 DEF whole, Recorded
    <2> QED
      BY Zenon, <2>2, FS_Subset DEF Finite
  <1>6. found = {CHOOSE x \in found : TRUE}
    BY Zenon, <1>3, <1>5, OnlyOne
  <1>7. uri.id = CHOOSE x \in found : TRUE
    BY Zenon, <1>4
  <1>8. resolve_execution_prefix(p).ref = uri
    BY Zenon, <1>3, <1>4, Resolutions
  <1>9. found = {uri.id}
    BY Zenon, <1>6, <1>7
  <1> QED
    BY Zenon, <1>1, <1>8, <1>9

\* The commands that answer a short ref, and what one knows about its prefix once resolved.
Looking == {"show", "get", "why"}
PrefixOK ==
    At(Looking, "load") /\ cmd.ref.kind = "execution prefix" => cmd.seen = {cmd.uri.id}

\* `show`, `get` and `why` of `exec:<prefix>` open the root, resolve the prefix and load the
\* record; they say ok in the last of these steps alone.
LEMMA PrefixSteps ==
    ASSUME LineOK, CommandSteps, cmd.name \in Looking, cmd.ref.kind = "execution prefix"
    PROVE  \/ Proceed("open", skills, None, {})
           \/ Resolve(resolve_execution_prefix(cmd.ref.id))
           \/ At(Looking, "load") /\ \E code : Finish(RecordAnswer(code, cmd.uri))
           \/ \E failure : Failing(failure) /\ Finish(Failed(failure))
  <1>1. \/ build_existing_registry \/ resolve_show_target \/ run_get_resolve \/ run_why_resolve
        \/ LoadResolved
    <2>1. ~ (RunSteps \/ SetupSteps)
      BY Zenon DEF RunSteps, SetupSteps, run_resolve, build_facade, inspect, run_init, run_install,
         ensure_existing_registry_root, preview_import, run_import_bundle, run_import_oci_layout,
         run_pull, At, Looking
    <2>2. ~ TrustSteps
      BY Zenon DEF TrustSteps, run_trust_generate, run_trust_add, run_trust_show, run_trust_list,
         run_trust_remove, run_trust_sign_plan, run_trust_verify_plan, At, Looking
    <2>3. ~ (run_verify \/ run_ls \/ run_export_bundle \/ run_export_oci_layout \/ run_push)
      BY Zenon DEF run_verify, run_ls, run_export_bundle, run_export_oci_layout, run_push, At, Looking
    <2>4. ~ (DoctorRoot \/ DoctorState \/ DoctorTrust \/ build_doctor_report)
      BY Zenon DEF DoctorRoot, DoctorState, DoctorTrust, build_doctor_report, At, Looking
    <2> QED
      BY Zenon, <2>1, <2>2, <2>3, <2>4 DEF CommandSteps, ReadSteps
  <1>2. CASE build_existing_registry
    <2>1. \/ Proceed("open", skills, None, {})
          \/ Finish(Failed(missing_registry_root_error))
          \/ load_existing # Ok /\ Finish(Failed(cli_error_from_registry(load_existing)))
      BY Zenon, <1>2 DEF build_existing_registry
    <2> QED
      BY Zenon, <2>1, MissingRootIsHelpful, ErrorsAreHelpful
  <1>3. "execution prefix" \notin SkillKinds \cup UriKinds
    BY Zenon DEF SkillKinds, UriKinds
  <1>4. CASE resolve_show_target
    <2>1. resolve_show_resource_target(cmd.ref)
      BY Zenon, <1>3, <1>4 DEF resolve_show_target
    <2> QED
      BY Zenon, <2>1 DEF resolve_show_resource_target
  <1>5. /\ resolve_resource_ref(cmd.ref) = resolve_execution_prefix(cmd.ref.id)
        /\ resolve_execution_ref(cmd.ref) = resolve_execution_prefix(cmd.ref.id)
    BY Zenon, <1>3 DEF resolve_resource_ref, resolve_execution_ref
  <1>6. CASE run_get_resolve \/ run_why_resolve
    BY Zenon, <1>5, <1>6 DEF run_get_resolve, run_why_resolve
  <1>7. CASE LoadResolved
    BY Zenon, <1>7 DEF LoadResolved, Looking
  <1> QED
    BY Zenon, <1>1, <1>2, <1>4, <1>6, <1>7

\* Every step keeps what a command knows about its prefix, and answers from it.
LEMMA NextPrefix ==
    ASSUME TypeOK, Finite, LineOK, PrefixOK, PrefixAnswersAreExact, [Next]_vars
    PROVE  PrefixOK' /\ PrefixAnswersAreExact'
  <1>1. CASE \E line \in CommandLine : Begin(line[1], line[2])
    <2>1. PICK line \in CommandLine : Begin(line[1], line[2])
      BY Zenon, <1>1
    <2>2. cmd'.at = "start" /\ out' = None
      BY Zenon, <2>1 DEF Begin, Command
    <2> QED
      BY Zenon, <2>2 DEF PrefixOK, PrefixAnswersAreExact, At
  <1>2. CASE UNCHANGED <<cmd, out>>
    BY Zenon, <1>2 DEF PrefixOK, PrefixAnswersAreExact, At
  <1>3. CASE CommandSteps /\ ~ (cmd.name \in Looking /\ cmd.ref.kind = "execution prefix")
    <2>1. StepsOn
      BY Zenon, <1>3, CommandStepsOn
    <2>2. CASE GoesOn
      BY Zenon, <1>3, <2>2 DEF GoesOn, PrefixOK, PrefixAnswersAreExact, At, Looking
    <2>3. CASE Ends
      <3>1. cmd' = NoCommand /\ out'.name = cmd.name /\ out'.ref = cmd.ref
        BY Zenon, <2>3, Says DEF Ends
      <3> QED
        BY Zenon, <1>3, <3>1 DEF PrefixOK, PrefixAnswersAreExact, At, Looking
    <2> QED
      BY Zenon, <2>1, <2>2, <2>3 DEF StepsOn
  <1>4. CASE CommandSteps /\ cmd.name \in Looking /\ cmd.ref.kind = "execution prefix"
    <2>1. \A step, view, uri, seen : Proceed(step, view, uri, seen) =>
            cmd'.at = step /\ cmd'.uri = uri /\ cmd'.seen = seen /\ out' = out
      <3> TAKE step, view, uri, seen
      <3> HAVE Proceed(step, view, uri, seen)
      <3> QED
        BY Zenon DEF Proceed
    <2>2. \A answer : Finish(answer) /\ answer.code # Ok => PrefixOK' /\ PrefixAnswersAreExact'
      BY Zenon, Says DEF PrefixOK, PrefixAnswersAreExact, At
    <2>3. \A failure : Failing(failure) => Failed(failure).code # Ok
      BY Zenon DEF Failing, Failed
    <2>4. CASE Proceed("open", skills, None, {})
      <3>1. cmd'.at # "load" /\ out' = out
        <4>1. cmd'.at = "open" /\ out' = out
          BY Zenon, <2>1, <2>4
        <4> QED
          BY Zenon, <4>1
      <3> QED
        BY Zenon, <3>1 DEF PrefixOK, PrefixAnswersAreExact, At
    <2>5. CASE Resolve(resolve_execution_prefix(cmd.ref.id))
      <3>1. PICK r : r = resolve_execution_prefix(cmd.ref.id)
        BY Zenon
      <3>2. \/ ~r.found /\ Finish(Failed(r.error))
            \/ r.found /\ Proceed("load", cmd.view, r.ref, Seen(cmd.ref))
        BY Zenon, <2>5, <3>1 DEF Resolve
      <3>3. ~r.found => Failing(r.error)
        BY Zenon, <3>1, PrefixesSettle DEF Settles
      <3>4. CASE r.found /\ Proceed("load", cmd.view, r.ref, Seen(cmd.ref))
        <4>1. Seen(cmd.ref) = {r.ref.id}
          BY Zenon, <1>4, <3>1, <3>4, PrefixIsExact DEF Seen
        <4>2. cmd'.seen = {cmd'.uri.id} /\ out' = out
          BY Zenon, <2>1, <3>4, <4>1
        <4> QED
          BY Zenon, <4>2 DEF PrefixOK, PrefixAnswersAreExact
      <3> QED
        BY Zenon, <2>2, <2>3, <3>2, <3>3, <3>4
    <2>6. CASE At(Looking, "load") /\ \E code : Finish(RecordAnswer(code, cmd.uri))
      <3>1. PICK code : Finish(RecordAnswer(code, cmd.uri))
        BY Zenon, <2>6
      <3>2. CASE code = Ok
        <4>1. RecordAnswer(code, cmd.uri).got = cmd.uri
          BY Zenon, <3>2 DEF RecordAnswer, Answered
        <4>2. cmd.seen = {cmd.uri.id}
          BY Zenon, <1>4, <2>6 DEF PrefixOK
        <4>3. cmd' = NoCommand /\ out'.seen = {out'.got.id}
          BY Zenon, <3>1, <4>1, <4>2, Says
        <4> QED
          BY Zenon, <4>3 DEF PrefixOK, PrefixAnswersAreExact, At
      <3>3. CASE code # Ok
        BY Zenon, <2>2, <2>3, <3>1, <3>3, ErrorsAreHelpful DEF RecordAnswer
      <3> QED
        BY Zenon, <3>2, <3>3
    <2>7. CASE \E failure : Failing(failure) /\ Finish(Failed(failure))
      BY Zenon, <2>2, <2>3, <2>7
    <2> QED
      BY Zenon, <1>4, <2>4, <2>5, <2>6, <2>7, PrefixSteps
  <1> QED
    BY Zenon, <1>1, <1>2, <1>3, <1>4, OthersKeepCommand DEF Next, vars

-----------------------------------------------------------------------------
(* Short refs to skills *)

\* A set of numbers that is not empty has a least one.
LEMMA Least ==
    ASSUME NEW T, T \subseteq Nat, T # {}
    PROVE  \E x \in T : \A y \in T : x <= y
  <1>1. PICK R : R = {ss \in Nat \X Nat : ss[1] < ss[2]}
    BY Zenon
  <1>2. IsWellFoundedOn(R, Nat)
    BY Zenon, <1>1, NatLessThanWellFounded DEF OpToRel
  <1>3. PICK x \in T : \A y \in T : ~ (<<y, x>> \in R)
    BY Zenon, <1>2, WFMin
  <1>4. \A a, b \in Nat : a < b => <<a, b>> \in R
    <2> TAKE a, b \in Nat
    <2> HAVE a < b
    <2>1. PICK p : p = <<a, b>>
      BY Zenon
    <2>2. p \in Nat \X Nat /\ p[1] < p[2]
      BY SMT, <2>1
    <2> QED
      BY Zenon, <1>1, <2>1, <2>2
  <1>5. \A y \in T : ~ (y < x)
    BY Zenon, <1>3, <1>4
  <1> QED
    BY SMT, <1>5

\* Of finitely many skills one is the newest.
LEMMA NewestExists ==
    ASSUME NEW M, IsFiniteSet(M), M # {}, \A s \in M : s.version \in Nat
    PROVE  \E s \in M : \A t \in M : s.version >= t.version
  <1> DEFINE Above(s) == {t \in M : t.version > s.version}
             Counts == {Cardinality(Above(s)) : s \in M}
  <1>1. \A s \in M : Above(s) \subseteq M /\ IsFiniteSet(Above(s)) /\ Cardinality(Above(s)) \in Nat
    <2> TAKE s \in M
    <2>1. Above(s) \subseteq M
      BY Zenon
    <2> QED
      BY Zenon, <2>1, FS_Subset, FS_CardinalityType
  <1>2. PICK s \in M : \A t \in M : Cardinality(Above(s)) <= Cardinality(Above(t))
    <2>1. Counts \subseteq Nat /\ Counts # {}
      BY Zenon, <1>1
    <2>2. PICK n \in Counts : \A m \in Counts : n <= m
      BY Zenon, <2>1, Least
    <2> QED
      BY Zenon, <2>2
  <1>3. ASSUME NEW t \in M, t.version > s.version
        PROVE  FALSE
    <2>1. Above(t) \subseteq Above(s) /\ t \in Above(s) /\ t \notin Above(t)
      <3>1. \A u \in M : u.version > t.version => u.version > s.version
        BY SMT, <1>3
      <3>2. ~ (t.version > t.version)
        BY SMT
      <3> QED
        BY Zenon, <1>3, <3>1, <3>2
    <2>2. /\ Cardinality(Above(t)) <= Cardinality(Above(s))
          /\ Cardinality(Above(t)) # Cardinality(Above(s))
      BY Zenon, <1>1, <2>1, FS_Subset
    <2>3. Cardinality(Above(s)) <= Cardinality(Above(t))
      BY Zenon, <1>2
    <2>4. Cardinality(Above(s)) \in Nat /\ Cardinality(Above(t)) \in Nat
      BY Zenon, <1>1
    <2> HIDE DEF Above
    <2> QED
      BY SMT, <2>2, <2>3, <2>4
  <1>4. \A t \in M : s.version >= t.version
    BY SMT, <1>3
  <1> QED
    BY Zenon, <1>4

\* The skill is the newest of the view that matches a full ref.
NewestOf(view, ref, got) ==
    /\ got \in view /\ got.ns = ref.ns /\ got.name = ref.name /\ got.version \in ref.req
    /\ \A s \in view : s.ns = ref.ns /\ s.name = ref.name /\ s.version \in ref.req =>
            s.version <= got.version /\ (s.version = got.version => s = got)

\* resolve_installed_selection takes the newest build of the name in a version asked for.
LEMMA SelectionIsNewest ==
    ASSUME NEW view, IsFiniteSet(view), \A s \in view : s.version \in Nat,
           NEW ref, NEW chosen, chosen = resolve_installed_selection(view, ref), chosen.code = Ok,
           NEW got, got = chosen.skill
    PROVE  NewestOf(view, ref, got)
  <1>1. PICK named : named = {s \in view : s.ns = ref.ns /\ s.name = ref.name}
    BY Zenon
  <1>2. PICK matching : matching = {s \in named : s.version \in ref.req}
    BY Zenon
  <1>3. PICK newest : newest = {s \in matching : \A t \in matching : s.version >= t.version}
    BY Zenon
  <1>4. Ok \notin {"skill-not-found", "skill-version-not-found", "skill-version-ambiguous"}
    BY Zenon DEF Ok
  <1>5. chosen =
            CASE named = {} -> [code |-> "skill-not-found", skill |-> None]
              [] named # {} /\ matching = {} -> [code |-> "skill-version-not-found", skill |-> None]
              [] Cardinality(newest) > 1 -> [code |-> "skill-version-ambiguous", skill |-> None]
              [] OTHER -> [code |-> Ok, skill |-> CHOOSE s \in newest : TRUE]
    BY Zenon, <1>1, <1>2, <1>3 DEF resolve_installed_selection
  <1>6. /\ named # {} /\ matching # {} /\ ~ (Cardinality(newest) > 1)
        /\ chosen.skill = CHOOSE s \in newest : TRUE
    <2>1. \A code, skill : [code |-> code, skill |-> skill].code = code
                           /\ [code |-> code, skill |-> skill].skill = skill
      BY Zenon
    <2>2. \/ named = {} /\ chosen =
                [code |-> "skill-not-found", skill |-> None]
          \/ matching = {} /\ chosen =
                [code |-> "skill-version-not-found", skill |-> None]
          \/ Cardinality(newest) > 1 /\ chosen =
                [code |-> "skill-version-ambiguous", skill |-> None]
          \/ /\ named # {} /\ matching # {} /\ ~ (Cardinality(newest) > 1)
             /\ chosen =
                    [code |-> Ok, skill |-> CHOOSE s \in newest : TRUE]
      BY Zenon, <1>5
    <2>3. /\ named # {} /\ matching # {} /\ ~ (Cardinality(newest) > 1)
          /\ chosen = [code |-> Ok, skill |-> CHOOSE s \in newest : TRUE]
      BY Zenon, <1>4, <2>1, <2>2
    <2> QED
      BY SMT, <2>3
  <1>7. matching \subseteq view /\ newest \subseteq view
    BY Zenon, <1>1, <1>2, <1>3
  <1>8. IsFiniteSet(matching) /\ IsFiniteSet(newest) /\ Cardinality(newest) \in Nat
    BY Zenon, <1>7, FS_Subset, FS_CardinalityType
  <1>9. newest = {got}
    <2>1. newest # {}
      BY Zenon, <1>3, <1>6, <1>7, <1>8, NewestExists
    <2>2. Cardinality(newest) # 0
      BY Zenon, <1>8, <2>1, FS_EmptySet
    <2>3. Cardinality(newest) = 1
      BY SMT, <1>6, <1>8, <2>2
    <2> QED
      BY Zenon, <1>6, <1>8, <2>3, OnlyOne
  <1>10. \A s \in matching : s.version <= got.version /\ (s.version = got.version => s = got)
    <2> TAKE s \in matching
    <2>1. got \in matching /\ \A t \in matching : got.version >= t.version
      BY Zenon, <1>3, <1>9
    <2>2. s.version <= got.version
      BY SMT, <1>7, <2>1
    <2>3. s.version = got.version => s \in newest
      BY Zenon, <1>3, <2>1
    <2> QED
      BY Zenon, <1>9, <2>2, <2>3
  <1> QED
    BY Zenon, <1>1, <1>2, <1>3, <1>9, <1>10 DEF NewestOf

\* The full ref names the one namespace of the view that has a match for the short one.
OnlyNamespace(view, ref, full) ==
    /\ full.name = ref.name /\ full.req = ref.req
    /\ \A s \in view : s.name = ref.name /\ s.version \in ref.req => s.ns = full.ns

\* resolve_requested_skill_ref makes a short ref a full one only if one namespace has a match.
LEMMA NamespaceIsOnly ==
    ASSUME NEW view, IsFiniteSet(view), NEW ref, ref.kind = "short skill",
           NEW r, r = resolve_requested_skill_ref(view, ref), r.found
    PROVE  OnlyNamespace(view, ref, r.ref)
  <1>1. PICK matching : matching = {t \in view : t.name = ref.name /\ t.version \in ref.req}
    BY Zenon
  <1>2. PICK namespaces : namespaces = {s.ns : s \in matching}
    BY Zenon
  <1>3. r =
            IF namespaces = {} THEN Unresolved(cli_error_new("short skill ref unmatched"))
            ELSE IF Cardinality(namespaces) = 1
            THEN Resolved([kind |-> "full skill", ns |-> CHOOSE n \in namespaces : TRUE,
                           name |-> ref.name, req |-> ref.req])
            ELSE Unresolved(cli_error_new("short skill ref ambiguous"))
    BY Zenon, <1>1, <1>2 DEF resolve_requested_skill_ref
  <1>4. PICK full : full = [kind |-> "full skill", ns |-> CHOOSE n \in namespaces : TRUE,
                            name |-> ref.name, req |-> ref.req]
    BY Zenon
  <1>5. Cardinality(namespaces) = 1 /\ r = Resolved(full)
    BY Zenon, <1>3, <1>4, Resolutions
  <1>6. full.name = ref.name /\ full.req = ref.req /\ full.ns = CHOOSE n \in namespaces : TRUE
    BY Zenon, <1>4
  <1>7. IsFiniteSet(namespaces)
    <2>1. IsFiniteSet(matching)
      BY Zenon, <1>1, FS_Subset
    <2>2. PICK f : f = [s \in matching |-> s.ns]
      BY Zenon
    <2>3. f \in Surjection(matching, namespaces)
      BY Zenon, <1>2, <2>2 DEF Surjection
    <2> QED
      BY Zenon, <2>1, <2>3, FS_Surjection
  <1>8. namespaces = {full.ns}
    BY Zenon, <1>5, <1>6, <1>7, OnlyOne
  <1>9. \A s \in view : s.name = ref.name /\ s.version \in ref.req => s.ns = full.ns
    BY Zenon, <1>1, <1>2, <1>8
  <1>10. r.ref = full
    BY Zenon, <1>5, Resolutions
  <1> QED
    BY Zenon, <1>6, <1>9, <1>10 DEF OnlyNamespace

\* The skill is the newest of the view that matches the short ref, in the only namespace that
\* has a match.
Exact(view, ref, got) ==
    LET matching == {s \in view : s.name = ref.name /\ s.version \in ref.req}
    IN  /\ got \in matching
        /\ \A s \in matching : s.ns = got.ns /\ s.version <= got.version
        /\ \A s \in matching : s.version = got.version => s = got

\* A short ref to a skill is answered with the newest build of the only namespace that matches.
LEMMA SkillAnswerIsExact ==
    ASSUME NEW view, IsFiniteSet(view), \A s \in view : s.version \in Nat,
           NEW ref, ref.kind = "short skill",
           NEW answer, answer = SkillAnswer(view, ref), answer.code = Ok
    PROVE  Exact(view, ref, answer.got)
  <1>1. PICK r : r = resolve_requested_skill_ref(view, ref)
    BY Zenon
  <1>2. PICK chosen : chosen = resolve_installed_selection(view, r.ref)
    BY Zenon
  <1>3. answer = IF ~r.found THEN Failed(r.error)
                 ELSE IF chosen.code # Ok THEN Failed(cli_error_from_registry(chosen.code))
                 ELSE Answered(chosen.skill)
    BY Zenon, <1>1, <1>2 DEF SkillAnswer
  <1>4. \A failure : Failing(failure) => Failed(failure).code # Ok
    BY Zenon DEF Failing, Failed
  <1>5. r.found
    BY Zenon, <1>1, <1>3, <1>4, SkillRefsSettle DEF Settles
  <1>6. chosen.code = Ok
    BY Zenon, <1>3, <1>4, <1>5, ErrorsAreHelpful
  <1>7. PICK got : got = chosen.skill
    BY Zenon
  <1>8. answer.got = got
    <2>1. \A skill : Answered(skill).got = skill
      BY Zenon DEF Answered
    <2>2. answer = Answered(got)
      BY Zenon, <1>3, <1>5, <1>6, <1>7
    <2> QED
      BY Zenon, <2>1, <2>2
  <1>9. OnlyNamespace(view, ref, r.ref)
    BY Zenon, <1>1, <1>5, NamespaceIsOnly
  <1>10. NewestOf(view, r.ref, got)
    BY Zenon, <1>2, <1>6, <1>7, SelectionIsNewest
  <1>11. Exact(view, ref, got)
    BY Zenon, <1>9, <1>10 DEF OnlyNamespace, NewestOf, Exact
  <1> QED
    BY Zenon, <1>8, <1>11

\* A root with finitely many skills answers every short ref exactly.
LEMMA SkillIsExact ==
    ASSUME TypeOK, Finite
    PROVE  SkillAnswersAreExact
  <1>1. IsFiniteSet(skills) /\ \A s \in skills : s.version \in Nat
    BY Zenon, CliConstants DEF TypeOK, Skill, Finite
  <1>2. \A ref : ref \in [kind : {"short skill"}, name : Name, req : SUBSET Versions] =>
            ref.kind = "short skill"
    BY Zenon
  <1>3. ASSUME NEW ref, ref.kind = "short skill", SkillAnswer(skills, ref).code = Ok
        PROVE  Exact(skills, ref, SkillAnswer(skills, ref).got)
    BY Zenon, <1>1, <1>3, SkillAnswerIsExact
  <1> QED
    BY Zenon, <1>2, <1>3 DEF SkillAnswersAreExact, Exact

\* For any records, skills, prefixes and versions, and whatever other processes write or prune
\* between a command's steps: `exec:<prefix>` is answered with the one execution that started
\* with it when the command looked, and a short skill ref with the newest build of the only
\* namespace that matches (resolve_execution_prefix, resolve_requested_skill_ref,
\* resolve_installed_selection).
THEOREM AnswersStayExact == Spec => []AnswersAreExact
  <1>1. Init => LineOK /\ Finite /\ PrefixOK /\ PrefixAnswersAreExact
    <2> SUFFICES ASSUME Init PROVE LineOK /\ Finite /\ PrefixOK /\ PrefixAnswersAreExact
      BY Zenon
    <2>1. skills = {} /\ \A x \in ExecutionId : executions[x] = "absent"
      BY Zenon DEF Init, EmptyStore
    <2>2. Recorded = {}
      BY Zenon, <2>1 DEF Recorded
    <2> QED
      BY Zenon, <2>1, <2>2, FS_EmptySet DEF Init, LineOK, Finite, PrefixOK, PrefixAnswersAreExact, At
  <1>2. /\ TypeOK /\ LineOK /\ Finite /\ [Next]_vars => Finite'
        /\ TypeOK /\ LineOK /\ Finite /\ PrefixOK /\ PrefixAnswersAreExact /\ [Next]_vars
           => PrefixOK' /\ PrefixAnswersAreExact'
    BY Zenon, NextFinite, NextPrefix
  <1>3. TypeOK /\ Finite /\ PrefixAnswersAreExact => AnswersAreExact
    BY Zenon, SkillIsExact DEF AnswersAreExact
  <1> QED
    BY <1>1, <1>2, <1>3, InitType, NextType, NextLine, PTL DEF Spec

================================================================================
