----------------------------- MODULE CodexWorkflow -----------------------------
(***************************************************************************)
(* `guild codex bootstrap|scenario|smoke` and the config file `guild init` *)
(* writes for Codex (crates/guild-mcp/src/codex.rs, codex_cli.rs).         *)
(*                                                                         *)
(* Several such processes work on one registry root and one config file;   *)
(* each is a list of steps, one per file access or call, and stops at its  *)
(* first error. A step that fails inside the bracket of                    *)
(* with_restored_policy_denial_support still runs the restores. People     *)
(* edit the same files, and a process may be killed between two steps.     *)
(*                                                                         *)
(* How a skill executes, installs and is imported is modelled elsewhere    *)
(* (Execution, InstalledState): here a run ends in one of its outcomes.    *)
(***************************************************************************)
EXTENDS Naturals, Sequences, FiniteSets, SequencesExt

CONSTANTS Process,
          MaxPeople,    \* bound: edits people make and commands they start
          NoFile, Unparsable, Truncated, Nothing

VARIABLES disk,     \* the files: see Disk
          jobs,     \* the processes: see Job
          missed,   \* history: how often a flow called a skill its server did not know, since the
                    \* root was last removed
          people    \* edits people made and commands they started so far

codex_vars == <<disk, jobs, missed, people>>

Flow == {"incident-casefile", "incident-brief", "run-diff", "recent-failures", "evidence-summary",
         "render-report", "explain-execution", "explain-execution-tree", "recent-failure-triage",
         "policy-denial-debug"}
Scenario == {"recent-failure-triage", "policy-denial-debug", "execution-tree"}

DEFAULT_CODEX_SKILLS ==
    <<"render-report", "incident-casefile", "incident-brief", "run-diff", "recent-failures",
      "evidence-summary", "hello-inspect", "hello-composite", "explain-execution",
      "explain-execution-tree", "explain-capability-denial", "diff-execution-authority",
      "explain-http-authority", "inspect-http-json", "summarize-execution-query">>
RECENT_FAILURE_TRIAGE_SKILLS ==
    <<"inspect-http-json", "summarize-execution-query", "explain-execution">>
POLICY_DENIAL_DEBUG_SKILLS ==
    <<"explain-execution", "explain-capability-denial", "diff-execution-authority",
      "explain-http-authority">>
EXECUTION_TREE_SCENARIO_SKILLS == <<"hello-inspect", "hello-composite", "explain-execution-tree">>

\* The dependencies in the manifests of the example skills.
ExampleDependencies(skill) ==
    CASE skill \in {"incident-brief", "run-diff"} -> {"render-report"}
      [] skill = "hello-composite" -> {"hello-inspect"}
      [] OTHER -> {}

Entry == [form : {"table", "other"}, launch : Process \cup {"people"}, cwd : {"people", Nothing},
          extra : BOOLEAN]
Document == [form : {"table", "other"}, guild : Entry \cup {Nothing}, others : SUBSET {"other"}]
EmptyDocument == [form |-> "table", guild |-> Nothing, others |-> {}]

\* config: a Codex config file; Truncated is an empty one. epoch: how often the root was
\* removed. layout: the directories of ensure_registry_layout are there. sidecar: inspect-http-json carries the verification record of an import.
Disk == [config : Document \cup {NoFile, Unparsable, Truncated},
         installed : SUBSET ToSet(DEFAULT_CODEX_SKILLS), sidecar : BOOLEAN, layout : BOOLEAN, epoch : Nat,
         policy : {NoFile, "people", "scenario"},
         publisher : [key : Process \cup {"people"}, tier : {"trusted-imported", "restricted"}]
                     \cup {NoFile},
         bundle : Process \cup {NoFile}]
Watched == {"config", "installed", "epoch", "policy", "publisher"}

-----------------------------------------------------------------------------
(* Arguments, as codex_cli.rs reads them: each option in turn, its value whatever follows. *)

Unset == [reset |-> FALSE, json |-> FALSE, value |-> Nothing, stop |-> Nothing, awaits |-> Nothing]

\* One loop body of parse_workflow_options, parse_scenario_options and parse_smoke_options.
parse_option(command, opts, arg) ==
    IF opts.stop # Nothing THEN opts
    ELSE IF opts.awaits # Nothing
    THEN [opts EXCEPT !.awaits = Nothing,
                      !.value = IF opts.awaits = "picked" THEN arg ELSE @,
                      !.stop = IF opts.awaits # "picked" THEN @
                               ELSE IF arg \in (IF command = "scenario" THEN Scenario ELSE Flow \cup {"all"})
                                    THEN @ ELSE "error"]
    ELSE CASE arg = "--registry-root" -> [opts EXCEPT !.awaits = "path"]
           [] arg = "--name" /\ command # "scenario" -> [opts EXCEPT !.awaits = "name"]
           [] arg = "--flow" /\ command = "smoke" -> [opts EXCEPT !.awaits = "picked"]
           [] arg = "--scenario" /\ command = "scenario" -> [opts EXCEPT !.awaits = "picked"]
           [] arg = "--reset" /\ command = "bootstrap" -> [opts EXCEPT !.reset = TRUE]
           [] arg = "--json" -> [opts EXCEPT !.json = TRUE]
           [] arg \in {"--help", "-h"} -> [opts EXCEPT !.stop = "usage"]
           [] OTHER -> [opts EXCEPT !.stop = "error"]

parse_options(command, args) ==
    LET opts == FoldLeft(LAMBDA o, arg : parse_option(command, o, arg), Unset, args)
    IN  IF opts.stop # Nothing THEN opts
        ELSE IF opts.awaits # Nothing \/ (command = "scenario" /\ opts.value = Nothing)
        THEN [opts EXCEPT !.stop = "error"]
        ELSE IF command = "smoke" /\ opts.value = Nothing THEN [opts EXCEPT !.value = "all"] ELSE opts

-----------------------------------------------------------------------------
(* The steps of each command *)

Do(op) == [op |-> op, skill |-> Nothing, what |-> Nothing]
DoWith(op, skill) == [op |-> op, skill |-> skill, what |-> Nothing]
DoFor(op, what) == [op |-> op, skill |-> Nothing, what |-> what]

ensure_example_skills_installed(dirs) == [i \in DOMAIN dirs |-> DoWith("install", dirs[i])]

\* Runs through the local facade: `what` is what the scenario wants of the outcome.
inspect_success_record(skill) == [op |-> "run", skill |-> skill, what |-> "success"]
inspect_expected_error(skill) == [op |-> "run", skill |-> skill, what |-> "error"]

prepare_recent_failure_triage_scenario ==
    ensure_example_skills_installed(RECENT_FAILURE_TRIAGE_SKILLS)
    \o <<Do("facade"), inspect_success_record("inspect-http-json"),
         inspect_expected_error("inspect-http-json"), inspect_expected_error("inspect-http-json")>>

prepare_policy_denial_bundle ==
    ensure_example_skills_installed(POLICY_DENIAL_DEBUG_SKILLS) \o <<Do("clear bundle"), Do("export bundle")>>

with_restored_policy_denial_support(operation) ==
    <<Do("backup policy"), Do("backup publisher")>> \o operation
    \o <<Do("restore policy"), Do("restore publisher")>>

seed_policy_denial_debug_summary ==
    <<DoFor("trust", "trusted-imported"), Do("import"), Do("write policy"),
      Do("facade"), inspect_success_record("inspect-http-json"),
      DoFor("trust", "restricted"),
      Do("facade"), inspect_success_record("inspect-http-json"),
      Do("facade"), [inspect_expected_error("inspect-http-json") EXCEPT !.what = "denial"],
      DoWith("resolve", "inspect-http-json")>>

prepare_policy_denial_debug_scenario ==
    prepare_policy_denial_bundle \o with_restored_policy_denial_support(seed_policy_denial_debug_summary)

prepare_execution_tree_scenario ==
    ensure_example_skills_installed(EXECUTION_TREE_SCENARIO_SKILLS)
    \o <<Do("facade"), inspect_success_record("hello-composite")>>

prepare_codex_scenario(scenario) ==
    CASE scenario = "recent-failure-triage" -> prepare_recent_failure_triage_scenario
      [] scenario = "policy-denial-debug" -> prepare_policy_denial_debug_scenario
      [] scenario = "execution-tree" -> prepare_execution_tree_scenario


\* What a summary names: positions in the list of records a job has made.
Summary(flow, subject, comparisons, reports) ==
    [op |-> "summarize", skill |-> Nothing,
     what |-> [flow |-> flow, subject |-> subject, comparisons |-> comparisons, reports |-> reports]]
Call(flow, skill) == [op |-> "call", skill |-> skill, what |-> flow]
Read(i) == DoFor("read", i)

run_incident_casefile_smoke ==
    prepare_recent_failure_triage_scenario
    \o <<Call("incident-casefile", "incident-casefile"), Read(3), Read(4),
         Summary("incident-casefile", 3, {1}, {4})>>

run_incident_brief_smoke ==
    prepare_recent_failure_triage_scenario
    \o <<Call("incident-brief", "incident-brief"), Read(3), Read(4),
         Summary("incident-brief", 3, {2}, {4})>>

run_run_diff_smoke ==
    prepare_recent_failure_triage_scenario
    \o <<Call("run-diff", "run-diff"), Read(3), Read(4), Summary("run-diff", 3, {2}, {4})>>

run_recent_failures_smoke ==
    prepare_recent_failure_triage_scenario
    \o <<Call("recent-failures", "recent-failures"), Read(3), Read(4),
         Summary("recent-failures", 3, {1, 2}, {4})>>

run_evidence_summary_smoke ==
    <<Call("evidence-summary", "hello-inspect"), Call("evidence-summary", "evidence-summary"),
      Read(1), Read(2), Summary("evidence-summary", 1, {}, {2})>>

run_render_report_smoke ==
    <<Call("render-report", "render-report"), Read(1), Summary("render-report", 1, {}, {1})>>

run_explain_execution_smoke ==
    <<Call("explain-execution", "hello-inspect"), Call("explain-execution", "explain-execution"),
      Read(1), Read(2), Summary("explain-execution", 1, {}, {2})>>

run_explain_execution_tree_smoke ==
    <<Call("explain-execution-tree", "hello-composite"),
      Call("explain-execution-tree", "explain-execution-tree"),
      Read(1), Read(2), Summary("explain-execution-tree", 1, {}, {2})>>

run_recent_failure_triage_smoke ==
    prepare_recent_failure_triage_scenario
    \o <<Call("recent-failure-triage", "summarize-execution-query"), Read(3), Read(4),
         Summary("recent-failure-triage", 3, {1, 2}, {4})>>

run_policy_denial_debug_smoke ==
    prepare_policy_denial_debug_scenario
    \o <<Call("policy-denial-debug", "explain-capability-denial"),
         Call("policy-denial-debug", "diff-execution-authority"),
         Call("policy-denial-debug", "explain-http-authority"), Read(3), Read(4),
         Summary("policy-denial-debug", 3, {1, 2}, {4, 5, 6})>>

run_single_codex_smoke_flow(flow) ==
    CASE flow = "incident-casefile" -> run_incident_casefile_smoke
      [] flow = "incident-brief" -> run_incident_brief_smoke
      [] flow = "run-diff" -> run_run_diff_smoke
      [] flow = "recent-failures" -> run_recent_failures_smoke
      [] flow = "evidence-summary" -> run_evidence_summary_smoke
      [] flow = "render-report" -> run_render_report_smoke
      [] flow = "explain-execution" -> run_explain_execution_smoke
      [] flow = "explain-execution-tree" -> run_explain_execution_tree_smoke
      [] flow = "recent-failure-triage" -> run_recent_failure_triage_smoke
      [] flow = "policy-denial-debug" -> run_policy_denial_debug_smoke

ALL_CODEX_SMOKE_FLOWS ==
    <<"incident-casefile", "incident-brief", "run-diff", "recent-failures", "evidence-summary",
      "render-report", "explain-execution", "explain-execution-tree", "recent-failure-triage",
      "policy-denial-debug">>

flows(selection) == IF selection = "all" THEN ALL_CODEX_SMOKE_FLOWS ELSE <<selection>>

required_skill_names_for_flow(flow) ==
    CASE flow = "incident-casefile" -> {"incident-casefile"}
      [] flow = "incident-brief" -> {"render-report", "incident-brief"}
      [] flow = "run-diff" -> {"render-report", "run-diff"}
      [] flow = "recent-failures" -> {"recent-failures"}
      [] flow = "evidence-summary" -> {"hello-inspect", "evidence-summary"}
      [] flow = "render-report" -> {"render-report"}
      [] flow = "explain-execution" -> {"hello-inspect", "explain-execution"}
      [] flow = "explain-execution-tree" ->
            {"hello-inspect", "hello-composite", "explain-execution-tree"}
      [] flow \in {"recent-failure-triage", "policy-denial-debug"} -> {}

\* The skills the selected flows ask for, before a server is started.
validate_codex_smoke_registry(selection) ==
    UNION {required_skill_names_for_flow(flow) : flow \in ToSet(flows(selection))}

run_codex_smoke(selection) ==
    <<DoFor("validate", selection), Do("spawn"), Do("initialize")>>
    \o FlattenSeq([i \in DOMAIN flows(selection) |-> run_single_codex_smoke_flow(flows(selection)[i])])

bootstrap_codex_registry(reset) ==
    <<DoFor("prepare", reset)>> \o ensure_example_skills_installed(DEFAULT_CODEX_SKILLS)

write_codex_config == <<Do("read config"), Do("truncate config"), Do("fill config")>>

\* run_guild_subcommand. print-config writes nothing; "init" is run_init of cli.rs, here
\* for its config file only.
Program(command, opts) ==
    CASE opts.stop # Nothing -> <<>>
      [] command = "bootstrap" -> bootstrap_codex_registry(opts.reset)
      [] command = "scenario" -> prepare_codex_scenario(opts.value)
      [] command = "smoke" -> run_codex_smoke(opts.value)
      [] command = "init" -> write_codex_config
      [] command = "print-config" -> <<>>

-----------------------------------------------------------------------------
(* Jobs *)

\* keep: the backups. loaded: the skills the server knows, local: those of the last local
\* facade, tier: what it took inspect-http-json for. uris: the records made so far in this
\* scenario or flow. touched: the watched files somebody else changed since the job began;
\* start, seen: the files and the missed flows when it began; unrestored: a restore failed.
Idle == [command |-> Nothing, args |-> <<>>, todo |-> <<>>, error |-> Nothing, open |-> FALSE,
         keep |-> [policy |-> Nothing, publisher |-> Nothing], loaded |-> {}, local |-> {},
         tier |-> Nothing, uris |-> <<>>, summary |-> Nothing, read |-> Nothing,
         start |-> Nothing, touched |-> {}, seen |-> {}, unrestored |-> FALSE]

CodexInit ==
    /\ disk \in [config : {NoFile}, installed : {{}}, sidecar : {FALSE}, layout : {FALSE}, epoch : {0},
                 policy : {NoFile, "people"},
                 publisher : {NoFile, [key |-> "people", tier |-> "trusted-imported"]}, bundle : {NoFile}]
    /\ jobs = [p \in Process |-> Idle]
    /\ missed = [flow \in Flow |-> 0]
    /\ people = 0

Running(p) == jobs[p].todo # <<>>
Ended(p) == jobs[p].command # Nothing /\ jobs[p].todo = <<>>

run_guild_subcommand(p, command, args) ==
    /\ ~Running(p) /\ people < MaxPeople /\ people' = people + 1
    /\ LET opts == parse_options(command, args) IN
       jobs' = [jobs EXCEPT ![p] = [Idle EXCEPT !.command = command, !.args = args,
                                               !.todo = Program(command, opts),
                                               !.error = opts.stop, !.start = disk,
                                               !.seen = {flow \in Flow : missed[flow] > 0}]]
    /\ UNCHANGED <<disk, missed>>

\* Mutant: an error of the operation is returned at once, before the restores.
Rest_returns_early(job) == IF job.error = Nothing THEN Tail(job.todo) ELSE <<>>

\* What is left to do after a step: an error ends the job, but inside the bracket the two
\* restores come first.
Rest(job) ==
    IF job.error = Nothing THEN Tail(job.todo)
    ELSE IF ~job.open THEN <<>>
    ELSE IF Head(job.todo).op = "restore policy" THEN <<Do("restore publisher")>>
    ELSE <<Do("restore policy"), Do("restore publisher")>>

Changed(d) == {f \in Watched : d[f] # disk[f]}

\* The job at p takes a step that leaves it as `job` and the files as d.
Step(p, d, job) ==
    /\ disk' = d
    /\ jobs' = [q \in Process |->
                  IF q = p THEN [job EXCEPT !.todo = Rest(job)]
                  ELSE IF Running(q) \/ Ended(q)
                  THEN [jobs[q] EXCEPT !.touched = @ \cup Changed(d)] ELSE jobs[q]]
    /\ UNCHANGED people

directory_is_empty ==
    ~disk.layout /\ disk.policy = NoFile /\ disk.publisher = NoFile

Doing(p, op) == Running(p) /\ Head(jobs[p].todo).op = op
Now(p) == Head(jobs[p].todo)
FailsLeaving(p, d, code) == Step(p, d, [jobs[p] EXCEPT !.error = IF @ = Nothing THEN code ELSE @])
Fails(p, code) == FailsLeaving(p, disk, code)

-----------------------------------------------------------------------------
(* Steps on the registry root *)

\* prepare_registry_root. Without --reset a root that holds anything is refused.
Prepare(p) ==
    /\ Doing(p, "prepare")
    /\ \/ /\ Now(p).what
          /\ Step(p, [disk EXCEPT !.installed = {}, !.sidecar = FALSE, !.layout = FALSE, !.policy = NoFile,
                                  !.publisher = NoFile, !.bundle = NoFile, !.epoch = @ + 1], jobs[p])
          /\ missed' = [flow \in Flow |-> 0]
       \/ /\ ~Now(p).what
          /\ IF directory_is_empty THEN Step(p, disk, jobs[p])
             ELSE Fails(p, "codex-bootstrap-root-not-empty")
          /\ UNCHANGED missed
       \/ Fails(p, "io") /\ UNCHANGED missed

\* LocalSourceInstaller::install: dependencies must be installed, a reinstalled skill keeps
\* its verification record. Any step that builds, reads or writes may fail.
Install(p) ==
    LET d == [disk EXCEPT !.layout = TRUE] IN
    /\ Doing(p, "install")
    /\ \/ /\ ExampleDependencies(Now(p).skill) \subseteq disk.installed
          /\ Step(p, [d EXCEPT !.installed = @ \cup {Now(p).skill}], jobs[p])
       \/ /\ ~(ExampleDependencies(Now(p).skill) \subseteq disk.installed)
          /\ FailsLeaving(p, d, "dependency-not-found")
       \/ FailsLeaving(p, d, "io")
    /\ UNCHANGED missed

\* derive_installed_trust_metadata, for inspect-http-json.
Tier == IF ~disk.sidecar THEN "local-dev"
        ELSE IF disk.publisher = NoFile THEN "restricted" ELSE disk.publisher.tier

\* local_facade: loads the installed skills, with their tiers.
LocalFacade(p) ==
    /\ Doing(p, "facade")
    /\ \/ Step(p, [disk EXCEPT !.layout = TRUE], [jobs[p] EXCEPT !.local = disk.installed, !.tier = Tier])
       \/ Fails(p, "io")
    /\ UNCHANGED missed

\* The record of an execution: policy and tier are noted while nobody else touches them.
Record(p, status) ==
    LET alone == jobs[p].touched \cap {"policy", "publisher", "epoch"} = {}
    IN  [status |-> status, epoch |-> disk.epoch, policy |-> IF alone THEN disk.policy ELSE Nothing,
         tier |-> IF alone THEN jobs[p].tier ELSE Nothing]
Keeps(p, status) == Step(p, disk, [jobs[p] EXCEPT !.uris = Append(@, Record(p, status))])

\* How facade.inspect may end: "unsuccessful" stands for failed and rejected,
\* "lost" is an error that carries no receipt. The policy of
\* write_policy_config denies the redirect to a restricted import of the restricted tenant.
Outcomes(p) ==
    IF Now(p).skill \notin jobs[p].local THEN {"lost"}
    ELSE IF Now(p).what = "denial" /\ disk.policy = "scenario" /\ jobs[p].tier = "restricted"
    THEN {"unsuccessful", "lost"} ELSE {"succeeded", "unsuccessful", "lost"}

\* Mutant: a run that succeeds is taken as well.
inspect_expected_error_record_takes_any(p, outcome) ==
    IF outcome = "lost" THEN Fails(p, "codex-scenario-missing-receipt") ELSE Keeps(p, outcome)

\* inspect_expected_error_record and load_execution_record_from_error: the answer is the
\* record of an unsuccessful execution, read back through its receipt.
inspect_expected_error_record(p, outcome) ==
    CASE outcome = "succeeded" -> Fails(p, "codex-scenario-expected-error")
      [] outcome = "lost" -> Fails(p, "codex-scenario-missing-receipt")
      [] OTHER -> Keeps(p, outcome)

Run(p) ==
    /\ Doing(p, "run")
    /\ \E outcome \in Outcomes(p) :
          IF Now(p).what = "success"
          THEN IF outcome = "succeeded" THEN Keeps(p, outcome) ELSE Fails(p, "inspect-failed")
          ELSE inspect_expected_error_record(p, outcome)
    /\ UNCHANGED missed

\* The support root of the scenario is removed and made anew, then a bundle is exported
\* there, signed with a key pair of this process; the target must be empty.
Bundle(p) ==
    /\ \/ Doing(p, "clear bundle") /\ Step(p, [disk EXCEPT !.bundle = NoFile], jobs[p])
       \/ /\ Doing(p, "export bundle")
          /\ IF disk.bundle = NoFile THEN Step(p, [disk EXCEPT !.bundle = p], jobs[p])
             ELSE Fails(p, "bundle-root-not-empty")
       \/ \E op \in {"clear bundle", "export bundle"} : Doing(p, op) /\ Fails(p, "io")
    /\ UNCHANGED missed

\* read_optional_file, twice.
Backup(p) ==
    /\ \/ /\ Doing(p, "backup policy")
          /\ Step(p, disk, [jobs[p] EXCEPT !.keep.policy = disk.policy])
       \/ /\ Doing(p, "backup publisher")
          /\ Step(p, disk, [jobs[p] EXCEPT !.keep.publisher = disk.publisher, !.open = TRUE])
       \/ \E op \in {"backup policy", "backup publisher"} : Doing(p, op) /\ Fails(p, "io")
    /\ UNCHANGED missed

\* LocalRegistry::trust_publisher and write_policy_config.
Seed(p) ==
    /\ \/ /\ Doing(p, "trust")
          /\ Step(p, [disk EXCEPT !.publisher = [key |-> p, tier |-> Now(p).what]], jobs[p])
       \/ Doing(p, "write policy") /\ Step(p, [disk EXCEPT !.policy = "scenario"], jobs[p])
       \/ \E op \in {"trust", "write policy"} : Doing(p, op) /\ Fails(p, "io")
    /\ UNCHANGED missed

\* import_bundle: the signature must be by the key that is trusted for the publisher.
Import(p) ==
    /\ Doing(p, "import")
    /\ \/ /\ disk.bundle # NoFile /\ disk.publisher # NoFile /\ disk.publisher.key = disk.bundle
          /\ Step(p, [disk EXCEPT !.installed = @ \cup {"inspect-http-json"}, !.sidecar = TRUE], jobs[p])
       \/ Fails(p, "import-failed")
    /\ UNCHANGED missed

\* append_imported_http_skill_if_needed.
AppendImported(p) ==
    /\ Doing(p, "resolve")
    /\ IF Now(p).skill \in disk.installed THEN Step(p, disk, jobs[p]) ELSE Fails(p, "skill-not-found")
    /\ UNCHANGED missed

\* restore_optional_file, for the policy and then, whatever came of that, for the publisher.
Restore(p) ==
    /\ \/ /\ Doing(p, "restore policy")
          /\ Step(p, [disk EXCEPT !.policy = jobs[p].keep.policy], jobs[p])
       \/ /\ Doing(p, "restore publisher")
          /\ Step(p, [disk EXCEPT !.publisher = jobs[p].keep.publisher], [jobs[p] EXCEPT !.open = FALSE])
       \/ \E op \in {"restore policy", "restore publisher"} :
             /\ Doing(p, op)
             /\ Step(p, disk, [jobs[p] EXCEPT !.error = IF @ = Nothing THEN "restore-failed" ELSE @,
                                              !.unrestored = TRUE, !.open = op = "restore policy"])
    /\ UNCHANGED missed

-----------------------------------------------------------------------------
(* Steps of a smoke run *)

Validate(p) ==
    /\ Doing(p, "validate")
    /\ IF validate_codex_smoke_registry(Now(p).what) \subseteq disk.installed
       THEN Step(p, [disk EXCEPT !.layout = TRUE], jobs[p])
       ELSE FailsLeaving(p, [disk EXCEPT !.layout = TRUE], "required-skill-missing")
    /\ UNCHANGED missed

\* McpStdioClient::spawn: the server loads the installed skills once.
Spawn(p) ==
    /\ \/ Doing(p, "spawn") /\ Step(p, disk, [jobs[p] EXCEPT !.loaded = disk.installed])
       \/ Doing(p, "initialize") /\ Step(p, disk, jobs[p])
       \/ \E op \in {"spawn", "initialize"} : Doing(p, op) /\ Fails(p, "codex-smoke-server")
    /\ UNCHANGED missed

\* tools/call: an unknown skill, an unsuccessful execution or a report without the expected
\* fields ends the run.
CallTool(p) ==
    LET known == {Now(p).skill} \cup ExampleDependencies(Now(p).skill) \subseteq jobs[p].loaded
    IN  /\ Doing(p, "call")
        /\ \/ known /\ Keeps(p, "succeeded") /\ UNCHANGED missed
           \/ known /\ Fails(p, "codex-smoke-mcp-error") /\ UNCHANGED missed
           \/ /\ ~known /\ Fails(p, "skill-not-found")
              /\ missed' = IF "epoch" \in jobs[p].touched THEN missed
                           ELSE [missed EXCEPT ![Now(p).what] = IF Now(p).what \in jobs[p].seen THEN 2 ELSE 1]

ReadResource(p) ==
    /\ Doing(p, "read")
    /\ IF jobs[p].uris[Now(p).what].epoch = disk.epoch
       THEN Step(p, disk, jobs[p]) ELSE Fails(p, "execution-not-found")
    /\ UNCHANGED missed

Summarize(p) ==
    /\ Doing(p, "summarize")
    /\ Step(p, disk, [jobs[p] EXCEPT !.summary = [names |-> Now(p).what, of |-> jobs[p].uris], !.uris = <<>>])
    /\ UNCHANGED missed

-----------------------------------------------------------------------------
(* The Codex config file *)

Valid(doc) == doc.form = "table" /\ (doc.guild # Nothing => doc.guild.form = "table")

\* command and args are set, cwd and env removed, every other key stays.
upsert_server_config(doc, p) ==
    [doc EXCEPT !.guild = [form |-> "table", launch |-> p, cwd |-> Nothing,
                           extra |-> doc.guild # Nothing /\ doc.guild.extra]]

document(config) == IF config \in {NoFile, Truncated} THEN EmptyDocument ELSE config

\* write_codex_config, the read side: an empty file counts as an empty document.
ReadConfig(p) ==
    /\ Doing(p, "read config")
    /\ CASE disk.config = Unparsable -> Fails(p, "codex-config-parse-failed")
         [] ~Valid(document(disk.config)) -> Fails(p, "codex-config-invalid")
         [] OTHER -> Step(p, disk, [jobs[p] EXCEPT !.read = disk.config])
    /\ UNCHANGED missed

Updated(p) == upsert_server_config(document(jobs[p].read), p)

\* fs::write: it truncates the file, then fills it; an unchanged text is not written.
WriteConfig(p) ==
    LET same == Updated(p) = jobs[p].read IN
    /\ \/ /\ Doing(p, "truncate config")
          /\ Step(p, IF same THEN disk ELSE [disk EXCEPT !.config = Truncated], jobs[p])
       \/ /\ Doing(p, "fill config")
          /\ Step(p, IF same THEN disk ELSE [disk EXCEPT !.config = Updated(p)], jobs[p])
       \/ \E op \in {"truncate config", "fill config"} :
             Doing(p, op) /\ ~same /\ Fails(p, "codex-config-write-failed")
    /\ UNCHANGED missed

-----------------------------------------------------------------------------

CodexStep(p) ==
    \/ Prepare(p) \/ Install(p) \/ LocalFacade(p) \/ Run(p) \/ Bundle(p) \/ Backup(p) \/ Seed(p)
    \/ Import(p) \/ AppendImported(p) \/ Restore(p) \/ Validate(p) \/ Spawn(p) \/ CallTool(p)
    \/ ReadResource(p) \/ Summarize(p) \/ ReadConfig(p) \/ WriteConfig(p)

\* A killed process does nothing more; a config file it was filling may be half written.
Kill(p) ==
    /\ Running(p)
    /\ \E d \in {disk} \cup (IF Doing(p, "fill config") THEN {[disk EXCEPT !.config = Unparsable]} ELSE {}) :
          Step(p, d, [jobs[p] EXCEPT !.error = "killed", !.open = FALSE])
    /\ UNCHANGED missed

Edited(d) ==
    /\ people < MaxPeople /\ people' = people + 1
    /\ disk' = d
    /\ jobs' = [q \in Process |-> IF jobs[q].command = Nothing THEN jobs[q]
                                  ELSE [jobs[q] EXCEPT !.touched = @ \cup Changed(d)]]
    /\ UNCHANGED missed

EditConfig(config) == disk.config # config /\ Edited([disk EXCEPT !.config = config])

\* A policy file and a trusted publisher are written, or removed.
EditSupport ==
    \/ Edited([disk EXCEPT !.policy = IF @ = "people" THEN NoFile ELSE "people"])
    \/ Edited([disk EXCEPT !.publisher = IF @ = NoFile THEN [key |-> "people", tier |-> "restricted"]
                                          ELSE NoFile])

-----------------------------------------------------------------------------
(* Properties *)

\* Whatever commands, people and kills did, each file is one that the commands can meet, and
\* a process knows of no file or skill but those of the root.
CodexTypeOK ==
    /\ disk \in Disk
    /\ \A p \in Process : jobs[p].touched \subseteq Watched /\ jobs[p].loaded \subseteq ToSet(DEFAULT_CODEX_SKILLS)
    /\ missed \in [Flow -> 0..2] /\ people \in 0..MaxPeople

\* write_codex_config, when nobody else writes the config meanwhile, makes the file launch
\* this server, without the cwd an older entry had, and leaves every other server and every
\* other key of the entry alone.
ConfigWriteIsExact ==
    \A p \in Process :
        LET job == jobs[p]
            was == document(job.start.config)
        IN  Ended(p) /\ job.command = "init" /\ job.error = Nothing /\ "config" \notin job.touched =>
            disk.config = [form |-> "table", others |-> was.others,
                           guild |-> [form |-> "table", launch |-> p, cwd |-> Nothing,
                                      extra |-> was.guild # Nothing /\ was.guild.extra]]

\* A config file that does not parse, or in which the entry is no table, is never written by
\* a process that finds it so, not even truncated.
RefusedConfigIsKept ==
    \A p \in Process :
        LET job == jobs[p] IN
        /\ job.command = "init" /\ "config" \notin job.touched
        /\ job.start.config = Unparsable \/ ~Valid(document(job.start.config))
        => disk.config = job.start.config \/ job.error = "killed"

\* with_restored_policy_denial_support: a scenario that ends, well or with an error, leaves
\* the policy and the publisher's trust record of the root as they were, unless somebody else
\* changed them meanwhile; a scenario that reports success did restore both.
ScenarioRestoresSupport ==
    \A p \in Process :
        LET job == jobs[p] IN
        Ended(p) /\ job.command \in {"scenario", "smoke"} /\ job.error # "killed"
        /\ (job.unrestored => job.error = Nothing) =>
            /\ job.touched \cap {"policy", "epoch"} = {} => disk.policy = job.start.policy
            /\ job.touched \cap {"publisher", "epoch"} = {} => disk.publisher = job.start.publisher

\* A smoke flow that lists the skills it needs never finds one missing in the server it talks
\* to; a flow that has its scenario install them finds one missing at most once, on a root
\* that did not have it when the server started.
SmokeMissesOnlyOnce ==
    \A flow \in Flow : missed[flow] <= IF required_skill_names_for_flow(flow) = {} THEN 1 ELSE 0

\* The records that a scenario or a smoke flow names in its summary.
Told(job) ==
    IF job.command = "smoke"
    THEN IF job.summary = Nothing THEN <<>> ELSE job.summary.of ELSE job.uris

\* What a scenario hands out is what it promises: the runs to be explained did not succeed,
\* those to compare them with did, each is stored, and the two runs of the policy scenario
\* ran under its own policy, at the two trust tiers that are to be compared.
SummariesNameRecords ==
    \A p \in Process :
        LET job == jobs[p]
            told == Told(job)
            kind == IF job.command = "smoke" THEN job.summary.names.flow
                    ELSE parse_options(job.command, job.args).value
        IN  Ended(p) /\ job.command \in {"scenario", "smoke"} /\ job.error = Nothing =>
            /\ "epoch" \notin job.touched => \A i \in DOMAIN told : told[i].epoch = disk.epoch
            /\ job.command = "smoke" => \A i \in job.summary.names.reports : told[i].status = "succeeded"
            /\ told[1].status = "succeeded"
            /\ kind = "policy-denial-debug" =>
                 /\ told[2].status = "succeeded" /\ told[3].status = "unsuccessful"
                 /\ job.touched \cap {"policy", "publisher", "epoch"} = {} =>
                      /\ \A i \in 1..3 : told[i].policy = "scenario"
                      /\ told[1].tier = "trusted-imported"
                      /\ told[2].tier = "restricted" /\ told[3].tier = "restricted"
            /\ kind \in {"recent-failure-triage", "incident-casefile", "incident-brief", "run-diff",
                         "recent-failures"} => {told[2].status, told[3].status} = {"unsuccessful"}

\* bootstrap_codex_registry: a root that nobody else works on ends up with the example skills
\* and nothing else, and the skills come in an order in which their dependencies are there.
BootstrapStartsClean ==
    \A p \in Process :
        LET job == jobs[p] IN
        Ended(p) /\ job.command = "bootstrap" /\ job.touched \subseteq {"config"} =>
            /\ job.error # "dependency-not-found"
            /\ job.error = Nothing =>
                 /\ disk.installed = ToSet(DEFAULT_CODEX_SKILLS) /\ ~disk.sidecar
                 /\ disk.policy = NoFile /\ disk.publisher = NoFile

\* What codex commands do to files they share with people and with each other: a config or a
\* policy is changed in the way that was asked for, or put back, or left alone, and a root is
\* built from nothing.
CodexKeepsFiles ==
    /\ CodexTypeOK
    /\ RefusedConfigIsKept /\ ConfigWriteIsExact
    /\ ScenarioRestoresSupport /\ BootstrapStartsClean

\* What scenarios and smoke flows report is true: the records they name are what they are
\* said to be, and a skill is reported as missing only where it may be.
CodexReportsAreTrue == SummariesNameRecords /\ SmokeMissesOnlyOnce

=============================================================================
