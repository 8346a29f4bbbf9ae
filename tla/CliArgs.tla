-------------------------------- MODULE CliArgs --------------------------------
(***************************************************************************)
(* How a `guild` command line reaches its handler                          *)
(* (crates/guild-mcp/src/cli.rs).                                          *)
(*                                                                         *)
(* clap parses the words into one struct per command; the struct is turned *)
(* back into words (to_args), and the handler parses those a second time   *)
(* with a loop of its own. A struct is                                     *)
(*   pos     the positional arguments that are there                       *)
(*   vals    the flags that take a value, with the value or NoValue        *)
(*   on      the switches that are set                                     *)
(*   render  the presentation flags                                        *)
(* Words are strings; the program's name and the global --registry-root    *)
(* come before the command.                                                *)
(***************************************************************************)
EXTENDS Naturals, Sequences, FiniteSets

CONSTANTS NoValue,
          Positional,      \* words a positional argument may be
          Value       \* words the value of a flag may be

VARIABLE parsed    \* a command line and what became of it, or NoValue

NoRender == [json |-> FALSE, porcelain |-> FALSE, debug |-> FALSE, v |-> 0, color |-> NoValue]

(***************************************************************************)
(* The structs clap may hand over: how many positional arguments, which    *)
(* flags are required (or have a default), which are optional, which       *)
(* switches there are. A word that starts with a dash can be a positional  *)
(* argument (after `--`) or a value (as `--flag=value`).                   *)
(***************************************************************************)
Words(n) == [1..n -> Positional]

Struct(pos, required, optional, switches, renders) ==
    {s \in [pos : pos, vals : [required \cup optional -> Value \cup {NoValue}], on : SUBSET switches,
            render : renders] : \A f \in required : s.vals[f] # NoValue}

RenderCliArgs ==
    {r \in [json : BOOLEAN, porcelain : BOOLEAN, debug : BOOLEAN, v : 0..2, color : {NoValue, "auto"}] :
        ~(r.json /\ r.porcelain)}
MachineOutputCliArgs == {r \in RenderCliArgs : ~r.debug /\ r.v = 0 /\ r.color = NoValue}
Plain == {NoRender}

ShowStruct == Struct(Words(1), {}, {}, {}, RenderCliArgs)
RunStruct == Struct(Words(1) \cup Words(2), {"--tenant-id", "--actor-id"},
                    {"--input-json", "--input-file", "--grants-json", "--grants-file"}, {},
                    MachineOutputCliArgs)
LsStruct == Struct({<<>>} \cup Words(1), {}, {"--limit"}, {}, RenderCliArgs)
GetStruct == Struct(Words(1), {}, {"--output"}, {}, MachineOutputCliArgs)
WhyStruct == Struct(Words(1), {}, {}, {"--lineage"}, RenderCliArgs)
VerifyStruct == Struct(Words(1), {}, {}, {}, RenderCliArgs)
DoctorStruct == Struct({<<>>}, {}, {}, {"--json"}, Plain)
InitStruct == Struct({<<>>}, {"--name"}, {}, {"--global", "--project", "--json"}, Plain)
InstallStruct == Struct(Words(1), {}, {}, {"--json"}, Plain)
ExportStruct == Struct(Words(1), {"--signer", "--output"}, {}, {"--include-dependencies", "--json"}, Plain)
ImportStruct == Struct(Words(1), {}, {}, {"--preview", "--json"}, Plain)
PushStruct == Struct(Words(1), {"--reference", "--signer"}, {},
                     {"--include-dependencies", "--allow-http", "--json"}, Plain)
PullStruct == Struct(Words(1), {}, {}, {"--allow-http", "--preview", "--json"}, Plain)
TrustStruct(word) ==
    CASE word = "generate" -> Struct({<<>>}, {"--publisher-id", "--display-name", "--output"},
                                     {"--homepage"}, {"--json"}, Plain)
      [] word = "add" -> Struct({<<>>}, {}, {"--identity-file", "--record-file", "--tier"}, {"--json"}, Plain)
      [] word = "show" -> Struct(Words(1), {}, {}, {"--json"}, Plain)
      [] word = "list" -> Struct({<<>>}, {}, {}, {"--json"}, Plain)
      [] word = "remove" -> Struct(Words(1), {}, {}, {}, Plain)
      [] word = "sign-plan" -> Struct({<<>>}, {"--plan", "--identity-file", "--output"}, {}, {"--json"}, Plain)
      [] word = "verify-plan" -> Struct({<<>>}, {"--plan"}, {}, {"--json"}, Plain)
McpStruct == Struct({<<>>}, {}, {}, {"--stdio"}, Plain)

Commands ==
    {<<w>> : w \in {"show", "run", "ls", "get", "why", "verify", "doctor", "init", "install", "push", "pull"}}
    \cup {<<w, f>> : w \in {"export", "import"}, f \in {"bundle", "oci-layout"}}
    \cup {<<"trust", w>> : w \in {"generate", "add", "show", "list", "remove", "sign-plan", "verify-plan"}}
    \cup {<<"mcp", "serve">>}

StructOf(command) ==
    CASE command[1] = "show" -> ShowStruct
      [] command[1] = "run" -> RunStruct
      [] command[1] = "ls" -> LsStruct
      [] command[1] = "get" -> GetStruct
      [] command[1] = "why" -> WhyStruct
      [] command[1] = "verify" -> VerifyStruct
      [] command[1] = "doctor" -> DoctorStruct
      [] command[1] = "init" -> InitStruct
      [] command[1] = "install" -> InstallStruct
      [] command[1] = "export" -> ExportStruct
      [] command[1] = "import" -> ImportStruct
      [] command[1] = "push" -> PushStruct
      [] command[1] = "pull" -> PullStruct
      [] command[1] = "trust" -> TrustStruct(command[2])
      [] command[1] = "mcp" -> McpStruct

(***************************************************************************)
(* From a struct to words.                                                 *)
(***************************************************************************)
Word(flag, present) == IF present THEN <<flag>> ELSE <<>>
Switches(s, flags) == [i \in 1..Len(flags) |-> Word(flags[i], flags[i] \in s.on)]
Options(s, flags) ==
    [i \in 1..Len(flags) |-> IF s.vals[flags[i]] = NoValue THEN <<>> ELSE <<flags[i], s.vals[flags[i]]>>]

RECURSIVE Join(_)
Join(parts) == IF parts = <<>> THEN <<>> ELSE Head(parts) \o Join(Tail(parts))

append_render_cli_args(r) ==
    Word("--json", r.json) \o Word("--porcelain", r.porcelain) \o Word("--debug", r.debug)
    \o [i \in 1..r.v |-> "-v"] \o (IF r.color = NoValue THEN <<>> ELSE <<"--color", r.color>>)

append_machine_cli_args(r) == Word("--json", r.json) \o Word("--porcelain", r.porcelain)

ShowCliArgs(s) == s.pos \o append_render_cli_args(s.render)
RunCliArgs(s) ==
    s.pos \o Join(Options(s, <<"--input-json", "--input-file", "--grants-json", "--grants-file",
                               "--tenant-id", "--actor-id">>)) \o append_render_cli_args(s.render)
LsCliArgs(s) == s.pos \o Join(Options(s, <<"--limit">>)) \o append_render_cli_args(s.render)
GetCliArgs(s) == s.pos \o Join(Options(s, <<"--output">>)) \o append_machine_cli_args(s.render)
WhyCliArgs(s) == s.pos \o Join(Switches(s, <<"--lineage">>)) \o append_render_cli_args(s.render)
VerifyCliArgs(s) == s.pos \o append_render_cli_args(s.render)
DoctorCliArgs(s) == Join(Switches(s, <<"--json">>))
InitCliArgs(s) == Join(Options(s, <<"--name">>)) \o Join(Switches(s, <<"--global", "--project", "--json">>))
InstallCliArgs(s) == s.pos \o Join(Switches(s, <<"--json">>))
ExportCliArgs(s) ==
    s.pos \o Join(Options(s, <<"--signer", "--output">>))
    \o Join(Switches(s, <<"--include-dependencies", "--json">>))
ImportCliArgs(s) == s.pos \o Join(Switches(s, <<"--preview", "--json">>))
PushCliArgs(s) ==
    s.pos \o Join(Options(s, <<"--reference", "--signer">>))
    \o Join(Switches(s, <<"--include-dependencies", "--allow-http", "--json">>))
PullCliArgs(s) == s.pos \o Join(Switches(s, <<"--allow-http", "--preview", "--json">>))
TrustGenerate(s) ==
    Join(Options(s, <<"--publisher-id", "--display-name", "--homepage", "--output">>))
    \o Join(Switches(s, <<"--json">>))
TrustAdd(s) ==
    Join(Options(s, <<"--identity-file", "--record-file", "--tier">>)) \o Join(Switches(s, <<"--json">>))
TrustShow(s) == s.pos \o Join(Switches(s, <<"--json">>))
TrustList(s) == Join(Switches(s, <<"--json">>))
TrustRemove(s) == s.pos
TrustSignPlan(s) ==
    Join(Options(s, <<"--plan", "--identity-file", "--output">>)) \o Join(Switches(s, <<"--json">>))
TrustVerifyPlan(s) == Join(Options(s, <<"--plan">>)) \o Join(Switches(s, <<"--json">>))
McpCliArgs(s) == Join(Switches(s, <<"--stdio">>))

\* A command of one word, or of two.
to_args(command, s) ==
    CASE command = <<"show">> -> ShowCliArgs(s)
      [] command = <<"run">> -> RunCliArgs(s)
      [] command = <<"ls">> -> LsCliArgs(s)
      [] command = <<"get">> -> GetCliArgs(s)
      [] command = <<"why">> -> WhyCliArgs(s)
      [] command = <<"verify">> -> VerifyCliArgs(s)
      [] command = <<"doctor">> -> DoctorCliArgs(s)
      [] command = <<"init">> -> InitCliArgs(s)
      [] command = <<"install">> -> InstallCliArgs(s)
      [] command[1] = "export" -> <<command[2]>> \o ExportCliArgs(s)
      [] command[1] = "import" -> <<command[2]>> \o ImportCliArgs(s)
      [] command = <<"push">> -> PushCliArgs(s)
      [] command = <<"pull">> -> PullCliArgs(s)
      [] command[1] = "trust" -> <<command[2]>> \o
           (CASE command[2] = "generate" -> TrustGenerate(s)
              [] command[2] = "add" -> TrustAdd(s)
              [] command[2] = "show" -> TrustShow(s)
              [] command[2] = "list" -> TrustList(s)
              [] command[2] = "remove" -> TrustRemove(s)
              [] command[2] = "sign-plan" -> TrustSignPlan(s)
              [] command[2] = "verify-plan" -> TrustVerifyPlan(s))
      [] command[1] = "mcp" -> <<command[2]>> \o McpCliArgs(s)

(***************************************************************************)
(* From words back to a struct: the handlers' loops. A loop is described   *)
(* by the words it looks for; `first` says that the handler takes the      *)
(* first word as its positional argument before it looks, `pos` how many   *)
(* positional arguments the loop accepts, `render` that it tries           *)
(* consume_render_flag on every word before anything else.                 *)
(***************************************************************************)
Loop(first, pos, render, values, switches) ==
    [first |-> first, pos |-> pos, render |-> render, values |-> values, switches |-> switches]

show_loop == Loop(FALSE, 1, TRUE, {}, {})
run_loop == Loop(FALSE, 2, TRUE, {"--input-json", "--input-file", "--grants-json", "--grants-file",
                                  "--tenant-id", "--actor-id"}, {})
ls_loop == Loop(FALSE, 1, TRUE, {"--limit"}, {})
get_loop == Loop(FALSE, 1, TRUE, {"--output"}, {})
why_loop == Loop(FALSE, 1, TRUE, {}, {"--lineage"})
verify_loop == Loop(FALSE, 1, TRUE, {}, {})
doctor_loop == Loop(FALSE, 0, FALSE, {}, {"--json"})
init_loop == Loop(FALSE, 0, FALSE, {"--name"}, {"--global", "--project", "--json"})
install_loop == Loop(TRUE, 0, FALSE, {}, {"--json"})
export_bundle_loop == Loop(TRUE, 0, FALSE, {"--signer", "--output"}, {"--include-dependencies", "--json"})
export_oci_layout_loop == Loop(TRUE, 0, FALSE, {"--signer", "--output"}, {"--include-dependencies", "--json"})
import_bundle_loop == Loop(TRUE, 0, FALSE, {}, {"--preview", "--json"})
import_oci_layout_loop == Loop(TRUE, 0, FALSE, {}, {"--preview", "--json"})
push_loop == Loop(TRUE, 0, FALSE, {"--signer", "--reference"},
                  {"--include-dependencies", "--allow-http", "--json"})
pull_loop == Loop(TRUE, 0, FALSE, {}, {"--allow-http", "--preview", "--json"})
trust_generate_loop == Loop(FALSE, 0, FALSE, {"--publisher-id", "--display-name", "--homepage", "--output"}, {"--json"})
trust_add_loop == Loop(FALSE, 0, FALSE, {"--identity-file", "--record-file", "--tier"}, {"--json"})
trust_show_loop == Loop(FALSE, 1, FALSE, {}, {"--json"})
trust_list_loop == Loop(FALSE, 0, FALSE, {}, {"--json"})
trust_remove_loop == Loop(TRUE, 0, FALSE, {}, {})
trust_sign_plan_loop == Loop(FALSE, 0, FALSE, {"--plan", "--identity-file", "--output"}, {"--json"})
trust_verify_plan_loop == Loop(FALSE, 0, FALSE, {"--plan"}, {"--json"})
mcp_serve_loop == Loop(FALSE, 0, FALSE, {}, {"--stdio"})

\* The second word chooses the handler of `export`, `import`, `trust` and `mcp`.
run_export == [bundle |-> export_bundle_loop, oci_layout |-> export_oci_layout_loop]
run_import == [bundle |-> import_bundle_loop, oci_layout |-> import_oci_layout_loop]
run_trust(word) ==
    CASE word = "generate" -> trust_generate_loop
      [] word = "add" -> trust_add_loop
      [] word = "show" -> trust_show_loop
      [] word = "list" -> trust_list_loop
      [] word = "remove" -> trust_remove_loop
      [] word = "sign-plan" -> trust_sign_plan_loop
      [] word = "verify-plan" -> trust_verify_plan_loop

LoopOf(word, args) ==
    CASE word = "show" -> show_loop
      [] word = "run" -> run_loop
      [] word = "ls" -> ls_loop
      [] word = "get" -> get_loop
      [] word = "why" -> why_loop
      [] word = "verify" -> verify_loop
      [] word = "doctor" -> doctor_loop
      [] word = "init" -> init_loop
      [] word = "install" -> install_loop
      [] word = "push" -> push_loop
      [] word = "pull" -> pull_loop
      [] word = "export" -> IF args[1] = "bundle" THEN run_export.bundle ELSE run_export.oci_layout
      [] word = "import" -> IF args[1] = "bundle" THEN run_import.bundle ELSE run_import.oci_layout
      [] word = "trust" -> run_trust(args[1])
      [] word = "mcp" -> mcp_serve_loop

TwoWords == {"export", "import", "trust", "mcp"}

Help == [kind |-> "help"]
Bad == [kind |-> "error"]
Got(loop) == [kind |-> "args", pos |-> <<>>, vals |-> [f \in loop.values |-> NoValue], on |-> {},
              render |-> NoRender]

\* How many words a presentation flag takes here, 0 if this word is none.
consume_render_flag(args) ==
    IF args[1] \in {"--json", "--porcelain", "--debug", "-v"} THEN 1
    ELSE IF args[1] = "--color" THEN 2 ELSE 0

SetRender(r, args) ==
    CASE args[1] = "--json" -> [r EXCEPT !.json = TRUE]
      [] args[1] = "--porcelain" -> [r EXCEPT !.porcelain = TRUE]
      [] args[1] = "--debug" -> [r EXCEPT !.debug = TRUE]
      [] args[1] = "-v" -> [r EXCEPT !.v = @ + 1]
      [] args[1] = "--color" -> [r EXCEPT !.color = args[2]]

validate_render_flags(r) ==
    ~(r.json /\ r.porcelain) /\ r.color \in {NoValue, "auto", "always", "never"}

\* Mutant: the word after a flag is looked at again as a word of its own.
next_value_rescans(args) == Tail(args)

\* The words left once a flag has taken the next word as its value, whatever that looks like.
next_value(args) == SubSeq(args, 3, Len(args))

RECURSIVE ParseWords(_, _, _)
ParseWords(loop, args, got) ==
    LET rest(words, g) == ParseWords(loop, words, g) IN
    IF args = <<>> THEN got
    ELSE LET n == IF loop.render THEN consume_render_flag(args) ELSE 0 IN
         IF n > Len(args) THEN Bad
         ELSE IF n > 0
         THEN rest(SubSeq(args, n + 1, Len(args)), [got EXCEPT !.render = SetRender(@, args)])
         ELSE IF args[1] \in loop.values THEN
              IF Len(args) = 1 THEN Bad ELSE rest(next_value(args), [got EXCEPT !.vals[args[1]] = args[2]])
         ELSE IF args[1] \in loop.switches THEN rest(Tail(args), [got EXCEPT !.on = @ \cup {args[1]}])
         ELSE IF Len(got.pos) < loop.pos THEN rest(Tail(args), [got EXCEPT !.pos = Append(@, args[1])])
         ELSE Bad

\* What the handler makes of its words. No words, or a leading --help, print the usage
\* where something is required; `ls`, `doctor`, `init` and `trust list` take no words too.
Handle(loop, args) ==
    IF args # <<>> /\ args[1] \in {"--help", "-h"} THEN Help
    ELSE IF args = <<>> /\ (loop.first \/ (loop.pos > 0 /\ "--limit" \notin loop.values)) THEN Help
    ELSE LET got == IF loop.first
                    THEN ParseWords(loop, Tail(args), [Got(loop) EXCEPT !.pos = <<args[1]>>])
                    ELSE ParseWords(loop, args, Got(loop))
         IN  IF got.kind # "args" THEN got
             ELSE IF ~validate_render_flags(got.render) THEN Bad ELSE got

\* `why --lineage` has no machine form (parse_why_flags); the loop has the last word.
parse_why_flags(got) ==
    IF got.kind = "args" /\ "--lineage" \in got.on /\ (got.render.json \/ got.render.porcelain)
    THEN Bad ELSE got

Dispatch(word, args) ==
    LET loop == LoopOf(word, args)
        got == Handle(loop, IF word \in TwoWords THEN Tail(args) ELSE args)
    IN  IF word = "why" THEN parse_why_flags(got) ELSE got

(***************************************************************************)
(* Before clap: is this a plea for help, and in which form are errors to   *)
(* be printed? Both are read off the raw words.                            *)
(***************************************************************************)
Dashed(word) == word \in {"--json", "--help", "-h", "--registry-root", "--registry-root=r", "--", "-v"}

RECURSIVE HelpFrom(_, _, _)
HelpFrom(words, i, saw) ==
    IF i > Len(words) THEN saw
    ELSE IF words[i] \in {"--help", "-h"} THEN HelpFrom(words, i + 1, TRUE)
    ELSE IF words[i] = "--registry-root" /\ i < Len(words) THEN HelpFrom(words, i + 2, saw)
    ELSE FALSE

is_top_level_help_request(words) == HelpFrom(words, 2, FALSE)

RECURSIVE CommandFrom(_, _)
CommandFrom(words, i) ==
    IF i > Len(words) THEN 0
    ELSE IF words[i] = "--registry-root" THEN CommandFrom(words, i + 2)
    ELSE IF Dashed(words[i]) THEN CommandFrom(words, i + 1) ELSE i

command_index(words) == CommandFrom(words, 2)

JsonCommands == {"show", "run", "inspect", "ls", "list", "get", "read", "why", "verify", "doctor",
                 "init", "install", "export", "import", "push", "pull", "trust"}

command_requests_json_error_output(words) ==
    LET i == command_index(words)
    IN  i # 0 /\ words[i] \in JsonCommands /\ \E j \in (i + 1)..Len(words) : words[j] = "--json"

\* --registry-root, then GUILD_REGISTRY_ROOT, then ~/.guild, which needs a home.
resolve_registry_root_selection(flag, env, home) ==
    IF flag # NoValue THEN flag ELSE IF env # NoValue THEN env ELSE home

\* One command line: clap has turned `words` into struct s of `command`, with the global
\* flag as given.
run(words, command, s, flag, env, home) ==
    /\ parsed = NoValue
    /\ parsed' = [command |-> command, s |-> s, json_errors |-> command_requests_json_error_output(words),
                  help |-> is_top_level_help_request(words), index |-> command_index(words),
                  root |-> resolve_registry_root_selection(flag, env, home),
                  got |-> Dispatch(command[1], to_args(command, s))]

(***************************************************************************)
(* Properties.                                                             *)
(***************************************************************************)
\* A word the handler's own loop could take for a flag.
LooksLikeFlag(s) == \E i \in DOMAIN s.pos : Dashed(s.pos[i])

\* Parsing twice loses nothing: the handler ends up with exactly the arguments clap read,
\* in every command, whatever the values of flags look like. Two things stand apart: a
\* positional argument that looks like a flag survives only in the handlers that take their
\* first word unseen, and `why --lineage` refuses machine output after clap accepted it.
ArgumentsSurviveReparsing ==
    parsed # NoValue =>
        LET s == parsed.s got == parsed.got
            refused == /\ parsed.command = <<"why">> /\ "--lineage" \in s.on
                       /\ s.render.json \/ s.render.porcelain
        IN  \/ LooksLikeFlag(s) /\ parsed.command[1] \notin {"install", "export", "import", "push", "pull"}
            \/ (IF refused THEN got = Bad
                ELSE /\ got.kind = "args" /\ got.pos = s.pos /\ got.vals = s.vals
                     /\ got.on = s.on /\ got.render = s.render)

\* Errors are printed as JSON exactly when the command was asked for JSON, although that is
\* read off the raw words, before clap, past global options and their values; and no
\* command line that names a command is taken for a plea for help (run_entrypoint).
JsonErrorsAgree ==
    parsed # NoValue =>
        /\ ~parsed.help /\ parsed.index # 0
        /\ LooksLikeFlag(parsed.s)
           \/ parsed.json_errors = ("--json" \in parsed.s.on \/ parsed.s.render.json)

\* The second parser understands what the first one did, errors included.
CommandLinesSurvive == ArgumentsSurviveReparsing /\ JsonErrorsAgree

================================================================================
