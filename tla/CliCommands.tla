------------------------------ MODULE CliCommands ------------------------------
(***************************************************************************)
(* The `guild` command line over one local registry root                   *)
(* (crates/guild-mcp/src/cli.rs and the read side of                       *)
(* crates/guild-registry/src/lib.rs).                                      *)
(*                                                                         *)
(* One command runs at a time, as a sequence of the file accesses it makes;*)
(* other processes write records, install skills, damage or delete files   *)
(* between those steps. What a command prints is abstracted to `out`: the  *)
(* thing it is about, or the failure and its label.                        *)
(***************************************************************************)
EXTENDS CliErrors, Naturals, Sequences

CONSTANTS ExecutionId, EvidenceId, Digest,   \* names of the stored records
          Prefix,           \* what a short ref may hold after `exec:`, `evidence:`, `obj:`
          StartsWith,       \* StartsWith[p]: the record names that start with p
          BlobOf,           \* BlobOf[e]: the payload evidence record e points at
          Namespace, Name,  \* parts of a skill key
          Versions,         \* installed versions are numbers, higher is newer
          Publisher,        \* publisher identifiers
          MaxKeys,          \* bound: keypairs `guild trust generate` may draw
          Payload,          \* contents of an execution plan
          MaxEdits,         \* bound: steps other processes and people take
          Absent, Torn,     \* no file; a file that does not parse
          None              \* nothing

ASSUME CliConstants ==
    /\ Versions \subseteq Nat /\ MaxKeys \in Nat /\ MaxEdits \in Nat
    /\ StartsWith \in [Prefix -> SUBSET (ExecutionId \cup EvidenceId \cup Digest)]
    /\ BlobOf \in [EvidenceId -> Digest]

VARIABLES root,       \* what is at the registry root's path
          skills,     \* installed skills; a manifest may be unsound on disk
          executions, \* executions/<id>.json
          evidence,   \* objects/records/<id>.json
          blobs,      \* objects/sha256/<digest>/ : "absent", "payload" (no blob.json), "whole"
          trust,      \* trust/publishers/<id>.json
          policy,     \* policy.json
          identity,   \* the publisher's own identity file
          plan,       \* the execution plan file
          keys,       \* keypairs drawn so far
          signed,     \* history: what sign-plan ever signed, as <<key, payload>>
          edits,      \* steps others have taken
          cmd,        \* the command under way, or NoCommand
          out         \* what the last command printed, or None

records == <<executions, evidence, blobs>>
planning == <<identity, plan, keys, signed, edits>>
store == <<root, skills, records, trust, policy>>
vars == <<store, planning, cmd, out>>

Roots == {"missing", "file", "source", "dir"}
Policies == {"absent", "dangling", "unreadable", "malformed", "invalid", "valid"}
Skill == [ns : Namespace, name : Name, version : Versions, digest : {1, 2}, sound : BOOLEAN]
Tiers == {"local-dev", "trusted-imported", "restricted"}
TrustRecord == [id : Publisher, key : 1..MaxKeys, tier : Tiers]
Identity == [id : Publisher, public : 1..MaxKeys, secret : 1..MaxKeys]
\* `digest` is the signed_digest field; `key` and `over` are what the signature bytes are.
Signature == [id : Publisher, digest : Payload, key : 1..MaxKeys, over : Payload]
Plan == [kind : BOOLEAN, payload : Payload, sig : Signature \cup {None}]

(***************************************************************************)
(* What the registry answers, as a code ("ok" or a reason code).           *)
(***************************************************************************)
Ok == "ok"

open_existing_registry_root ==
    IF root = "missing" THEN "registry-root-missing"
    ELSE IF root = "file" THEN "registry-root-invalid" ELSE Ok

load_existing ==
    IF root = "source" THEN "source-skill-not-installed"
    ELSE IF open_existing_registry_root # Ok THEN open_existing_registry_root
    ELSE IF \A s \in skills : s.sound THEN Ok ELSE "invalid-manifest"

\* LocalRegistry::load makes the directories first, so a missing root is no failure.
load ==
    IF root = "source" THEN "source-skill-not-installed"
    ELSE IF root = "file" THEN "directory-create-failed"
    ELSE IF \A s \in skills : s.sound THEN Ok ELSE "invalid-manifest"

ensure_registry_layout ==
    root' = IF root \in {"missing", "dir"} THEN "dir" ELSE root

list_recent_execution_records ==
    IF \E x \in ExecutionId : executions[x] = "torn" THEN "execution-list-entry-parse-failed" ELSE Ok

list_recent_evidence_records ==
    IF \E e \in EvidenceId : evidence[e] = "torn" THEN "object-metadata-parse-failed" ELSE Ok

list_object_blobs ==
    IF \E d \in Digest : blobs[d] = "payload" THEN "object-metadata-read-failed" ELSE Ok

load_execution_record(x) ==
    CASE executions[x] = "absent" -> "execution-not-found"
      [] executions[x] = "torn" -> "execution-parse-failed"
      [] OTHER -> Ok

load_evidence_record(e) ==
    CASE evidence[e] = "absent" -> "object-not-found"
      [] evidence[e] = "torn" -> "object-metadata-parse-failed"
      [] OTHER -> Ok

read_object_payload(d) == IF blobs[d] = "absent" THEN "object-not-found" ELSE Ok

read_record_backed_object_payload(e) ==
    IF load_evidence_record(e) # Ok THEN load_evidence_record(e) ELSE read_object_payload(BlobOf[e])

read_blob_object(d) ==
    IF read_object_payload(d) # Ok THEN read_object_payload(d)
    ELSE IF blobs[d] = "payload" THEN "object-metadata-read-failed" ELSE Ok

read_resource(ref) ==
    CASE ref.kind = "execution uri" -> load_execution_record(ref.id)
      [] ref.kind = "evidence uri" -> read_record_backed_object_payload(ref.id)
      [] ref.kind = "metadata uri" -> load_evidence_record(ref.id)
      [] ref.kind = "object uri" -> read_blob_object(ref.id)
      [] ref.kind = "query uri" -> list_recent_execution_records

load_policy_config ==
    CASE policy = "unreadable" -> "policy-read-failed"
      [] policy = "malformed" -> "policy-parse-failed"
      [] policy = "invalid" -> "policy-invalid"
      [] OTHER -> Ok

validate_trusted_publisher_record(t) ==
    IF t.tier = "local-dev" THEN "trusted-publisher-tier-invalid" ELSE Ok

read_trusted_publisher_record(p, not_found) ==
    IF root = "file" THEN "trusted-publisher-read-failed"
    ELSE IF trust[p] = Absent THEN not_found
    ELSE IF trust[p] = Torn THEN "trusted-publisher-parse-failed"
    ELSE validate_trusted_publisher_record(trust[p])

FailuresOf(results) == results \ {Ok}

\* The files are read in directory order and the first bad one ends the scan.
list_trusted_publishers ==
    IF open_existing_registry_root # Ok THEN {open_existing_registry_root}
    ELSE LET read == {read_trusted_publisher_record(p, "trusted-publisher-missing") :
                        p \in {q \in Publisher : trust[q] # Absent}}
         IN  IF FailuresOf(read) = {} THEN {Ok} ELSE FailuresOf(read)

read_trusted_publisher(p) ==
    IF open_existing_registry_root # Ok THEN open_existing_registry_root
    ELSE LET read == read_trusted_publisher_record(p, "trusted-publisher-missing")
         IN  IF read = Ok /\ trust[p].id # p THEN "trusted-publisher-id-mismatch" ELSE read

(***************************************************************************)
(* Refs. A ref is a record with a kind; a `uri` kind names one record, a   *)
(* `prefix` kind whatever starts with it. The digest label of a blob       *)
(* record is `sha256:<hex>`, so only a prefix that itself starts with      *)
(* `sha256:` (kind "object prefix") can match one.                         *)
(***************************************************************************)
SkillKinds == {"short skill", "full skill", "malformed skill"}
UriKinds == {"execution uri", "evidence uri", "metadata uri", "object uri", "query uri"}
PrefixKinds == {"execution prefix", "evidence prefix", "object prefix", "bare object prefix"}

sha256_label(d) == <<"sha256:", d>>
whole(store_of) == {x \in DOMAIN store_of : store_of[x] = "whole"}

Resolved(ref) == [found |-> TRUE, ref |-> ref, error |-> None]
Unresolved(failure) == [found |-> FALSE, ref |-> None, error |-> failure]

\* Mutant: the first of several matches is taken.
OnlyMatch_first(found, kind, unmatched, ambiguous) ==
    IF found = {} THEN Unresolved(cli_error_new(unmatched))
    ELSE Resolved([kind |-> kind, id |-> CHOOSE x \in found : TRUE])

\* `match matches.as_slice()`: none, one, or several.
OnlyMatch(found, kind, unmatched, ambiguous) ==
    IF found = {} THEN Unresolved(cli_error_new(unmatched))
    ELSE IF Cardinality(found) = 1 THEN Resolved([kind |-> kind, id |-> CHOOSE x \in found : TRUE])
    ELSE Unresolved(cli_error_new(ambiguous))

resolve_execution_prefix(p) ==
    IF list_recent_execution_records # Ok
    THEN Unresolved(cli_error_from_registry(list_recent_execution_records))
    ELSE OnlyMatch(whole(executions) \cap StartsWith[p], "execution uri",
                   "execution ref unmatched", "execution ref ambiguous")

resolve_evidence_record_by_prefix(p) ==
    IF list_recent_evidence_records # Ok
    THEN Unresolved(cli_error_from_registry(list_recent_evidence_records))
    ELSE OnlyMatch(whole(evidence) \cap StartsWith[p], "evidence uri",
                   "evidence ref unmatched", "evidence ref ambiguous")

resolve_object_blob_by_prefix(kind, p) ==
    IF list_object_blobs # Ok
    THEN Unresolved(cli_error_from_registry(list_object_blobs))
    ELSE OnlyMatch(IF kind = "object prefix" THEN whole(blobs) \cap StartsWith[p] ELSE {},
                   "object uri", "object ref unmatched", "object ref ambiguous")

\* The label in blob.json is compared with the bare digest of the URI.
resolve_object_blob_exact(digest_hex) ==
    IF list_object_blobs # Ok
    THEN Unresolved(cli_error_from_registry(list_object_blobs))
    ELSE IF \E d \in whole(blobs) : sha256_label(d) = digest_hex
         THEN Resolved([kind |-> "object uri", id |-> digest_hex])
         ELSE Unresolved(cli_error_new("object ref unmatched"))

resolve_resource_ref(ref) ==
    CASE ref.kind \in UriKinds -> Resolved(ref)
      [] ref.kind = "execution prefix" -> resolve_execution_prefix(ref.id)
      [] ref.kind = "evidence prefix" -> resolve_evidence_record_by_prefix(ref.id)
      [] ref.kind \in {"object prefix", "bare object prefix"} ->
            resolve_object_blob_by_prefix(ref.kind, ref.id)
      [] OTHER -> Unresolved(cli_error_new("unsupported resource ref"))

resolve_execution_ref(ref) ==
    CASE ref.kind = "execution uri" -> Resolved(ref)
      [] ref.kind \in UriKinds -> Unresolved(cli_error_new("not an execution ref"))
      [] ref.kind = "execution prefix" -> resolve_execution_prefix(ref.id)
      [] OTHER -> Unresolved(cli_error_new("unsupported execution ref"))

\* A short name stands for the one namespace that has a matching version of it.
resolve_requested_skill_ref(view, ref) ==
    CASE ref.kind = "full skill" -> Resolved(ref)
      [] ref.kind = "short skill" ->
            LET namespaces == {s.ns : s \in {t \in view : t.name = ref.name /\ t.version \in ref.req}}
            IN  IF namespaces = {} THEN Unresolved(cli_error_new("short skill ref unmatched"))
                ELSE IF Cardinality(namespaces) = 1
                THEN Resolved([kind |-> "full skill", ns |-> CHOOSE n \in namespaces : TRUE,
                               name |-> ref.name, req |-> ref.req])
                ELSE Unresolved(cli_error_new("short skill ref ambiguous"))
      [] OTHER -> Unresolved(cli_error_new("skill ref invalid"))

\* The registry's own choice: the newest matching version, if it has one digest.
resolve_installed_selection(view, ref) ==
    LET named == {s \in view : s.ns = ref.ns /\ s.name = ref.name}
        matching == {s \in named : s.version \in ref.req}
        newest == {s \in matching : \A t \in matching : s.version >= t.version}
    IN  CASE named = {} -> [code |-> "skill-not-found", skill |-> None]
          [] named # {} /\ matching = {} -> [code |-> "skill-version-not-found", skill |-> None]
          [] Cardinality(newest) > 1 -> [code |-> "skill-version-ambiguous", skill |-> None]
          [] OTHER -> [code |-> Ok, skill |-> CHOOSE s \in newest : TRUE]

(***************************************************************************)
(* A command's steps.                                                      *)
(***************************************************************************)
Exports == {"export bundle", "export oci-layout", "push"}
OpensExisting == {"show", "run", "ls", "get", "why", "verify"} \cup Exports

\* What clap accepts: the command with the argument it is about.
RecordRef ==
    [kind : {"execution uri"}, id : ExecutionId]
    \cup [kind : {"evidence uri", "metadata uri"}, id : EvidenceId]
    \cup [kind : {"object uri"}, id : Digest] \cup [kind : PrefixKinds, id : Prefix]
    \cup [kind : {"query uri"}]
SkillRequest ==
    [kind : {"short skill"}, name : Name, req : SUBSET Versions]
    \cup [kind : {"full skill"}, ns : Namespace, name : Name, req : SUBSET Versions]
    \cup [kind : {"malformed skill"}]

CommandLine ==
    ({"show", "get", "why"} \X (RecordRef \cup SkillRequest))
    \cup (({"verify", "run"} \cup Exports) \X SkillRequest)
    \cup ({"ls"} \X {"summary", "skills", "runs", "evidence", "objects"})
    \cup ({"install", "import bundle", "import oci-layout", "pull", "import preview"} \X Skill)
    \cup ({"trust generate", "trust show", "trust remove"} \X Publisher)
    \cup ({"trust add"} \X Tiers)
    \cup ({"doctor", "init", "mcp serve", "trust list", "sign-plan", "verify-plan"} \X {None})

Command(name, ref) ==
    [name |-> name, ref |-> ref, at |-> "start", view |-> {}, uri |-> None, seen |-> {}]

NoCommand == Command("none", None)

Answered(got) == [code |-> Ok, category |-> None, steps |-> TRUE, got |-> got]
Failed(failure) == [code |-> failure.code, category |-> failure.category,
                    steps |-> failure.steps, got |-> None]

Finish(answer) ==
    /\ cmd' = NoCommand
    /\ out' = [name |-> cmd.name, ref |-> cmd.ref, code |-> answer.code, got |-> answer.got,
               category |-> answer.category, steps |-> answer.steps, seen |-> cmd.seen]

\* The command goes on: to its next step, with what it read so far.
Proceed(step, view, uri, seen) ==
    /\ cmd' = [name |-> cmd.name, ref |-> cmd.ref, at |-> step, view |-> view, uri |-> uri,
               seen |-> seen]
    /\ UNCHANGED out

Begin(name, ref) ==
    /\ cmd = NoCommand
    /\ cmd' = Command(name, ref) /\ out' = None
    /\ UNCHANGED <<store, planning>>

At(names, step) == cmd # NoCommand /\ cmd.name \in names /\ cmd.at = step

build_existing_registry ==
    /\ At(OpensExisting, "start")
    /\ CASE load_existing = Ok ->
              Proceed("open", skills, None, {})
         [] load_existing = "registry-root-missing" -> Finish(Failed(missing_registry_root_error))
         [] OTHER -> Finish(Failed(cli_error_from_registry(load_existing)))
    /\ UNCHANGED <<store, planning>>

\* The answer of `show`, `verify`, `export` and `push` for a skill: all from one snapshot.
SkillAnswer(view, ref) ==
    LET r == resolve_requested_skill_ref(view, ref)
        chosen == resolve_installed_selection(view, r.ref)
    IN  IF ~r.found THEN Failed(r.error)
        ELSE IF chosen.code # Ok THEN Failed(cli_error_from_registry(chosen.code))
        ELSE Answered(chosen.skill)

RecordAnswer(code, ref) == IF code = Ok THEN Answered(ref) ELSE Failed(cli_error_from_registry(code))
ListAnswer(r) == IF ~r.found THEN Failed(r.error) ELSE Answered(r.ref)

\* The records a prefix stands for when the command looks.
Seen(ref) ==
    IF ref.kind = "execution prefix" THEN whole(executions) \cap StartsWith[ref.id] ELSE {}

Resolve(r) ==
    IF ~r.found THEN Finish(Failed(r.error))
    ELSE Proceed("load", cmd.view, r.ref, Seen(cmd.ref))

resolve_show_resource_target(ref) ==
    CASE ref.kind = "execution prefix" -> Resolve(resolve_execution_prefix(ref.id))
      [] ref.kind = "execution uri" -> Finish(RecordAnswer(load_execution_record(ref.id), ref))
      [] ref.kind = "evidence prefix" -> Finish(ListAnswer(resolve_evidence_record_by_prefix(ref.id)))
      [] ref.kind \in {"object prefix", "bare object prefix"} ->
           Finish(ListAnswer(resolve_object_blob_by_prefix(ref.kind, ref.id)))
      [] ref.kind \in {"evidence uri", "metadata uri"} ->
           Finish(RecordAnswer(load_evidence_record(ref.id), ref))
      [] ref.kind = "object uri" -> Finish(ListAnswer(resolve_object_blob_exact(ref.id)))
      [] ref.kind = "query uri" -> Finish(Failed(cli_error_new("query refs need get")))

resolve_show_target ==
    /\ At({"show"}, "open")
    /\ IF cmd.ref.kind \in SkillKinds THEN Finish(SkillAnswer(cmd.view, cmd.ref))
       ELSE resolve_show_resource_target(cmd.ref)
    /\ UNCHANGED <<store, planning>>

run_get_resolve ==
    /\ At({"get"}, "open")
    /\ Resolve(resolve_resource_ref(cmd.ref))
    /\ UNCHANGED <<store, planning>>

run_why_resolve ==
    /\ At({"why"}, "open")
    /\ Resolve(resolve_execution_ref(cmd.ref))
    /\ UNCHANGED <<store, planning>>

\* `show exec:` and `why` load the record; `get` reads through the resource backend.
LoadResolved ==
    /\ At({"show", "get", "why"}, "load")
    /\ Finish(RecordAnswer(read_resource(cmd.uri), cmd.uri))
    /\ UNCHANGED <<store, planning>>

run_verify ==
    /\ At({"verify"}, "open")
    /\ Finish(SkillAnswer(cmd.view, cmd.ref))
    /\ UNCHANGED <<store, planning>>

\* `ls` without a category shows skills and recent runs; the skills are the snapshot.
run_ls_summary == list_recent_execution_records
run_ls_skills == Ok
run_ls_runs == list_recent_execution_records
run_ls_evidence == list_recent_evidence_records
run_ls_objects == list_object_blobs

run_ls ==
    /\ At({"ls"}, "open")
    /\ LET code == CASE cmd.ref = "summary" -> run_ls_summary
                     [] cmd.ref = "skills" -> run_ls_skills
                     [] cmd.ref = "runs" -> run_ls_runs
                     [] cmd.ref = "evidence" -> run_ls_evidence
                     [] cmd.ref = "objects" -> run_ls_objects
       IN  Finish(RecordAnswer(code, cmd.ref))
    /\ UNCHANGED <<store, planning>>

\* The identity file is read and its two halves compared.
LocalPublisherIdentity_load ==
    CASE identity = Absent -> "publisher-identity-read-failed"
      [] identity = Torn -> "publisher-identity-parse-failed"
      [] identity \notin {Absent, Torn} /\ identity.public # identity.secret -> "publisher-keypair-mismatch"
      [] OTHER -> Ok

\* `export` and `push` take full refs only and sign with the identity file.
\* What they write is outside the root (module BundleTransport).
ExportSigned ==
    /\ LET chosen == resolve_installed_selection(cmd.view, cmd.ref) IN
       IF cmd.ref.kind # "full skill" THEN Finish(Failed(cli_error_new("skill ref invalid")))
       ELSE IF chosen.code # Ok THEN Finish(Failed(cli_error_from_registry(chosen.code)))
       ELSE IF LocalPublisherIdentity_load # Ok
       THEN Finish(Failed(cli_error_from_registry(LocalPublisherIdentity_load)))
       ELSE Finish(Answered(chosen.skill))
    /\ UNCHANGED <<store, planning>>

run_export_bundle == At({"export bundle"}, "open") /\ ExportSigned
run_export_oci_layout == At({"export oci-layout"}, "open") /\ ExportSigned
run_push == At({"push"}, "open") /\ ExportSigned

(***************************************************************************)
(* `guild run` opens the root twice: read-only to resolve the ref, then    *)
(* for writing to run it. The run leaves a record whether it succeeds, is  *)
(* denied, or fails in the runtime; a skill whose files are gone fails in  *)
(* the runtime.                                                            *)
(***************************************************************************)
run_resolve ==
    /\ At({"run"}, "open")
    /\ LET r == resolve_requested_skill_ref(cmd.view, cmd.ref) IN
       IF ~r.found THEN Finish(Failed(r.error))
       ELSE Proceed("resolved", cmd.view, r.ref, {})
    /\ UNCHANGED <<store, planning>>

build_facade ==
    /\ At({"run"}, "resolved")
    /\ IF load # Ok THEN Finish(Failed(cli_error_from_registry(load)))
       ELSE Proceed("facade", skills, cmd.uri, {})
    /\ ensure_registry_layout
    /\ UNCHANGED <<skills, records, trust, policy, planning>>

inspect ==
    /\ At({"run"}, "facade")
    /\ LET chosen == resolve_installed_selection(cmd.view, cmd.uri) IN
       IF chosen.code # Ok
       THEN Finish(Failed(cli_error_from_mcp(chosen.code, FALSE))) /\ UNCHANGED <<root, executions>>
       ELSE IF load_policy_config # Ok
       THEN Finish(Failed(cli_error_from_mcp(load_policy_config, FALSE))) /\ UNCHANGED <<root, executions>>
       ELSE \E x \in {y \in ExecutionId : executions[y] = "absent"} :
               /\ executions' = [executions EXCEPT ![x] = "whole"]
               /\ ensure_registry_layout
               /\ \/ chosen.skill \in skills /\ Finish(Answered(chosen.skill))
                  \/ \E code \in {"policy-denied", "unsupported-runtime"} :
                        Finish(Failed(cli_error_from_mcp(code, TRUE)))
    /\ UNCHANGED <<skills, evidence, blobs, trust, policy, planning>>

(***************************************************************************)
(* `guild doctor`: four checks, one after the other. A check that cannot   *)
(* be made is skipped. The report is a sequence of statuses and codes.     *)
(***************************************************************************)
Check(status, code) == [status |-> status, code |-> code]

doctor_root_error_is_root_access_failure(code) ==
    code \in {"registry-root-missing", "registry-root-invalid", "source-skill-not-installed"}

inspect_doctor_root ==
    IF load_existing = Ok \/ ~doctor_root_error_is_root_access_failure(load_existing)
    THEN Check("ok", load_existing) ELSE Check("attention", load_existing)

\* Mutant: the stored payloads are not listed.
inspect_doctor_state_without_objects(opened) ==
    CASE opened = Ok ->
            LET lists == <<list_recent_execution_records, list_recent_evidence_records>>
                bad == {i \in 1..2 : lists[i] # Ok}
            IN  IF bad = {} THEN Check("ok", Ok)
                ELSE Check("attention", lists[CHOOSE i \in bad : \A j \in bad : i <= j])
      [] opened = "registry-root-missing" -> Check("skipped", Ok)
      [] OTHER -> Check("attention", opened)

\* `opened` is what load_existing said when the root was checked.
inspect_doctor_state(opened) ==
    CASE opened = Ok ->
            LET lists == <<list_recent_execution_records, list_recent_evidence_records,
                           list_object_blobs>>
                bad == {i \in 1..3 : lists[i] # Ok}
            IN  IF bad = {} THEN Check("ok", Ok)
                ELSE Check("attention", lists[CHOOSE i \in bad : \A j \in bad : i <= j])
      [] opened = "registry-root-missing" -> Check("skipped", Ok)
      [] OTHER -> Check("attention", opened)

inspect_doctor_trust(openable) ==
    IF ~openable THEN {Check("skipped", Ok)}
    ELSE {IF code = Ok THEN Check("ok", Ok)
          ELSE IF code = "registry-root-missing" THEN Check("skipped", Ok)
          ELSE Check("attention", code) : code \in list_trusted_publishers}

\* The file itself is looked at (symlink_metadata), not what a link leads to.
inspect_doctor_policy(openable) ==
    IF ~openable THEN Check("skipped", Ok)
    ELSE CASE policy = "absent" -> Check("ok", Ok)
           [] policy \in {"dangling", "unreadable"} -> Check("attention", "policy-read-failed")
           [] policy = "malformed" -> Check("attention", "policy-parse-failed")
           [] policy = "invalid" -> Check("attention", "policy-invalid")
           [] OTHER -> Check("ok", Ok)

doctor_overall_status(report) ==
    LET statuses == {report[i].status : i \in DOMAIN report}
    IN  IF "attention" \in statuses THEN "attention"
        ELSE IF "skipped" \in statuses THEN "skipped" ELSE "ok"

\* The steps the report ends with: the root's own, and those of each bad check.
DoctorSteps(report) ==
    \/ report[1].status = "attention"
         /\ (report[1].code = "registry-root-missing" \/ next_steps_for_reason_code(report[1].code))
    \/ \E i \in 2..4 : report[i].status = "attention" /\ next_steps_for_reason_code(report[i].code)

DoctorRoot ==
    /\ At({"doctor"}, "start")
    /\ Proceed("state", {}, <<inspect_doctor_root>>, {})
    /\ UNCHANGED <<store, planning>>

DoctorState ==
    /\ At({"doctor"}, "state")
    /\ Proceed("trust", {}, Append(cmd.uri, inspect_doctor_state(cmd.uri[1].code)), {})
    /\ UNCHANGED <<store, planning>>

DoctorTrust ==
    /\ At({"doctor"}, "trust")
    /\ \E check \in inspect_doctor_trust(cmd.uri[1].status = "ok") :
          Proceed("policy", {}, Append(cmd.uri, check), {})
    /\ UNCHANGED <<store, planning>>

build_doctor_report ==
    /\ At({"doctor"}, "policy")
    /\ LET report == Append(cmd.uri, inspect_doctor_policy(cmd.uri[1].status = "ok")) IN
       Finish([code |-> Ok, category |-> doctor_overall_status(report),
               steps |-> DoctorSteps(report), got |-> report])
    /\ UNCHANGED <<store, planning>>

(***************************************************************************)
(* Commands that set a root up. What installing and importing do inside    *)
(* the root is the subject of InstalledState and BundleTransport; here     *)
(* they leave one more sound skill, or a reason code.                      *)
(***************************************************************************)
run_init ==
    /\ At({"init", "mcp serve"}, "start")
    /\ Finish(IF load = Ok THEN Answered(cmd.ref)
              ELSE IF cmd.name = "init" THEN Failed(cli_error_from_registry(load))
              ELSE Failed(cli_error_new(load)))
    /\ ensure_registry_layout
    /\ UNCHANGED <<skills, records, trust, policy, planning>>

\* A damaged copy of the same build is in the way of both.
Blocked(skill) == [skill EXCEPT !.sound = FALSE] \in skills
layout_code == IF root = "file" THEN "directory-create-failed" ELSE Ok

\* The layout is made first; then the source is read, and the whole root loaded.
run_install ==
    /\ At({"install"}, "start")
    /\ LET installed == [cmd.ref EXCEPT !.sound = TRUE] IN
       IF layout_code # Ok
       THEN Finish(Failed(cli_error_from_registry(layout_code))) /\ UNCHANGED skills
       ELSE \/ /\ \E code \in SourceCodes : Finish(Failed(cli_error_from_registry(code)))
               /\ UNCHANGED skills
            \/ /\ load # Ok /\ UNCHANGED skills
               /\ Finish(Failed(cli_error_from_registry(load)))
            \/ /\ load = Ok /\ UNCHANGED skills
               /\ \E code \in BuildCodes : Finish(Failed(cli_error_from_registry(code)))
            \/ /\ load = Ok /\ skills' = skills \cup {installed}
               /\ Finish(Answered(installed))
    /\ ensure_registry_layout
    /\ UNCHANGED <<records, trust, policy, planning>>

\* Mutant: a missing root is made instead of reported.
ensure_existing_registry_root_made ==
    /\ At({"import preview", "trust show", "trust remove", "verify-plan"}, "start")
    /\ Proceed("exists", {}, None, {})
    /\ ensure_registry_layout
    /\ UNCHANGED <<skills, records, trust, policy, planning>>

ensure_existing_registry_root ==
    /\ At({"import preview", "trust show", "trust remove", "verify-plan"}, "start")
    /\ IF root = "missing" THEN Finish(Failed(missing_registry_root_error))
       ELSE Proceed("exists", {}, None, {})
    /\ UNCHANGED <<store, planning>>

preview_import ==
    /\ At({"import preview"}, "exists")
    /\ IF open_existing_registry_root # Ok
       THEN Finish(Failed(cli_error_from_registry(open_existing_registry_root)))
       ELSE \/ Finish(Answered(cmd.ref))
            \/ \E code \in ImportCodes : Finish(Failed(cli_error_from_registry(code)))
    /\ UNCHANGED <<store, planning>>

\* An import does not load the root. The bundle is read after the directories are made.
ImportInto ==
    LET installed == [cmd.ref EXCEPT !.sound = TRUE] IN
    IF layout_code # Ok
    THEN Finish(Failed(cli_error_from_registry(layout_code))) /\ UNCHANGED skills
    ELSE \/ /\ \E code \in ImportCodes : Finish(Failed(cli_error_from_registry(code)))
            /\ UNCHANGED skills
         \/ /\ ~Blocked(installed) /\ skills' = skills \cup {installed}
            /\ Finish(Answered(installed))

run_import_bundle ==
    /\ At({"import bundle"}, "start")
    /\ ImportInto /\ ensure_registry_layout
    /\ UNCHANGED <<records, trust, policy, planning>>

\* An OCI artifact is decoded before the root is touched.
ImportDecoded ==
    /\ \/ /\ \E code \in DecodeCodes : Finish(Failed(cli_error_from_registry(code)))
          /\ UNCHANGED <<root, skills>>
       \/ ImportInto /\ ensure_registry_layout
    /\ UNCHANGED <<records, trust, policy, planning>>

run_import_oci_layout == At({"import oci-layout"}, "start") /\ ImportDecoded
run_pull == At({"pull"}, "start") /\ ImportDecoded

(***************************************************************************)
(* `guild trust`. Keys are numbers; a keypair's halves carry the same one. *)
(***************************************************************************)
\* No root is needed to draw a keypair.
run_trust_generate ==
    /\ At({"trust generate"}, "start")
    /\ keys < MaxKeys
    /\ keys' = keys + 1
    /\ identity' = [id |-> cmd.ref, public |-> keys + 1, secret |-> keys + 1]
    /\ Finish(Answered(cmd.ref))
    /\ UNCHANGED <<store, plan, signed, edits>>

\* From the identity file, with the tier asked for.
run_trust_add ==
    /\ At({"trust add"}, "start")
    /\ IF cmd.ref = "local-dev" THEN Finish(Failed(cli_error_new("bad arguments"))) /\ UNCHANGED <<root, trust>>
       ELSE IF LocalPublisherIdentity_load # Ok
       THEN /\ Finish(Failed(cli_error_from_registry(LocalPublisherIdentity_load)))
            /\ UNCHANGED <<root, trust>>
       ELSE IF layout_code # Ok
       THEN Finish(Failed(cli_error_from_registry(layout_code))) /\ UNCHANGED <<root, trust>>
       ELSE /\ ensure_registry_layout
            /\ trust' = [trust EXCEPT ![identity.id] =
                           [id |-> identity.id, key |-> identity.public, tier |-> cmd.ref]]
            /\ Finish(Answered(identity.id))
    /\ UNCHANGED <<skills, records, policy, planning>>

run_trust_show ==
    /\ At({"trust show"}, "exists")
    /\ LET code == read_trusted_publisher(cmd.ref) IN
       Finish(CASE code = Ok -> Answered(trust[cmd.ref])
                [] code = "trusted-publisher-missing" ->
                     Failed(Failure("trusted publisher not present", "lookup/ambiguity", "manual", FALSE))
                [] OTHER -> Failed(cli_error_from_registry(code)))
    /\ UNCHANGED <<store, planning>>

run_trust_list ==
    /\ At({"trust list"}, "start")
    /\ \E code \in list_trusted_publishers : Finish(RecordAnswer(code, cmd.ref))
    /\ UNCHANGED <<store, planning>>

run_trust_remove ==
    /\ At({"trust remove"}, "exists")
    /\ ensure_registry_layout
    /\ IF layout_code # Ok THEN Finish(Failed(cli_error_from_registry(layout_code))) /\ UNCHANGED trust
       ELSE IF trust[cmd.ref] = Absent
       THEN /\ Finish(Failed(Failure("trusted publisher not present", "lookup/ambiguity", "manual", FALSE)))
            /\ UNCHANGED trust
       ELSE trust' = [trust EXCEPT ![cmd.ref] = Absent] /\ Finish(Answered(cmd.ref))
    /\ UNCHANGED <<skills, records, policy, planning>>

sign_execution_plan ==
    IF ~plan.kind THEN "execution-plan-invalid"
    ELSE IF plan.sig # None THEN "execution-plan-already-signed" ELSE Ok

\* resolve_registry_root_selection: flag, then environment, then ~/.guild.
registry_root_default_unresolved ==
    [code |-> "registry-root-default-unresolved", category |-> "root/setup", steps |-> TRUE]

\* The signed plan replaces the plan file here; the output is written before the
\* root is looked up for the closing text (which needs HOME when no root is named).
run_trust_sign_plan ==
    /\ At({"sign-plan"}, "start")
    /\ LET code == IF LocalPublisherIdentity_load # Ok THEN LocalPublisherIdentity_load
                   ELSE sign_execution_plan
       IN  IF code # Ok
           THEN Finish(Failed(cli_error_from_registry(code))) /\ UNCHANGED <<plan, signed>>
           ELSE /\ plan' = [plan EXCEPT !.sig = [id |-> identity.id, digest |-> plan.payload,
                                                 key |-> identity.secret, over |-> plan.payload]]
                /\ signed' = signed \cup {<<identity.secret, plan.payload>>}
                /\ \/ Finish(Answered(identity.id))
                   \/ Finish(Failed(registry_root_default_unresolved))
    /\ UNCHANGED <<store, identity, keys, edits>>

\* Mutant: the digest field is compared, the signature is not checked.
verify_execution_plan_digest_only(t) ==
    IF ~plan.kind THEN "execution-plan-invalid"
    ELSE IF plan.sig.id # t.id THEN "execution-plan-signature-publisher-mismatch"
    ELSE IF plan.sig.digest # plan.payload THEN "execution-plan-signature-digest-mismatch" ELSE Ok

verify_execution_plan_with_trusted_publisher(t) ==
    IF ~plan.kind THEN "execution-plan-invalid"
    ELSE IF plan.sig.id # t.id THEN "execution-plan-signature-publisher-mismatch"
    ELSE IF plan.sig.digest # plan.payload THEN "execution-plan-signature-digest-mismatch"
    ELSE IF <<plan.sig.key, plan.sig.over>> # <<t.key, plan.payload>>
    THEN "execution-plan-signature-invalid" ELSE Ok

verify_execution_plan ==
    IF plan.sig = None THEN "execution-plan-signature-missing"
    ELSE LET read == read_trusted_publisher_record(plan.sig.id, "execution-plan-publisher-untrusted")
         IN  IF read # Ok THEN read
             ELSE verify_execution_plan_with_trusted_publisher(trust[plan.sig.id])

run_trust_verify_plan ==
    /\ At({"verify-plan"}, "exists")
    /\ Finish(IF verify_execution_plan = Ok THEN Answered(<<trust[plan.sig.id], plan>>)
              ELSE Failed(cli_error_from_registry(verify_execution_plan)))
    /\ UNCHANGED <<store, planning>>

(***************************************************************************)
(* What others do between a command's steps: a run writes its record       *)
(* (created, then filled), evidence and payloads appear, records are       *)
(* pruned, skills are installed or their manifests spoiled, the root is    *)
(* deleted, and files are edited by hand.                                  *)
(***************************************************************************)
Edit == edits < MaxEdits /\ edits' = edits + 1 /\ UNCHANGED <<identity, plan, keys, signed, cmd, out>>

WriteExecution(x) ==
    /\ root = "dir"
    /\ \/ executions[x] = "absent" /\ executions' = [executions EXCEPT ![x] = "torn"]
       \/ executions[x] = "torn" /\ executions' = [executions EXCEPT ![x] = "whole"]
    /\ Edit /\ UNCHANGED <<root, skills, evidence, blobs, trust, policy>>

PruneExecution(x) ==
    /\ executions[x] # "absent"
    /\ executions' = [executions EXCEPT ![x] = "absent"]
    /\ Edit /\ UNCHANGED <<root, skills, evidence, blobs, trust, policy>>

WriteEvidence(e) ==
    /\ root = "dir" /\ blobs[BlobOf[e]] = "whole"
    /\ \/ evidence[e] = "absent" /\ evidence' = [evidence EXCEPT ![e] = "torn"]
       \/ evidence[e] = "torn" /\ evidence' = [evidence EXCEPT ![e] = "whole"]
    /\ Edit /\ UNCHANGED <<root, skills, executions, blobs, trust, policy>>

WriteBlob(d) ==
    /\ root = "dir"
    /\ \/ blobs[d] = "absent" /\ blobs' = [blobs EXCEPT ![d] = "payload"]
       \/ blobs[d] = "payload" /\ blobs' = [blobs EXCEPT ![d] = "whole"]
    /\ Edit /\ UNCHANGED <<root, skills, executions, evidence, trust, policy>>

OtherInstalls(s) ==
    /\ root = "dir" /\ s.sound /\ ~Blocked(s)
    /\ skills' = skills \cup {s}
    /\ Edit /\ UNCHANGED <<root, records, trust, policy>>

SpoilManifest(s) ==
    /\ s \in skills /\ s.sound
    /\ skills' = (skills \ {s}) \cup {[s EXCEPT !.sound = FALSE]}
    /\ Edit /\ UNCHANGED <<root, records, trust, policy>>

DeleteRoot ==
    /\ root # "missing"
    /\ root' = "missing" /\ skills' = {} /\ policy' = "absent"
    /\ executions' = [x \in ExecutionId |-> "absent"]
    /\ evidence' = [e \in EvidenceId |-> "absent"]
    /\ blobs' = [d \in Digest |-> "absent"]
    /\ trust' = [p \in Publisher |-> Absent]
    /\ Edit

EditPolicy(new) ==
    /\ root = "dir" /\ policy # new
    /\ policy' = new
    /\ Edit /\ UNCHANGED <<root, skills, records, trust>>

\* A trust record is cut short, copied under another name, or given the local tier.
EditTrust(p) ==
    /\ trust[p] \notin {Absent, Torn}
    /\ \/ trust' = [trust EXCEPT ![p] = Torn]
       \/ \E q \in Publisher : trust' = [trust EXCEPT ![q] = trust[p]]
       \/ trust' = [trust EXCEPT ![p].tier = "local-dev"]
    /\ Edit /\ UNCHANGED <<root, skills, records, policy>>

\* The identity file is lost, cut short, or its public half replaced.
EditIdentity ==
    /\ edits < MaxEdits /\ edits' = edits + 1
    /\ identity \notin {Absent, Torn}
    /\ \/ identity' \in {Absent, Torn}
       \/ \E k \in 1..keys : identity' = [identity EXCEPT !.public = k]
    /\ UNCHANGED <<store, plan, keys, signed, cmd, out>>

\* The plan file is changed, its signature dropped, or attributed to somebody else.
EditPlan ==
    /\ edits < MaxEdits /\ edits' = edits + 1
    /\ \/ \E c \in Payload : plan' = [plan EXCEPT !.payload = c]
       \/ plan' = [plan EXCEPT !.sig = None]
       \/ plan' = [plan EXCEPT !.kind = ~@]
       \/ plan.sig # None /\ \E p \in Publisher : plan' = [plan EXCEPT !.sig.id = p]
       \/ plan.sig # None /\ \E c \in Payload : plan' = [plan EXCEPT !.sig.digest = c]
    /\ UNCHANGED <<store, identity, keys, signed, cmd, out>>

(***************************************************************************)
(* The whole system.                                                       *)
(***************************************************************************)
EmptyStore ==
    /\ skills = {} /\ policy = "absent"
    /\ executions = [x \in ExecutionId |-> "absent"]
    /\ evidence = [e \in EvidenceId |-> "absent"]
    /\ blobs = [d \in Digest |-> "absent"]
    /\ trust = [p \in Publisher |-> Absent]

Init ==
    /\ root \in Roots /\ EmptyStore
    /\ identity = Absent /\ keys = 0 /\ signed = {} /\ edits = 0
    /\ plan \in [kind : {TRUE}, payload : Payload, sig : {None}]
    /\ cmd = NoCommand /\ out = None

ReadSteps ==
    \/ build_existing_registry \/ resolve_show_target \/ run_get_resolve \/ run_why_resolve
    \/ LoadResolved \/ run_verify \/ run_ls
    \/ run_export_bundle \/ run_export_oci_layout \/ run_push
    \/ DoctorRoot \/ DoctorState \/ DoctorTrust \/ build_doctor_report

RunSteps == run_resolve \/ build_facade \/ inspect

SetupSteps ==
    \/ run_init \/ run_install \/ ensure_existing_registry_root \/ preview_import
    \/ run_import_bundle \/ run_import_oci_layout \/ run_pull

TrustSteps ==
    \/ run_trust_generate \/ run_trust_add \/ run_trust_show \/ run_trust_list
    \/ run_trust_remove \/ run_trust_sign_plan \/ run_trust_verify_plan

CommandSteps == ReadSteps \/ RunSteps \/ SetupSteps \/ TrustSteps

OthersWriteRecords ==
    \/ \E x \in ExecutionId : WriteExecution(x) \/ PruneExecution(x)
    \/ \E e \in EvidenceId : WriteEvidence(e)
    \/ \E d \in Digest : WriteBlob(d)

OthersEditTrust == (\E p \in Publisher : EditTrust(p)) \/ EditIdentity \/ EditPlan

OthersStep ==
    \/ OthersWriteRecords \/ OthersEditTrust \/ DeleteRoot
    \/ \E s \in Skill : OtherInstalls(s) \/ SpoilManifest(s)
    \/ \E new \in Policies : EditPolicy(new)

Next ==
    \/ \E line \in CommandLine : Begin(line[1], line[2])
    \/ CommandSteps \/ OthersStep

Spec == Init /\ [][Next]_vars

(***************************************************************************)
(* Properties.                                                             *)
(***************************************************************************)

\* Every piece of state keeps its type, and a missing root holds nothing.
TypeOK ==
    /\ root \in Roots /\ skills \subseteq Skill /\ policy \in Policies
    /\ executions \in [ExecutionId -> {"absent", "torn", "whole"}]
    /\ evidence \in [EvidenceId -> {"absent", "torn", "whole"}]
    /\ blobs \in [Digest -> {"absent", "payload", "whole"}]
    /\ trust \in [Publisher -> TrustRecord \cup {Absent, Torn}]
    /\ identity \in Identity \cup {Absent, Torn} /\ plan \in Plan
    /\ keys \in 0..MaxKeys /\ edits \in 0..MaxEdits
    /\ root = "missing" => EmptyStore

ReadOnly == {"show", "ls", "get", "why", "verify", "doctor", "import preview",
             "trust show", "trust list", "verify-plan"} \cup Exports
Creates == {"init", "mcp serve", "install", "import bundle", "import oci-layout", "pull", "trust add"}

\* No read-only command changes anything under the root, whatever others do between its
\* steps, and a root that is not there comes into being only by a command meant to make
\* one. `run` and `trust remove` also make one, but only if a root was there when they
\* looked (run_run_command and run_trust_remove open the root read-only first).
ReadOnlyCommandsWriteNothing ==
    [][/\ cmd # NoCommand /\ cmd.name \in ReadOnly /\ edits' = edits => UNCHANGED store
       /\ root = "missing" /\ root' # "missing" =>
            /\ cmd # NoCommand
            /\ cmd.name \in Creates \/ (cmd.name \in {"run", "trust remove"} /\ cmd.at # "start")]_vars

\* `exec:<prefix>` answers with the one execution that started with the prefix when the
\* command looked, whatever was written or pruned before the record was read
\* (resolve_execution_prefix, then load_execution_record).
PrefixAnswersAreExact ==
    /\ out # None /\ out.name \in {"show", "get", "why"}
    /\ out.code = Ok /\ out.ref.kind = "execution prefix"
    => out.seen = {out.got.id}

\* A ref to a skill is answered with a build of that name in a version asked for, the newest
\* one there is; a short ref only when no other namespace has a match
\* (resolve_requested_skill_ref, LocalRegistry::resolve).
SkillAnswersAreExact ==
    \A ref \in [kind : {"short skill"}, name : Name, req : SUBSET Versions] :
        LET answer == SkillAnswer(skills, ref)
            matching == {s \in skills : s.name = ref.name /\ s.version \in ref.req}
        IN  answer.code = Ok =>
                /\ answer.got \in matching
                /\ \A s \in matching : s.ns = answer.got.ns /\ s.version <= answer.got.version
                /\ \A s \in matching : s.version = answer.got.version => s = answer.got

\* A ref that is answered is answered exactly, whether it names a record or a skill.
AnswersAreExact == PrefixAnswersAreExact /\ SkillAnswersAreExact

\* All four checks made at one moment.
ReportNow ==
    LET opened == inspect_doctor_root
    IN  {<<opened, inspect_doctor_state(opened.code), t, inspect_doctor_policy(opened.status = "ok")>> :
            t \in inspect_doctor_trust(opened.status = "ok")}

\* `guild doctor` says ok exactly when the other commands can work: the root opens, every
\* listing reads, the trust store lists and the policy loads. The one difference is a
\* policy.json that is a dangling link: doctor reports it, a run takes the default policy
\* (inspect_doctor_policy looks at the link, load_policy_config at what it leads to).
DoctorAgreesWithCommands ==
    LET works == /\ load_existing = Ok /\ list_trusted_publishers = {Ok} /\ load_policy_config = Ok
                 /\ list_recent_execution_records = Ok /\ list_recent_evidence_records = Ok
                 /\ list_object_blobs = Ok
    IN  \A report \in ReportNow :
            (doctor_overall_status(report) = "ok") <=> (works /\ policy # "dangling")

\* What a person needs to go on. A missing root is `root/setup` with a next step for every
\* read-only command but `trust list`; a skill, execution, evidence record, object or
\* publisher that is not there, or not named exactly, is `lookup/ambiguity` or
\* `resource/read` with a next step, but for a skill whose versions do not match, which the
\* code labels `usage` (cli_error_from_registry, cli_error_new, missing_registry_root_error).
FailuresAreActionable ==
    [][cmd # NoCommand /\ cmd' = NoCommand /\ out'.code # Ok =>
         /\ /\ root = "missing" /\ cmd.at = "start"
            /\ cmd.name \in ReadOnly \ {"trust list"}
            => out'.category = "root/setup" /\ out'.steps
         /\ out'.code \in UnmatchedRefs \cup AmbiguousRefs \cup
                          {"skill-not-found", "execution-not-found", "object-not-found",
                           "trusted publisher not present"}
            => out'.category \in {"lookup/ambiguity", "resource/read"} /\ out'.steps
         /\ cmd.name \in {"verify-plan", "import preview"} /\ cmd.at = "exists" /\ root = "dir"
            => out'.category \in {"trust/verification", "root/setup"} /\ out'.steps]_vars

\* A plan verifies only if the trusted key signed exactly this plan, and the record trusted
\* for it is of an imported tier, under the publisher's own id (verify_execution_plan).
VerifiedPlanWasSigned ==
    out # None /\ out.name = "verify-plan" /\ out.code = Ok =>
        LET t == out.got[1] p == out.got[2]
        IN  /\ <<t.key, p.payload>> \in signed
            /\ t.id = p.sig.id /\ t.tier # "local-dev"

\* A signed plan nobody touched verifies wherever its publisher's key is trusted; one that
\* was signed cannot be signed again (sign_execution_plan, verify_execution_plan).
SignedPlanVerifies ==
    /\ plan.kind /\ plan.sig # None
    /\ plan.sig.digest = plan.payload /\ plan.sig.over = plan.payload
    /\ root # "file"
    /\ trust[plan.sig.id] \notin {Absent, Torn}
    /\ trust[plan.sig.id].id = plan.sig.id /\ trust[plan.sig.id].key = plan.sig.key
    /\ trust[plan.sig.id].tier # "local-dev"
    => verify_execution_plan = Ok /\ sign_execution_plan # Ok

\* Signing and verifying fit together: plans verify if, and only if, they were signed.
PlansVerifyIffSigned == VerifiedPlanWasSigned /\ SignedPlanVerifies

\* docs/command-language.md calls `guild show` the summary path for objects too: a stored
\* object whose neighbours are readable can be shown by its URI. resolve_object_blob_exact
\* compares the label `sha256:<hex>` of the stored record with the bare digest.
StoredObjectsCanBeShown ==
    out # None /\ out.name = "show" /\ out.ref.kind = "object uri" =>
        (blobs[out.ref.id] = "whole" /\ list_object_blobs = Ok => out.code = Ok)

================================================================================
