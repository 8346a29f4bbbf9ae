------------------------------- MODULE CliErrors -------------------------------
(***************************************************************************)
(* How the `guild` command line turns a failure into what a person reads:  *)
(* one of seven labels and a list of next steps                            *)
(* (crates/guild-mcp/src/cli.rs).                                          *)
(*                                                                         *)
(* A failure carries the registry's reason code, or, when the command line *)
(* itself made the message, a name for that message ("ref ..." below).     *)
(* The code's tests on prefixes and on substrings of the message are       *)
(* written as the set of codes or messages they hold for; every reason     *)
(* code has one fixed message.                                             *)
(***************************************************************************)
EXTENDS FiniteSets

Categories == {"usage", "root/setup", "lookup/ambiguity", "authority denial",
               "trust/verification", "runtime/compatibility", "resource/read"}

(***************************************************************************)
(* Messages the command line makes itself (CliError::new).                 *)
(***************************************************************************)
UnmatchedRefs == {"execution ref unmatched", "evidence ref unmatched",
                  "object ref unmatched", "short skill ref unmatched"}
AmbiguousRefs == {"execution ref ambiguous", "evidence ref ambiguous",
                  "object ref ambiguous", "short skill ref ambiguous"}
OtherMessages == {"unsupported resource ref", "not an execution ref", "skill ref invalid",
                  "query refs need get", "trusted publisher not present",
                  "registry root does not exist yet", "bad arguments"}
Messages == UnmatchedRefs \cup AmbiguousRefs \cup OtherMessages

classify_cli_message(m) ==
    CASE m \in {"registry root does not exist yet"} -> "root/setup"
      [] m \in AmbiguousRefs \cup {"short skill ref unmatched", "skill-not-found"}
           -> "lookup/ambiguity"
      [] m \in UnmatchedRefs \cup {"unsupported resource ref", "execution-not-found",
                                   "object-not-found"} -> "resource/read"
      [] m \in {"trusted publisher not present"} -> "lookup/ambiguity"
      [] OTHER -> "usage"

\* Mutant: the message for a missing root has no hint.
next_steps_for_summary_no_root_hint(m) ==
    m \in (UnmatchedRefs \cup {"short skill ref ambiguous", "execution ref ambiguous",
                               "unsupported resource ref", "trusted publisher not present"})

next_steps_for_summary(m) ==
    m \in (UnmatchedRefs \cup {"short skill ref ambiguous", "execution ref ambiguous",
                               "unsupported resource ref", "trusted publisher not present",
                               "registry root does not exist yet"})

(***************************************************************************)
(* Reason codes of the registry.                                           *)
(***************************************************************************)
PolicyCodes == {"policy-read-failed", "policy-parse-failed", "policy-invalid"}
TrustRecordCodes == {"trusted-publisher-read-failed", "trusted-publisher-parse-failed",
                     "trusted-publisher-id-mismatch", "trusted-publisher-tier-invalid"}
PlanCodes == {"execution-plan-invalid", "execution-plan-already-signed",
              "execution-plan-publisher-untrusted", "execution-plan-signature-missing",
              "execution-plan-signature-publisher-mismatch",
              "execution-plan-signature-digest-mismatch", "execution-plan-signature-invalid"}
ObjectCodes == {"object-not-found", "object-metadata-read-failed",
                "object-metadata-parse-failed"}
SourceCodes == {"source-root-missing", "invalid-source-manifest"}
BuildCodes == {"dependency-resolution-failed", "build-failed"}
ImportCodes == {"bundle-publisher-untrusted", "bundle-signature-invalid",
                "artifact-digest-mismatch"}
DecodeCodes == {"oci-layout-blob-missing"}

is_bundle_integrity_error_code(code) ==
    code \in {"artifact-digest-mismatch", "bundle-signature-invalid"} \cup DecodeCodes

classify_registry_error_category(code) ==
    CASE code \in {"registry-root-missing"} \cup PolicyCodes \cup TrustRecordCodes -> "root/setup"
      [] \/ code \in PlanCodes
         \/ code \in {"trusted-publisher-missing", "bundle-publisher-untrusted"}
         \/ is_bundle_integrity_error_code(code) -> "trust/verification"
      [] code \in {"execution-not-found"} \cup ObjectCodes -> "resource/read"
      [] code \in {"skill-not-found", "skill-version-ambiguous"} -> "lookup/ambiguity"
      [] OTHER -> classify_cli_message(code)

next_steps_for_reason_code(code) ==
    \/ code \in SourceCodes \cup BuildCodes \cup {"invalid-manifest", "source-skill-not-installed"}
    \/ code \in {"execution-not-found", "object-not-found"}
    \/ code \in PolicyCodes \cup TrustRecordCodes
    \/ code \in {"execution-plan-publisher-untrusted", "bundle-publisher-untrusted"}
    \/ code \in PlanCodes
    \/ is_bundle_integrity_error_code(code)

next_steps_for_category(category) == category \notin {"usage", "root/setup"}

\* The follow-up only `guild run` adds (next_steps_for_mcp_follow_up).
next_steps_for_mcp_follow_up(category) ==
    category \in {"authority denial", "runtime/compatibility", "trust/verification"}

\* Whether a failure leaves at least one next step. `uri` says that the failed
\* run left a receipt; it is looked at for failures of `guild run` only.
remediation_for_failure(code, category, origin, uri) ==
    \/ origin = "mcp" /\ uri
    \/ origin \in {"registry", "mcp"} /\ next_steps_for_reason_code(code)
    \/ next_steps_for_summary(code)
    \/ origin = "mcp" /\ next_steps_for_mcp_follow_up(category)
    \/ next_steps_for_category(category)

\* A failed run: the code comes from the runner.
DeniedCodes == {"policy-denied", "policy-parse-failed", "policy-invalid", "policy-read-failed",
                "capability-not-granted"}
RuntimeCodes == {"unsupported-runtime", "component-abi-mismatch", "unsupported-runtime-surface"}

classify_mcp_error_category(code) ==
    CASE code \in DeniedCodes -> "authority denial"
      [] code \in RuntimeCodes -> "runtime/compatibility"
      [] code \in PlanCodes -> "trust/verification"
      [] OTHER -> classify_cli_message(code)

Failure(code, category, origin, uri) ==
    [code |-> code, category |-> category,
     steps |-> remediation_for_failure(code, category, origin, uri)]

cli_error_new(message) == Failure(message, classify_cli_message(message), "message", FALSE)

cli_error_from_registry(code) ==
    Failure(code, classify_registry_error_category(code), "registry", FALSE)

cli_error_from_mcp(code, uri) == Failure(code, classify_mcp_error_category(code), "mcp", uri)

missing_registry_root_error ==
    Failure("registry root does not exist yet", "root/setup", "manual", FALSE)

================================================================================
