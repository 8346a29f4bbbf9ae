--------------------------- MODULE InstalledState ---------------------------
(***************************************************************************)
(* The installed state of a guild-registry root: source installs, imports  *)
(* of signed bundles (from a directory or reconstructed from an OCI        *)
(* artifact) and the trust store, with several processes at work on one    *)
(* root.  Every step is one file operation, or a scan that only reads.     *)
(*                                                                         *)
(* A skill directory holds manifest.json, the artifact and, when imported, *)
(* the verification.json sidecar.  An installed manifest differs from      *)
(* another one of the same digest in the dependencies it pins, so it is    *)
(* the set of those.  The artifact is named by its digest, so it is there  *)
(* or not; support files go with it.                                       *)
(***************************************************************************)
EXTENDS Naturals, Sequences, FiniteSets

CONSTANTS
    Ref,         \* resolved references: [key, version, digest]
    Source,      \* source skills: [ref, requires], requires a set of [key, versions]
    Bundle,      \* signed bundles: [publisher, signing_key, root_skill, closure, skills]
    Publisher,
    PublicKey,   \* the keys that administrators trust
    TrustAtStart,
    Installer, Importer, Admin,
    Origins,     \* where importers take bundles from, a subset of Origin
    CanCrash,    \* processes may die between two steps
    Absent, Partial, None

Origin == {"directory", "oci_layout", "oci_registry"}
Process == Installer \cup Importer \cup Admin
Manifest == SUBSET Ref
Files == {"manifest", "artifact"}
SkillDir == [manifest: {Absent} \cup Manifest, artifact: BOOLEAN,
             sidecar: {Absent, Partial} \cup Bundle]

ASSUME Shapes ==
    /\ \A s \in Source : s.ref \in Ref
    /\ \A b \in Bundle :
        /\ b.skills \in Seq([ref: Ref, manifest: Manifest])
        /\ b.publisher \in Publisher /\ b.signing_key \notin {Absent, Partial}
    /\ TrustAtStart \in [Publisher -> {Absent, Partial} \cup PublicKey]
    /\ Origins \subseteq Origin

ASSUME Roles ==
    Installer \cap Importer = {} /\ Installer \cap Admin = {} /\ Importer \cap Admin = {}

ASSUME FileStates ==
    /\ Absent # Partial /\ None # Absent
    /\ \A v \in {Absent, Partial, None} :
        v \notin Bundle /\ \A dependencies \in Manifest : v # dependencies

ASSUME AbsentDir == Absent \notin SkillDir

VARIABLES
    dir,          \* installed/<key>/<version>/<digest>, per reference
    staging,      \* .bundle-import-staging, shared by all importers
    oci,          \* the bundle rebuilt in each OCI staging directory
    trust,        \* the key in trust/publishers/<id>.json
    loaded,       \* <<reference, manifest>> that installs and imports returned
    pc,
    job,          \* the source, bundle or publisher that a process works on
    manifest,     \* an installer's dependencies, as resolved
    origin,       \* where an importer reads its bundle
    position,     \* the bundled skill an importer is at
    copied,       \* the files of that skill that it has copied
    exclusive     \* no source install was ever at work, and no two imports at once; in no
                  \* process, for properties to refer to

local == <<job, manifest, origin, position, copied>>
vars == <<dir, staging, oci, trust, loaded, pc, local, exclusive>>

Init ==
    /\ dir = [r \in Ref |-> Absent]
    /\ staging = [r \in Ref |-> Absent]
    /\ oci = [o \in Origin \ {"directory"} |-> Absent]
    /\ trust = TrustAtStart
    /\ loaded = {}
    /\ pc = [p \in Process |-> "idle"]
    /\ job = [p \in Process |-> None]
    /\ manifest = [p \in Process |-> {}]
    /\ origin = [p \in Process |-> "directory"]
    /\ position = [p \in Process |-> 0]
    /\ copied = [p \in Process |-> {}]
    /\ exclusive = TRUE

Goto(p, from, to) == pc[p] = from /\ pc' = [pc EXCEPT ![p] = to]

\* An operation is over, and its local variables with it.
Forget(p) ==
    /\ job' = [job EXCEPT ![p] = None]
    /\ manifest' = [manifest EXCEPT ![p] = {}]
    /\ origin' = [origin EXCEPT ![p] = "directory"]
    /\ position' = [position EXCEPT ![p] = 0]
    /\ copied' = [copied EXCEPT ![p] = {}]

Return(p, from) == Goto(p, from, "idle") /\ Forget(p)

-----------------------------------------------------------------------------
(* Loading *)

HasManifest(r) == dir[r] # Absent /\ dir[r].manifest # Absent
Whole(r) == HasManifest(r) /\ dir[r].artifact

\* No sidecar is fine, one that does not parse is not.
load_verification_record(r) == dir[r].sidecar # Partial

\* derive_installed_trust_metadata: a publisher that is not trusted is no error, a
\* record that does not parse is.
TrustReadable(r) == dir[r].sidecar \in Bundle => trust[dir[r].sidecar.publisher] # Partial

load_manifest(r) == Whole(r) /\ load_verification_record(r) /\ TrustReadable(r)

\* One directory that does not load fails the whole registry; a directory without
\* manifest.json is not noticed.
load == \A r \in Ref : HasManifest(r) => load_manifest(r)

Installed == {r \in Ref : HasManifest(r)}

\* Mutant: skills that are not installed are candidates, too.
Candidates_known(req) == {r \in Ref : r.key = req.key /\ r.version \in req.versions}

Candidates(req) == {r \in Installed : r.key = req.key /\ r.version \in req.versions}
Newest(refs) == {r \in refs : \A s \in refs : s.version <= r.version}

\* resolve: the highest matching version, which must have one digest.
Resolves(req) == Cardinality(Newest(Candidates(req))) = 1
resolve(req) == CHOOSE r \in Newest(Candidates(req)) : TRUE

SameRelease(r, s) == r.key = s.key /\ r.version = s.version

-----------------------------------------------------------------------------
(* LocalInstaller::install *)

resolve_source_dependencies(s) == {resolve(req) : req \in s.requires}

\* The registry loads, the dependencies resolve; then the artifact is built and
\* staged in a directory of this call's own.
install(p) ==
    \E s \in Source :
        /\ load
        /\ \A req \in s.requires : Resolves(req)
        /\ Goto(p, "idle", "staged")
        /\ job' = [job EXCEPT ![p] = s]
        /\ manifest' = [manifest EXCEPT ![p] = resolve_source_dependencies(s)]
        /\ UNCHANGED <<dir, staging, oci, trust, loaded, origin, position, copied>>

\* An existing directory is reused when it loads and holds the same manifest, and is
\* an error otherwise.  It is loaded with itself as the root, where there is no trust
\* store.
reusable_existing_install(p) ==
    LET r == job[p].ref
        reusable == /\ Whole(r) /\ load_verification_record(r)
                    /\ dir[r].manifest = manifest[p]
    IN /\ pc[p] = "staged"
       /\ IF dir[r] = Absent
          THEN Goto(p, "staged", "move") /\ UNCHANGED <<loaded, local>>
          ELSE /\ Return(p, "staged")
               /\ loaded' = IF reusable THEN loaded \cup {<<r, manifest[p]>>} ELSE loaded
       /\ UNCHANGED <<dir, staging, oci, trust>>

StagedInstall(p) == [manifest |-> manifest[p], artifact |-> TRUE, sidecar |-> Absent]

\* Mutant: the move replaces a directory that appeared meanwhile.
move_staged_install_replacing(p) ==
    /\ Goto(p, "move", "load")
    /\ dir' = [dir EXCEPT ![job[p].ref] = StagedInstall(p)]
    /\ UNCHANGED <<staging, oci, trust, loaded, local>>

\* The rename does not replace a directory that has files in it.
move_staged_install(p) ==
    LET r == job[p].ref
    IN /\ pc[p] = "move"
       /\ IF dir[r] = Absent
          THEN /\ Goto(p, "move", "load")
               /\ dir' = [dir EXCEPT ![r] = StagedInstall(p)]
               /\ UNCHANGED local
          ELSE Return(p, "move") /\ UNCHANGED dir
       /\ UNCHANGED <<staging, oci, trust, loaded>>

\* What was installed is loaded and returned.
LoadInstalled(p) ==
    LET r == job[p].ref
    IN /\ pc[p] = "load"
       /\ Return(p, "load")
       /\ loaded' = IF load_manifest(r) THEN loaded \cup {<<r, dir[r].manifest>>} ELSE loaded
       /\ UNCHANGED <<dir, staging, oci, trust>>

-----------------------------------------------------------------------------
(* import_bundle *)

Refs(b) == {b.skills[i].ref : i \in DOMAIN b.skills}
Pins(b, r) == UNION {b.skills[i].manifest : i \in {j \in DOMAIN b.skills : b.skills[j].ref = r}}

\* validate_bundle, on what the index and the bundled manifests say.
validate_bundle(b) ==
    /\ \A i, j \in DOMAIN b.skills : b.skills[i].ref = b.skills[j].ref => i = j
    /\ b.root_skill \in Refs(b)
    /\ b.closure => \E walked \in SUBSET Refs(b) :
                        /\ b.root_skill \in walked
                        /\ \A r \in walked : Pins(b, r) \subseteq walked

\* load_trusted_publisher and verify_bundle_signature.
verify_bundle_signature(b) == trust[b.publisher] = b.signing_key

Conflicts(r) == {s \in Installed : SameRelease(r, s) /\ s # r}

\* The registry loads, a target that exists is the same install, and no other digest
\* of the version is installed.
validate_import_targets(b) ==
    /\ load
    /\ \A r \in Refs(b) :
        /\ dir[r] # Absent => load_manifest(r) /\ dir[r].manifest = Pins(b, r)
        /\ Conflicts(r) = {}

\* The bundle as the importer finds it now: an OCI staging directory is shared.
AtHand(p) == IF origin[p] = "directory" THEN job[p] ELSE oci[origin[p]]

Begin(p) ==
    \E b \in Bundle, o \in Origins :
        /\ Goto(p, "idle", IF o = "directory" THEN "verify" ELSE "rebuild")
        /\ job' = [job EXCEPT ![p] = b]
        /\ origin' = [origin EXCEPT ![p] = o]
        /\ UNCHANGED <<dir, staging, oci, trust, loaded, manifest, position, copied>>

\* import_decoded_oci_artifact removes what an earlier import left and writes anew.
RebuildBundle(p) ==
    /\ pc[p] \in {"rebuild", "write_bundle"}
    /\ IF pc[p] = "rebuild"
       THEN /\ pc' = [pc EXCEPT ![p] = "write_bundle"]
            /\ oci' = [oci EXCEPT ![origin[p]] = Partial]
       ELSE /\ pc' = [pc EXCEPT ![p] = "verify"]
            /\ oci' = [oci EXCEPT ![origin[p]] = job[p]]
    /\ UNCHANGED <<dir, staging, trust, loaded, local>>

\* The index and its signature are read, then the trusted publisher.
VerifyBundle(p) ==
    /\ pc[p] = "verify"
    /\ IF AtHand(p) \in Bundle /\ verify_bundle_signature(AtHand(p))
       THEN Goto(p, "verify", "validate") /\ job' = [job EXCEPT ![p] = AtHand(p)]
       ELSE Goto(p, "verify", "discard") /\ UNCHANGED job
    /\ UNCHANGED <<dir, staging, oci, trust, loaded, manifest, origin, position, copied>>

\* The bundled files must be the ones that the index lists.
ValidateBundle(p) ==
    /\ Goto(p, "validate",
            IF AtHand(p) = job[p] /\ validate_bundle(job[p]) THEN "targets" ELSE "discard")
    /\ UNCHANGED <<dir, staging, oci, trust, loaded, local>>

\* Mutant: the targets are not examined.
ValidateTargets_skipped(p) ==
    /\ Goto(p, "targets", "reset")
    /\ UNCHANGED <<dir, staging, oci, trust, loaded, local>>

ValidateTargets(p) ==
    /\ pc[p] = "targets"
    /\ Goto(p, "targets", IF validate_import_targets(job[p]) THEN "reset" ELSE "discard")
    /\ UNCHANGED <<dir, staging, oci, trust, loaded, local>>

reset_import_staging_root(p) ==
    /\ Goto(p, "reset", "next")
    /\ staging' = [r \in Ref |-> Absent]
    /\ position' = [position EXCEPT ![p] = 0]
    /\ UNCHANGED <<dir, oci, trust, loaded, job, manifest, origin, copied>>

Current(p) == job[p].skills[position[p]]

\* The next bundled skill gets its directory in the staging area.
NextSkill(p) ==
    /\ pc[p] = "next"
    /\ IF position[p] = Len(job[p].skills)
       THEN Goto(p, "next", "cleanup") /\ UNCHANGED <<staging, position, copied>>
       ELSE LET r == job[p].skills[position[p] + 1].ref
            IN /\ Goto(p, "next", "copy")
               /\ position' = [position EXCEPT ![p] = @ + 1]
               /\ copied' = [copied EXCEPT ![p] = {}]
               /\ staging' = IF staging[r] # Absent THEN staging
                             ELSE [staging EXCEPT ![r] =
                                [manifest |-> Absent, artifact |-> FALSE, sidecar |-> Absent]]
    /\ UNCHANGED <<dir, oci, trust, loaded, job, manifest, origin>>

\* copy_dir_recursive copies what it finds, file by file; it fails when the skill is
\* not there any more, or when its own directory has gone.
CopyFile(p) ==
    LET r == Current(p).ref
        from == AtHand(p)
    IN /\ pc[p] = "copy"
       /\ copied[p] # Files
       /\ \E f \in Files \ copied[p] :
            \/ /\ staging[r] # Absent
               /\ from \in Bundle /\ r \in Refs(from)
               /\ staging' = [staging EXCEPT ![r] =
                    IF f = "manifest" THEN [@ EXCEPT !.manifest = Pins(from, r)]
                                      ELSE [@ EXCEPT !.artifact = TRUE]]
               /\ copied' = [copied EXCEPT ![p] = @ \cup {f}]
               /\ UNCHANGED pc
            \/ /\ staging[r] # Absent
               /\ from = Partial
               /\ copied' = [copied EXCEPT ![p] = @ \cup {f}]
               /\ UNCHANGED <<staging, pc>>
            \/ /\ staging[r] = Absent \/ from = Absent \/ from = Partial
                    \/ (from \in Bundle /\ r \notin Refs(from))
               /\ Goto(p, "copy", "cleanup")
               /\ UNCHANGED <<staging, copied>>
       /\ UNCHANGED <<dir, oci, trust, loaded, job, manifest, origin, position>>

\* target_dir.exists()
ProbeTarget(p) ==
    /\ pc[p] = "copy"
    /\ copied[p] = Files
    /\ Goto(p, "copy", IF dir[Current(p).ref] = Absent THEN "rename" ELSE "open_sidecar")
    /\ UNCHANGED <<dir, staging, oci, trust, loaded, local>>

\* The staged directory moves as it is; a target that has files makes it fail.
RenameStaged(p) ==
    LET r == Current(p).ref
    IN /\ pc[p] = "rename"
       /\ IF staging[r] # Absent /\ dir[r] = Absent
          THEN /\ Goto(p, "rename", "open_sidecar")
               /\ dir' = [dir EXCEPT ![r] = staging[r]]
               /\ staging' = [staging EXCEPT ![r] = Absent]
          ELSE Goto(p, "rename", "cleanup") /\ UNCHANGED <<dir, staging>>
       /\ UNCHANGED <<oci, trust, loaded, local>>

\* write_json truncates verification.json and then writes it (twice, when the
\* directory was there before).
OpenSidecar(p) ==
    /\ pc[p] = "open_sidecar"
    /\ Goto(p, "open_sidecar", "write_sidecar")
    /\ dir' = [dir EXCEPT ![Current(p).ref].sidecar = Partial]
    /\ UNCHANGED <<staging, oci, trust, loaded, local>>

\* ... and load_imported_bundle_skill reads the directory back.
WriteSidecar(p) ==
    LET r == Current(p).ref
    IN /\ pc[p] = "write_sidecar"
       /\ dir' = [dir EXCEPT ![r].sidecar = job[p]]
       /\ IF Whole(r) /\ trust[job[p].publisher] # Partial
          THEN /\ Goto(p, "write_sidecar", "next")
               /\ loaded' = loaded \cup {<<r, dir[r].manifest>>}
          ELSE Goto(p, "write_sidecar", "cleanup") /\ UNCHANGED loaded
       /\ UNCHANGED <<staging, oci, trust, local>>

\* The staging directory is removed on success and on failure.
cleanup_import_staging_root(p) ==
    /\ Goto(p, "cleanup", "discard")
    /\ staging' = [r \in Ref |-> Absent]
    /\ UNCHANGED <<dir, oci, trust, loaded, local>>

\* ... and so is the rebuilt bundle of an OCI import.
DiscardBundle(p) ==
    /\ Return(p, "discard")
    /\ oci' = IF origin[p] = "directory" THEN oci ELSE [oci EXCEPT ![origin[p]] = Absent]
    /\ UNCHANGED <<dir, staging, trust, loaded>>

-----------------------------------------------------------------------------
(* The trust store *)

trust_publisher(p) ==
    \E publisher \in Publisher :
        /\ Goto(p, "idle", "write_trust")
        /\ job' = [job EXCEPT ![p] = publisher]
        /\ trust' = [trust EXCEPT ![publisher] = Partial]
        /\ UNCHANGED <<dir, staging, oci, loaded, manifest, origin, position, copied>>

WriteTrusted(p) ==
    /\ Return(p, "write_trust")
    /\ \E key \in PublicKey : trust' = [trust EXCEPT ![job[p]] = key]
    /\ UNCHANGED <<dir, staging, oci, loaded>>

remove_trusted_publisher(p) ==
    /\ pc[p] = "idle"
    /\ \E publisher \in Publisher : trust' = [trust EXCEPT ![publisher] = Absent]
    /\ UNCHANGED <<dir, staging, oci, loaded, pc, local>>

-----------------------------------------------------------------------------
Crash(p) ==
    /\ CanCrash
    /\ pc[p] # "idle"
    /\ Return(p, pc[p])
    /\ UNCHANGED <<dir, staging, oci, trust, loaded>>

InstallStep(p) == reusable_existing_install(p) \/ move_staged_install(p) \/ LoadInstalled(p)

ImportStep(p) ==
    \/ RebuildBundle(p) \/ VerifyBundle(p) \/ ValidateBundle(p) \/ ValidateTargets(p)
    \/ reset_import_staging_root(p) \/ NextSkill(p) \/ CopyFile(p) \/ ProbeTarget(p)
    \/ RenameStaged(p) \/ OpenSidecar(p) \/ WriteSidecar(p)
    \/ cleanup_import_staging_root(p) \/ DiscardBundle(p)

Step ==
    \/ \E p \in Installer : install(p) \/ InstallStep(p)
    \/ \E p \in Importer : Begin(p) \/ ImportStep(p)
    \/ \E p \in Admin : trust_publisher(p) \/ WriteTrusted(p) \/ remove_trusted_publisher(p)
    \/ \E p \in Process : Crash(p)

\* Imports have the root to themselves, one at a time.
OneImport ==
    /\ \A p \in Installer : pc[p] = "idle"
    /\ \A p, q \in Importer : pc[p] # "idle" /\ pc[q] # "idle" => p = q

Observe == exclusive' = (exclusive /\ OneImport')

Next == Step /\ Observe

Spec == Init /\ [][Next]_vars

-----------------------------------------------------------------------------
(* Properties *)

\* The directories hold what their kind can hold and every process is at a step of
\* its own operation.
TypeOK ==
    /\ dir \in [Ref -> {Absent} \cup SkillDir]
    /\ staging \in [Ref -> {Absent} \cup SkillDir]
    /\ oci \in [Origin \ {"directory"} -> {Absent, Partial} \cup Bundle]
    /\ trust \in [Publisher -> {Absent, Partial} \cup PublicKey]
    /\ loaded \subseteq Ref \X Manifest
    /\ \A p \in Installer : pc[p] \in {"idle", "staged", "move", "load"}
    /\ \A p \in Admin : pc[p] \in {"idle", "write_trust"}
    /\ \A p \in Importer : pc[p] \in
        {"idle", "rebuild", "write_bundle", "verify", "validate", "targets", "reset", "next",
         "copy", "rename", "open_sidecar", "write_sidecar", "cleanup", "discard"}
    /\ \A p \in Process : copied[p] \subseteq Files /\ manifest[p] \subseteq Ref

\* Installed state is a create-only store of manifests, whatever processes do to one
\* another: a whole directory is never replaced or taken apart, and what an install
\* or an import returned stays what it returned.
Catalog == INSTANCE RecordStore WITH
    Id <- Ref,
    stored <- [r \in Ref |-> IF Whole(r) THEN dir[r].manifest ELSE None],
    told <- loaded

\* The refinement above, as the property that runs check.
InstalledIsImmutable == Catalog!Spec

\* A directory under installed/ has all of its files from the moment it is visible:
\* ADR 0004, "import does not expose partially validated executable state as installed
\* state", and SPECS.md on source installs that move into installed state atomically.
\* Holds for source installs; two imports at a time break it.
InstalledIsWhole == \A r \in Ref : dir[r] # Absent => Whole(r)

\* A source install stands on installed state: from the resolution on, the dependencies
\* that it pins are whole directories, and what it has moved into place is whole with
\* the manifest that it resolved, whatever imports and other installs do meanwhile.
InstallsStandOnInstalled ==
    \A p \in Installer :
        /\ \A d \in manifest[p] : Whole(d)
        /\ pc[p] = "load" => Whole(job[p].ref) /\ dir[job[p].ref].manifest = manifest[p]

\* A sidecar vouches for what it lies beside: the bundle that it names carried this
\* skill with this manifest and was signed with a key that was trusted; ADR 0004,
\* "import verifies trust, signature, and bundled file digests before installation".
\* Holds for an import that has the root to itself, whatever becomes of trust and
\* whenever it dies; a source install at the same time breaks it.
SidecarVouches ==
    \A r \in Ref : dir[r] # Absent /\ dir[r].sidecar \in Bundle =>
        /\ r \in Refs(dir[r].sidecar)
        /\ dir[r].manifest = Pins(dir[r].sidecar, r)
        /\ dir[r].sidecar.signing_key \in PublicKey

\* Imports never leave two digests of one version behind, which would make every later
\* request for that version fail as ambiguous.  Neither validate_bundle nor
\* validate_import_targets compares the skills of a bundle with one another, so this takes
\* bundles that carry one digest of a version each.
BundlesAreUnambiguous == \A b \in Bundle : \A r, s \in Refs(b) : SameRelease(r, s) => r = s
VersionsAreUnambiguous ==
    BundlesAreUnambiguous => \A r, s \in Installed : SameRelease(r, s) => r = s

\* What imports leave on a root of their own: honest sidecars and unambiguous versions,
\* through crashes, failed imports and edits of the trust store.
ImportsAloneAreSound == exclusive => SidecarVouches /\ VersionsAreUnambiguous
=============================================================================
