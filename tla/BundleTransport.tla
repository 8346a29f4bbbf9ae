--------------------------- MODULE BundleTransport ---------------------------
(***************************************************************************)
(* How installed skills travel: exported as a signed bundle directory, as  *)
(* an OCI image layout, or pushed to an OCI registry; and previewed,       *)
(* imported or pulled into another registry root.  Exporters run side by   *)
(* side and may write to the same place, die between or inside two writes, *)
(* or see the files that they export change under them; a file of what     *)
(* they wrote may be damaged later; the registry may drop what no tag      *)
(* reaches.                                                                *)
(*                                                                         *)
(* A digest is the content it is the digest of.  A path is a pair of a     *)
(* skill, for its install directory, and a file name.  An import is one    *)
(* step here; InstalledState models it file by file.                       *)
(***************************************************************************)
EXTENDS Sequences

CONSTANTS
    Skills, DependsOn,      \* the skills and, for each, the skills it depends on
    Publisher,              \* the publisher of each skill
    SameVersion(_, _),      \* two skills with the same key and version, but another digest
    Signer,                 \* the publisher whose key the exporters hold
    Exporters, Roots,       \* who exports, and which skills
    SupportFiles,           \* the local support files of each skill (schemas, examples)
    TargetSkillsAtStart,    \* one of these may be installed in the target already
    Bad,                    \* what half a file holds
    None

VARIABLES
    installed,      \* the skills of the root that is exported from
    source,         \* the content of its files
    exports,        \* per exporter: how far it is
    directory, layout, registry,        \* the three carriers
    pull,           \* a pull under way
    target,         \* the content of the files of the root that is imported into
    sidecars,       \* its verification.json files: the bundle that vouches for a skill
    damaged         \* a file of a carrier was damaged (a bound: at most one)

carriers == <<directory, layout, registry>>
vars == <<installed, source, exports, carriers, pull, target, sidecars, damaged>>

FilesOf(s) == {s} \X ({"artifact", "manifest"} \cup SupportFiles[s])
Verification == "verification"
Paths == UNION {FilesOf(s) \cup {<<s, Verification>>} : s \in Skills}

\* What a file may hold: what it held when the skill was built, something else (a manifest
\* with another description, an artifact with another digest), or half of it.
Good == "good"
Altered == "altered"

Kinds == {"bundle", "layout", "push"}
Files == UNION {[D -> {Good, Altered}] : D \in SUBSET Paths}
Bundles == [root_skill : Skills, includes_dependency_closure : BOOLEAN, publisher : {Signer},
            skills : SUBSET Skills, files : Files]
Signatures == [publisher_id : {Signer}, bundle_sha256 : Bundles]
Payloads == [bundle : Bundles, signature : Signatures]
Manifests == [config : Bundles, signature : Signatures, layers : Files, annotations : Skills]
Tags == [kind : {"manifest", "index"}, of : Manifests]
Artifacts == [bundle : Bundles, signature : Signatures, files : Files]

\* Dependencies are skills, no support file is called verification.json, and half a file
\* and no file are told apart from what is written.
ASSUME TransportAssumption ==
    /\ DependsOn \in [Skills -> SUBSET Skills] /\ Roots \cup TargetSkillsAtStart \subseteq Skills
    /\ \A s \in Skills : Verification \notin SupportFiles[s]
    /\ Bad # None /\ None \notin Kinds
    /\ \A mark \in {Bad, None} :
        /\ mark \notin {Good, Altered} /\ mark \notin Bundles /\ mark \notin Signatures
        /\ mark \notin Manifests /\ mark \notin Tags /\ mark \notin Artifacts

\* The publishers that the target root may trust when it imports.
TrustStores == {{}, {Signer}}

TargetSkills == {p[1] : p \in DOMAIN target}

-----------------------------------------------------------------------------
(* What is exported *)

\* The skills that a skill needs, itself included, as collect_bundle_skills walks them.
Closed(skills) == \A s \in skills : DependsOn[s] \subseteq skills

Needs ==
    [root \in Skills |->
        {s \in Skills : \A C \in SUBSET Skills : root \in C /\ Closed(C) => s \in C}]

\* None when a dependency is not installed.
collect_bundle_skills(root, include_dependencies) ==
    IF ~include_dependencies THEN {root}
    ELSE IF Needs[root] \subseteq installed THEN Needs[root] ELSE None

ensure_bundle_publisher_matches_signer(skills) == \A s \in skills : Publisher[s] = Signer

\* The files of one skill, without the sidecar that says how it was verified here.
collect_installed_dir_for_bundle(s) == {p \in DOMAIN source : p[1] = s /\ p[2] # Verification}

sign_bundle_payload(bundle) == [publisher_id |-> Signer, bundle_sha256 |-> bundle]

\* The bundle with the digests of its files as they are now, and its signature.
build_signed_bundle_payload(root, include_dependencies) ==
    LET skills == collect_bundle_skills(root, include_dependencies)
        bundle == [root_skill |-> root, includes_dependency_closure |-> include_dependencies,
                   publisher |-> Signer, skills |-> skills,
                   files |-> [p \in UNION {collect_installed_dir_for_bundle(s) : s \in skills}
                                |-> source[p]]]
    IN  IF skills = None \/ root \notin installed THEN None
        ELSE IF ~ensure_bundle_publisher_matches_signer(skills) THEN None
        ELSE [bundle |-> bundle, signature |-> sign_bundle_payload(bundle)]

-----------------------------------------------------------------------------
(* The writes of an exporter, in batches.  A file's bytes are read when it is written. *)

\* A batch: the things are written one after the other, always in the same order.
Writes(to, things) == [to |-> to, things |-> things]

Write(to, what) == Writes(to, {what})

NextThing(todo) == CHOOSE thing \in Head(todo).things : TRUE

\* What is left to do after the next write.
Rest(todo) ==
    LET left == Head(todo).things \ {NextThing(todo)}
    IN  IF left = {} THEN Tail(todo) ELSE [todo EXCEPT ![1] = Writes(Head(todo).to, left)]

write_portable_bundle_files(payload) == Writes("copy", DOMAIN payload.bundle.files)

export_bundle(payload) ==
    <<write_portable_bundle_files(payload),
      Write("bundle.json", payload.bundle), Write("bundle.signature.json", payload.signature)>>

\* The manifest of an OCI artifact.  None when a file is not any more what was signed.
build_oci_artifact(payload) ==
    IF \E p \in DOMAIN payload.bundle.files : source[p] # payload.bundle.files[p] THEN None
    ELSE [config |-> payload.bundle, signature |-> payload.signature,
          layers |-> payload.bundle.files, annotations |-> payload.bundle.root_skill]

Blobs(manifest) ==
    {[kind |-> "config", of |-> manifest.config], [kind |-> "signature", of |-> manifest.signature]}
        \cup {[kind |-> "file", of |-> <<p, manifest.layers[p]>>] : p \in DOMAIN manifest.layers}

\* Mutant: the index names a manifest that is not written.
export_oci_layout_no_manifest(manifest) ==
    <<Write("oci-layout", Good), Writes("blob", Blobs(manifest)), Write("index.json", manifest)>>

export_oci_layout(manifest) ==
    <<Write("oci-layout", Good), Writes("blob", Blobs(manifest)),
      Write("blob", [kind |-> "manifest", of |-> manifest]), Write("index.json", manifest)>>

push_oci_registry(manifest) ==
    <<Write("auth", None), Writes("blob", Blobs(manifest)),
      Write("tag", [kind |-> "manifest", of |-> manifest]),
      Write("tag", [kind |-> "index", of |-> manifest]), Write("verify", manifest)>>

-----------------------------------------------------------------------------
(* What is imported.  Each function of the source that refuses is a condition here. *)

Intact(content) == content \notin {Bad, None}

parse_bundle_index(bytes) ==
    Intact(bytes) /\ bytes.skills # {} /\ bytes.files # <<>>

\* The publisher is trusted and signed this index.
verify_bundle_signature(bundle, signature, trusted) ==
    /\ signature.publisher_id \in trusted
    /\ signature.publisher_id = bundle.publisher /\ signature.bundle_sha256 = bundle

Holds(files, p, contents) == p \in DOMAIN files /\ files[p] \in contents

\* load_manifest: the manifest parses, the artifact is the one it names, and its support
\* files are there.
validate_bundle_skill_entries(bundle, files) ==
    \A s \in bundle.skills :
        /\ Holds(files, <<s, "manifest">>, {Good, Altered}) /\ Publisher[s] = bundle.publisher
        /\ Holds(files, <<s, "artifact">>, {Good})
        /\ FilesOf(s) \subseteq DOMAIN files

validate_bundle_root_and_dependency_closure(bundle) ==
    /\ bundle.root_skill \in bundle.skills
    /\ bundle.includes_dependency_closure => Needs[bundle.root_skill] \subseteq bundle.skills

\* Mutant: files are there, whatever is in them.
validate_listed_bundle_files_present(bundle, files) == DOMAIN bundle.files \subseteq DOMAIN files

validate_listed_bundle_files(bundle, files) ==
    \A p \in DOMAIN bundle.files : Holds(files, p, {bundle.files[p]})

collect_actual_bundle_files(bundle, files) == {p \in DOMAIN files : p[1] \in bundle.skills}

validate_bundle(bundle, files) ==
    /\ validate_bundle_skill_entries(bundle, files)
    /\ validate_bundle_root_and_dependency_closure(bundle)
    /\ validate_listed_bundle_files(bundle, files)
    /\ collect_actual_bundle_files(bundle, files) = DOMAIN bundle.files
    /\ \A p \in DOMAIN bundle.files : p[2] # Verification

\* The same for the files of an OCI artifact, which are never written to disk for a preview.
decoded_installed_manifest(s, files) == Holds(files, <<s, "manifest">>, {Good, Altered})

validate_decoded_support_files(s, files) == FilesOf(s) \subseteq DOMAIN files

validate_decoded_bundle_skill_entries(bundle, files) ==
    \A s \in bundle.skills :
        /\ decoded_installed_manifest(s, files)
        /\ Holds(files, <<s, "artifact">>, {Good})
        /\ validate_decoded_support_files(s, files)
        /\ Publisher[s] = bundle.publisher

validate_decoded_listed_bundle_files(bundle, files) ==
    \A p \in DOMAIN bundle.files : Holds(files, p, {bundle.files[p]})

collect_decoded_bundle_files(bundle, files) == {p \in DOMAIN files : p[1] \in bundle.skills}

\* Mutant: the files of a previewed artifact are not looked at.
validate_decoded_bundle_index_only(bundle, files) == validate_bundle_root_and_dependency_closure(bundle)

validate_decoded_bundle(bundle, files) ==
    /\ validate_decoded_bundle_skill_entries(bundle, files)
    /\ validate_bundle_root_and_dependency_closure(bundle)
    /\ validate_decoded_listed_bundle_files(bundle, files)
    /\ \A p \in collect_decoded_bundle_files(bundle, files) : p[2] # Verification
    /\ collect_decoded_bundle_files(bundle, files) = DOMAIN bundle.files

\* What is there already is the same, and no skill has two digests for one version.
validate_import_targets(bundle) ==
    /\ \A s \in bundle.skills, t \in TargetSkills : ~SameVersion(s, t)
    /\ \A s \in bundle.skills \cap TargetSkills : target[<<s, "manifest">>] = bundle.files[<<s, "manifest">>]

\* import_bundle accepts these files.
Imports(bundle, signature, files, trusted) ==
    /\ parse_bundle_index(bundle) /\ Intact(signature)
    /\ verify_bundle_signature(bundle, signature, trusted)
    /\ validate_bundle(bundle, files) /\ validate_import_targets(bundle)

\* The decoded artifact of a manifest whose blobs were all loaded and compared with their
\* descriptors, or None.
parse_and_validate_root_index(index) == Intact(index) /\ index.kind = "index"

validate_root_descriptor_annotations(manifest) ==
    manifest.annotations = manifest.config.root_skill

decode_bundle_metadata(manifest) ==
    /\ parse_bundle_index(manifest.config) /\ validate_root_descriptor_annotations(manifest)
    /\ manifest.signature.bundle_sha256 = manifest.config

decode_file_layers(manifest) == manifest.layers = manifest.config.files

decode_oci_artifact(manifest) ==
    IF decode_bundle_metadata(manifest) /\ decode_file_layers(manifest)
    THEN [bundle |-> manifest.config, signature |-> manifest.signature, files |-> manifest.layers]
    ELSE None

\* A blob of the layout is there and is what its descriptor says.
read_oci_blob_bytes(blob) == blob \in DOMAIN layout.blobs /\ layout.blobs[blob]

LayoutManifest == layout.index

\* The artifact in the layout, or None.
DecodedLayout ==
    IF layout.metadata # Good \/ ~Intact(LayoutManifest) THEN None
    ELSE IF ~read_oci_blob_bytes([kind |-> "manifest", of |-> LayoutManifest]) THEN None
    ELSE IF \E b \in Blobs(LayoutManifest) : ~read_oci_blob_bytes(b) THEN None
    ELSE decode_oci_artifact(LayoutManifest)

\* import_oci_layout writes the artifact out as a bundle and imports that.
LayoutImports(trusted) ==
    DecodedLayout # None /\ Imports(DecodedLayout.bundle, DecodedLayout.signature, DecodedLayout.files, trusted)

\* What previews say: preview_bundle_import with the validation that goes with the carrier.
preview_bundle_import(bundle, signature, valid, trusted) ==
    verify_bundle_signature(bundle, signature, trusted) /\ valid /\ validate_import_targets(bundle)

preview_import_bundle(trusted) ==
    /\ parse_bundle_index(directory.index) /\ Intact(directory.signature)
    /\ preview_bundle_import(directory.index, directory.signature,
                             validate_bundle(directory.index, directory.files), trusted)

preview_decoded_oci_artifact(d, trusted) ==
    preview_bundle_import(d.bundle, d.signature, validate_decoded_bundle(d.bundle, d.files), trusted)

preview_import_oci_layout(trusted) ==
    DecodedLayout # None /\ preview_decoded_oci_artifact(DecodedLayout, trusted)

\* The manifest and its blobs are in the registry under their digests.
fetch_registry_blobs(manifest) ==
    {[kind |-> "manifest", of |-> manifest]} \cup Blobs(manifest) \subseteq registry.blobs

PullImports(manifest, trusted) ==
    LET d == decode_oci_artifact(manifest)
    IN  fetch_registry_blobs(manifest) /\ d # None /\ Imports(d.bundle, d.signature, d.files, trusted)

preview_pull_oci_registry(manifest, trusted) ==
    LET d == decode_oci_artifact(manifest)
    IN  fetch_registry_blobs(manifest) /\ d # None /\ preview_decoded_oci_artifact(d, trusted)

-----------------------------------------------------------------------------
EmptyDirectory(created) == [index |-> None, signature |-> None, files |-> <<>>, created |-> created]
EmptyLayout(created) == [metadata |-> None, index |-> None, blobs |-> <<>>, created |-> created]
EmptyRegistry == [tag |-> None, blobs |-> {}]
NotStarted == [pc |-> "idle", kind |-> None, payload |-> None, todo |-> <<>>]

TypeOK ==
    /\ installed \subseteq Skills /\ source \in Files /\ DOMAIN exports = Exporters
    /\ \A e \in Exporters :
        /\ exports[e].pc \in {"idle", "prepare", "write", "done", "failed", "dead"}
        /\ exports[e].kind \in Kinds \cup {None} /\ exports[e].payload \in Payloads \cup {None}
    /\ directory \in [index : Bundles \cup {Bad, None}, signature : Signatures \cup {Bad, None},
                      files : UNION {[D -> {Good, Altered, Bad}] : D \in SUBSET Paths}, created : BOOLEAN]
    /\ layout.metadata \in {Good, Bad, None} /\ layout.index \in Manifests \cup {Bad, None}
    /\ \A b \in DOMAIN layout.blobs : layout.blobs[b] \in BOOLEAN
    /\ registry.tag \in Tags \cup {None} /\ pull \in Manifests \cup {None} /\ damaged \in BOOLEAN
    /\ target \in Files /\ \A s \in DOMAIN sidecars : s \in TargetSkills /\ sidecars[s] \in Bundles

Init ==
    /\ installed \in {Skills, {s \in Skills : DependsOn[s] # {}}}
    /\ source = [p \in {q \in Paths : q[1] \in installed /\ (q[2] = Verification => DependsOn[q[1]] = {})} |-> Good]
    /\ exports = [e \in Exporters |-> NotStarted]
    /\ directory = EmptyDirectory(FALSE) /\ layout = EmptyLayout(FALSE) /\ registry = EmptyRegistry
    /\ pull = None /\ sidecars = <<>> /\ damaged = FALSE
    /\ target \in {<<>>} \cup {[p \in FilesOf(s) |-> Good] : s \in TargetSkillsAtStart}

Reaches(e, pc, todo) ==
    exports' = [exports EXCEPT ![e] = [pc |-> pc, kind |-> exports[e].kind,
                                       payload |-> exports[e].payload, todo |-> todo]]

Fails(e) == Reaches(e, "failed", exports[e].todo)

\* Someone edits a file of the root under an export (a bound: one file, once).
SourceChanges ==
    /\ \E e \in Exporters : exports[e].pc \in {"prepare", "write"}
    /\ \A p \in DOMAIN source : source[p] = Good
    /\ \E p \in DOMAIN source : source' = [source EXCEPT ![p] = Altered]
    /\ UNCHANGED <<installed, exports, carriers, pull, target, sidecars, damaged>>

\* build_signed_bundle_payload.  Exporters to different carriers have nothing to do with
\* each other, so all write to the same one (a bound).
StartExport(e, kind, root, include_dependencies) ==
    /\ exports[e].pc = "idle" /\ \A f \in Exporters : exports[f].kind \in {None, kind}
    /\ LET payload == build_signed_bundle_payload(root, include_dependencies)
       IN  IF payload = None THEN Fails(e)
           ELSE exports' = [exports EXCEPT ![e] = [pc |-> "prepare", kind |-> kind,
                                                   payload |-> payload, todo |-> <<>>]]
    /\ UNCHANGED <<installed, source, carriers, pull, target, sidecars, damaged>>

\* prepare_bundle_root: the directory is absent or empty.
prepare_bundle_root(e) ==
    /\ exports[e].pc = "prepare" /\ exports[e].kind = "bundle"
    /\ IF directory # EmptyDirectory(directory.created)
       THEN Fails(e) /\ UNCHANGED directory
       ELSE /\ Reaches(e, "write", export_bundle(exports[e].payload))
            /\ directory' = [directory EXCEPT !.created = TRUE]
    /\ UNCHANGED <<installed, source, layout, registry, pull, target, sidecars, damaged>>

prepare_oci_layout_root(e) ==
    /\ exports[e].pc = "prepare" /\ exports[e].kind = "layout"
    /\ LET manifest == build_oci_artifact(exports[e].payload)
       IN  IF manifest = None \/ layout # EmptyLayout(layout.created)
           THEN Fails(e) /\ UNCHANGED layout
           ELSE /\ Reaches(e, "write", export_oci_layout(manifest))
                /\ layout' = [layout EXCEPT !.created = TRUE]
    /\ UNCHANGED <<installed, source, directory, registry, pull, target, sidecars, damaged>>

prepare_push(e) ==
    /\ exports[e].pc = "prepare" /\ exports[e].kind = "push"
    /\ LET manifest == build_oci_artifact(exports[e].payload)
       IN  IF manifest = None THEN Fails(e) ELSE Reaches(e, "write", push_oci_registry(manifest))
    /\ UNCHANGED <<installed, source, carriers, pull, target, sidecars, damaged>>

\* What a write leaves behind: what was to be written, or half of it.
WriteDirectory(to, what, content) ==
    directory' = IF to = "copy"
                 THEN [directory EXCEPT !.files =
                        [p \in DOMAIN @ \cup {what} |-> IF p = what THEN content ELSE @[p]]]
                 ELSE IF to = "bundle.json" THEN [directory EXCEPT !.index = content]
                 ELSE [directory EXCEPT !.signature = content]

WriteLayout(to, what, whole) ==
    layout' = IF to = "oci-layout" THEN [layout EXCEPT !.metadata = IF whole THEN what ELSE Bad]
              ELSE IF to = "blob"
              THEN [layout EXCEPT !.blobs =
                        [b \in DOMAIN @ \cup {what} |-> IF b = what THEN whole ELSE @[b]]]
              ELSE [layout EXCEPT !.index = IF whole THEN what ELSE Bad]

\* The registry takes a blob or a manifest whole or not at all.
WriteRegistry(to, what) ==
    registry' = IF to = "blob" THEN [registry EXCEPT !.blobs = @ \cup {what}]
                ELSE IF to = "tag" THEN [tag |-> what, blobs |-> registry.blobs \cup {what}]
                ELSE registry

\* Mutant: the digest behind the tag is not read back.
Verified_never(to, what) == TRUE

\* The digest that the registry reports for the tag is the digest of the pushed index.
Verified(to, what) == to = "verify" => registry.tag = [kind |-> "index", of |-> what]

Content(to, what) == IF to = "copy" THEN source[what] ELSE what

Advances(e) ==
    LET rest == Rest(exports[e].todo)
    IN  Reaches(e, IF rest = <<>> THEN "done" ELSE "write", rest)

\* The next write of an exporter.
ExportStep(e) ==
    /\ exports[e].pc = "write" /\ Advances(e)
    /\ LET to == Head(exports[e].todo).to
           what == NextThing(exports[e].todo)
       IN  \/ /\ exports[e].kind = "bundle" /\ WriteDirectory(to, what, Content(to, what))
              /\ UNCHANGED <<layout, registry>>
           \/ /\ exports[e].kind = "layout" /\ WriteLayout(to, what, TRUE)
              /\ UNCHANGED <<directory, registry>>
           \/ /\ exports[e].kind = "push" /\ Verified(to, what) /\ WriteRegistry(to, what)
              /\ UNCHANGED <<directory, layout>>
    /\ UNCHANGED <<installed, source, pull, target, sidecars, damaged>>

\* A push is refused, the network fails, or the digest read back is another one.
PushFails(e) ==
    /\ exports[e].pc = "write" /\ exports[e].kind = "push"
    /\ Fails(e)
    /\ UNCHANGED <<installed, source, carriers, pull, target, sidecars, damaged>>

\* An exporter dies, inside a write or before it.
Dies(e) ==
    /\ exports[e].pc = "write"
    /\ LET to == Head(exports[e].todo).to
           what == NextThing(exports[e].todo)
       IN  \/ UNCHANGED carriers
           \/ exports[e].kind = "bundle" /\ WriteDirectory(to, what, Bad) /\ UNCHANGED <<layout, registry>>
           \/ exports[e].kind = "layout" /\ WriteLayout(to, what, FALSE) /\ UNCHANGED <<directory, registry>>
    /\ Reaches(e, "dead", IF exports[e].kind = "push" THEN exports[e].todo ELSE <<>>)
    /\ UNCHANGED <<installed, source, pull, target, sidecars, damaged>>

\* A file of a carrier is damaged or lost on its way, when nobody writes any more.
CarrierDamaged ==
    /\ ~damaged /\ damaged' = TRUE /\ \A e \in Exporters : exports[e].pc \notin {"prepare", "write"}
    /\ \/ \E p \in DOMAIN directory.files :
            directory' = [directory EXCEPT !.files = [@ EXCEPT ![p] = Bad]] /\ UNCHANGED <<layout, registry>>
       \/ directory' = [directory EXCEPT !.signature = None] /\ UNCHANGED <<layout, registry>>
       \/ \E b \in DOMAIN layout.blobs :
            layout' = [layout EXCEPT !.blobs = [@ EXCEPT ![b] = FALSE]] /\ UNCHANGED <<directory, registry>>
    /\ UNCHANGED <<installed, source, exports, pull, target, sidecars>>

\* The registry drops what the tag does not reach any more, when nobody pushes.
RegistryCollects ==
    /\ registry.tag # None
    /\ registry' = [registry EXCEPT !.blobs = {registry.tag, [kind |-> "manifest", of |-> registry.tag.of]}
                                              \cup Blobs(registry.tag.of)]
    /\ registry' # registry /\ \A e \in Exporters : exports[e].kind # "push" \/ exports[e].pc # "write"
    /\ UNCHANGED <<installed, source, exports, directory, layout, pull, target, sidecars, damaged>>

\* Skills that are not there yet are moved in, and the sidecar of each skill is written.
Install(bundle, files) ==
    LET new == bundle.skills \ TargetSkills
    IN  /\ target' = [p \in DOMAIN target \cup {q \in DOMAIN files : q[1] \in new} |->
                        IF p[1] \in new THEN files[p] ELSE target[p]]
        /\ sidecars' = [s \in DOMAIN sidecars \cup bundle.skills |->
                        IF s \in bundle.skills THEN bundle ELSE sidecars[s]]

\* import_bundle: all or, when something is refused, nothing.
ImportBundle(trusted) ==
    /\ IF Imports(directory.index, directory.signature, directory.files, trusted)
       THEN Install(directory.index, directory.files) ELSE UNCHANGED <<target, sidecars>>
    /\ UNCHANGED <<installed, source, exports, carriers, pull, damaged>>

\* import_oci_layout: the decoded artifact is written out as a bundle and imported.
ImportLayout(trusted) ==
    /\ IF LayoutImports(trusted) THEN Install(DecodedLayout.bundle, DecodedLayout.files) ELSE UNCHANGED <<target, sidecars>>
    /\ UNCHANGED <<installed, source, exports, carriers, pull, damaged>>

\* pull_oci_registry fetches what the tag names,
PullIndex ==
    /\ pull = None /\ registry.tag # None
    /\ pull' = IF parse_and_validate_root_index(registry.tag) THEN registry.tag.of ELSE None
    /\ UNCHANGED <<installed, source, exports, carriers, target, sidecars, damaged>>

\* then the manifest and its blobs by their digests, decodes them and imports them.
PullBlobs(trusted) ==
    /\ pull # None /\ pull' = None
    /\ IF PullImports(pull, trusted)
       THEN Install(decode_oci_artifact(pull).bundle, decode_oci_artifact(pull).files)
       ELSE UNCHANGED <<target, sidecars>>
    /\ UNCHANGED <<installed, source, exports, carriers, damaged>>

Next ==
    \/ SourceChanges
    \/ \E e \in Exporters :
        \/ \E kind \in Kinds, root \in Roots, deps \in BOOLEAN : StartExport(e, kind, root, deps)
        \/ prepare_bundle_root(e) \/ prepare_oci_layout_root(e) \/ prepare_push(e)
        \/ ExportStep(e) \/ PushFails(e) \/ Dies(e)
    \/ CarrierDamaged \/ RegistryCollects
    \/ PullIndex
    \/ \E trusted \in TrustStores : ImportBundle(trusted) \/ ImportLayout(trusted) \/ PullBlobs(trusted)

Spec == Init /\ [][Next]_vars

-----------------------------------------------------------------------------
\* A preview tells the truth: preview_import_bundle, preview_import_oci_layout and
\* preview_pull_oci_registry say WouldImport if and only if the import, run now, installs.
\* The preview of an OCI artifact validates the decoded files with functions of its own.
PreviewPredictsImport ==
    \A trusted \in TrustStores :
        /\ preview_import_bundle(trusted)
                = Imports(directory.index, directory.signature, directory.files, trusted)
        /\ preview_import_oci_layout(trusted) = LayoutImports(trusted)
        /\ pull # None => preview_pull_oci_registry(pull, trusted) = PullImports(pull, trusted)

\* What an import installed is what somebody signed, however exporters mixed their writes
\* in a carrier or it was damaged: the manifest and the artifact of a skill with a sidecar
\* are those that the signed index in the sidecar lists, and a bundle that says it is
\* closed brought every skill that its root needs.
InstalledIsSigned ==
    \A s \in DOMAIN sidecars :
        /\ \E e \in Exporters : exports[e].payload # None /\ exports[e].payload.bundle = sidecars[s]
        /\ \A f \in {"manifest", "artifact"} : target[<<s, f>>] = sidecars[s].files[<<s, f>>]
        /\ target[<<s, "artifact">>] = Good
        /\ sidecars[s].includes_dependency_closure => Needs[sidecars[s].root_skill] \subseteq TargetSkills

\* An exported OCI layout is good for as long as nobody damages it: an exporter that
\* finished leaves a layout that decodes to what some exporter signed, even when two
\* exporters wrote to it, unless one of them died on the way.
FinishedLayoutDecodes ==
    (\E e \in Exporters : exports[e].kind = "layout" /\ exports[e].pc = "done") /\ ~damaged
        /\ (\A e \in Exporters : exports[e].pc \notin {"write", "dead"})
    => /\ DecodedLayout # None
       /\ \E e \in Exporters : exports[e].payload # None /\ exports[e].payload.bundle = DecodedLayout.bundle

\* A bundle directory that one exporter wrote alone holds what it signed, provided that
\* the files it copied did not change after they were hashed.
FinishedBundleValidates ==
    \A e \in Exporters :
        exports[e].kind = "bundle" /\ exports[e].pc = "done" /\ ~damaged
          /\ (\A f \in Exporters \ {e} : exports[f].kind = None)
          /\ (\A p \in DOMAIN source : source[p] = Good)
        => validate_bundle(directory.index, directory.files)

\* A push that reports success can be pulled at that moment, and gives what was pushed.
PushedIsPullable ==
    [][\A e \in Exporters : exports[e].kind = "push" /\ exports[e].pc # "done" /\ exports'[e].pc = "done" =>
        /\ registry'.tag # None /\ registry'.tag.kind = "index"
        /\ registry'.tag.of.config = exports[e].payload.bundle
        /\ Blobs(registry'.tag.of) \cup {[kind |-> "manifest", of |-> registry'.tag.of]} \subseteq registry'.blobs]_vars

\* The tag that worked keeps working: once it names an index it names one, except between
\* the two manifests of a later push, or for good when that push stopped there.
TagKeepsWorking ==
    registry.tag # None /\ registry.tag.kind # "index" =>
        \E e \in Exporters :
            /\ exports[e].kind = "push" /\ exports[e].pc \in {"write", "failed", "dead"}
            /\ exports[e].todo # <<>> /\ Head(exports[e].todo).to = "tag"
            /\ NextThing(exports[e].todo).kind = "index"

\* What exporters leave behind can be used: a finished layout, a finished bundle directory,
\* and a tag that worked before.
ExportsAreWhole == FinishedLayoutDecodes /\ FinishedBundleValidates /\ TagKeepsWorking

=============================================================================
