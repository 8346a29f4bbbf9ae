--------------------------- MODULE TransportProofs ---------------------------
(***************************************************************************)
(* What transport keeps for any number of exporters, skills and files,     *)
(* however exporters mix their writes in one carrier or die, and whatever  *)
(* is damaged: only what an exporter signed is installed, a preview says   *)
(* what the import does, and what exporters and pushes finished is whole.  *)
(***************************************************************************)
EXTENDS BundleTransport, TLAPS

-----------------------------------------------------------------------------
(* What is signed *)

\* A bundle that build_signed_bundle_payload signs: its skills are there with all their
\* files, and nothing else.
IsBundle(b) ==
    /\ b \in Bundles
    /\ b.root_skill \in b.skills
    /\ b.includes_dependency_closure => Needs[b.root_skill] \subseteq b.skills
    /\ \A s \in b.skills : Publisher[s] = Signer /\ FilesOf(s) \subseteq DOMAIN b.files
    /\ \A p \in DOMAIN b.files : p[1] \in b.skills /\ p[2] # Verification

IsPayload(p) == p \in Payloads /\ IsBundle(p.bundle) /\ p.signature = sign_bundle_payload(p.bundle)

\* The root that is exported from.
SourceIsWhole ==
    /\ installed \subseteq Skills
    /\ source \in Files
    /\ \A s \in installed : FilesOf(s) \subseteq DOMAIN source

\* The files of a skill are there, and verification.json is none of them.
LEMMA SkillFiles ==
    ASSUME NEW s \in Skills
    PROVE  /\ FilesOf(s) \subseteq Paths
           /\ <<s, "manifest">> \in FilesOf(s) /\ <<s, "artifact">> \in FilesOf(s)
           /\ \A p \in FilesOf(s) : p[1] = s /\ p[2] # Verification
  BY TransportAssumption DEF Paths, FilesOf, Verification

\* A skill needs itself.
LEMMA NeedsItself ==
    ASSUME NEW s \in Skills
    PROVE  s \in Needs[s] /\ Needs[s] \subseteq Skills
  BY Zenon DEF Needs

\* build_signed_bundle_payload signs whole bundles.
LEMMA PayloadIsWhole ==
    ASSUME SourceIsWhole, NEW root \in Skills, NEW deps \in BOOLEAN,
           NEW payload, payload = build_signed_bundle_payload(root, deps), payload # None
    PROVE  /\ IsPayload(payload)
           /\ \A p \in DOMAIN payload.bundle.files : p \in DOMAIN source /\ payload.bundle.files[p] = source[p]
  <1>1. PICK skills : skills = collect_bundle_skills(root, deps)
    BY Zenon
  <1>2. PICK files : files = [p \in UNION {collect_installed_dir_for_bundle(s) : s \in skills} |-> source[p]]
    BY Zenon
  <1>3. PICK b : b = [root_skill |-> root, includes_dependency_closure |-> deps, publisher |-> Signer,
                      skills |-> skills, files |-> files]
    BY Zenon
  <1>4. /\ skills # None /\ root \in installed /\ ensure_bundle_publisher_matches_signer(skills)
        /\ payload = [bundle |-> b, signature |-> sign_bundle_payload(b)]
    BY <1>1, <1>2, <1>3, Zenon DEF build_signed_bundle_payload
  <1>5. payload.bundle = b /\ payload.signature = sign_bundle_payload(b)
    BY <1>4
  <1>6. /\ b.root_skill = root /\ b.includes_dependency_closure = deps /\ b.publisher = Signer
        /\ b.skills = skills /\ b.files = files
    BY Zenon, <1>3
  <1>7. /\ skills \subseteq installed /\ root \in skills /\ (deps => Needs[root] \subseteq skills)
    BY Zenon, <1>1, <1>4, NeedsItself DEF collect_bundle_skills
  <1>8. skills \subseteq Skills
    BY Zenon, <1>7 DEF SourceIsWhole
  <1>9. PICK D \in SUBSET Paths : source \in [D -> {Good, Altered}]
    BY Zenon DEF SourceIsWhole, Files
  <1>10. /\ \A p \in DOMAIN files : p \in D /\ p[1] \in skills /\ p[2] # Verification
         /\ \A p \in DOMAIN files : files[p] = source[p]
    BY Zenon, <1>2, <1>9 DEF collect_installed_dir_for_bundle
  <1>11. ASSUME NEW s \in skills, NEW p \in FilesOf(s) PROVE p \in DOMAIN files
    <2>0. s \in Skills /\ s \in installed
      BY Zenon, <1>7, <1>8
    <2>1. p \in DOMAIN source /\ p[1] = s /\ p[2] # Verification
      <3>1. p \in DOMAIN source
        BY Zenon, <2>0 DEF SourceIsWhole
      <3>2. \A q \in FilesOf(s) : q[1] = s /\ q[2] # Verification
        BY <2>0, SkillFiles, Zenon
      <3> QED
        BY Zenon, <3>1, <3>2
    <2>2. p \in collect_installed_dir_for_bundle(s)
      BY Zenon, <2>1 DEF collect_installed_dir_for_bundle
    <2> QED
      BY Zenon, <1>2, <2>2
  <1>12. files \in Files
    <2>1. PICK E : E = DOMAIN files
      BY Zenon
    <2>2. files = [p \in E |-> files[p]]
      BY Zenon, <1>2, <2>1
    <2>3. E \in SUBSET Paths
      BY Zenon, <1>9, <1>10, <2>1
    <2>4. \A p \in E : files[p] \in {Good, Altered}
      BY Zenon, <1>9, <1>10, <2>1
    <2>5. files \in [E -> {Good, Altered}]
      BY Zenon, <2>2, <2>4
    <2> QED
      BY Zenon, <2>3, <2>5 DEF Files
  <1>13. b \in Bundles
    BY Zenon, <1>3, <1>8, <1>12 DEF Bundles
  <1>14. IsBundle(b)
    BY Zenon, <1>4, <1>6, <1>7, <1>10, <1>11, <1>13 DEF IsBundle, ensure_bundle_publisher_matches_signer
  <1>15. IsPayload(payload)
    <2>1. sign_bundle_payload(b) \in Signatures
      BY Zenon, <1>13 DEF sign_bundle_payload, Signatures
    <2>2. payload \in Payloads
      BY <1>4, <1>13, <2>1 DEF Payloads
    <2> QED
      BY Zenon, <1>5, <1>14, <2>2 DEF IsPayload
  <1> QED
    BY Zenon, <1>5, <1>6, <1>9, <1>10, <1>15

-----------------------------------------------------------------------------
(* The inductive invariant *)

\* The manifest that build_oci_artifact makes of a payload.
Manifest(payload) ==
    [config |-> payload.bundle, signature |-> payload.signature,
     layers |-> payload.bundle.files, annotations |-> payload.bundle.root_skill]

ManifestBlob(manifest) == [kind |-> "manifest", of |-> manifest]
IndexBlob(manifest) == [kind |-> "index", of |-> manifest]

\* What is left to do for each kind of export, stage by stage.  What a stage says was
\* written, in the carrier that the last parameter stands for, stays written.
BundleTodo(todo, payload) ==
    \/ \E S \in SUBSET DOMAIN payload.bundle.files :
        /\ S # {}
        /\ todo = <<Writes("copy", S), Write("bundle.json", payload.bundle),
                    Write("bundle.signature.json", payload.signature)>>
    \/ todo = <<Write("bundle.json", payload.bundle), Write("bundle.signature.json", payload.signature)>>
    \/ todo = <<Write("bundle.signature.json", payload.signature)>>

LayoutTodo(todo, manifest, blobs, metadata) ==
    \/ todo = export_oci_layout(manifest)
    \/ /\ metadata # None
       /\ \/ \E S \in SUBSET Blobs(manifest) :
                /\ S # {} /\ Blobs(manifest) \ S \subseteq blobs
                /\ todo = <<Writes("blob", S), Write("blob", ManifestBlob(manifest)), Write("index.json", manifest)>>
          \/ /\ Blobs(manifest) \subseteq blobs
             /\ todo = <<Write("blob", ManifestBlob(manifest)), Write("index.json", manifest)>>
          \/ /\ Blobs(manifest) \cup {ManifestBlob(manifest)} \subseteq blobs
             /\ todo = <<Write("index.json", manifest)>>

PushTodo(todo, manifest, blobs) ==
    \/ todo = push_oci_registry(manifest)
    \/ \E S \in SUBSET Blobs(manifest) :
        /\ S # {} /\ Blobs(manifest) \ S \subseteq blobs
        /\ todo = <<Writes("blob", S), Write("tag", ManifestBlob(manifest)),
                    Write("tag", IndexBlob(manifest)), Write("verify", manifest)>>
    \/ /\ Blobs(manifest) \subseteq blobs
       /\ todo = <<Write("tag", ManifestBlob(manifest)), Write("tag", IndexBlob(manifest)), Write("verify", manifest)>>
    \/ /\ Blobs(manifest) \cup {ManifestBlob(manifest)} \subseteq blobs
       /\ \/ todo = <<Write("tag", IndexBlob(manifest)), Write("verify", manifest)>>
          \/ todo = <<Write("verify", manifest)>>

\* Who exports what: an exporter with a payload signed a whole bundle, and is at a stage of
\* its writes.
ExporterIsSound(x) ==
    /\ x.pc \in {"idle", "prepare", "write", "done", "failed", "dead"}
    /\ IF x.kind = None THEN x.pc \in {"idle", "failed"} /\ x.payload = None
       ELSE x.kind \in Kinds /\ x.pc # "idle" /\ x.payload # None /\ IsPayload(x.payload)
    /\ x.pc = "write" /\ x.kind = "bundle" => BundleTodo(x.todo, x.payload)

ExportersAreSound ==
    /\ SourceIsWhole
    /\ DOMAIN exports = Exporters
    /\ \A e \in Exporters : ExporterIsSound(exports[e])

Signed == {exports[e].payload : e \in Exporters} \ {None}

\* A bundle directory mixes what exporters signed.
DirectoryIsMixed(dir, signed) ==
    /\ dir \in [index : Bundles \cup {Bad, None}, signature : Signatures \cup {Bad, None},
                files : UNION {[D -> {Good, Altered, Bad}] : D \in SUBSET Paths}, created : BOOLEAN]
    /\ Intact(dir.signature) => \E p \in signed : dir.signature = p.signature

\* An index.json that is whole names a manifest that somebody made and whose blobs are all
\* there.
LayoutIsMixed(l, signed) ==
    /\ DOMAIN l = {"metadata", "index", "blobs", "created"}
    /\ l.metadata \in {Good, Bad, None}
    /\ \A b \in DOMAIN l.blobs : l.blobs[b] \in BOOLEAN
    /\ Intact(l.index) => \E p \in signed :
        l.index = Manifest(p) /\ Blobs(l.index) \cup {ManifestBlob(l.index)} \subseteq DOMAIN l.blobs

\* No file of a layout is half a file.
LayoutIsIntact(l) == l.metadata # Bad /\ l.index # Bad /\ \A b \in DOMAIN l.blobs : l.blobs[b] = TRUE

LayoutWriter(x, l) ==
    x.kind = "layout" =>
        /\ x.pc = "write" => LayoutTodo(x.todo, Manifest(x.payload), DOMAIN l.blobs, l.metadata)
        /\ x.pc = "done" => l.metadata # None /\ l.index # None

Untouched == ~damaged /\ \A e \in Exporters : exports[e].pc # "dead"

LayoutIsSound ==
    /\ LayoutIsMixed(layout, Signed)
    /\ Untouched => LayoutIsIntact(layout)
    /\ \A e \in Exporters : LayoutWriter(exports[e], layout)

\* A tag names what somebody made, and so does a pull that looked at it.
RegistryIsMixed(r, signed) ==
    /\ DOMAIN r = {"tag", "blobs"}
    /\ r.tag # None => \E p \in signed : r.tag \in {ManifestBlob(Manifest(p)), IndexBlob(Manifest(p))}

Pusher(x, r) ==
    x.kind = "push" /\ x.pc = "write" => PushTodo(x.todo, Manifest(x.payload), r.blobs)

\* The exporter that put a manifest under the tag is between its two manifests.
BetweenManifests(x) ==
    /\ x.kind = "push" /\ x.pc \in {"write", "failed", "dead"}
    /\ x.todo = <<Write("tag", IndexBlob(Manifest(x.payload))), Write("verify", Manifest(x.payload))>>

TagIsBetween ==
    registry.tag # None /\ registry.tag.kind = "manifest" => \E e \in Exporters : BetweenManifests(exports[e])

RegistryIsSound ==
    /\ RegistryIsMixed(registry, Signed)
    /\ pull # None => \E p \in Signed : pull = Manifest(p)
    /\ \A e \in Exporters : Pusher(exports[e], registry)
    /\ TagIsBetween

AllGood(files) == \A p \in DOMAIN files : files[p] = Good

GoodFiles(files, D) == DOMAIN files = D /\ AllGood(files)

DirectoryOf(x, dir) ==
    LET b == x.payload.bundle IN
    /\ x.pc = "write" =>
        \/ \E S \in SUBSET DOMAIN b.files :
            /\ S # {} /\ GoodFiles(dir.files, DOMAIN b.files \ S)
            /\ x.todo = <<Writes("copy", S), Write("bundle.json", b), Write("bundle.signature.json", x.payload.signature)>>
        \/ /\ GoodFiles(dir.files, DOMAIN b.files)
           /\ x.todo = <<Write("bundle.json", b), Write("bundle.signature.json", x.payload.signature)>>
        \/ /\ GoodFiles(dir.files, DOMAIN b.files) /\ dir.index = b
           /\ x.todo = <<Write("bundle.signature.json", x.payload.signature)>>
    /\ x.pc = "done" => GoodFiles(dir.files, DOMAIN b.files) /\ dir.index = b

\* A directory that one exporter writes alone, from a root that did not change.
Alone(e) ==
    /\ exports[e].kind = "bundle" /\ ~damaged /\ AllGood(source)
    /\ \A f \in Exporters \ {e} : exports[f].kind = None

SignedFrom(files, signed) ==
    \A p \in signed : DOMAIN p.bundle.files \subseteq DOMAIN files /\ (AllGood(files) => AllGood(p.bundle.files))

DirectoryIsSound ==
    /\ DirectoryIsMixed(directory, Signed)
    /\ SignedFrom(source, Signed)
    /\ \A e \in Exporters : Alone(e) => DirectoryOf(exports[e], directory)

\* What is installed in the target.
TargetIsSound ==
    /\ target \in Files
    /\ \A s \in TargetSkills :
        /\ <<s, "manifest">> \in DOMAIN target /\ <<s, "artifact">> \in DOMAIN target
        /\ target[<<s, "artifact">>] = Good
    /\ \A s \in DOMAIN sidecars :
        /\ s \in TargetSkills
        /\ \E p \in Signed : p.bundle = sidecars[s]
        /\ target[<<s, "manifest">>] = sidecars[s].files[<<s, "manifest">>]
        /\ sidecars[s].files[<<s, "artifact">>] = Good
        /\ sidecars[s].includes_dependency_closure => Needs[sidecars[s].root_skill] \subseteq TargetSkills

-----------------------------------------------------------------------------
(* Batches of writes *)

TakesFrom(todo, to, S) ==
    /\ Head(todo).to = to /\ NextThing(todo) \in S
    /\ S = {NextThing(todo)} => Rest(todo) = Tail(todo)
    /\ S # {NextThing(todo)} =>
        /\ S \ {NextThing(todo)} # {}
        /\ Rest(todo) = [todo EXCEPT ![1] = Writes(to, S \ {NextThing(todo)})]

\* The next write of a batch, and what is left of the batch after it.
LEMMA NextOfBatch ==
    ASSUME NEW to, NEW S, S # {}, NEW todo, Head(todo) = Writes(to, S)
    PROVE  TakesFrom(todo, to, S)
  <1>1. Head(todo).to = to /\ Head(todo).things = S
    BY DEF Writes
  <1>2. NextThing(todo) \in S
    BY Zenon, <1>1 DEF NextThing
  <1>3. PICK left : left = Head(todo).things \ {NextThing(todo)}
    BY Zenon
  <1>4. Rest(todo) = IF left = {} THEN Tail(todo) ELSE [todo EXCEPT ![1] = Writes(Head(todo).to, left)]
    BY <1>3, Zenon DEF Rest
  <1>5. left = S \ {NextThing(todo)}
    BY Zenon, <1>1, <1>3
  <1>6. left = {} <=> S = {NextThing(todo)}
    BY Zenon, <1>2, <1>5
  <1>7. ASSUME S # {NextThing(todo)}
        PROVE  Rest(todo) = [todo EXCEPT ![1] = Writes(to, S \ {NextThing(todo)})]
    <2>1. left # {}
      BY Zenon, <1>6, <1>7
    <2>2. Rest(todo) = [todo EXCEPT ![1] = Writes(Head(todo).to, left)]
      BY <2>1, <1>4, Zenon
    <2> QED
      BY <2>2, <1>1, <1>5, Zenon
  <1>8. S = {NextThing(todo)} => Rest(todo) = Tail(todo)
    BY <1>4, <1>6, Zenon
  <1> QED
    BY <1>1, <1>2, <1>5, <1>6, <1>7, <1>8, Zenon DEF TakesFrom

\* A batch of one.
LEMMA NextOfWrite ==
    ASSUME NEW to, NEW x, NEW todo, Head(todo) = Write(to, x)
    PROVE  Head(todo).to = to /\ NextThing(todo) = x /\ Rest(todo) = Tail(todo)
  <1>1. Head(todo) = Writes(to, {x})
    BY Zenon DEF Write
  <1>2. Head(todo).to = to /\ NextThing(todo) \in {x} /\ ({x} = {NextThing(todo)} => Rest(todo) = Tail(todo))
    <2>1. {x} # {}
      BY Zenon
    <2>2. TakesFrom(todo, to, {x})
      BY <1>1, <2>1, NextOfBatch, Zenon
    <2> QED
      BY <2>2, Zenon DEF TakesFrom
  <1> QED
    BY Zenon, <1>2

\* All is written, or some is left.
TakesBatch(todo, to, S, all, some) ==
    /\ Head(todo).to = to /\ NextThing(todo) \in S /\ Rest(todo) # <<>>
    /\ \/ S = {NextThing(todo)} /\ Rest(todo) = all
       \/ S \ {NextThing(todo)} # {} /\ Rest(todo) = some

TakesWrite(todo, to, x, rest) == Head(todo).to = to /\ NextThing(todo) = x /\ Rest(todo) = rest

\* The same, for a batch with two more behind it.
LEMMA BatchOf3 ==
    ASSUME NEW to, NEW S, S # {}, NEW b, NEW c, NEW todo, todo = <<Writes(to, S), b, c>>
    PROVE  TakesBatch(todo, to, S, <<b, c>>, <<Writes(to, S \ {NextThing(todo)}), b, c>>)
  <1>1. Head(todo) = Writes(to, S) /\ Tail(todo) = <<b, c>>
    OBVIOUS
  <1>2. TakesFrom(todo, to, S)
    BY <1>1, NextOfBatch, Zenon
  <1>3. ASSUME NEW x PROVE [todo EXCEPT ![1] = x] = <<x, b, c>> /\ <<x, b, c>> # <<>>
    OBVIOUS
  <1>4. <<b, c>> # <<>>
    BY Zenon
  <1> QED
    BY <1>1, <1>2, <1>3, <1>4, Zenon DEF TakesFrom, TakesBatch

\* The same, for a batch with three more behind it.
LEMMA BatchOf4 ==
    ASSUME NEW to, NEW S, S # {}, NEW b, NEW c, NEW d, NEW todo, todo = <<Writes(to, S), b, c, d>>
    PROVE  TakesBatch(todo, to, S, <<b, c, d>>, <<Writes(to, S \ {NextThing(todo)}), b, c, d>>)
  <1>1. Head(todo) = Writes(to, S) /\ Tail(todo) = <<b, c, d>>
    OBVIOUS
  <1>2. TakesFrom(todo, to, S)
    BY <1>1, NextOfBatch, Zenon
  <1>3. ASSUME NEW x PROVE [todo EXCEPT ![1] = x] = <<x, b, c, d>> /\ <<x, b, c, d>> # <<>>
    OBVIOUS
  <1>4. <<b, c, d>> # <<>>
    BY Zenon
  <1> QED
    BY <1>1, <1>2, <1>3, <1>4, Zenon DEF TakesFrom, TakesBatch

\* A write with nothing more behind it.
LEMMA WriteOf1 ==
    ASSUME NEW to, NEW x, NEW todo, todo = <<Write(to, x)>>
    PROVE  TakesWrite(todo, to, x, <<>>)
  <1>1. Head(todo) = Write(to, x) /\ Tail(todo) = <<>>
    OBVIOUS
  <1> QED
    BY <1>1, NextOfWrite, Zenon DEF TakesWrite

\* A write with one more behind it.
LEMMA WriteOf2 ==
    ASSUME NEW to, NEW x, NEW b, NEW todo, todo = <<Write(to, x), b>>
    PROVE  TakesWrite(todo, to, x, <<b>>) /\ <<b>> # <<>>
  <1>1. Head(todo) = Write(to, x) /\ Tail(todo) = <<b>> /\ Tail(todo) # <<>>
    OBVIOUS
  <1> QED
    BY <1>1, NextOfWrite, Zenon DEF TakesWrite

\* A write with two more behind it.
LEMMA WriteOf3 ==
    ASSUME NEW to, NEW x, NEW b, NEW c, NEW todo, todo = <<Write(to, x), b, c>>
    PROVE  TakesWrite(todo, to, x, <<b, c>>) /\ <<b, c>> # <<>>
  <1>1. Head(todo) = Write(to, x) /\ Tail(todo) = <<b, c>> /\ Tail(todo) # <<>>
    OBVIOUS
  <1> QED
    BY <1>1, NextOfWrite, Zenon DEF TakesWrite

\* A write with three more behind it.
LEMMA WriteOf4 ==
    ASSUME NEW to, NEW x, NEW b, NEW c, NEW d, NEW todo, todo = <<Write(to, x), b, c, d>>
    PROVE  TakesWrite(todo, to, x, <<b, c, d>>) /\ <<b, c, d>> # <<>>
  <1>1. Head(todo) = Write(to, x) /\ Tail(todo) = <<b, c, d>> /\ Tail(todo) # <<>>
    OBVIOUS
  <1> QED
    BY <1>1, NextOfWrite, Zenon DEF TakesWrite

\* A write with four more behind it.
LEMMA WriteOf5 ==
    ASSUME NEW to, NEW x, NEW b, NEW c, NEW d, NEW f, NEW todo, todo = <<Write(to, x), b, c, d, f>>
    PROVE  TakesWrite(todo, to, x, <<b, c, d, f>>) /\ <<b, c, d, f>> # <<>>
  <1>1. Head(todo) = Write(to, x) /\ Tail(todo) = <<b, c, d, f>> /\ Tail(todo) # <<>>
    OBVIOUS
  <1> QED
    BY <1>1, NextOfWrite, Zenon DEF TakesWrite

\* A bundle export goes on to its next stage, or is done.
LEMMA BundleAdvances ==
    ASSUME NEW payload, NEW todo, BundleTodo(todo, payload)
    PROVE  Rest(todo) = <<>> \/ BundleTodo(Rest(todo), payload)
  <1>1. CASE \E S \in SUBSET DOMAIN payload.bundle.files :
                /\ S # {}
                /\ todo = <<Writes("copy", S), Write("bundle.json", payload.bundle),
                            Write("bundle.signature.json", payload.signature)>>
    <2>1. PICK S \in SUBSET DOMAIN payload.bundle.files :
                /\ S # {}
                /\ todo = <<Writes("copy", S), Write("bundle.json", payload.bundle),
                            Write("bundle.signature.json", payload.signature)>>
      BY Zenon, <1>1
    <2>2. TakesBatch(todo, "copy", S, <<Write("bundle.json", payload.bundle), Write("bundle.signature.json", payload.signature)>>,
                     <<Writes("copy", S \ {NextThing(todo)}), Write("bundle.json", payload.bundle),
                       Write("bundle.signature.json", payload.signature)>>)
      BY <2>1, BatchOf3, Zenon
    <2>3. S \ {NextThing(todo)} \in SUBSET DOMAIN payload.bundle.files
      BY Zenon
    <2> QED
      BY <2>2, <2>3, Zenon DEF BundleTodo, TakesBatch
  <1>2. CASE todo = <<Write("bundle.json", payload.bundle), Write("bundle.signature.json", payload.signature)>>
    <2>1. TakesWrite(todo, "bundle.json", payload.bundle, <<Write("bundle.signature.json", payload.signature)>>)
      BY <1>2, WriteOf2, Zenon
    <2> QED
      BY <2>1, Zenon DEF BundleTodo, TakesWrite
  <1>3. CASE todo = <<Write("bundle.signature.json", payload.signature)>>
    BY <1>3, WriteOf1, Zenon DEF TakesWrite
  <1> QED
    BY Zenon, <1>1, <1>2, <1>3 DEF BundleTodo

\* A whole bundle has files, so an export starts with copying one.
LEMMA BundleStarts ==
    ASSUME NEW payload, IsPayload(payload)
    PROVE  /\ DOMAIN payload.bundle.files # {}
           /\ BundleTodo(export_bundle(payload), payload)
  <1>1. PICK b : b = payload.bundle
    BY Zenon
  <1>2. b \in Bundles /\ b.root_skill \in b.skills /\ (\A s \in b.skills : FilesOf(s) \subseteq DOMAIN b.files)
    BY Zenon, <1>1 DEF IsPayload, IsBundle
  <1>3. b.root_skill \in Skills
    BY Zenon, <1>2 DEF Bundles
  <1>4. <<b.root_skill, "manifest">> \in FilesOf(b.root_skill)
    BY <1>3, SkillFiles, Zenon
  <1>5. DOMAIN b.files # {}
    BY Zenon, <1>2, <1>4
  <1> QED
    BY <1>1, <1>5, Zenon DEF BundleTodo, export_bundle, write_portable_bundle_files

\* There is always a blob: the config.
LEMMA SomeBlobs ==
    ASSUME NEW manifest
    PROVE  Blobs(manifest) # {}
  <1>1. [kind |-> "config", of |-> manifest.config] \in Blobs(manifest)
    BY Zenon DEF Blobs
  <1> QED
    BY <1>1, Zenon

LayoutWrites(todo, manifest, blobs, metadata, blobs2, metadata2) ==
    /\ Head(todo).to \in {"oci-layout", "blob", "index.json"}
    /\ Head(todo).to = "oci-layout" => NextThing(todo) = Good
    /\ Head(todo).to = "index.json" =>
        /\ NextThing(todo) = manifest /\ metadata # None
        /\ Blobs(manifest) \cup {ManifestBlob(manifest)} \subseteq blobs
    /\ IF Head(todo).to = "index.json" THEN Rest(todo) = <<>>
       ELSE Rest(todo) # <<>> /\ LayoutTodo(Rest(todo), manifest, blobs2, metadata2)

\* The export of a layout goes on to its next stage when its write is in the layout.
LEMMA LayoutAdvances ==
    ASSUME NEW manifest, NEW todo, NEW blobs, NEW metadata, LayoutTodo(todo, manifest, blobs, metadata),
           NEW blobs2, blobs \subseteq blobs2, NEW metadata2, metadata # None => metadata2 # None,
           Head(todo).to = "oci-layout" => metadata2 # None,
           Head(todo).to = "blob" => NextThing(todo) \in blobs2
    PROVE  LayoutWrites(todo, manifest, blobs, metadata, blobs2, metadata2)
  <1>1. CASE todo = export_oci_layout(manifest)
    <2>1. TakesWrite(todo, "oci-layout", Good,
                     <<Writes("blob", Blobs(manifest)), Write("blob", ManifestBlob(manifest)), Write("index.json", manifest)>>)
      BY <1>1, WriteOf4, Zenon DEF export_oci_layout, ManifestBlob
    <2>2. Rest(todo) # <<>>
      BY <2>1 DEF TakesWrite
    <2>3. Head(todo).to = "oci-layout" /\ NextThing(todo) = Good
      BY <2>1, Zenon DEF TakesWrite
    <2>4. metadata2 # None
      BY Zenon, <2>3
    <2>5. /\ Blobs(manifest) \in SUBSET Blobs(manifest) /\ Blobs(manifest) # {}
          /\ Blobs(manifest) \ Blobs(manifest) \subseteq blobs2
      BY Zenon, SomeBlobs
    <2>6. LayoutTodo(Rest(todo), manifest, blobs2, metadata2)
      BY <2>1, <2>4, <2>5, Zenon DEF LayoutTodo, TakesWrite
    <2> QED
      BY Zenon, <2>2, <2>3, <2>6 DEF LayoutWrites
  <1>2. CASE /\ metadata # None
             /\ \E S \in SUBSET Blobs(manifest) :
                    /\ S # {} /\ Blobs(manifest) \ S \subseteq blobs
                    /\ todo = <<Writes("blob", S), Write("blob", ManifestBlob(manifest)), Write("index.json", manifest)>>
    <2>1. PICK S \in SUBSET Blobs(manifest) :
                    /\ S # {} /\ Blobs(manifest) \ S \subseteq blobs
                    /\ todo = <<Writes("blob", S), Write("blob", ManifestBlob(manifest)), Write("index.json", manifest)>>
      BY Zenon, <1>2
    <2>2. TakesBatch(todo, "blob", S, <<Write("blob", ManifestBlob(manifest)), Write("index.json", manifest)>>,
                     <<Writes("blob", S \ {NextThing(todo)}), Write("blob", ManifestBlob(manifest)), Write("index.json", manifest)>>)
      BY <2>1, BatchOf3, Zenon
    <2>3. Head(todo).to = "blob" /\ NextThing(todo) \in S /\ Rest(todo) # <<>>
      BY <2>2, Zenon DEF TakesBatch
    <2>4. metadata2 # None /\ NextThing(todo) \in blobs2
      BY Zenon, <1>2, <2>3
    <2>5. /\ S \ {NextThing(todo)} \in SUBSET Blobs(manifest)
          /\ Blobs(manifest) \ (S \ {NextThing(todo)}) \subseteq blobs2
          /\ S = {NextThing(todo)} => Blobs(manifest) \subseteq blobs2
      BY Zenon, <2>1, <2>4
    <2>6. LayoutTodo(Rest(todo), manifest, blobs2, metadata2)
      BY <2>2, <2>4, <2>5, Zenon DEF LayoutTodo, TakesBatch
    <2> QED
      BY Zenon, <2>3, <2>6 DEF LayoutWrites
  <1>3. CASE /\ metadata # None /\ Blobs(manifest) \subseteq blobs
             /\ todo = <<Write("blob", ManifestBlob(manifest)), Write("index.json", manifest)>>
    <2>1. TakesWrite(todo, "blob", ManifestBlob(manifest), <<Write("index.json", manifest)>>)
      BY <1>3, WriteOf2, Zenon
    <2>2. Rest(todo) # <<>>
      BY <2>1 DEF TakesWrite
    <2>3. Head(todo).to = "blob" /\ NextThing(todo) = ManifestBlob(manifest)
      BY <2>1, Zenon DEF TakesWrite
    <2>4. metadata2 # None /\ Blobs(manifest) \cup {ManifestBlob(manifest)} \subseteq blobs2
      BY Zenon, <1>3, <2>3
    <2>5. LayoutTodo(Rest(todo), manifest, blobs2, metadata2)
      BY <2>1, <2>4, Zenon DEF LayoutTodo, TakesWrite
    <2> QED
      BY Zenon, <2>2, <2>3, <2>5 DEF LayoutWrites
  <1>4. CASE /\ metadata # None /\ Blobs(manifest) \cup {ManifestBlob(manifest)} \subseteq blobs
             /\ todo = <<Write("index.json", manifest)>>
    <2>1. TakesWrite(todo, "index.json", manifest, <<>>)
      BY <1>4, WriteOf1, Zenon
    <2> QED
      BY Zenon, <1>4, <2>1 DEF LayoutWrites, TakesWrite
  <1> QED
    BY <1>1, <1>2, <1>3, <1>4, Zenon DEF LayoutTodo

PushWrites(todo, manifest, blobs, blobs2) ==
    /\ Head(todo).to \in {"auth", "blob", "tag", "verify"}
    /\ Head(todo).to = "tag" =>
        \/ /\ NextThing(todo) = ManifestBlob(manifest)
           /\ Rest(todo) = <<Write("tag", IndexBlob(manifest)), Write("verify", manifest)>>
        \/ /\ NextThing(todo) = IndexBlob(manifest)
    /\ Head(todo).to = "verify" =>
        NextThing(todo) = manifest /\ Blobs(manifest) \cup {ManifestBlob(manifest)} \subseteq blobs
    /\ IF Head(todo).to = "verify" THEN Rest(todo) = <<>>
       ELSE Rest(todo) # <<>> /\ PushTodo(Rest(todo), manifest, blobs2)

\* A push goes on to its next stage when its write is in the registry.
LEMMA PushAdvances ==
    ASSUME NEW manifest, NEW todo, NEW blobs, PushTodo(todo, manifest, blobs),
           NEW blobs2, blobs \subseteq blobs2,
           Head(todo).to \in {"blob", "tag"} => NextThing(todo) \in blobs2
    PROVE  PushWrites(todo, manifest, blobs, blobs2)
  <1>1. CASE todo = push_oci_registry(manifest)
    <2>1. TakesWrite(todo, "auth", None,
                     <<Writes("blob", Blobs(manifest)), Write("tag", ManifestBlob(manifest)),
                       Write("tag", IndexBlob(manifest)), Write("verify", manifest)>>)
      BY <1>1, WriteOf5, Zenon DEF push_oci_registry, ManifestBlob, IndexBlob
    <2>2. Rest(todo) # <<>>
      BY <2>1 DEF TakesWrite
    <2>3. Head(todo).to = "auth"
      BY <2>1, Zenon DEF TakesWrite
    <2>4. /\ Blobs(manifest) \in SUBSET Blobs(manifest) /\ Blobs(manifest) # {}
          /\ Blobs(manifest) \ Blobs(manifest) \subseteq blobs2
      BY Zenon, SomeBlobs
    <2>5. PushTodo(Rest(todo), manifest, blobs2)
      BY <2>1, <2>4, Zenon DEF PushTodo, TakesWrite
    <2> QED
      BY Zenon, <2>2, <2>3, <2>5 DEF PushWrites
  <1>2. CASE \E S \in SUBSET Blobs(manifest) :
                /\ S # {} /\ Blobs(manifest) \ S \subseteq blobs
                /\ todo = <<Writes("blob", S), Write("tag", ManifestBlob(manifest)),
                            Write("tag", IndexBlob(manifest)), Write("verify", manifest)>>
    <2>1. PICK S \in SUBSET Blobs(manifest) :
                /\ S # {} /\ Blobs(manifest) \ S \subseteq blobs
                /\ todo = <<Writes("blob", S), Write("tag", ManifestBlob(manifest)),
                            Write("tag", IndexBlob(manifest)), Write("verify", manifest)>>
      BY Zenon, <1>2
    <2>2. TakesBatch(todo, "blob", S,
                     <<Write("tag", ManifestBlob(manifest)), Write("tag", IndexBlob(manifest)), Write("verify", manifest)>>,
                     <<Writes("blob", S \ {NextThing(todo)}), Write("tag", ManifestBlob(manifest)),
                       Write("tag", IndexBlob(manifest)), Write("verify", manifest)>>)
      BY <2>1, BatchOf4, Zenon
    <2>3. Head(todo).to = "blob" /\ NextThing(todo) \in S /\ Rest(todo) # <<>>
      BY <2>2, Zenon DEF TakesBatch
    <2>4. NextThing(todo) \in blobs2
      BY Zenon, <2>3
    <2>5. /\ S \ {NextThing(todo)} \in SUBSET Blobs(manifest)
          /\ Blobs(manifest) \ (S \ {NextThing(todo)}) \subseteq blobs2
          /\ S = {NextThing(todo)} => Blobs(manifest) \subseteq blobs2
      BY Zenon, <2>1, <2>4
    <2>6. PushTodo(Rest(todo), manifest, blobs2)
      BY <2>2, <2>5, Zenon DEF PushTodo, TakesBatch
    <2> QED
      BY Zenon, <2>3, <2>6 DEF PushWrites
  <1>3. CASE /\ Blobs(manifest) \subseteq blobs
             /\ todo = <<Write("tag", ManifestBlob(manifest)), Write("tag", IndexBlob(manifest)), Write("verify", manifest)>>
    <2>1. TakesWrite(todo, "tag", ManifestBlob(manifest), <<Write("tag", IndexBlob(manifest)), Write("verify", manifest)>>)
      BY <1>3, WriteOf3, Zenon
    <2>2. Rest(todo) # <<>>
      BY <2>1 DEF TakesWrite
    <2>3. Head(todo).to = "tag" /\ NextThing(todo) = ManifestBlob(manifest)
      BY <2>1, Zenon DEF TakesWrite
    <2>4. Blobs(manifest) \cup {ManifestBlob(manifest)} \subseteq blobs2
      BY Zenon, <1>3, <2>3
    <2>5. PushTodo(Rest(todo), manifest, blobs2)
      BY <2>1, <2>4, Zenon DEF PushTodo, TakesWrite
    <2> QED
      BY Zenon, <2>1, <2>2, <2>3, <2>5 DEF PushWrites, TakesWrite
  <1>4. CASE /\ Blobs(manifest) \cup {ManifestBlob(manifest)} \subseteq blobs
             /\ todo = <<Write("tag", IndexBlob(manifest)), Write("verify", manifest)>>
    <2>1. TakesWrite(todo, "tag", IndexBlob(manifest), <<Write("verify", manifest)>>)
      BY <1>4, WriteOf2, Zenon
    <2>2. Rest(todo) # <<>>
      BY <2>1 DEF TakesWrite
    <2>3. Blobs(manifest) \cup {ManifestBlob(manifest)} \subseteq blobs2
      BY Zenon, <1>4
    <2>4. PushTodo(Rest(todo), manifest, blobs2)
      BY <2>1, <2>3, Zenon DEF PushTodo, TakesWrite
    <2> QED
      BY Zenon, <2>1, <2>2, <2>4 DEF PushWrites, TakesWrite
  <1>5. CASE /\ Blobs(manifest) \cup {ManifestBlob(manifest)} \subseteq blobs
             /\ todo = <<Write("verify", manifest)>>
    <2>1. TakesWrite(todo, "verify", manifest, <<>>)
      BY <1>5, WriteOf1, Zenon
    <2> QED
      BY Zenon, <1>5, <2>1 DEF PushWrites, TakesWrite
  <1> QED
    BY <1>1, <1>2, <1>3, <1>4, <1>5, Zenon DEF PushTodo

-----------------------------------------------------------------------------
(* Who exports what *)

\* When one exporter moves, the others stay sound.
LEMMA OneExporter ==
    ASSUME ExportersAreSound, SourceIsWhole', NEW e \in Exporters, NEW x, ExporterIsSound(x),
           exports' = [exports EXCEPT ![e] = x]
    PROVE  ExportersAreSound'
  <1>1. DOMAIN exports' = Exporters
    BY Zenon DEF ExportersAreSound
  <1>2. \A f \in Exporters : exports'[f] = IF f = e THEN x ELSE exports[f]
    BY Zenon DEF ExportersAreSound
  <1> QED
    BY Zenon, <1>1, <1>2 DEF ExportersAreSound

\* The root stays whole when nobody edits it, and when somebody edits a file.
LEMMA SourceStaysWhole ==
    ASSUME SourceIsWhole, installed' = installed,
           source' = source \/ \E p \in DOMAIN source : source' = [source EXCEPT ![p] = Altered]
    PROVE  SourceIsWhole'
  <1>1. CASE source' = source
    BY Zenon, <1>1 DEF SourceIsWhole
  <1>2. CASE \E p \in DOMAIN source : source' = [source EXCEPT ![p] = Altered]
    <2>1. PICK D \in SUBSET Paths : source \in [D -> {Good, Altered}]
      BY Zenon DEF SourceIsWhole, Files
    <2>2. source' \in [D -> {Good, Altered}]
      BY Zenon, <1>2, <2>1
    <2>3. source' \in Files
      BY Zenon, <2>2 DEF Files
    <2>4. DOMAIN source' = DOMAIN source
      BY Zenon, <2>1, <2>2
    <2> QED
      BY Zenon, <2>3, <2>4 DEF SourceIsWhole
  <1> QED
    BY Zenon, <1>1, <1>2

\* An exporter that has a payload keeps it, whatever stage it reaches.
LEMMA ReachesStage ==
    ASSUME ExportersAreSound, SourceIsWhole', NEW e \in Exporters, exports[e].kind # None,
           NEW pc \in {"write", "done", "failed", "dead"}, NEW todo, Reaches(e, pc, todo),
           pc = "write" /\ exports[e].kind = "bundle" => BundleTodo(todo, exports[e].payload)
    PROVE  ExportersAreSound'
  <1>1. PICK x : x = [pc |-> pc, kind |-> exports[e].kind, payload |-> exports[e].payload, todo |-> todo]
    BY Zenon
  <1>2. x.pc = pc /\ x.kind = exports[e].kind /\ x.payload = exports[e].payload /\ x.todo = todo
    BY Zenon, <1>1
  <1>3. ExporterIsSound(exports[e])
    BY Zenon DEF ExportersAreSound
  <1>4. ExporterIsSound(x)
    BY Zenon, <1>2, <1>3 DEF ExporterIsSound
  <1>5. exports' = [exports EXCEPT ![e] = x]
    BY <1>1, Zenon DEF Reaches
  <1> QED
    BY <1>4, <1>5, OneExporter, Zenon

\* No action of an exporter, of the root or of an import breaks what exporters signed.
LEMMA ExportersStaySound ==
    ExportersAreSound /\ [Next]_vars => ExportersAreSound'
  <1> SUFFICES ASSUME ExportersAreSound, [Next]_vars PROVE ExportersAreSound'
    BY Zenon
  <1>s. SourceIsWhole
    BY Zenon DEF ExportersAreSound
  <1>k. ASSUME NEW e \in Exporters, exports[e].pc \in {"prepare", "write"} PROVE exports[e].kind # None
    <2>1. ExporterIsSound(exports[e])
      BY Zenon DEF ExportersAreSound
    <2> QED
      BY Zenon, <2>1, <1>k DEF ExporterIsSound
  <1>u. ASSUME installed' = installed, source' = source PROVE SourceIsWhole'
    BY Zenon, <1>s, <1>u, SourceStaysWhole
  <1>1. CASE SourceChanges
    <2>1. /\ installed' = installed /\ exports' = exports
          /\ \E p \in DOMAIN source : source' = [source EXCEPT ![p] = Altered]
      BY <1>1, Zenon DEF SourceChanges
    <2>2. SourceIsWhole'
      BY <1>s, <2>1, SourceStaysWhole, Zenon
    <2> QED
      BY Zenon, <2>1, <2>2 DEF ExportersAreSound
  <1>2. ASSUME NEW e \in Exporters, NEW kind \in Kinds, NEW root \in Roots, NEW deps \in BOOLEAN,
               StartExport(e, kind, root, deps)
        PROVE  ExportersAreSound'
    <2>1. SourceIsWhole' /\ exports[e].pc = "idle" /\ ExporterIsSound(exports[e])
      BY Zenon, <1>2, <1>u DEF StartExport, ExportersAreSound
    <2>2. exports[e].kind = None /\ exports[e].payload = None
      BY Zenon, <2>1 DEF ExporterIsSound
    <2>3. PICK payload : payload = build_signed_bundle_payload(root, deps)
      BY Zenon
    <2>4. IF payload = None THEN Fails(e)
          ELSE exports' = [exports EXCEPT ![e] = [pc |-> "prepare", kind |-> kind, payload |-> payload, todo |-> <<>>]]
      BY <1>2, <2>3, Zenon DEF StartExport
    <2>5. CASE payload = None
      <3>1. PICK x : x = [pc |-> "failed", kind |-> exports[e].kind, payload |-> exports[e].payload, todo |-> exports[e].todo]
        BY Zenon
      <3>2. exports' = [exports EXCEPT ![e] = x]
        BY <2>4, <2>5, <3>1, Zenon DEF Fails, Reaches
      <3>3. ExporterIsSound(x)
        BY Zenon, <2>2, <3>1 DEF ExporterIsSound
      <3> QED
        BY <2>1, <3>2, <3>3, OneExporter, Zenon
    <2>6. CASE payload # None
      <3>1. PICK x : x = [pc |-> "prepare", kind |-> kind, payload |-> payload, todo |-> <<>>]
        BY Zenon
      <3>2. exports' = [exports EXCEPT ![e] = x]
        BY <2>4, <2>6, <3>1, Zenon
      <3>3. root \in Skills
        BY Zenon, TransportAssumption
      <3>4. IsPayload(payload)
        BY <1>s, <2>3, <2>6, <3>3, PayloadIsWhole, Zenon
      <3>5. kind # None
        BY Zenon, TransportAssumption
      <3>6. ExporterIsSound(x)
        BY Zenon, <2>6, <3>1, <3>4, <3>5 DEF ExporterIsSound
      <3> QED
        BY <2>1, <3>2, <3>6, OneExporter, Zenon
    <2> QED
      BY Zenon, <2>5, <2>6
  <1>3. ASSUME NEW e \in Exporters, prepare_bundle_root(e) PROVE ExportersAreSound'
    <2>1. SourceIsWhole' /\ exports[e].kind # None /\ exports[e].pc = "prepare"
      BY Zenon, <1>3, <1>u, <1>k DEF prepare_bundle_root
    <2>2. ExporterIsSound(exports[e])
      BY DEF ExportersAreSound
    <2>3. BundleTodo(export_bundle(exports[e].payload), exports[e].payload)
      BY Zenon, <2>1, <2>2, BundleStarts DEF ExporterIsSound
    <2>4. Fails(e) \/ Reaches(e, "write", export_bundle(exports[e].payload))
      BY Zenon, <1>3 DEF prepare_bundle_root
    <2>5. CASE Fails(e)
      BY Zenon, <2>1, <2>5, ReachesStage DEF Fails
    <2>6. CASE Reaches(e, "write", export_bundle(exports[e].payload))
      BY Zenon, <2>1, <2>3, <2>6, ReachesStage
    <2> QED
      BY Zenon, <2>4, <2>5, <2>6
  <1>4. ASSUME NEW e \in Exporters, prepare_oci_layout_root(e) \/ prepare_push(e) PROVE ExportersAreSound'
    <2>1. SourceIsWhole' /\ exports[e].kind # None /\ exports[e].kind # "bundle"
      BY Zenon, <1>4, <1>u, <1>k DEF prepare_oci_layout_root, prepare_push
    <2>2. \/ Fails(e)
          \/ \E todo : Reaches(e, "write", todo)
      BY <1>4, Zenon DEF prepare_oci_layout_root, prepare_push
    <2>3. CASE Fails(e)
      BY Zenon, <2>1, <2>3, ReachesStage DEF Fails
    <2>4. CASE \E todo : Reaches(e, "write", todo)
      BY Zenon, <2>1, <2>4, ReachesStage
    <2> QED
      BY Zenon, <2>2, <2>3, <2>4
  <1>5. ASSUME NEW e \in Exporters, ExportStep(e) PROVE ExportersAreSound'
    <2>1. SourceIsWhole' /\ exports[e].kind # None /\ exports[e].pc = "write" /\ Advances(e)
      BY Zenon, <1>5, <1>u, <1>k DEF ExportStep
    <2>2. ExporterIsSound(exports[e])
      BY DEF ExportersAreSound
    <2>3. PICK rest : rest = Rest(exports[e].todo)
      BY Zenon
    <2>4. Reaches(e, IF rest = <<>> THEN "done" ELSE "write", rest)
      BY <2>1, <2>3, Zenon DEF Advances
    <2>5. exports[e].kind = "bundle" => rest = <<>> \/ BundleTodo(rest, exports[e].payload)
      BY Zenon, <2>1, <2>2, <2>3, BundleAdvances DEF ExporterIsSound
    <2>6. CASE rest = <<>>
      <3>1. Reaches(e, "done", rest)
        BY Zenon, <2>4, <2>6
      <3> QED
        BY Zenon, <2>1, <3>1, ReachesStage
    <2>7. CASE rest # <<>>
      <3>1. Reaches(e, "write", rest)
        BY Zenon, <2>4, <2>7
      <3> QED
        BY Zenon, <2>1, <2>5, <2>7, <3>1, ReachesStage
    <2> QED
      BY Zenon, <2>6, <2>7
  <1>6. ASSUME NEW e \in Exporters, PushFails(e) PROVE ExportersAreSound'
    <2>1. SourceIsWhole' /\ exports[e].kind # None /\ Fails(e)
      BY Zenon, <1>6, <1>u, <1>k DEF PushFails
    <2> QED
      BY Zenon, <2>1, ReachesStage DEF Fails
  <1>7. ASSUME NEW e \in Exporters, Dies(e) PROVE ExportersAreSound'
    <2>1. SourceIsWhole' /\ exports[e].kind # None
      BY Zenon, <1>7, <1>u, <1>k DEF Dies
    <2>2. PICK todo : Reaches(e, "dead", todo)
      BY <1>7, Zenon DEF Dies
    <2> QED
      BY Zenon, <2>1, <2>2, ReachesStage
  <1>8. CASE UNCHANGED <<installed, source, exports>>
    BY Zenon, <1>8, <1>u DEF ExportersAreSound
  <1> QED
    BY Zenon, <1>1, <1>2, <1>3, <1>4, <1>5, <1>6, <1>7, <1>8
       DEF Next, vars, CarrierDamaged, RegistryCollects, PullIndex, ImportBundle, ImportLayout, PullBlobs

-----------------------------------------------------------------------------
(* The carriers *)

\* What was signed stays signed, and what exporters sign are whole bundles.
LEMMA SignedStays ==
    ASSUME ExportersAreSound, [Next]_vars
    PROVE  Signed \subseteq Signed'
  <1>1. ASSUME NEW e \in Exporters, exports[e].payload # None PROVE exports'[e].payload = exports[e].payload
    <2>0. exports[e].kind # None /\ exports[e].pc # "idle" /\ DOMAIN exports = Exporters
      BY Zenon, <1>1 DEF ExportersAreSound, ExporterIsSound
    <2>1. ASSUME NEW f \in Exporters, NEW pc, NEW todo, Reaches(f, pc, todo)
          PROVE  exports'[e].payload = exports[e].payload
      BY Zenon, <2>0, <2>1 DEF Reaches
    <2>2. ASSUME NEW f \in Exporters, NEW kind, NEW root, NEW deps, StartExport(f, kind, root, deps)
          PROVE  exports'[e].payload = exports[e].payload
      <3>1. CASE Fails(f)
        BY <3>1, <2>1, Zenon DEF Fails
      <3>2. CASE \E x : exports' = [exports EXCEPT ![f] = x]
        <4>1. e # f
          BY Zenon, <2>0, <2>2 DEF StartExport
        <4> QED
          BY Zenon, <2>0, <3>2, <4>1
      <3> QED
        BY <2>2, <3>1, <3>2, Zenon DEF StartExport
    <2>3. ASSUME NEW f \in Exporters, prepare_bundle_root(f) \/ prepare_oci_layout_root(f) \/ prepare_push(f)
          PROVE  exports'[e].payload = exports[e].payload
      <3>1. \E pc, todo : Reaches(f, pc, todo)
        BY <2>3, Zenon DEF prepare_bundle_root, prepare_oci_layout_root, prepare_push, Fails
      <3> QED
        BY <3>1, <2>1, Zenon
    <2>4. ASSUME NEW f \in Exporters, ExportStep(f) \/ PushFails(f) \/ Dies(f)
          PROVE  exports'[e].payload = exports[e].payload
      <3>1. \E pc, todo : Reaches(f, pc, todo)
        BY <2>4, Zenon DEF ExportStep, Advances, PushFails, Fails, Dies
      <3> QED
        BY <3>1, <2>1, Zenon
    <2>5. CASE UNCHANGED exports
      BY Zenon, <2>5
    <2> QED
      BY Zenon, <2>2, <2>3, <2>4, <2>5
         DEF Next, vars, SourceChanges, CarrierDamaged, RegistryCollects, PullIndex, ImportBundle, ImportLayout, PullBlobs
  <1> QED
    BY Zenon, <1>1 DEF Signed

\* What an exporter signed is whole.
LEMMA SignedIsWhole ==
    ASSUME ExportersAreSound, NEW p \in Signed
    PROVE  IsPayload(p)
  BY Zenon DEF Signed, ExportersAreSound, ExporterIsSound

\* An exporter that was given a carrier signed something.
LEMMA ExporterSigned ==
    ASSUME ExportersAreSound, NEW e \in Exporters, exports[e].kind # None
    PROVE  IsPayload(exports[e].payload) /\ exports[e].payload \in Signed
  <1>1. IsPayload(exports[e].payload) /\ exports[e].payload # None
    BY Zenon DEF ExportersAreSound, ExporterIsSound
  <1> QED
    BY Zenon, <1>1 DEF Signed

\* Payloads, their manifests and tags are told apart from half a file and from no file.
LEMMA PayloadTypes ==
    ASSUME NEW p, IsPayload(p)
    PROVE  /\ p.bundle \in Bundles /\ Intact(p.bundle) /\ p.signature \in Signatures /\ Intact(p.signature)
           /\ Manifest(p) \in Manifests /\ Intact(Manifest(p))
           /\ ManifestBlob(Manifest(p)) \in Tags /\ IndexBlob(Manifest(p)) \in Tags
           /\ ManifestBlob(Manifest(p)) # None /\ IndexBlob(Manifest(p)) # None
  <1>1. p.bundle \in Bundles
    BY Zenon DEF IsPayload, IsBundle
  <1>2. p.signature \in Signatures
    BY <1>1 DEF IsPayload, sign_bundle_payload, Signatures
  <1>3. p.bundle.files \in Files /\ p.bundle.root_skill \in Skills
    BY Zenon, <1>1 DEF Bundles
  <1>4. Manifest(p) \in Manifests
    BY Zenon, <1>1, <1>2, <1>3 DEF Manifest, Manifests
  <1>5. ManifestBlob(Manifest(p)) \in Tags /\ IndexBlob(Manifest(p)) \in Tags
    BY Zenon, <1>4 DEF ManifestBlob, IndexBlob, Tags
  <1> QED
    BY <1>1, <1>2, <1>4, <1>5, TransportAssumption, Zenon DEF Intact

\* A layout grows: what was written stays there, whole or not.
LayoutGrows(l, m) ==
    /\ DOMAIN l.blobs \subseteq DOMAIN m.blobs
    /\ l.metadata # None => m.metadata # None
    /\ l.index # None => m.index # None

\* A stage of a layout's writes stays reached while the layout grows.
LEMMA LayoutTodoStays ==
    ASSUME NEW todo, NEW manifest, NEW blobs, NEW metadata, LayoutTodo(todo, manifest, blobs, metadata),
           NEW blobs2, blobs \subseteq blobs2, NEW metadata2, metadata # None => metadata2 # None
    PROVE  LayoutTodo(todo, manifest, blobs2, metadata2)
  <1>1. ASSUME NEW S, S \subseteq blobs PROVE S \subseteq blobs2
    BY Zenon, <1>1
  <1> QED
    BY <1>1, Zenon DEF LayoutTodo

\* So the writers of a layout do not disturb each other.
LEMMA LayoutWriterStays ==
    ASSUME NEW x, NEW l, NEW m, LayoutWriter(x, l), LayoutGrows(l, m)
    PROVE  LayoutWriter(x, m)
  <1>1. CASE x.kind = "layout" /\ x.pc = "write"
    <2>1. LayoutTodo(x.todo, Manifest(x.payload), DOMAIN l.blobs, l.metadata)
      BY Zenon, <1>1 DEF LayoutWriter
    <2>2. LayoutTodo(x.todo, Manifest(x.payload), DOMAIN m.blobs, m.metadata)
      BY <2>1, LayoutTodoStays, Zenon DEF LayoutGrows
    <2> QED
      BY Zenon, <1>1, <2>2 DEF LayoutWriter
  <1>2. CASE ~(x.kind = "layout" /\ x.pc = "write")
    BY Zenon, <1>2 DEF LayoutWriter, LayoutGrows
  <1> QED
    BY Zenon, <1>1, <1>2

\* More may be signed meanwhile.
LEMMA LayoutStaysMixed ==
    ASSUME NEW l, NEW A, NEW B, A \subseteq B, LayoutIsMixed(l, A)
    PROVE  LayoutIsMixed(l, B)
  BY Zenon DEF LayoutIsMixed

LayoutAfter(l, m, to, what, whole, signed) ==
    /\ LayoutIsMixed(m, signed) /\ LayoutGrows(l, m)
    /\ whole = TRUE /\ LayoutIsIntact(l) => LayoutIsIntact(m)
    /\ to = "oci-layout" => m.metadata # None
    /\ to = "blob" => what \in DOMAIN m.blobs
    /\ to = "index.json" => m.index # None

\* What a write does to a layout, whole or cut short.
LEMMA LayoutWritten ==
    ASSUME NEW to \in {"oci-layout", "blob", "index.json"}, NEW what, NEW whole \in BOOLEAN,
           WriteLayout(to, what, whole), NEW A, LayoutIsMixed(layout, A),
           to = "oci-layout" => what = Good,
           to = "index.json" => \E p \in A :
                /\ IsPayload(p) /\ what = Manifest(p)
                /\ Blobs(what) \cup {ManifestBlob(what)} \subseteq DOMAIN layout.blobs
    PROVE  LayoutAfter(layout, layout', to, what, whole, A)
  <1> USE DEF LayoutAfter
  <1>0. Bad # None /\ Good # None /\ Good # Bad
    BY Zenon, TransportAssumption
  <1>r. DOMAIN layout = {"metadata", "index", "blobs", "created"}
    BY Zenon DEF LayoutIsMixed
  <1>1. CASE to = "oci-layout"
    <2>1. PICK content : content = IF whole THEN what ELSE Bad
      BY Zenon
    <2>2. layout' = [layout EXCEPT !.metadata = content]
      BY <1>1, <2>1, Zenon DEF WriteLayout
    <2>3. content \in {Good, Bad} /\ (whole = TRUE => content = Good)
      BY Zenon, <1>1, <2>1
    <2>4. /\ DOMAIN layout' = DOMAIN layout /\ layout'.metadata = content
          /\ layout'.index = layout.index /\ layout'.blobs = layout.blobs
      BY Zenon, <1>r, <2>2
    <2>5. LayoutIsMixed(layout', A)
      BY <2>3, <2>4, Zenon DEF LayoutIsMixed
    <2>6. LayoutGrows(layout, layout') /\ layout'.metadata # None
      BY Zenon, <1>0, <2>3, <2>4 DEF LayoutGrows
    <2> QED
      BY Zenon, <1>0, <1>1, <2>3, <2>4, <2>5, <2>6 DEF LayoutIsIntact
  <1>2. CASE to = "blob"
    <2>1. PICK blobs : blobs = [b \in DOMAIN layout.blobs \cup {what} |-> IF b = what THEN whole ELSE layout.blobs[b]]
      BY Zenon
    <2>2. layout' = [layout EXCEPT !.blobs = blobs]
      BY <1>2, <2>1, Zenon DEF WriteLayout
    <2>3. /\ DOMAIN layout' = DOMAIN layout /\ layout'.metadata = layout.metadata
          /\ layout'.index = layout.index /\ layout'.blobs = blobs
      BY Zenon, <1>r, <2>2
    <2>4. DOMAIN blobs = DOMAIN layout.blobs \cup {what}
      BY Zenon, <2>1
    <2>5. \A b \in DOMAIN blobs : blobs[b] = whole \/ (b \in DOMAIN layout.blobs /\ blobs[b] = layout.blobs[b])
      BY Zenon, <2>1
    <2>6. LayoutGrows(layout, layout') /\ what \in DOMAIN layout'.blobs
      BY Zenon, <2>3, <2>4 DEF LayoutGrows
    <2>7. \A b \in DOMAIN blobs : blobs[b] \in BOOLEAN
      BY Zenon, <2>5 DEF LayoutIsMixed
    <2>8. \A S : S \subseteq DOMAIN layout.blobs => S \subseteq DOMAIN blobs
      BY Zenon, <2>4
    <2>9. LayoutIsMixed(layout', A)
      BY <2>3, <2>7, <2>8, Zenon DEF LayoutIsMixed
    <2> QED
      BY Zenon, <1>2, <2>3, <2>5, <2>6, <2>9 DEF LayoutIsIntact
  <1>3. CASE to = "index.json"
    <2>1. PICK content : content = IF whole THEN what ELSE Bad
      BY Zenon
    <2>2. layout' = [layout EXCEPT !.index = content]
      BY <1>3, <2>1, Zenon DEF WriteLayout
    <2>3. /\ DOMAIN layout' = DOMAIN layout /\ layout'.metadata = layout.metadata
          /\ layout'.index = content /\ layout'.blobs = layout.blobs
      BY Zenon, <1>r, <2>2
    <2>4. PICK p \in A : /\ IsPayload(p) /\ what = Manifest(p)
                         /\ Blobs(what) \cup {ManifestBlob(what)} \subseteq DOMAIN layout.blobs
      BY <1>3, Zenon
    <2>5. Intact(what)
      BY <2>4, PayloadTypes, Zenon
    <2>6. content # None /\ (Intact(content) => content = what) /\ (whole = TRUE => content # Bad)
      BY Zenon, <1>0, <2>1, <2>5 DEF Intact
    <2>7. LayoutIsMixed(layout', A)
      BY <2>3, <2>4, <2>6, Zenon DEF LayoutIsMixed
    <2>8. LayoutGrows(layout, layout') /\ layout'.index # None
      BY Zenon, <2>3, <2>6 DEF LayoutGrows
    <2> QED
      BY Zenon, <1>3, <2>3, <2>6, <2>7, <2>8 DEF LayoutIsIntact
  <1> QED
    BY <1>1, <1>2, <1>3, Zenon

\* The manifest of build_oci_artifact, when it makes one.
LEMMA ManifestMade ==
    ASSUME NEW payload, NEW manifest, manifest = build_oci_artifact(payload), manifest # None
    PROVE  manifest = Manifest(payload)
  BY Zenon DEF build_oci_artifact, Manifest

\* Only damage is damage.
LEMMA DamageStays ==
    ASSUME [Next]_vars
    PROVE  UNCHANGED damaged \/ CarrierDamaged
  <1>1. ASSUME NEW f \in Exporters,
               (\E kind \in Kinds, root \in Roots, deps \in BOOLEAN : StartExport(f, kind, root, deps))
                  \/ prepare_bundle_root(f) \/ prepare_oci_layout_root(f) \/ prepare_push(f)
                  \/ ExportStep(f) \/ PushFails(f) \/ Dies(f)
        PROVE  damaged' = damaged
    BY <1>1, Zenon DEF StartExport, prepare_bundle_root, prepare_oci_layout_root, prepare_push, ExportStep, PushFails, Dies
  <1> QED
    BY Zenon, <1>1 DEF Next, vars, SourceChanges, RegistryCollects, PullIndex, ImportBundle, ImportLayout, PullBlobs

\* A dead exporter stays dead and damage stays done.
LEMMA UntouchedBefore ==
    ASSUME ExportersAreSound, [Next]_vars, Untouched'
    PROVE  Untouched
  <1>1. ~damaged
    <2>1. damaged' # TRUE
      BY Zenon DEF Untouched
    <2>2. CASE CarrierDamaged
      BY Zenon, <2>1, <2>2 DEF CarrierDamaged
    <2>3. CASE UNCHANGED damaged
      BY Zenon, <2>3 DEF Untouched
    <2> QED
      BY Zenon, <2>2, <2>3, DamageStays
  <1>2. ASSUME NEW e \in Exporters, exports[e].pc = "dead" PROVE FALSE
    <2>0. DOMAIN exports = Exporters /\ exports'[e].pc # "dead"
      BY Zenon DEF ExportersAreSound, Untouched
    <2>1. ASSUME NEW f \in Exporters, exports[f].pc # "dead", NEW x, exports' = [exports EXCEPT ![f] = x] PROVE FALSE
      BY Zenon, <1>2, <2>0, <2>1
    <2>2. ASSUME NEW f \in Exporters, NEW kind, NEW root, NEW deps, StartExport(f, kind, root, deps) PROVE FALSE
      <3>1. exports[f].pc # "dead"
        BY Zenon, <2>2 DEF StartExport
      <3>2. \E x : exports' = [exports EXCEPT ![f] = x]
        BY <2>2, Zenon DEF StartExport, Fails, Reaches
      <3> QED
        BY <2>1, <3>1, <3>2, Zenon
    <2>3. ASSUME NEW f \in Exporters, prepare_bundle_root(f) \/ prepare_oci_layout_root(f) \/ prepare_push(f) PROVE FALSE
      <3>0. exports[f].pc = "prepare"
        BY <2>3, Zenon DEF prepare_bundle_root, prepare_oci_layout_root, prepare_push
      <3>1. exports[f].pc # "dead"
        BY Zenon, <3>0
      <3>2. \E x : exports' = [exports EXCEPT ![f] = x]
        BY <2>3, Zenon DEF prepare_bundle_root, prepare_oci_layout_root, prepare_push, Fails, Reaches
      <3> QED
        BY <2>1, <3>1, <3>2, Zenon
    <2>4. ASSUME NEW f \in Exporters, ExportStep(f) \/ PushFails(f) \/ Dies(f) PROVE FALSE
      <3>0. exports[f].pc = "write"
        BY <2>4, Zenon DEF ExportStep, PushFails, Dies
      <3>1. exports[f].pc # "dead"
        BY Zenon, <3>0
      <3>2. \E x : exports' = [exports EXCEPT ![f] = x]
        BY <2>4, Zenon DEF ExportStep, Advances, PushFails, Dies, Fails, Reaches
      <3> QED
        BY <2>1, <3>1, <3>2, Zenon
    <2>5. CASE UNCHANGED exports
      BY Zenon, <1>2, <2>0, <2>5
    <2> QED
      BY Zenon, <2>2, <2>3, <2>4, <2>5
         DEF Next, vars, SourceChanges, CarrierDamaged, RegistryCollects, PullIndex, ImportBundle, ImportLayout, PullBlobs
  <1> QED
    BY Zenon, <1>1, <1>2 DEF Untouched

WritesLayout(x, l, m, whole, signed) ==
    /\ LayoutIsMixed(m, signed) /\ LayoutGrows(l, m)
    /\ whole = TRUE /\ LayoutIsIntact(l) => LayoutIsIntact(m)
    /\ LayoutWrites(x.todo, Manifest(x.payload), DOMAIN l.blobs, l.metadata, DOMAIN m.blobs, m.metadata)
    /\ Head(x.todo).to = "index.json" => m.index # None

\* One exporter moves and the layout grows: the other writers of the layout are where they
\* were.
LEMMA OneLayoutWriter ==
    ASSUME ExportersAreSound, LayoutIsSound, NEW e \in Exporters, NEW x, exports' = [exports EXCEPT ![e] = x],
           LayoutWriter(x, layout'), LayoutGrows(layout, layout')
    PROVE  \A f \in Exporters : LayoutWriter(exports'[f], layout')
  <1>1. \A f \in Exporters : exports'[f] = IF f = e THEN x ELSE exports[f]
    BY Zenon DEF ExportersAreSound
  <1>2. \A f \in Exporters : LayoutWriter(exports[f], layout')
    BY Zenon, LayoutWriterStays DEF LayoutIsSound
  <1> QED
    BY <1>1, <1>2, Zenon

\* A layout stays sound, whoever writes to it and whoever dies.
LEMMA LayoutStaysSound ==
    ExportersAreSound /\ LayoutIsSound /\ [Next]_vars => LayoutIsSound'
  <1> SUFFICES ASSUME ExportersAreSound, LayoutIsSound, [Next]_vars PROVE LayoutIsSound'
    BY Zenon
  <1>g. Signed \subseteq Signed'
    BY Zenon, SignedStays
  <1>m. LayoutIsMixed(layout, Signed')
    BY Zenon, <1>g, LayoutStaysMixed DEF LayoutIsSound
  <1>t. Untouched' => LayoutIsIntact(layout)
    BY Zenon, UntouchedBefore DEF LayoutIsSound
  <1>s. LayoutGrows(layout, layout)
    BY Zenon DEF LayoutGrows
  \* The layout is left alone by one exporter that moves.
  <1>a. ASSUME NEW e \in Exporters, NEW x, exports' = [exports EXCEPT ![e] = x], layout' = layout,
               x.kind # "layout" \/ x.pc \notin {"write", "done"}
        PROVE  LayoutIsSound'
    <2>1. LayoutWriter(x, layout')
      BY Zenon, <1>a DEF LayoutWriter
    <2>2. LayoutGrows(layout, layout')
      BY Zenon, <1>a, <1>s
    <2>3. \A f \in Exporters : LayoutWriter(exports'[f], layout')
      BY <1>a, <2>1, <2>2, OneLayoutWriter, Zenon
    <2>4. LayoutIsMixed(layout', Signed') /\ (Untouched' => LayoutIsIntact(layout'))
      BY Zenon, <1>a, <1>m, <1>t
    <2> QED
      BY Zenon, <2>3, <2>4 DEF LayoutIsSound
  <1>b. ASSUME NEW e \in Exporters, NEW pc, NEW todo, Reaches(e, pc, todo), layout' = layout,
               exports[e].kind # "layout" \/ pc \notin {"write", "done"}
        PROVE  LayoutIsSound'
    <2>1. PICK x : x = [pc |-> pc, kind |-> exports[e].kind, payload |-> exports[e].payload, todo |-> todo]
      BY Zenon
    <2>2. exports' = [exports EXCEPT ![e] = x]
      BY <1>b, <2>1, Zenon DEF Reaches
    <2>3. x.kind # "layout" \/ x.pc \notin {"write", "done"}
      BY Zenon, <1>b, <2>1
    <2> QED
      BY <1>a, <1>b, <2>2, <2>3, Zenon
  <1>1. ASSUME NEW e \in Exporters, NEW kind \in Kinds, NEW root \in Roots, NEW deps \in BOOLEAN,
               StartExport(e, kind, root, deps)
        PROVE  LayoutIsSound'
    <2>1. layout' = layout
      BY Zenon, <1>1 DEF StartExport, carriers
    <2>p. PICK payload : payload = build_signed_bundle_payload(root, deps)
      BY Zenon
    <2>c. IF payload = None THEN Fails(e)
          ELSE exports' = [exports EXCEPT ![e] = [pc |-> "prepare", kind |-> kind, payload |-> payload, todo |-> <<>>]]
      BY <1>1, <2>p, Zenon DEF StartExport
    <2>2. CASE payload = None
      BY Zenon, <1>b, <2>1, <2>2, <2>c DEF Fails
    <2>3. CASE payload # None
      <3>1. exports' = [exports EXCEPT ![e] = [pc |-> "prepare", kind |-> kind, payload |-> payload, todo |-> <<>>]]
        BY Zenon, <2>3, <2>c
      <3>2. PICK x : x = [pc |-> "prepare", kind |-> kind, payload |-> payload, todo |-> <<>>]
        BY Zenon
      <3>3. x.pc \notin {"write", "done"} /\ exports' = [exports EXCEPT ![e] = x]
        BY Zenon, <3>1, <3>2
      <3> QED
        BY <1>a, <2>1, <3>3, Zenon
    <2> QED
      BY Zenon, <2>2, <2>3
  <1>2. ASSUME NEW e \in Exporters, prepare_bundle_root(e) \/ prepare_push(e) PROVE LayoutIsSound'
    <2>1. layout' = layout /\ exports[e].kind # "layout"
      BY Zenon, <1>2 DEF prepare_bundle_root, prepare_push, carriers
    <2>2. \E pc, todo : Reaches(e, pc, todo)
      BY <1>2, Zenon DEF prepare_bundle_root, prepare_push, Fails
    <2> QED
      BY <1>b, <2>1, <2>2, Zenon
  <1>3. ASSUME NEW e \in Exporters, prepare_oci_layout_root(e) PROVE LayoutIsSound'
    <2>0. PICK payload : payload = exports[e].payload
      BY Zenon
    <2>1. PICK manifest : manifest = build_oci_artifact(payload)
      BY Zenon
    <2>2. \/ Fails(e) /\ layout' = layout
          \/ /\ manifest # None /\ Reaches(e, "write", export_oci_layout(manifest))
             /\ layout' = [layout EXCEPT !.created = TRUE]
      BY <1>3, <2>0, <2>1, Zenon DEF prepare_oci_layout_root
    <2>3. CASE Fails(e) /\ layout' = layout
      BY Zenon, <1>b, <2>3 DEF Fails
    <2>4. CASE /\ manifest # None /\ Reaches(e, "write", export_oci_layout(manifest))
               /\ layout' = [layout EXCEPT !.created = TRUE]
      <3>1. manifest = Manifest(exports[e].payload)
        BY Zenon, <2>0, <2>1, <2>4, ManifestMade
      <3>2. PICK x : x = [pc |-> "write", kind |-> exports[e].kind, payload |-> exports[e].payload,
                          todo |-> export_oci_layout(manifest)]
        BY Zenon
      <3>3. exports' = [exports EXCEPT ![e] = x]
        BY <2>4, <3>2, Zenon DEF Reaches
      <3>4. x.pc = "write" /\ x.payload = exports[e].payload /\ x.todo = export_oci_layout(manifest)
        BY Zenon, <3>2
      <3>5. LayoutTodo(x.todo, Manifest(x.payload), DOMAIN layout'.blobs, layout'.metadata)
        BY <3>1, <3>4, Zenon DEF LayoutTodo
      <3>6. LayoutWriter(x, layout')
        BY Zenon, <3>4, <3>5 DEF LayoutWriter
      <3>7. /\ DOMAIN layout' = DOMAIN layout /\ layout'.metadata = layout.metadata
            /\ layout'.index = layout.index /\ layout'.blobs = layout.blobs
        BY Zenon, <2>4 DEF LayoutIsSound, LayoutIsMixed
      <3>8. LayoutIsMixed(layout', Signed')
        BY <1>m, <3>7, Zenon DEF LayoutIsMixed
      <3>9. LayoutGrows(layout, layout') /\ (LayoutIsIntact(layout) => LayoutIsIntact(layout'))
        BY Zenon, <3>7 DEF LayoutGrows, LayoutIsIntact
      <3>10. \A f \in Exporters : LayoutWriter(exports'[f], layout')
        BY <3>3, <3>6, <3>9, OneLayoutWriter, Zenon
      <3> QED
        BY Zenon, <1>t, <3>8, <3>9, <3>10 DEF LayoutIsSound
    <2> QED
      BY Zenon, <2>2, <2>3, <2>4
  \* The next write of an exporter to the layout, whole or cut short.
  <1>w. ASSUME NEW e \in Exporters, exports[e].pc = "write", exports[e].kind = "layout", NEW whole \in BOOLEAN,
               WriteLayout(Head(exports[e].todo).to, NextThing(exports[e].todo), whole)
        PROVE  WritesLayout(exports[e], layout, layout', whole, Signed')
    <2>1. PICK to, what, todo, manifest :
            /\ to = Head(exports[e].todo).to /\ what = NextThing(exports[e].todo)
            /\ todo = exports[e].todo /\ manifest = Manifest(exports[e].payload)
      BY Zenon
    <2>2. LayoutTodo(todo, manifest, DOMAIN layout.blobs, layout.metadata)
      BY Zenon, <1>w, <2>1 DEF LayoutIsSound, LayoutWriter
    <2>3. PICK all, some : all = DOMAIN layout.blobs \cup {what} /\ some = Good
      BY Zenon
    <2>4. some # None
      BY Zenon, <2>3, TransportAssumption
    <2>5. LayoutWrites(todo, manifest, DOMAIN layout.blobs, layout.metadata, all, some)
      <3>1. DOMAIN layout.blobs \subseteq all /\ NextThing(todo) \in all
        BY Zenon, <2>1, <2>3
      <3> QED
        BY <2>2, <2>4, <3>1, LayoutAdvances, Zenon
    <2>6. /\ to \in {"oci-layout", "blob", "index.json"}
          /\ to = "oci-layout" => what = Good
          /\ to = "index.json" => what = manifest /\ Blobs(manifest) \cup {ManifestBlob(manifest)} \subseteq DOMAIN layout.blobs
      BY <2>1, <2>5, Zenon DEF LayoutWrites
    <2>7. IsPayload(exports[e].payload) /\ exports[e].payload \in Signed
      BY Zenon, <1>w, TransportAssumption DEF ExportersAreSound, ExporterIsSound, Signed
    <2>s. PICK signed : signed = Signed'
      BY Zenon
    <2>8. exports[e].payload \in signed /\ LayoutIsMixed(layout, signed)
      BY Zenon, <1>g, <1>m, <2>7, <2>s
    <2>9. to = "index.json" => \E p \in signed :
                /\ IsPayload(p) /\ what = Manifest(p)
                /\ Blobs(what) \cup {ManifestBlob(what)} \subseteq DOMAIN layout.blobs
      BY <2>1, <2>6, <2>7, <2>8, Zenon
    <2>10. WriteLayout(to, what, whole)
      BY <1>w, <2>1, Zenon
    <2>11. LayoutAfter(layout, layout', to, what, whole, signed)
      BY <2>6, <2>8, <2>9, <2>10, LayoutWritten, Zenon
    <2>12. LayoutWrites(todo, manifest, DOMAIN layout.blobs, layout.metadata, DOMAIN layout'.blobs, layout'.metadata)
      <3>1. DOMAIN layout.blobs \subseteq DOMAIN layout'.blobs /\ (layout.metadata # None => layout'.metadata # None)
        BY Zenon, <2>11 DEF LayoutGrows, LayoutAfter
      <3>2. /\ Head(todo).to = "oci-layout" => layout'.metadata # None
            /\ Head(todo).to = "blob" => NextThing(todo) \in DOMAIN layout'.blobs
        BY <2>1, <2>11, Zenon DEF LayoutAfter
      <3> QED
        BY <2>2, <3>1, <3>2, LayoutAdvances, Zenon
    <2> QED
      BY <2>1, <2>11, <2>12, <2>s, Zenon DEF LayoutAfter, WritesLayout
  <1>4. ASSUME NEW e \in Exporters, ExportStep(e) PROVE LayoutIsSound'
    <2>1. CASE layout' = layout /\ exports[e].kind # "layout"
      <3>1. \E pc, todo : Reaches(e, pc, todo)
        BY <1>4, Zenon DEF ExportStep, Advances
      <3> QED
        BY <1>b, <2>1, <3>1, Zenon
    <2>2. CASE exports[e].kind = "layout" /\ WriteLayout(Head(exports[e].todo).to, NextThing(exports[e].todo), TRUE)
      <3>0. exports[e].pc = "write" /\ Advances(e)
        BY Zenon, <1>4 DEF ExportStep
      <3>1. /\ LayoutIsMixed(layout', Signed') /\ LayoutGrows(layout, layout')
            /\ Untouched' => LayoutIsIntact(layout')
            /\ LayoutWrites(exports[e].todo, Manifest(exports[e].payload), DOMAIN layout.blobs, layout.metadata,
                            DOMAIN layout'.blobs, layout'.metadata)
            /\ Head(exports[e].todo).to = "index.json" => layout'.index # None
        BY <1>w, <1>t, <2>2, <3>0, Zenon DEF WritesLayout
      <3>2. PICK rest, pc : rest = Rest(exports[e].todo) /\ pc = IF rest = <<>> THEN "done" ELSE "write"
        BY Zenon
      <3>3. PICK x : x = [pc |-> pc, kind |-> exports[e].kind, payload |-> exports[e].payload, todo |-> rest]
        BY Zenon
      <3>4. exports' = [exports EXCEPT ![e] = x]
        BY <3>0, <3>2, <3>3, Zenon DEF Advances, Reaches
      <3>5. x.pc = pc /\ x.kind = "layout" /\ x.payload = exports[e].payload /\ x.todo = rest
        BY Zenon, <2>2, <3>3
      <3>6. LayoutWriter(x, layout')
        <4>1. CASE Head(exports[e].todo).to = "index.json"
          <5>1. layout'.index # None /\ layout.metadata # None /\ rest = <<>>
            BY Zenon, <3>1, <3>2, <4>1 DEF LayoutWrites
          <5>2. layout'.metadata # None /\ pc = "done"
            BY Zenon, <3>1, <3>2, <5>1 DEF LayoutGrows
          <5> QED
            BY Zenon, <3>5, <5>1, <5>2 DEF LayoutWriter
        <4>2. CASE Head(exports[e].todo).to # "index.json"
          <5>1. rest # <<>> /\ LayoutTodo(rest, Manifest(exports[e].payload), DOMAIN layout'.blobs, layout'.metadata)
            BY <3>1, <3>2, <4>2, Zenon DEF LayoutWrites
          <5>2. pc = "write"
            BY Zenon, <3>2, <5>1
          <5> QED
            BY Zenon, <3>5, <5>1, <5>2 DEF LayoutWriter
        <4> QED
          BY Zenon, <4>1, <4>2
      <3>7. \A f \in Exporters : LayoutWriter(exports'[f], layout')
        BY <3>1, <3>4, <3>6, OneLayoutWriter, Zenon
      <3> QED
        BY Zenon, <3>1, <3>7 DEF LayoutIsSound
    <2>3. \/ exports[e].kind = "bundle" /\ UNCHANGED <<layout, registry>>
          \/ exports[e].kind = "layout" /\ WriteLayout(Head(exports[e].todo).to, NextThing(exports[e].todo), TRUE)
          \/ exports[e].kind = "push" /\ UNCHANGED <<directory, layout>>
      BY <1>4, Zenon DEF ExportStep
    <2>4. UNCHANGED <<layout, registry>> \/ UNCHANGED <<directory, layout>> => layout' = layout
      BY Zenon
    <2> QED
      BY Zenon, <2>1, <2>2, <2>3, <2>4
  <1>5. ASSUME NEW e \in Exporters, PushFails(e) PROVE LayoutIsSound'
    BY Zenon, <1>5, <1>b DEF PushFails, Fails, carriers
  <1>6. ASSUME NEW e \in Exporters, Dies(e) PROVE LayoutIsSound'
    <2>0. exports[e].pc = "write" /\ \E todo : Reaches(e, "dead", todo)
      BY <1>6, Zenon DEF Dies
    <2>1. CASE layout' = layout
      BY Zenon, <1>b, <2>0, <2>1
    <2>2. CASE exports[e].kind = "layout" /\ WriteLayout(Head(exports[e].todo).to, NextThing(exports[e].todo), FALSE)
      <3>1. LayoutIsMixed(layout', Signed') /\ LayoutGrows(layout, layout')
        BY <1>w, <2>0, <2>2, Zenon DEF WritesLayout
      <3>2. PICK todo : Reaches(e, "dead", todo)
        BY Zenon, <2>0
      <3>3. PICK x : x = [pc |-> "dead", kind |-> exports[e].kind, payload |-> exports[e].payload, todo |-> todo]
        BY Zenon
      <3>4. exports' = [exports EXCEPT ![e] = x] /\ x.pc = "dead"
        BY Zenon, <3>2, <3>3 DEF Reaches
      <3>5. LayoutWriter(x, layout')
        BY Zenon, <3>4 DEF LayoutWriter
      <3>6. \A f \in Exporters : LayoutWriter(exports'[f], layout')
        BY <3>1, <3>4, <3>5, OneLayoutWriter, Zenon
      <3>7. ~Untouched'
        BY Zenon, <3>4 DEF ExportersAreSound, Untouched
      <3> QED
        BY Zenon, <3>1, <3>6, <3>7 DEF LayoutIsSound
    <2>3. \/ UNCHANGED carriers \/ UNCHANGED <<layout, registry>>
          \/ exports[e].kind = "layout" /\ WriteLayout(Head(exports[e].todo).to, NextThing(exports[e].todo), FALSE)
      BY <1>6, Zenon DEF Dies
    <2>4. UNCHANGED <<layout, registry>> \/ UNCHANGED carriers => layout' = layout
      BY Zenon DEF carriers
    <2> QED
      BY Zenon, <2>1, <2>2, <2>3, <2>4
  <1>7. CASE CarrierDamaged
    <2>1. CASE layout' = layout
      BY Zenon, <1>7, <1>m, <2>1 DEF CarrierDamaged, LayoutIsSound, Untouched
    <2>2. CASE \E b \in DOMAIN layout.blobs : layout' = [layout EXCEPT !.blobs = [@ EXCEPT ![b] = FALSE]]
      <3>1. PICK b \in DOMAIN layout.blobs : layout' = [layout EXCEPT !.blobs = [layout.blobs EXCEPT ![b] = FALSE]]
        BY <2>2, Zenon
      <3>2. PICK blobs : blobs = [layout.blobs EXCEPT ![b] = FALSE]
        BY Zenon
      <3>3. /\ DOMAIN layout' = DOMAIN layout /\ layout'.metadata = layout.metadata
            /\ layout'.index = layout.index /\ layout'.blobs = blobs
        BY Zenon, <3>1, <3>2 DEF LayoutIsSound, LayoutIsMixed
      <3>4. DOMAIN blobs = DOMAIN layout.blobs /\ \A c \in DOMAIN blobs : blobs[c] \in BOOLEAN
        <4>1. PICK old : old = layout.blobs
          BY Zenon
        <4>2. \A c \in DOMAIN old : old[c] \in BOOLEAN
          BY Zenon, <4>1 DEF LayoutIsSound, LayoutIsMixed
        <4>3. blobs = [old EXCEPT ![b] = FALSE]
          BY <3>2, <4>1, Zenon
        <4>4. DOMAIN blobs = DOMAIN old /\ \A c \in DOMAIN old : blobs[c] = FALSE \/ blobs[c] = old[c]
          BY Zenon, <4>3
        <4> QED
          BY <4>1, <4>2, <4>4, Zenon
      <3>5. LayoutIsMixed(layout', Signed')
        BY <1>m, <3>3, <3>4, Zenon DEF LayoutIsMixed
      <3>6. LayoutGrows(layout, layout')
        BY Zenon, <3>3, <3>4 DEF LayoutGrows
      <3>7. ~Untouched' /\ exports' = exports
        BY Zenon, <1>7 DEF CarrierDamaged, Untouched
      <3>8. \A f \in Exporters : LayoutWriter(exports'[f], layout')
        BY Zenon, <3>6, <3>7, LayoutWriterStays DEF LayoutIsSound
      <3> QED
        BY Zenon, <3>5, <3>7, <3>8 DEF LayoutIsSound
    <2> QED
      BY <1>7, <2>1, <2>2, Zenon DEF CarrierDamaged
  <1>8. CASE UNCHANGED <<exports, layout>>
    BY Zenon, <1>8, <1>m, <1>t DEF LayoutIsSound
  <1> QED
    BY Zenon, <1>1, <1>2, <1>3, <1>4, <1>5, <1>6, <1>7, <1>8
       DEF Next, vars, carriers, SourceChanges, RegistryCollects, PullIndex, ImportBundle, ImportLayout, PullBlobs

\* A stage of a push stays reached while blobs are added.
LEMMA PusherStays ==
    ASSUME NEW x, NEW r, NEW s, Pusher(x, r), r.blobs \subseteq s.blobs
    PROVE  Pusher(x, s)
  <1>1. ASSUME NEW S, S \subseteq r.blobs PROVE S \subseteq s.blobs
    BY Zenon, <1>1
  <1> QED
    BY <1>1, Zenon DEF Pusher, PushTodo

\* More may be signed meanwhile.
LEMMA RegistryStaysMixed ==
    ASSUME NEW r, NEW A, NEW B, A \subseteq B, RegistryIsMixed(r, A)
    PROVE  RegistryIsMixed(r, B)
  BY Zenon DEF RegistryIsMixed

RegistryAfter(r, s, to, what, signed) ==
    /\ RegistryIsMixed(s, signed) /\ r.blobs \subseteq s.blobs
    /\ to \in {"blob", "tag"} => what \in s.blobs
    /\ IF to = "tag" THEN s.tag = what ELSE s.tag = r.tag

\* What a push writes to the registry.
LEMMA RegistryWritten ==
    ASSUME NEW to, NEW what, WriteRegistry(to, what), NEW A, RegistryIsMixed(registry, A),
           to = "tag" => \E p \in A : what \in {ManifestBlob(Manifest(p)), IndexBlob(Manifest(p))}
    PROVE  RegistryAfter(registry, registry', to, what, A)
  <1>r. DOMAIN registry = {"tag", "blobs"}
    BY Zenon DEF RegistryIsMixed
  <1>1. CASE to = "blob"
    <2>1. registry' = [registry EXCEPT !.blobs = registry.blobs \cup {what}]
      BY Zenon, <1>1 DEF WriteRegistry
    <2>2. DOMAIN registry' = DOMAIN registry /\ registry'.tag = registry.tag /\ registry'.blobs = registry.blobs \cup {what}
      BY Zenon, <1>r, <2>1
    <2>3. RegistryIsMixed(registry', A)
      BY <2>2, Zenon DEF RegistryIsMixed
    <2> QED
      BY Zenon, <1>1, <2>2, <2>3 DEF RegistryAfter
  <1>2. CASE to = "tag"
    <2>1. registry' = [tag |-> what, blobs |-> registry.blobs \cup {what}]
      BY Zenon, <1>2 DEF WriteRegistry
    <2>2. DOMAIN registry' = {"tag", "blobs"} /\ registry'.tag = what /\ registry'.blobs = registry.blobs \cup {what}
      BY Zenon, <2>1
    <2>3. RegistryIsMixed(registry', A)
      BY <1>2, <2>2, Zenon DEF RegistryIsMixed
    <2> QED
      BY Zenon, <1>2, <2>2, <2>3 DEF RegistryAfter
  <1>3. CASE to \notin {"blob", "tag"}
    BY Zenon, <1>3 DEF WriteRegistry, RegistryAfter
  <1> QED
    BY Zenon, <1>1, <1>2, <1>3

\* A registry stays sound, whoever pushes to it, fails or dies.
LEMMA RegistryStaysSound ==
    ExportersAreSound /\ RegistryIsSound /\ [Next]_vars => RegistryIsSound'
  <1> SUFFICES ASSUME ExportersAreSound, RegistryIsSound, [Next]_vars PROVE RegistryIsSound'
    OBVIOUS
  <1>g. Signed \subseteq Signed'
    BY SignedStays
  <1>m. RegistryIsMixed(registry, Signed') /\ (pull # None => \E p \in Signed' : pull = Manifest(p))
    <2>1. RegistryIsMixed(registry, Signed')
      BY Zenon, <1>g, RegistryStaysMixed DEF RegistryIsSound
    <2> QED
      BY Zenon, <1>g, <2>1 DEF RegistryIsSound
  \* One exporter moves, and the registry is left alone.
  <1>a. ASSUME NEW e \in Exporters, NEW x, exports' = [exports EXCEPT ![e] = x], registry' = registry, pull' = pull,
               Pusher(x, registry), BetweenManifests(exports[e]) => BetweenManifests(x)
        PROVE  RegistryIsSound'
    <2>1. \A f \in Exporters : exports'[f] = IF f = e THEN x ELSE exports[f]
      BY Zenon, <1>a DEF ExportersAreSound
    <2>2. \A f \in Exporters : Pusher(exports'[f], registry')
      BY <1>a, <2>1, Zenon DEF RegistryIsSound
    <2>3. TagIsBetween'
      <3>1. SUFFICES ASSUME registry.tag # None, registry.tag.kind = "manifest"
                     PROVE  \E f \in Exporters : BetweenManifests(exports'[f])
        BY <1>a, Zenon DEF TagIsBetween
      <3>2. PICK f \in Exporters : BetweenManifests(exports[f])
        BY <3>1, Zenon DEF RegistryIsSound, TagIsBetween
      <3>3. BetweenManifests(exports'[f])
        BY <1>a, <2>1, <3>2, Zenon
      <3> QED
        BY Zenon, <3>3
    <2> QED
      BY Zenon, <1>a, <1>m, <2>2, <2>3 DEF RegistryIsSound
  <1>b. ASSUME NEW e \in Exporters, NEW pc, NEW todo, Reaches(e, pc, todo), registry' = registry, pull' = pull,
               exports[e].kind # "push" \/ pc # "write", exports[e].pc \notin {"failed", "dead"},
               exports[e].kind = "push" /\ exports[e].pc = "write" => pc \in {"failed", "dead"} /\ todo = exports[e].todo
        PROVE  RegistryIsSound'
    <2>1. PICK x : x = [pc |-> pc, kind |-> exports[e].kind, payload |-> exports[e].payload, todo |-> todo]
      BY Zenon
    <2>2. exports' = [exports EXCEPT ![e] = x]
      BY <1>b, <2>1, Zenon DEF Reaches
    <2>3. x.pc = pc /\ x.kind = exports[e].kind /\ x.payload = exports[e].payload /\ x.todo = todo
      BY Zenon, <2>1
    <2>4. Pusher(x, registry)
      BY Zenon, <1>b, <2>3 DEF Pusher
    <2>5. BetweenManifests(exports[e]) => BetweenManifests(x)
      BY Zenon, <1>b, <2>3 DEF BetweenManifests
    <2> QED
      BY <1>a, <1>b, <2>2, <2>4, <2>5, Zenon
  <1>1. ASSUME NEW e \in Exporters, NEW kind \in Kinds, NEW root \in Roots, NEW deps \in BOOLEAN,
               StartExport(e, kind, root, deps)
        PROVE  RegistryIsSound'
    <2>1. registry' = registry /\ pull' = pull /\ exports[e].pc = "idle"
      BY Zenon, <1>1 DEF StartExport, carriers
    <2>p. PICK payload : payload = build_signed_bundle_payload(root, deps)
      BY Zenon
    <2>c. IF payload = None THEN Fails(e)
          ELSE exports' = [exports EXCEPT ![e] = [pc |-> "prepare", kind |-> kind, payload |-> payload, todo |-> <<>>]]
      BY <1>1, <2>p, Zenon DEF StartExport
    <2>2. CASE payload = None
      BY Zenon, <1>b, <2>1, <2>2, <2>c DEF Fails
    <2>3. CASE payload # None
      <3>1. exports' = [exports EXCEPT ![e] = [pc |-> "prepare", kind |-> kind, payload |-> payload, todo |-> <<>>]]
        BY <2>3, <2>c
      <3>2. PICK x : x = [pc |-> "prepare", kind |-> kind, payload |-> payload, todo |-> <<>>]
        BY Zenon
      <3>3. x.pc # "write" /\ exports' = [exports EXCEPT ![e] = x]
        BY Zenon, <3>1, <3>2
      <3>4. Pusher(x, registry) /\ ~BetweenManifests(exports[e])
        BY Zenon, <2>1, <3>3 DEF Pusher, BetweenManifests
      <3> QED
        BY <1>a, <2>1, <3>3, <3>4, Zenon
    <2> QED
      BY <2>2, <2>3
  <1>2. ASSUME NEW e \in Exporters, prepare_bundle_root(e) \/ prepare_oci_layout_root(e) PROVE RegistryIsSound'
    <2>1. registry' = registry /\ pull' = pull /\ exports[e].kind # "push" /\ exports[e].pc = "prepare"
      <3>1. CASE prepare_bundle_root(e)
        BY Zenon, <3>1 DEF prepare_bundle_root
      <3>2. CASE prepare_oci_layout_root(e)
        BY Zenon, <3>2 DEF prepare_oci_layout_root
      <3> QED
        BY Zenon, <1>2, <3>1, <3>2
    <2>2. \E pc, todo : Reaches(e, pc, todo)
      BY <1>2, Zenon DEF prepare_bundle_root, prepare_oci_layout_root, Fails
    <2> QED
      BY Zenon, <1>b, <2>1, <2>2
  <1>3. ASSUME NEW e \in Exporters, prepare_push(e) PROVE RegistryIsSound'
    <2>0. PICK payload : payload = exports[e].payload
      BY Zenon
    <2>1. PICK manifest : manifest = build_oci_artifact(payload)
      BY Zenon
    <2>2. /\ registry' = registry /\ pull' = pull /\ exports[e].kind = "push" /\ exports[e].pc = "prepare"
          /\ \/ Fails(e)
             \/ manifest # None /\ Reaches(e, "write", push_oci_registry(manifest))
      BY Zenon, <1>3, <2>0, <2>1 DEF prepare_push, carriers
    <2>3. CASE Fails(e)
      BY Zenon, <1>b, <2>2, <2>3 DEF Fails
    <2>4. CASE manifest # None /\ Reaches(e, "write", push_oci_registry(manifest))
      <3>1. manifest = Manifest(payload)
        BY Zenon, <2>0, <2>1, <2>4, ManifestMade
      <3>2. PICK x : x = [pc |-> "write", kind |-> exports[e].kind, payload |-> exports[e].payload,
                          todo |-> push_oci_registry(manifest)]
        BY Zenon
      <3>3. exports' = [exports EXCEPT ![e] = x]
        BY <2>4, <3>2, Zenon DEF Reaches
      <3>4. x.payload = payload /\ x.todo = push_oci_registry(manifest)
        BY Zenon, <2>0, <3>2
      <3>5. Pusher(x, registry)
        BY <3>1, <3>4, Zenon DEF Pusher, PushTodo
      <3>6. ~BetweenManifests(exports[e])
        BY Zenon, <2>2 DEF BetweenManifests
      <3> QED
        BY <1>a, <2>2, <3>3, <3>5, <3>6, Zenon
    <2> QED
      BY Zenon, <2>2, <2>3, <2>4
  <1>4. ASSUME NEW e \in Exporters, ExportStep(e) PROVE RegistryIsSound'
    <2>0. exports[e].pc = "write" /\ Advances(e) /\ pull' = pull
      BY <1>4, Zenon DEF ExportStep
    <2>1. CASE registry' = registry /\ exports[e].kind # "push"
      <3>1. \E pc, todo : Reaches(e, pc, todo)
        BY <2>0, Zenon DEF Advances
      <3> QED
        BY Zenon, <1>b, <2>0, <2>1, <3>1
    <2>2. CASE exports[e].kind = "push" /\ WriteRegistry(Head(exports[e].todo).to, NextThing(exports[e].todo))
      <3>1. PICK to, what, todo, manifest, signed :
            /\ to = Head(exports[e].todo).to /\ what = NextThing(exports[e].todo)
            /\ todo = exports[e].todo /\ manifest = Manifest(exports[e].payload) /\ signed = Signed'
        BY Zenon
      <3>2. PushTodo(todo, manifest, registry.blobs)
        BY Zenon, <2>0, <2>2, <3>1 DEF RegistryIsSound, Pusher
      <3>3. PICK all : all = registry.blobs \cup {what}
        BY Zenon
      <3>4. registry.blobs \subseteq all /\ NextThing(todo) \in all
        BY Zenon, <3>1, <3>3
      <3>5. PushWrites(todo, manifest, registry.blobs, all)
        BY <3>2, <3>4, PushAdvances, Zenon
      <3>6. exports[e].payload \in signed /\ RegistryIsMixed(registry, signed)
        <4>1. exports[e].payload \in Signed
          <5>1. exports[e].kind # None
            BY Zenon, <2>2, TransportAssumption DEF Kinds
          <5> QED
            BY Zenon, <5>1, ExporterSigned
        <4> QED
          BY Zenon, <1>g, <1>m, <3>1, <4>1
      <3>7. to = "tag" => \E p \in signed : what \in {ManifestBlob(Manifest(p)), IndexBlob(Manifest(p))}
        <4>1. to = "tag" => what \in {ManifestBlob(manifest), IndexBlob(manifest)}
          BY <3>1, <3>5, Zenon DEF PushWrites
        <4> QED
          BY <3>1, <3>6, <4>1, Zenon
      <3>8. WriteRegistry(to, what)
        BY <2>2, <3>1, Zenon
      <3>9. RegistryAfter(registry, registry', to, what, signed)
        BY <3>6, <3>7, <3>8, RegistryWritten, Zenon
      <3>10. PushWrites(todo, manifest, registry.blobs, registry'.blobs)
        <4>1. registry.blobs \subseteq registry'.blobs /\ (Head(todo).to \in {"blob", "tag"} => NextThing(todo) \in registry'.blobs)
          BY <3>1, <3>9, Zenon DEF RegistryAfter
        <4> QED
          BY <3>2, <4>1, PushAdvances, Zenon
      <3>11. PICK rest, pc : rest = Rest(todo) /\ pc = IF rest = <<>> THEN "done" ELSE "write"
        BY Zenon
      <3>12. PICK x : x = [pc |-> pc, kind |-> exports[e].kind, payload |-> exports[e].payload, todo |-> rest]
        BY Zenon
      <3>13. exports' = [exports EXCEPT ![e] = x]
        BY <2>0, <3>1, <3>11, <3>12, Zenon DEF Advances, Reaches
      <3>14. x.pc = pc /\ x.kind = "push" /\ x.payload = exports[e].payload /\ x.todo = rest
        BY Zenon, <2>2, <3>12
      <3>15. \A f \in Exporters : exports'[f] = IF f = e THEN x ELSE exports[f]
        BY Zenon, <3>13 DEF ExportersAreSound
      <3>16. Pusher(x, registry')
        <4>1. pc = "write" => rest # <<>>
          BY Zenon, <3>11
        <4>2. rest # <<>> => PushTodo(rest, manifest, registry'.blobs)
          BY <3>10, <3>11, Zenon DEF PushWrites
        <4> QED
          BY <3>1, <3>14, <4>1, <4>2, Zenon DEF Pusher
      <3>17. \A f \in Exporters : Pusher(exports[f], registry')
        <4>1. registry.blobs \subseteq registry'.blobs
          BY <3>9, Zenon DEF RegistryAfter
        <4> QED
          BY Zenon, <4>1, PusherStays DEF RegistryIsSound
      <3>18. \A f \in Exporters : Pusher(exports'[f], registry')
        BY <3>15, <3>16, <3>17, Zenon
      <3>19. TagIsBetween'
        <4>1. SUFFICES ASSUME registry'.tag # None, registry'.tag.kind = "manifest"
                       PROVE  \E f \in Exporters : BetweenManifests(exports'[f])
          BY Zenon DEF TagIsBetween
        <4>2. CASE to = "tag"
          <5>1. what.kind = "manifest"
            BY <3>9, <4>1, <4>2, Zenon DEF RegistryAfter
          <5>2. what # IndexBlob(manifest)
            BY <5>1 DEF IndexBlob
          <5>3. rest = <<Write("tag", IndexBlob(manifest)), Write("verify", manifest)>>
            BY <3>1, <3>10, <3>11, <4>2, <5>2, Zenon DEF PushWrites
          <5>4. pc = "write"
            <6>1. rest # <<>>
              BY Zenon, <5>3
            <6> QED
              BY Zenon, <3>11, <6>1
          <5>5. BetweenManifests(x)
            BY <3>1, <3>14, <5>3, <5>4, Zenon DEF BetweenManifests
          <5> QED
            BY <3>15, <5>5, Zenon
        <4>3. CASE to # "tag"
          <5>1. registry'.tag = registry.tag
            BY <3>9, <4>3, Zenon DEF RegistryAfter
          <5>2. PICK f \in Exporters : BetweenManifests(exports[f])
            BY <4>1, <5>1, Zenon DEF RegistryIsSound, TagIsBetween
          <5>3. f # e
            <6>1. SUFFICES ASSUME BetweenManifests(exports[e]) PROVE FALSE
              BY <5>2, Zenon
            <6>2. todo = <<Write("tag", IndexBlob(manifest)), Write("verify", manifest)>>
              BY <3>1, <6>1, Zenon DEF BetweenManifests
            <6>3. TakesWrite(todo, "tag", IndexBlob(manifest), <<Write("verify", manifest)>>)
              BY <6>2, WriteOf2, Zenon
            <6> QED
              BY <3>1, <4>3, <6>3, Zenon DEF TakesWrite
          <5>4. BetweenManifests(exports'[f])
            BY <3>15, <5>2, <5>3, Zenon
          <5> QED
            BY <5>4
        <4> QED
          BY Zenon, <4>2, <4>3
      <3>20. RegistryIsMixed(registry', Signed')
        BY <3>1, <3>9, Zenon DEF RegistryAfter
      <3> QED
        BY Zenon, <1>m, <2>0, <3>18, <3>19, <3>20 DEF RegistryIsSound
    <2>3. \/ exports[e].kind = "bundle" /\ UNCHANGED <<layout, registry>>
          \/ exports[e].kind = "layout" /\ UNCHANGED <<directory, registry>>
          \/ exports[e].kind = "push" /\ WriteRegistry(Head(exports[e].todo).to, NextThing(exports[e].todo))
      BY <1>4, Zenon DEF ExportStep
    <2>4. UNCHANGED <<layout, registry>> \/ UNCHANGED <<directory, registry>> => registry' = registry
      BY Zenon
    <2> QED
      BY Zenon, <2>1, <2>2, <2>3, <2>4
  <1>5. ASSUME NEW e \in Exporters, PushFails(e) PROVE RegistryIsSound'
    <2>1. exports[e].pc = "write" /\ Fails(e) /\ registry' = registry /\ pull' = pull
      BY Zenon, <1>5 DEF PushFails, carriers
    <2> QED
      BY Zenon, <1>b, <2>1 DEF Fails
  <1>6. ASSUME NEW e \in Exporters, Dies(e) PROVE RegistryIsSound'
    <2>1. PICK todo : Reaches(e, "dead", todo) /\ todo = IF exports[e].kind = "push" THEN exports[e].todo ELSE <<>>
      BY <1>6, Zenon DEF Dies
    <2>2. exports[e].pc = "write" /\ pull' = pull
      BY <1>6, Zenon DEF Dies
    <2>3. UNCHANGED carriers \/ UNCHANGED <<layout, registry>> \/ UNCHANGED <<directory, registry>>
      BY <1>6, Zenon DEF Dies
    <2>4. registry' = registry
      BY Zenon, <2>3 DEF carriers
    <2> QED
      BY Zenon, <1>b, <2>1, <2>2, <2>4
  <1>7. CASE RegistryCollects
    <2>0. exports' = exports /\ pull' = pull /\ \A e \in Exporters : exports[e].kind # "push" \/ exports[e].pc # "write"
      BY <1>7, Zenon DEF RegistryCollects
    <2>1. PICK blobs : registry' = [registry EXCEPT !.blobs = blobs]
      BY <1>7, Zenon DEF RegistryCollects
    <2>2. DOMAIN registry' = DOMAIN registry /\ registry'.tag = registry.tag
      BY Zenon, <2>1 DEF RegistryIsSound, RegistryIsMixed
    <2>3. RegistryIsMixed(registry', Signed')
      BY <1>m, <2>2, Zenon DEF RegistryIsMixed
    <2>4. \A e \in Exporters : Pusher(exports'[e], registry')
      BY Zenon, <2>0 DEF Pusher
    <2>5. TagIsBetween'
      BY Zenon, <2>0, <2>2 DEF RegistryIsSound, TagIsBetween
    <2> QED
      BY Zenon, <1>m, <2>0, <2>3, <2>4, <2>5 DEF RegistryIsSound
  <1>8. CASE PullIndex
    <2>0. exports' = exports /\ registry' = registry
      BY Zenon, <1>8 DEF PullIndex, carriers
    <2>1. pull' # None => parse_and_validate_root_index(registry.tag) /\ pull' = registry.tag.of /\ registry.tag # None
      BY Zenon, <1>8 DEF PullIndex
    <2>2. pull' # None => \E p \in Signed' : pull' = Manifest(p)
      <3>1. SUFFICES ASSUME pull' # None PROVE \E p \in Signed' : pull' = Manifest(p)
        BY Zenon
      <3>2. PICK p \in Signed' : registry.tag \in {ManifestBlob(Manifest(p)), IndexBlob(Manifest(p))}
        BY <1>m, <2>1, <3>1, Zenon DEF RegistryIsMixed
      <3>3. registry.tag.of = Manifest(p)
        BY <3>2 DEF ManifestBlob, IndexBlob
      <3> QED
        BY <2>1, <3>1, <3>2, <3>3, Zenon
    <2> QED
      BY Zenon, <1>m, <2>0, <2>2 DEF RegistryIsSound, TagIsBetween
  <1>9. ASSUME NEW trusted \in TrustStores, PullBlobs(trusted) PROVE RegistryIsSound'
    <2>1. exports' = exports /\ registry' = registry /\ pull' = None
      BY Zenon, <1>9 DEF PullBlobs, carriers
    <2> QED
      BY Zenon, <1>m, <2>1 DEF RegistryIsSound, TagIsBetween
  <1>10. CASE UNCHANGED <<exports, registry, pull>>
    BY Zenon, <1>m, <1>10 DEF RegistryIsSound, TagIsBetween
  <1>11. CASE CarrierDamaged
    <2>1. UNCHANGED <<layout, registry>> \/ UNCHANGED <<directory, registry>>
      BY <1>11, Zenon DEF CarrierDamaged
    <2>2. exports' = exports /\ pull' = pull
      BY <1>11, Zenon DEF CarrierDamaged
    <2> QED
      BY Zenon, <1>10, <2>1, <2>2
  <1> QED
    BY Zenon, <1>1, <1>2, <1>3, <1>4, <1>5, <1>6, <1>7, <1>8, <1>9, <1>10, <1>11
       DEF Next, vars, carriers, SourceChanges, ImportBundle, ImportLayout

\* More may be signed meanwhile.
LEMMA DirectoryStaysMixed ==
    ASSUME NEW d, NEW A, NEW B, A \subseteq B, DirectoryIsMixed(d, A)
    PROVE  DirectoryIsMixed(d, B)
  BY Zenon DEF DirectoryIsMixed

DirectoryAfter(d, m, to, what, content, signed) ==
    /\ DirectoryIsMixed(m, signed)
    /\ to = "copy" =>
        /\ DOMAIN m.files = DOMAIN d.files \cup {what} /\ m.files[what] = content
        /\ \A p \in DOMAIN d.files : p # what => m.files[p] = d.files[p]
    /\ to # "copy" => m.files = d.files
    /\ IF to = "bundle.json" THEN m.index = content ELSE m.index = d.index

\* What a write does to a bundle directory, whole or cut short.
LEMMA DirectoryWritten ==
    ASSUME NEW to \in {"copy", "bundle.json", "bundle.signature.json"}, NEW what, NEW content,
           WriteDirectory(to, what, content), NEW A, DirectoryIsMixed(directory, A),
           to = "copy" => what \in Paths /\ content \in {Good, Altered, Bad},
           to = "bundle.json" => content \in Bundles \cup {Bad, None},
           to = "bundle.signature.json" =>
                content \in Signatures \cup {Bad, None} /\ (Intact(content) => \E p \in A : content = p.signature)
    PROVE  DirectoryAfter(directory, directory', to, what, content, A)
  <1>1. PICK D \in SUBSET Paths :
            directory \in [index : Bundles \cup {Bad, None}, signature : Signatures \cup {Bad, None},
                           files : [D -> {Good, Altered, Bad}], created : BOOLEAN]
    BY Zenon DEF DirectoryIsMixed
  <1>2. CASE to = "copy"
    <2>1. PICK files : files = [p \in DOMAIN directory.files \cup {what} |-> IF p = what THEN content ELSE directory.files[p]]
      BY Zenon
    <2>2. directory' = [directory EXCEPT !.files = files]
      BY <1>2, <2>1, Zenon DEF WriteDirectory
    <2>3. files \in [D \cup {what} -> {Good, Altered, Bad}]
      BY Zenon, <1>1, <1>2, <2>1
    <2>4. D \cup {what} \in SUBSET Paths
      BY Zenon, <1>2
    <2>5. directory' \in [index : Bundles \cup {Bad, None}, signature : Signatures \cup {Bad, None},
                          files : [D \cup {what} -> {Good, Altered, Bad}], created : BOOLEAN]
      BY Zenon, <1>1, <2>2, <2>3
    <2>6. directory'.files = files /\ directory'.index = directory.index /\ directory'.signature = directory.signature
      BY Zenon, <1>1, <2>2
    <2>7. directory' \in [index : Bundles \cup {Bad, None}, signature : Signatures \cup {Bad, None},
                          files : UNION {[E -> {Good, Altered, Bad}] : E \in SUBSET Paths}, created : BOOLEAN]
      BY Zenon, <2>4, <2>5
    <2>8. DirectoryIsMixed(directory', A)
      BY <2>6, <2>7, Zenon DEF DirectoryIsMixed
    <2>9. DOMAIN files = DOMAIN directory.files \cup {what} /\ files[what] = content
      BY Zenon, <2>1
    <2>10. \A p \in DOMAIN directory.files : p # what => files[p] = directory.files[p]
      BY Zenon, <2>1
    <2> QED
      BY Zenon, <1>2, <2>6, <2>8, <2>9, <2>10 DEF DirectoryAfter
  <1>3. CASE to = "bundle.json"
    <2>1. directory' = [directory EXCEPT !.index = content]
      BY Zenon, <1>3 DEF WriteDirectory
    <2>2. directory' \in [index : Bundles \cup {Bad, None}, signature : Signatures \cup {Bad, None},
                          files : [D -> {Good, Altered, Bad}], created : BOOLEAN]
      BY Zenon, <1>1, <1>3, <2>1
    <2>3. directory'.files = directory.files /\ directory'.index = content /\ directory'.signature = directory.signature
      BY Zenon, <1>1, <2>1
    <2>4. directory' \in [index : Bundles \cup {Bad, None}, signature : Signatures \cup {Bad, None},
                          files : UNION {[E -> {Good, Altered, Bad}] : E \in SUBSET Paths}, created : BOOLEAN]
      BY Zenon, <2>2
    <2>5. DirectoryIsMixed(directory', A)
      BY <2>3, <2>4, Zenon DEF DirectoryIsMixed
    <2> QED
      BY Zenon, <1>3, <2>3, <2>5 DEF DirectoryAfter
  <1>4. CASE to = "bundle.signature.json"
    <2>1. directory' = [directory EXCEPT !.signature = content]
      BY Zenon, <1>4 DEF WriteDirectory
    <2>2. directory' \in [index : Bundles \cup {Bad, None}, signature : Signatures \cup {Bad, None},
                          files : [D -> {Good, Altered, Bad}], created : BOOLEAN]
      BY Zenon, <1>1, <1>4, <2>1
    <2>3. directory'.files = directory.files /\ directory'.index = directory.index /\ directory'.signature = content
      BY Zenon, <1>1, <2>1
    <2>4. directory' \in [index : Bundles \cup {Bad, None}, signature : Signatures \cup {Bad, None},
                          files : UNION {[E -> {Good, Altered, Bad}] : E \in SUBSET Paths}, created : BOOLEAN]
      BY <2>2
    <2>5. DirectoryIsMixed(directory', A)
      BY <1>4, <2>3, <2>4, Zenon DEF DirectoryIsMixed
    <2> QED
      BY Zenon, <1>4, <2>3, <2>5 DEF DirectoryAfter
  <1> QED
    BY Zenon, <1>2, <1>3, <1>4

BundleWrites(todo, payload) ==
    /\ Head(todo).to \in {"copy", "bundle.json", "bundle.signature.json"}
    /\ Head(todo).to = "copy" => NextThing(todo) \in DOMAIN payload.bundle.files
    /\ Head(todo).to = "bundle.json" => NextThing(todo) = payload.bundle
    /\ Head(todo).to = "bundle.signature.json" => NextThing(todo) = payload.signature

\* The next write of a bundle export.
LEMMA BundleNext ==
    ASSUME NEW payload, NEW todo, BundleTodo(todo, payload)
    PROVE  BundleWrites(todo, payload)
  <1>1. CASE \E S \in SUBSET DOMAIN payload.bundle.files :
                /\ S # {}
                /\ todo = <<Writes("copy", S), Write("bundle.json", payload.bundle),
                            Write("bundle.signature.json", payload.signature)>>
    <2>1. PICK S \in SUBSET DOMAIN payload.bundle.files :
                /\ S # {}
                /\ todo = <<Writes("copy", S), Write("bundle.json", payload.bundle),
                            Write("bundle.signature.json", payload.signature)>>
      BY <1>1
    <2>2. TakesBatch(todo, "copy", S, <<Write("bundle.json", payload.bundle), Write("bundle.signature.json", payload.signature)>>,
                     <<Writes("copy", S \ {NextThing(todo)}), Write("bundle.json", payload.bundle),
                       Write("bundle.signature.json", payload.signature)>>)
      BY <2>1, BatchOf3, Zenon
    <2> QED
      BY Zenon, <2>2 DEF BundleWrites, TakesBatch
  <1>2. CASE todo = <<Write("bundle.json", payload.bundle), Write("bundle.signature.json", payload.signature)>>
    <2>1. TakesWrite(todo, "bundle.json", payload.bundle, <<Write("bundle.signature.json", payload.signature)>>)
      BY <1>2, WriteOf2, Zenon
    <2> QED
      BY Zenon, <2>1 DEF BundleWrites, TakesWrite
  <1>3. CASE todo = <<Write("bundle.signature.json", payload.signature)>>
    <2>1. TakesWrite(todo, "bundle.signature.json", payload.signature, <<>>)
      BY <1>3, WriteOf1, Zenon
    <2> QED
      BY Zenon, <2>1 DEF BundleWrites, TakesWrite
  <1> QED
    BY Zenon, <1>1, <1>2, <1>3 DEF BundleTodo

\* An exporter that writes alone keeps the directory its own.
LEMMA AloneAdvances ==
    ASSUME NEW x, x.pc = "write", NEW d, DirectoryOf(x, d), NEW A, NEW content, NEW m,
           DirectoryAfter(d, m, Head(x.todo).to, NextThing(x.todo), content, A),
           Head(x.todo).to = "copy" => content = Good,
           Head(x.todo).to = "bundle.json" => content = x.payload.bundle,
           NEW y, y.payload = x.payload, y.todo = Rest(x.todo),
           y.pc = IF Rest(x.todo) = <<>> THEN "done" ELSE "write"
    PROVE  DirectoryOf(y, m)
  <1>0. PICK b, sig, todo, what, rest : /\ b = x.payload.bundle /\ sig = x.payload.signature /\ todo = x.todo
                                        /\ what = NextThing(x.todo) /\ rest = Rest(x.todo)
    BY Zenon
  <1>1. CASE \E S \in SUBSET DOMAIN b.files :
                /\ S # {} /\ GoodFiles(d.files, DOMAIN b.files \ S)
                /\ todo = <<Writes("copy", S), Write("bundle.json", b), Write("bundle.signature.json", sig)>>
    <2>1. PICK S \in SUBSET DOMAIN b.files :
                /\ S # {} /\ GoodFiles(d.files, DOMAIN b.files \ S)
                /\ todo = <<Writes("copy", S), Write("bundle.json", b), Write("bundle.signature.json", sig)>>
      BY Zenon, <1>1
    <2>2. TakesBatch(todo, "copy", S, <<Write("bundle.json", b), Write("bundle.signature.json", sig)>>,
                     <<Writes("copy", S \ {NextThing(todo)}), Write("bundle.json", b), Write("bundle.signature.json", sig)>>)
      BY <2>1, BatchOf3, Zenon
    <2>3. /\ Head(todo).to = "copy" /\ what \in S /\ rest # <<>>
          /\ \/ S = {what} /\ rest = <<Write("bundle.json", b), Write("bundle.signature.json", sig)>>
             \/ /\ S \ {what} # {}
                /\ rest = <<Writes("copy", S \ {what}), Write("bundle.json", b), Write("bundle.signature.json", sig)>>
      BY <1>0, <2>2, Zenon DEF TakesBatch
    <2>4. /\ DOMAIN m.files = DOMAIN d.files \cup {what} /\ m.files[what] = Good
          /\ \A p \in DOMAIN d.files : p # what => m.files[p] = d.files[p]
      BY <1>0, <2>3, Zenon DEF DirectoryAfter
    <2>5. GoodFiles(m.files, DOMAIN b.files \ (S \ {what}))
      BY Zenon, <2>1, <2>3, <2>4 DEF GoodFiles, AllGood
    <2>6. S = {what} => GoodFiles(m.files, DOMAIN b.files)
      BY Zenon, <2>1, <2>3, <2>4 DEF GoodFiles, AllGood
    <2>7. y.pc = "write" /\ S \ {what} \in SUBSET DOMAIN b.files
      BY Zenon, <1>0, <2>3
    <2>8. y.todo = rest /\ b = y.payload.bundle /\ sig = y.payload.signature
      BY Zenon, <1>0
    <2> QED
      BY <2>3, <2>5, <2>6, <2>7, <2>8, Zenon DEF DirectoryOf
  <1>2. CASE /\ GoodFiles(d.files, DOMAIN b.files)
             /\ todo = <<Write("bundle.json", b), Write("bundle.signature.json", sig)>>
    <2>1. TakesWrite(todo, "bundle.json", b, <<Write("bundle.signature.json", sig)>>)
      BY <1>2, WriteOf2, Zenon
    <2>2. Head(todo).to = "bundle.json" /\ rest = <<Write("bundle.signature.json", sig)>>
      BY <1>0, <2>1, Zenon DEF TakesWrite
    <2>3. m.files = d.files /\ m.index = b /\ rest # <<>>
      BY <1>0, <2>2 DEF DirectoryAfter
    <2>4. y.pc = "write" /\ y.todo = rest /\ b = y.payload.bundle /\ sig = y.payload.signature
      BY Zenon, <1>0, <2>3
    <2> QED
      BY Zenon, <1>2, <2>2, <2>3, <2>4 DEF DirectoryOf
  <1>3. CASE /\ GoodFiles(d.files, DOMAIN b.files) /\ d.index = b
             /\ todo = <<Write("bundle.signature.json", sig)>>
    <2>1. TakesWrite(todo, "bundle.signature.json", sig, <<>>)
      BY <1>3, WriteOf1, Zenon
    <2>2. Head(todo).to = "bundle.signature.json" /\ rest = <<>>
      BY <1>0, <2>1, Zenon DEF TakesWrite
    <2>3. m.files = d.files /\ m.index = b
      BY Zenon, <1>0, <1>3, <2>2 DEF DirectoryAfter
    <2>4. y.pc = "done" /\ b = y.payload.bundle
      BY Zenon, <1>0, <2>2
    <2> QED
      BY Zenon, <1>3, <2>3, <2>4 DEF DirectoryOf
  <1> QED
    BY <1>0, <1>1, <1>2, <1>3, Zenon DEF DirectoryOf

\* A step of an exporter signs nothing new.
LEMMA SignedSame ==
    ASSUME ExportersAreSound, NEW e \in Exporters, NEW pc, NEW todo, Reaches(e, pc, todo)
    PROVE  Signed' \subseteq Signed
  <1>1. \A f \in Exporters : exports'[f].payload = exports[f].payload
    BY Zenon DEF ExportersAreSound, Reaches
  <1> QED
    BY Zenon, <1>1 DEF Signed

\* What is signed are the files of the root, as long as it does not change.
LEMMA SignedStaysFrom ==
    ASSUME ExportersAreSound, SignedFrom(source, Signed), [Next]_vars
    PROVE  SignedFrom(source', Signed')
  <1>0. ASSUME Signed' \subseteq Signed, source' = source PROVE SignedFrom(source', Signed')
    BY Zenon, <1>0 DEF SignedFrom
  <1>1. CASE SourceChanges
    <2>1. exports' = exports /\ \E p \in DOMAIN source : source' = [source EXCEPT ![p] = Altered]
      BY <1>1, Zenon DEF SourceChanges
    <2>2. PICK p \in DOMAIN source : source' = [source EXCEPT ![p] = Altered]
      BY Zenon, <2>1
    <2>3. DOMAIN source' = DOMAIN source /\ ~AllGood(source')
      BY Zenon, <2>2 DEF AllGood, Good, Altered
    <2>4. Signed' = Signed
      BY Zenon, <2>1 DEF Signed
    <2> QED
      BY Zenon, <2>3, <2>4 DEF SignedFrom
  <1>2. ASSUME NEW e \in Exporters, NEW kind \in Kinds, NEW root \in Roots, NEW deps \in BOOLEAN,
               StartExport(e, kind, root, deps)
        PROVE  SignedFrom(source', Signed')
    <2>0. source' = source
      BY Zenon, <1>2 DEF StartExport
    <2>p. PICK payload : payload = build_signed_bundle_payload(root, deps)
      BY Zenon
    <2>c. IF payload = None THEN Fails(e)
          ELSE exports' = [exports EXCEPT ![e] = [pc |-> "prepare", kind |-> kind, payload |-> payload, todo |-> <<>>]]
      BY <1>2, <2>p, Zenon DEF StartExport
    <2>2. CASE payload = None
      <3>1. Signed' \subseteq Signed
        BY Zenon, <2>2, <2>c, SignedSame DEF Fails
      <3> QED
        BY Zenon, <1>0, <2>0, <3>1
    <2>3. CASE payload # None
      <3>1. PICK x : x = [pc |-> "prepare", kind |-> kind, payload |-> payload, todo |-> <<>>]
        BY Zenon
      <3>2. x.payload = payload /\ exports' = [exports EXCEPT ![e] = x]
        BY Zenon, <2>3, <2>c, <3>1
      <3>3. \A f \in Exporters : exports'[f] = IF f = e THEN x ELSE exports[f]
        BY Zenon, <3>2 DEF ExportersAreSound
      <3>4. Signed' \subseteq Signed \cup {payload}
        BY Zenon, <3>2, <3>3 DEF Signed
      <3>5. root \in Skills /\ SourceIsWhole
        BY Zenon, TransportAssumption DEF ExportersAreSound
      <3>6. \A p \in DOMAIN payload.bundle.files : p \in DOMAIN source /\ payload.bundle.files[p] = source[p]
        BY <2>3, <2>p, <3>5, PayloadIsWhole
      <3>7. DOMAIN payload.bundle.files \subseteq DOMAIN source /\ (AllGood(source) => AllGood(payload.bundle.files))
        BY Zenon, <3>6 DEF AllGood
      <3> QED
        BY Zenon, <2>0, <3>4, <3>7 DEF SignedFrom
    <2> QED
      BY Zenon, <2>2, <2>3
  <1>3. ASSUME NEW e \in Exporters,
               prepare_bundle_root(e) \/ prepare_oci_layout_root(e) \/ prepare_push(e)
                 \/ ExportStep(e) \/ PushFails(e) \/ Dies(e)
        PROVE  SignedFrom(source', Signed')
    <2>1. source' = source
      BY <1>3, Zenon DEF prepare_bundle_root, prepare_oci_layout_root, prepare_push, ExportStep, PushFails, Dies
    <2>2. \E pc, todo : Reaches(e, pc, todo)
      BY <1>3, Zenon DEF prepare_bundle_root, prepare_oci_layout_root, prepare_push, ExportStep, Advances, PushFails, Dies, Fails
    <2>3. Signed' \subseteq Signed
      BY <2>2, SignedSame, Zenon
    <2> QED
      BY Zenon, <1>0, <2>1, <2>3
  <1>4. CASE UNCHANGED <<exports, source>>
    <2>1. Signed' \subseteq Signed /\ source' = source
      BY Zenon, <1>4 DEF Signed
    <2> QED
      BY Zenon, <1>0, <2>1
  <1> QED
    BY Zenon, <1>1, <1>2, <1>3, <1>4
       DEF Next, vars, CarrierDamaged, RegistryCollects, PullIndex, ImportBundle, ImportLayout, PullBlobs

\* A bundle directory stays sound: a mix of what is signed, and the work of one exporter
\* when that one is alone.
LEMMA DirectoryStaysSound ==
    ExportersAreSound /\ DirectoryIsSound /\ [Next]_vars => DirectoryIsSound'
  <1> SUFFICES ASSUME ExportersAreSound, DirectoryIsSound, [Next]_vars PROVE DirectoryIsSound'
    OBVIOUS
  <1>g. Signed \subseteq Signed'
    BY SignedStays
  <1>m. DirectoryIsMixed(directory, Signed')
    BY Zenon, <1>g, DirectoryStaysMixed DEF DirectoryIsSound
  <1>f. SignedFrom(source', Signed')
    BY Zenon, SignedStaysFrom DEF DirectoryIsSound
  <1>k. ASSUME NEW e \in Exporters, NEW x, exports' = [exports EXCEPT ![e] = x], exports[e].kind # None => x.kind # None,
               source' = source, damaged' = damaged, NEW f \in Exporters, f # e, Alone(f)'
        PROVE  exports[e].kind = None /\ Alone(f) /\ exports'[f] = exports[f]
    <2>1. \A h \in Exporters : exports'[h] = IF h = e THEN x ELSE exports[h]
      BY Zenon, <1>k DEF ExportersAreSound
    <2>2. /\ exports'[f].kind = "bundle" /\ ~damaged' /\ AllGood(source')
          /\ \A h \in Exporters \ {f} : exports'[h].kind = None
      BY <1>k, Zenon DEF Alone
    <2>3. x.kind = None
      BY Zenon, <1>k, <2>1, <2>2
    <2>4. \A h \in Exporters \ {f} : exports[h].kind = None
      BY <1>k, <2>1, <2>2, <2>3
    <2>5. AllGood(source)
      BY Zenon, <1>k, <2>2
    <2>6. ~damaged
      BY <1>k, <2>2, Zenon
    <2> QED
      BY <1>k, <2>1, <2>2, <2>4, <2>5, <2>6, Zenon DEF Alone
  \* One exporter moves and leaves the directory alone.
  <1>a. ASSUME NEW e \in Exporters, NEW x, exports' = [exports EXCEPT ![e] = x], exports[e].kind # None => x.kind # None,
               directory' = directory, source' = source, damaged' = damaged,
               x.kind # "bundle" \/ x.pc \notin {"write", "done"}
        PROVE  DirectoryIsSound'
    <2>1. ASSUME NEW f \in Exporters, Alone(f)' PROVE DirectoryOf(exports'[f], directory')
      <3>1. CASE f = e
        <4>1. exports'[f] = x /\ x.kind = "bundle"
          BY Zenon, <1>a, <2>1, <3>1 DEF Alone, ExportersAreSound
        <4> QED
          BY Zenon, <1>a, <4>1 DEF DirectoryOf
      <3>2. CASE f # e
        <4>1. Alone(f) /\ exports'[f] = exports[f]
          BY <1>a, <1>k, <2>1, <3>2, Zenon
        <4> QED
          BY <1>a, <4>1, Zenon DEF DirectoryIsSound
      <3> QED
        BY Zenon, <3>1, <3>2
    <2>2. DirectoryIsMixed(directory', Signed')
      BY Zenon, <1>a, <1>m
    <2> QED
      BY <1>f, <2>1, <2>2, Zenon DEF DirectoryIsSound
  <1>b. ASSUME NEW e \in Exporters, NEW pc, NEW todo, Reaches(e, pc, todo),
               directory' = directory, source' = source, damaged' = damaged,
               exports[e].kind # "bundle" \/ pc \notin {"write", "done"}
        PROVE  DirectoryIsSound'
    <2>1. PICK x : x = [pc |-> pc, kind |-> exports[e].kind, payload |-> exports[e].payload, todo |-> todo]
      BY Zenon
    <2>2. exports' = [exports EXCEPT ![e] = x]
      BY <1>b, <2>1, Zenon DEF Reaches
    <2>3. x.pc = pc /\ x.kind = exports[e].kind
      BY Zenon, <2>1
    <2> QED
      BY <1>a, <1>b, <2>2, <2>3, Zenon
  \* One exporter of a bundle moves and writes to the directory.
  <1>c. ASSUME NEW e \in Exporters, NEW x, exports' = [exports EXCEPT ![e] = x], exports[e].kind = "bundle", x.kind = "bundle",
               source' = source, damaged' = damaged, DirectoryIsMixed(directory', Signed'),
               Alone(e) => DirectoryOf(x, directory')
        PROVE  DirectoryIsSound'
    <2>0. exports[e].kind # None /\ x.kind # None
      BY Zenon, <1>c, TransportAssumption DEF Kinds
    <2>1. ASSUME NEW f \in Exporters, Alone(f)' PROVE DirectoryOf(exports'[f], directory')
      <3>1. CASE f = e
        <4>1. \A h \in Exporters : exports'[h] = IF h = e THEN x ELSE exports[h]
          BY Zenon, <1>c DEF ExportersAreSound
        <4>2. AllGood(source) /\ \A h \in Exporters \ {e} : exports[h].kind = None
          BY Zenon, <1>c, <2>1, <3>1, <4>1 DEF Alone
        <4>3. ~damaged
          BY <1>c, <2>1, Zenon DEF Alone
        <4>4. Alone(e)
          BY <1>c, <4>2, <4>3, Zenon DEF Alone
        <4> QED
          BY <1>c, <3>1, <4>1, <4>4, Zenon
      <3>2. CASE f # e
        BY <1>c, <1>k, <2>0, <2>1, <3>2, Zenon
      <3> QED
        BY <3>1, <3>2
    <2> QED
      BY <1>c, <1>f, <2>1, Zenon DEF DirectoryIsSound
  <1>1. CASE SourceChanges
    <2>1. PICK p \in DOMAIN source : source' = [source EXCEPT ![p] = Altered]
      BY <1>1, Zenon DEF SourceChanges
    <2>2. ~AllGood(source')
      BY Zenon, <2>1 DEF AllGood, Good, Altered
    <2>3. directory' = directory
      BY Zenon, <1>1 DEF SourceChanges, carriers
    <2>4. \A e \in Exporters : ~Alone(e)'
      BY <2>2, Zenon DEF Alone
    <2>5. DirectoryIsMixed(directory', Signed')
      BY Zenon, <1>m, <2>3
    <2> QED
      BY <1>f, <2>4, <2>5, Zenon DEF DirectoryIsSound
  <1>2. ASSUME NEW e \in Exporters, NEW kind \in Kinds, NEW root \in Roots, NEW deps \in BOOLEAN,
               StartExport(e, kind, root, deps)
        PROVE  DirectoryIsSound'
    <2>1. directory' = directory /\ source' = source /\ damaged' = damaged
      BY Zenon, <1>2 DEF StartExport, carriers
    <2>p. PICK payload : payload = build_signed_bundle_payload(root, deps)
      BY Zenon
    <2>c. IF payload = None THEN Fails(e)
          ELSE exports' = [exports EXCEPT ![e] = [pc |-> "prepare", kind |-> kind, payload |-> payload, todo |-> <<>>]]
      BY <1>2, <2>p, Zenon DEF StartExport
    <2>2. CASE payload = None
      BY Zenon, <1>b, <2>1, <2>2, <2>c DEF Fails
    <2>3. CASE payload # None
      <3>1. exports' = [exports EXCEPT ![e] = [pc |-> "prepare", kind |-> kind, payload |-> payload, todo |-> <<>>]]
        BY <2>3, <2>c
      <3>2. PICK x : x = [pc |-> "prepare", kind |-> kind, payload |-> payload, todo |-> <<>>]
        BY Zenon
      <3>3. x.pc \notin {"write", "done"} /\ x.kind = kind /\ exports' = [exports EXCEPT ![e] = x]
        BY Zenon, <3>1, <3>2
      <3>4. x.kind # None
        BY Zenon, <3>3, TransportAssumption
      <3> QED
        BY <1>a, <2>1, <3>3, <3>4, Zenon
    <2> QED
      BY <2>2, <2>3
  <1>3. ASSUME NEW e \in Exporters, prepare_bundle_root(e) PROVE DirectoryIsSound'
    <2>1. source' = source /\ damaged' = damaged /\ exports[e].kind = "bundle"
      BY Zenon, <1>3 DEF prepare_bundle_root
    <2>2. CASE Fails(e) /\ directory' = directory
      BY Zenon, <1>b, <2>1, <2>2 DEF Fails
    <2>3. CASE /\ directory = EmptyDirectory(directory.created)
               /\ Reaches(e, "write", export_bundle(exports[e].payload))
               /\ directory' = [directory EXCEPT !.created = TRUE]
      <3>1. PICK payload : payload = exports[e].payload
        BY Zenon
      <3>2. PICK x : x = [pc |-> "write", kind |-> exports[e].kind, payload |-> exports[e].payload,
                          todo |-> export_bundle(payload)]
        BY Zenon
      <3>3. exports' = [exports EXCEPT ![e] = x]
        BY <2>3, <3>1, <3>2, Zenon DEF Reaches
      <3>4. x.pc = "write" /\ x.kind = "bundle" /\ x.payload = payload /\ x.todo = export_bundle(payload)
        BY Zenon, <2>1, <3>1, <3>2
      <3>5. PICK D \in SUBSET Paths :
                directory \in [index : Bundles \cup {Bad, None}, signature : Signatures \cup {Bad, None},
                               files : [D -> {Good, Altered, Bad}], created : BOOLEAN]
        BY Zenon, <1>m DEF DirectoryIsMixed
      <3>6. directory'.signature = directory.signature /\ directory'.files = directory.files /\ directory.files = <<>>
        BY <2>3, <3>5 DEF EmptyDirectory
      <3>7. directory' \in [index : Bundles \cup {Bad, None}, signature : Signatures \cup {Bad, None},
                            files : UNION {[E -> {Good, Altered, Bad}] : E \in SUBSET Paths}, created : BOOLEAN]
        <4>1. directory' \in [index : Bundles \cup {Bad, None}, signature : Signatures \cup {Bad, None},
                              files : [D -> {Good, Altered, Bad}], created : BOOLEAN]
          BY Zenon, <2>3, <3>5
        <4> QED
          BY Zenon, <4>1
      <3>8. DirectoryIsMixed(directory', Signed')
        BY <1>m, <3>6, <3>7, Zenon DEF DirectoryIsMixed
      <3>9. IsPayload(payload)
        <4>1. exports[e].kind # None
          BY Zenon, <2>1, TransportAssumption DEF Kinds
        <4> QED
          BY Zenon, <3>1, <4>1, ExporterSigned
      <3>10. PICK S : S = DOMAIN payload.bundle.files
        BY Zenon
      <3>11. S # {} /\ S \in SUBSET DOMAIN payload.bundle.files
        BY Zenon, <3>9, <3>10, BundleStarts
      <3>12. GoodFiles(directory'.files, DOMAIN payload.bundle.files \ S)
        BY <3>6, <3>10 DEF GoodFiles, AllGood
      <3>13. x.todo = <<Writes("copy", S), Write("bundle.json", payload.bundle), Write("bundle.signature.json", payload.signature)>>
        BY <3>4, <3>10, Zenon DEF export_bundle, write_portable_bundle_files
      <3>14. DirectoryOf(x, directory')
        BY Zenon, <3>4, <3>11, <3>12, <3>13 DEF DirectoryOf
      <3> QED
        BY <1>c, <2>1, <3>3, <3>4, <3>8, <3>14, Zenon
    <2> QED
      BY <1>3, <2>2, <2>3, Zenon DEF prepare_bundle_root
  <1>4. ASSUME NEW e \in Exporters, prepare_oci_layout_root(e) \/ prepare_push(e) PROVE DirectoryIsSound'
    <2>1. directory' = directory /\ source' = source /\ damaged' = damaged /\ exports[e].kind # "bundle"
      <3>1. CASE prepare_oci_layout_root(e)
        BY Zenon, <3>1 DEF prepare_oci_layout_root
      <3>2. CASE prepare_push(e)
        BY Zenon, <3>2 DEF prepare_push, carriers
      <3> QED
        BY Zenon, <1>4, <3>1, <3>2
    <2>2. \E pc, todo : Reaches(e, pc, todo)
      BY <1>4, Zenon DEF prepare_oci_layout_root, prepare_push, Fails
    <2> QED
      BY <1>b, <2>1, <2>2, Zenon
  \* A write of an exporter to the directory.
  <1>w. ASSUME NEW e \in Exporters, exports[e].pc = "write", exports[e].kind = "bundle", NEW content,
               WriteDirectory(Head(exports[e].todo).to, NextThing(exports[e].todo), content),
               content = Bad \/ content = Content(Head(exports[e].todo).to, NextThing(exports[e].todo))
        PROVE  DirectoryAfter(directory, directory', Head(exports[e].todo).to, NextThing(exports[e].todo), content, Signed')
    <2>1. PICK to, what, todo, payload, signed :
            /\ to = Head(exports[e].todo).to /\ what = NextThing(exports[e].todo)
            /\ todo = exports[e].todo /\ payload = exports[e].payload /\ signed = Signed'
      BY Zenon
    <2>2. exports[e].kind # None
      BY Zenon, <1>w, TransportAssumption DEF Kinds
    <2>3. IsPayload(payload) /\ payload \in Signed /\ payload \in signed
      BY Zenon, <1>g, <2>1, <2>2, ExporterSigned
    <2>4. BundleTodo(todo, payload)
      BY Zenon, <1>w, <2>1 DEF ExportersAreSound, ExporterIsSound
    <2>5. BundleWrites(todo, payload)
      BY Zenon, <2>4, BundleNext
    <2>6. DOMAIN payload.bundle.files \subseteq DOMAIN source
      BY Zenon, <2>3 DEF DirectoryIsSound, SignedFrom
    <2>7. content = Bad \/ content = IF to = "copy" THEN source[what] ELSE what
      BY <1>w, <2>1, Zenon DEF Content
    <2>8. to = "copy" => what \in Paths /\ content \in {Good, Altered, Bad}
      <3>1. SUFFICES ASSUME to = "copy" PROVE what \in Paths /\ content \in {Good, Altered, Bad}
        BY Zenon
      <3>2. what \in DOMAIN source
        BY Zenon, <2>1, <2>5, <2>6, <3>1 DEF BundleWrites
      <3>3. PICK D \in SUBSET Paths : source \in [D -> {Good, Altered}]
        BY Zenon DEF ExportersAreSound, SourceIsWhole, Files
      <3> QED
        BY Zenon, <2>7, <3>1, <3>2, <3>3
    <2>9. to = "bundle.json" => content \in Bundles \cup {Bad, None}
      <3>1. payload.bundle \in Bundles
        BY <2>3, PayloadTypes, Zenon
      <3> QED
        BY Zenon, <2>1, <2>5, <2>7, <3>1 DEF BundleWrites
    <2>10. to = "bundle.signature.json" =>
                content \in Signatures \cup {Bad, None} /\ (Intact(content) => \E p \in signed : content = p.signature)
      <3>1. payload.signature \in Signatures
        BY <2>3, PayloadTypes, Zenon
      <3>2. to = "bundle.signature.json" => content = Bad \/ content = payload.signature
        BY Zenon, <2>1, <2>5, <2>7 DEF BundleWrites
      <3> QED
        BY Zenon, <2>3, <3>1, <3>2 DEF Intact
    <2>11. to \in {"copy", "bundle.json", "bundle.signature.json"} /\ DirectoryIsMixed(directory, signed)
      BY Zenon, <1>m, <2>1, <2>5 DEF BundleWrites
    <2>12. WriteDirectory(to, what, content)
      BY <1>w, <2>1, Zenon
    <2>13. DirectoryAfter(directory, directory', to, what, content, signed)
      BY <2>8, <2>9, <2>10, <2>11, <2>12, DirectoryWritten, Zenon
    <2> QED
      BY <2>1, <2>13, Zenon
  <1>5. ASSUME NEW e \in Exporters, ExportStep(e) PROVE DirectoryIsSound'
    <2>0. exports[e].pc = "write" /\ Advances(e) /\ source' = source /\ damaged' = damaged
      BY <1>5, Zenon DEF ExportStep
    <2>1. CASE directory' = directory /\ exports[e].kind # "bundle"
      <3>1. \E pc, todo : Reaches(e, pc, todo)
        BY <2>0, Zenon DEF Advances
      <3> QED
        BY <1>b, <2>0, <2>1, <3>1, Zenon
    <2>2. CASE /\ exports[e].kind = "bundle"
               /\ WriteDirectory(Head(exports[e].todo).to, NextThing(exports[e].todo),
                                 Content(Head(exports[e].todo).to, NextThing(exports[e].todo)))
      <3>1. PICK to, what, content, signed :
                /\ to = Head(exports[e].todo).to /\ what = NextThing(exports[e].todo)
                /\ content = Content(to, what) /\ signed = Signed'
        BY Zenon
      <3>2. DirectoryAfter(directory, directory', to, what, content, signed)
        BY <1>w, <2>0, <2>2, <3>1, Zenon
      <3>3. PICK x : x = [pc |-> IF Rest(exports[e].todo) = <<>> THEN "done" ELSE "write", kind |-> exports[e].kind,
                          payload |-> exports[e].payload, todo |-> Rest(exports[e].todo)]
        BY Zenon
      <3>4. exports' = [exports EXCEPT ![e] = x]
        BY <2>0, <3>3, Zenon DEF Advances, Reaches
      <3>5. /\ x.pc = IF Rest(exports[e].todo) = <<>> THEN "done" ELSE "write"
            /\ x.kind = "bundle" /\ x.payload = exports[e].payload /\ x.todo = Rest(exports[e].todo)
        BY Zenon, <2>2, <3>3
      <3>6. DirectoryIsMixed(directory', Signed')
        BY <3>1, <3>2, Zenon DEF DirectoryAfter
      <3>7. ASSUME Alone(e) PROVE DirectoryOf(x, directory')
        <4>1. PICK y, d, m : y = exports[e] /\ d = directory /\ m = directory'
          BY Zenon
        <4>2. y.pc = "write" /\ DirectoryOf(y, d) /\ AllGood(source)
          BY <2>0, <3>7, <4>1, Zenon DEF DirectoryIsSound, Alone
        <4>3. BundleWrites(y.todo, y.payload)
          BY Zenon, <2>0, <2>2, <4>1, BundleNext DEF ExportersAreSound, ExporterIsSound
        <4>4. DOMAIN y.payload.bundle.files \subseteq DOMAIN source
          <5>1. exports[e].kind # None
            BY Zenon, <2>2, TransportAssumption DEF Kinds
          <5>2. y.payload \in Signed
            BY Zenon, <4>1, <5>1, ExporterSigned
          <5> QED
            BY Zenon, <5>2 DEF DirectoryIsSound, SignedFrom
        <4>5. content = IF to = "copy" THEN source[what] ELSE what
          BY <3>1, Zenon DEF Content
        <4>6. to = Head(y.todo).to /\ what = NextThing(y.todo)
          BY Zenon, <3>1, <4>1
        <4>7. Head(y.todo).to = "copy" => content = Good
          BY Zenon, <4>2, <4>3, <4>4, <4>5, <4>6 DEF BundleWrites, AllGood
        <4>8. Head(y.todo).to = "bundle.json" => content = y.payload.bundle
          BY Zenon, <4>3, <4>5, <4>6 DEF BundleWrites
        <4>9. DirectoryAfter(d, m, Head(y.todo).to, NextThing(y.todo), content, signed)
          BY <3>2, <4>1, <4>6, Zenon
        <4>10. x.payload = y.payload /\ x.todo = Rest(y.todo) /\ x.pc = IF Rest(y.todo) = <<>> THEN "done" ELSE "write"
          BY <3>5, <4>1, Zenon
        <4>11. DirectoryOf(x, m)
          BY <4>2, <4>7, <4>8, <4>9, <4>10, AloneAdvances, Zenon
        <4> QED
          BY <4>1, <4>11, Zenon
      <3> QED
        BY <1>c, <2>0, <2>2, <3>4, <3>5, <3>6, <3>7, Zenon
    <2>3. \/ /\ exports[e].kind = "bundle"
             /\ WriteDirectory(Head(exports[e].todo).to, NextThing(exports[e].todo),
                               Content(Head(exports[e].todo).to, NextThing(exports[e].todo)))
          \/ exports[e].kind = "layout" /\ UNCHANGED <<directory, registry>>
          \/ exports[e].kind = "push" /\ UNCHANGED <<directory, layout>>
      BY <1>5, Zenon DEF ExportStep
    <2>4. UNCHANGED <<directory, layout>> \/ UNCHANGED <<directory, registry>> => directory' = directory
      BY Zenon
    <2> QED
      BY Zenon, <2>1, <2>2, <2>3, <2>4
  <1>6. ASSUME NEW e \in Exporters, PushFails(e) PROVE DirectoryIsSound'
    <2>1. Fails(e) /\ directory' = directory /\ source' = source /\ damaged' = damaged
      BY Zenon, <1>6 DEF PushFails, carriers
    <2> QED
      BY Zenon, <1>b, <2>1 DEF Fails
  <1>7. ASSUME NEW e \in Exporters, Dies(e) PROVE DirectoryIsSound'
    <2>0. exports[e].pc = "write" /\ source' = source /\ damaged' = damaged
      BY <1>7, Zenon DEF Dies
    <2>1. PICK todo : Reaches(e, "dead", todo)
      BY <1>7, Zenon DEF Dies
    <2>2. CASE directory' = directory
      BY Zenon, <1>b, <2>0, <2>1, <2>2
    <2>3. CASE exports[e].kind = "bundle" /\ WriteDirectory(Head(exports[e].todo).to, NextThing(exports[e].todo), Bad)
      <3>1. DirectoryAfter(directory, directory', Head(exports[e].todo).to, NextThing(exports[e].todo), Bad, Signed')
        BY <1>w, <2>0, <2>3, Zenon
      <3>2. DirectoryIsMixed(directory', Signed')
        BY <3>1, Zenon DEF DirectoryAfter
      <3>3. PICK x : x = [pc |-> "dead", kind |-> exports[e].kind, payload |-> exports[e].payload, todo |-> todo]
        BY Zenon
      <3>4. exports' = [exports EXCEPT ![e] = x]
        BY <2>1, <3>3, Zenon DEF Reaches
      <3>5. x.pc = "dead" /\ x.kind = "bundle"
        BY Zenon, <2>3, <3>3
      <3>6. DirectoryOf(x, directory')
        BY Zenon, <3>5 DEF DirectoryOf
      <3> QED
        BY <1>c, <2>0, <2>3, <3>2, <3>4, <3>5, <3>6, Zenon
    <2>4. \/ UNCHANGED carriers \/ UNCHANGED <<directory, registry>>
          \/ exports[e].kind = "bundle" /\ WriteDirectory(Head(exports[e].todo).to, NextThing(exports[e].todo), Bad)
      BY <1>7, Zenon DEF Dies
    <2>5. UNCHANGED carriers \/ UNCHANGED <<directory, registry>> => directory' = directory
      BY Zenon DEF carriers
    <2> QED
      BY Zenon, <2>2, <2>3, <2>4, <2>5
  <1>8. CASE CarrierDamaged
    <2>1. \A e \in Exporters : ~Alone(e)'
      BY <1>8, Zenon DEF CarrierDamaged, Alone
    <2>2. DirectoryIsMixed(directory', Signed')
      <3>1. PICK D \in SUBSET Paths :
                directory \in [index : Bundles \cup {Bad, None}, signature : Signatures \cup {Bad, None},
                               files : [D -> {Good, Altered, Bad}], created : BOOLEAN]
        BY Zenon, <1>m DEF DirectoryIsMixed
      <3>2. CASE \E p \in DOMAIN directory.files : directory' = [directory EXCEPT !.files = [directory.files EXCEPT ![p] = Bad]]
        <4>1. PICK p \in DOMAIN directory.files : directory' = [directory EXCEPT !.files = [directory.files EXCEPT ![p] = Bad]]
          BY Zenon, <3>2
        <4>2. PICK files : files = [directory.files EXCEPT ![p] = Bad]
          BY Zenon
        <4>3. files \in [D -> {Good, Altered, Bad}] /\ directory' = [directory EXCEPT !.files = files]
          BY Zenon, <3>1, <4>1, <4>2
        <4>4. directory' \in [index : Bundles \cup {Bad, None}, signature : Signatures \cup {Bad, None},
                              files : [D -> {Good, Altered, Bad}], created : BOOLEAN]
          BY Zenon, <3>1, <4>3
        <4>5. directory' \in [index : Bundles \cup {Bad, None}, signature : Signatures \cup {Bad, None},
                              files : UNION {[E -> {Good, Altered, Bad}] : E \in SUBSET Paths}, created : BOOLEAN]
          BY Zenon, <4>4
        <4>6. directory'.signature = directory.signature
          BY Zenon, <3>1, <4>3
        <4> QED
          BY <1>m, <4>5, <4>6, Zenon DEF DirectoryIsMixed
      <3>3. CASE directory' = [directory EXCEPT !.signature = None]
        <4>1. directory' \in [index : Bundles \cup {Bad, None}, signature : Signatures \cup {Bad, None},
                              files : [D -> {Good, Altered, Bad}], created : BOOLEAN]
          BY Zenon, <3>1, <3>3
        <4>2. directory' \in [index : Bundles \cup {Bad, None}, signature : Signatures \cup {Bad, None},
                              files : UNION {[E -> {Good, Altered, Bad}] : E \in SUBSET Paths}, created : BOOLEAN]
          BY Zenon, <4>1
        <4>3. directory'.signature = None
          BY Zenon, <3>1, <3>3
        <4> QED
          BY Zenon, <4>2, <4>3 DEF DirectoryIsMixed, Intact
      <3>4. CASE directory' = directory
        BY Zenon, <1>m, <3>4
      <3>5. \/ \E p \in DOMAIN directory.files : directory' = [directory EXCEPT !.files = [directory.files EXCEPT ![p] = Bad]]
            \/ directory' = [directory EXCEPT !.signature = None]
            \/ UNCHANGED <<directory, registry>>
        BY <1>8, Zenon DEF CarrierDamaged
      <3> QED
        BY Zenon, <3>2, <3>3, <3>4, <3>5
    <2> QED
      BY <1>f, <2>1, <2>2, Zenon DEF DirectoryIsSound
  <1>9. CASE UNCHANGED <<exports, directory, source, damaged>>
    <2>1. exports' = exports /\ directory' = directory /\ source' = source /\ damaged' = damaged
      BY Zenon, <1>9
    <2>2. \A e \in Exporters : Alone(e)' => Alone(e)
      BY <2>1, Zenon DEF Alone
    <2>3. DirectoryIsMixed(directory', Signed')
      BY Zenon, <1>m, <2>1
    <2> QED
      BY <1>f, <2>1, <2>2, <2>3, Zenon DEF DirectoryIsSound
  <1> QED
    BY Zenon, <1>1, <1>2, <1>3, <1>4, <1>5, <1>6, <1>7, <1>8, <1>9
       DEF Next, vars, carriers, RegistryCollects, PullIndex, ImportBundle, ImportLayout, PullBlobs

-----------------------------------------------------------------------------
(* The target *)

\* An import of what somebody signed keeps the target sound.
LEMMA InstallsSigned ==
    ASSUME TargetIsSound, NEW b, NEW files, Install(b, files), IsBundle(b),
           validate_bundle(b, files), validate_import_targets(b),
           Signed \subseteq Signed', \E p \in Signed' : p.bundle = b
    PROVE  TargetIsSound'
  <1>1. PICK T, new : T = TargetSkills /\ new = b.skills \ T
    BY Zenon
  <1>2. PICK D : D = DOMAIN target \cup {q \in DOMAIN files : q[1] \in new}
    BY Zenon
  <1>3. target' = [p \in D |-> IF p[1] \in new THEN files[p] ELSE target[p]]
    BY <1>1, <1>2, Zenon DEF Install
  <1>4. sidecars' = [s \in DOMAIN sidecars \cup b.skills |-> IF s \in b.skills THEN b ELSE sidecars[s]]
    BY Zenon DEF Install
  <1>5. \A p \in DOMAIN target : p[1] \in T /\ p[1] \notin new
    BY Zenon, <1>1 DEF TargetSkills
  <1>6. \A s \in T : \E p \in DOMAIN target : p[1] = s
    BY Zenon, <1>1 DEF TargetSkills
  <1>7. ASSUME NEW p \in DOMAIN target PROVE p \in DOMAIN target' /\ target'[p] = target[p]
    BY Zenon, <1>2, <1>3, <1>5
  <1>8. ASSUME NEW q \in DOMAIN files, q[1] \in b.skills
        PROVE  /\ q \in DOMAIN b.files /\ files[q] = b.files[q] /\ b.files[q] \in {Good, Altered} /\ q \in Paths
               /\ q[1] \in new => q \in DOMAIN target' /\ target'[q] = files[q]
    <2>1. q \in DOMAIN b.files /\ files[q] = b.files[q]
      BY Zenon, <1>8 DEF validate_bundle, collect_actual_bundle_files, validate_listed_bundle_files, Holds
    <2>2. b.files \in Files
      BY Zenon DEF IsBundle, Bundles
    <2>3. PICK E \in SUBSET Paths : b.files \in [E -> {Good, Altered}]
      BY Zenon, <2>2 DEF Files
    <2>4. q[1] \in new => q \in DOMAIN target' /\ target'[q] = files[q]
      BY Zenon, <1>2, <1>3
    <2> QED
      BY Zenon, <2>1, <2>3, <2>4
  <1>9. ASSUME NEW s \in b.skills
        PROVE  /\ s \in Skills /\ <<s, "manifest">> \in DOMAIN files /\ <<s, "artifact">> \in DOMAIN files
               /\ files[<<s, "artifact">>] = Good
    <2>1. s \in Skills /\ FilesOf(s) \subseteq DOMAIN files
      BY Zenon DEF IsBundle, Bundles, validate_bundle, validate_bundle_skill_entries
    <2>2. <<s, "manifest">> \in FilesOf(s) /\ <<s, "artifact">> \in FilesOf(s)
      BY <2>1, SkillFiles, Zenon
    <2>3. files[<<s, "artifact">>] = Good
      BY Zenon DEF validate_bundle, validate_bundle_skill_entries, Holds
    <2> QED
      BY Zenon, <2>1, <2>2, <2>3
  <1>10. ASSUME NEW s, NEW f PROVE <<s, f>>[1] = s
    BY Zenon
  <1>11. ASSUME NEW s \in b.skills, NEW f \in {"manifest", "artifact"}
         PROVE  /\ <<s, f>> \in DOMAIN files /\ <<s, f>> \in DOMAIN b.files /\ files[<<s, f>>] = b.files[<<s, f>>]
                /\ s \in new => <<s, f>> \in DOMAIN target' /\ target'[<<s, f>>] = files[<<s, f>>]
    <2>1. PICK q : q = <<s, f>>
      BY Zenon
    <2>2. q \in DOMAIN files /\ q[1] = s
      BY Zenon, <1>9, <2>1
    <2>3. /\ q \in DOMAIN b.files /\ files[q] = b.files[q]
          /\ s \in new => q \in DOMAIN target' /\ target'[q] = files[q]
      BY Zenon, <1>8, <2>2
    <2> QED
      BY Zenon, <2>1, <2>2, <2>3
  <1>12. TargetSkills' = T \cup b.skills
    <2>1. DOMAIN target' = D
      BY Zenon, <1>3
    <2>2. ASSUME NEW s \in TargetSkills' PROVE s \in T \cup b.skills
      <3>1. PICK p \in DOMAIN target' : s = p[1]
        BY Zenon, <2>2 DEF TargetSkills
      <3>2. p \in DOMAIN target \/ p[1] \in new
        BY Zenon, <1>2, <2>1, <3>1
      <3> QED
        BY Zenon, <1>1, <1>5, <3>1, <3>2
    <2>3. ASSUME NEW s \in T PROVE s \in TargetSkills'
      <3>1. PICK p \in DOMAIN target : p[1] = s
        BY Zenon, <1>6
      <3>2. p \in DOMAIN target'
        BY Zenon, <1>7
      <3> QED
        BY Zenon, <3>1, <3>2 DEF TargetSkills
    <2>4. ASSUME NEW s \in new PROVE s \in TargetSkills'
      <3>1. PICK p : p = <<s, "manifest">>
        BY Zenon
      <3>2. p \in DOMAIN target' /\ p[1] = s
        BY Zenon, <1>1, <1>11, <3>1
      <3> QED
        BY Zenon, <3>2 DEF TargetSkills
    <2> QED
      BY Zenon, <1>1, <2>2, <2>3, <2>4
  <1>13. target' \in Files
    <2>1. PICK E \in SUBSET Paths : target \in [E -> {Good, Altered}]
      BY Zenon DEF TargetIsSound, Files
    <2>2. \A p \in D : p \in Paths /\ target'[p] \in {Good, Altered}
      BY Zenon, <1>1, <1>2, <1>7, <1>8, <2>1
    <2>3. target' \in [D -> {Good, Altered}] /\ D \in SUBSET Paths
      BY Zenon, <1>3, <2>2
    <2> QED
      BY Zenon, <2>3 DEF Files
  <1>14. ASSUME NEW s \in TargetSkills'
         PROVE  /\ <<s, "manifest">> \in DOMAIN target' /\ <<s, "artifact">> \in DOMAIN target'
                /\ target'[<<s, "artifact">>] = Good
    <2>1. CASE s \in T
      <3>1. /\ <<s, "manifest">> \in DOMAIN target /\ <<s, "artifact">> \in DOMAIN target
            /\ target[<<s, "artifact">>] = Good
        BY Zenon, <1>1, <2>1 DEF TargetIsSound
      <3> QED
        BY Zenon, <1>7, <3>1
    <2>2. CASE s \in new
      <3>1. s \in b.skills
        BY Zenon, <1>1, <2>2
      <3> QED
        BY Zenon, <1>9, <1>11, <2>2, <3>1
    <2> QED
      BY Zenon, <1>1, <1>12, <2>1, <2>2
  <1>15. ASSUME NEW s \in DOMAIN sidecars'
         PROVE  /\ s \in TargetSkills'
                /\ \E p \in Signed' : p.bundle = sidecars'[s]
                /\ target'[<<s, "manifest">>] = sidecars'[s].files[<<s, "manifest">>]
                /\ sidecars'[s].files[<<s, "artifact">>] = Good
                /\ sidecars'[s].includes_dependency_closure => Needs[sidecars'[s].root_skill] \subseteq TargetSkills'
    <2>1. CASE s \in b.skills
      <3>1. sidecars'[s] = b
        BY Zenon, <1>4, <2>1
      <3>2. b.files[<<s, "artifact">>] = Good
        BY Zenon, <1>9, <1>11, <2>1
      <3>3. target'[<<s, "manifest">>] = b.files[<<s, "manifest">>]
        <4>1. CASE s \in new
          BY Zenon, <1>11, <2>1, <4>1
        <4>2. CASE s \notin new
          <5>1. s \in T /\ target[<<s, "manifest">>] = b.files[<<s, "manifest">>]
            BY Zenon, <1>1, <2>1, <4>2 DEF validate_import_targets
          <5>2. <<s, "manifest">> \in DOMAIN target
            BY Zenon, <1>1, <5>1 DEF TargetIsSound
          <5> QED
            BY Zenon, <1>7, <5>1, <5>2
        <4> QED
          BY Zenon, <4>1, <4>2
      <3>4. b.includes_dependency_closure => Needs[b.root_skill] \subseteq TargetSkills'
        BY Zenon, <1>12 DEF IsBundle
      <3> QED
        BY Zenon, <1>12, <2>1, <3>1, <3>2, <3>3, <3>4
    <2>2. CASE s \notin b.skills
      <3>1. s \in DOMAIN sidecars /\ sidecars'[s] = sidecars[s]
        BY Zenon, <1>4, <2>2
      <3>2. /\ s \in T
            /\ \E p \in Signed : p.bundle = sidecars[s]
            /\ target[<<s, "manifest">>] = sidecars[s].files[<<s, "manifest">>]
            /\ sidecars[s].files[<<s, "artifact">>] = Good
            /\ sidecars[s].includes_dependency_closure => Needs[sidecars[s].root_skill] \subseteq T
        BY Zenon, <1>1, <3>1 DEF TargetIsSound
      <3>3. target'[<<s, "manifest">>] = target[<<s, "manifest">>]
        <4>1. <<s, "manifest">> \in DOMAIN target
          BY Zenon, <1>1, <3>2 DEF TargetIsSound
        <4> QED
          BY Zenon, <1>7, <4>1
      <3> QED
        BY Zenon, <1>12, <3>1, <3>2, <3>3
    <2> QED
      BY Zenon, <2>1, <2>2
  <1> QED
    BY Zenon, <1>13, <1>14, <1>15 DEF TargetIsSound

\* The artifact that is decoded from a manifest that somebody made.
LEMMA DecodesManifest ==
    ASSUME NEW p, IsPayload(p), NEW d, d = decode_oci_artifact(Manifest(p))
    PROVE  /\ d # None /\ d.bundle = p.bundle /\ d.signature = p.signature /\ d.files = p.bundle.files
           /\ parse_bundle_index(d.bundle) /\ Intact(d.signature)
  <1>1. PICK m, b : m = Manifest(p) /\ b = p.bundle
    BY Zenon
  <1>2. m.config = b /\ m.signature = p.signature /\ m.layers = b.files /\ m.annotations = b.root_skill
    BY Zenon, <1>1 DEF Manifest
  <1>3. b \in Bundles /\ Intact(b) /\ p.signature \in Signatures /\ Intact(p.signature)
    BY <1>1, PayloadTypes, Zenon
  <1>4. b.skills # {} /\ b.files # <<>>
    <2>1. DOMAIN b.files # {}
      BY <1>1, BundleStarts, Zenon
    <2>2. b.files # <<>>
      BY <2>1
    <2> QED
      BY Zenon, <1>1, <2>2 DEF IsPayload, IsBundle
  <1>5. parse_bundle_index(b)
    BY <1>3, <1>4, Zenon DEF parse_bundle_index
  <1>6. p.signature.bundle_sha256 = b
    BY <1>1 DEF IsPayload, sign_bundle_payload
  <1>7. decode_bundle_metadata(m) /\ decode_file_layers(m)
    BY <1>2, <1>5, <1>6, Zenon DEF decode_bundle_metadata, validate_root_descriptor_annotations, decode_file_layers
  <1>8. d = [bundle |-> b, signature |-> p.signature, files |-> b.files]
    BY <1>1, <1>2, <1>7, Zenon DEF decode_oci_artifact
  <1>9. d \in Artifacts
    BY <1>3, <1>8 DEF Artifacts, Bundles
  <1>10. d # None
    BY <1>9, TransportAssumption, Zenon
  <1>11. d.bundle = b /\ d.signature = p.signature /\ d.files = b.files
    BY <1>8
  <1> QED
    BY <1>1, <1>3, <1>5, <1>10, <1>11, Zenon

\* What a layout decodes to is what somebody signed.
LEMMA LayoutDecodes ==
    ASSUME ExportersAreSound, LayoutIsSound, DecodedLayout # None
    PROVE  \E p \in Signed : IsPayload(p) /\ DecodedLayout = decode_oci_artifact(Manifest(p))
  <1>1. Intact(layout.index) /\ DecodedLayout = decode_oci_artifact(layout.index)
    BY Zenon DEF DecodedLayout, LayoutManifest
  <1>2. PICK p \in Signed : layout.index = Manifest(p)
    BY <1>1, Zenon DEF LayoutIsSound, LayoutIsMixed
  <1>3. IsPayload(p)
    BY Zenon, SignedIsWhole
  <1> QED
    BY <1>1, <1>2, <1>3, Zenon

\* What is signed is what the signature says.
LEMMA SignatureVouches ==
    ASSUME ExportersAreSound, DirectoryIsSound, NEW trusted,
           Imports(directory.index, directory.signature, directory.files, trusted)
    PROVE  \E p \in Signed : IsPayload(p) /\ directory.index = p.bundle
  <1>1. Intact(directory.signature) /\ directory.signature.bundle_sha256 = directory.index
    BY Zenon DEF Imports, verify_bundle_signature
  <1>2. PICK p \in Signed : directory.signature = p.signature
    BY <1>1, Zenon DEF DirectoryIsSound, DirectoryIsMixed
  <1>3. IsPayload(p)
    BY Zenon, SignedIsWhole
  <1>4. p.signature.bundle_sha256 = p.bundle
    BY <1>3 DEF IsPayload, sign_bundle_payload
  <1> QED
    BY <1>1, <1>2, <1>3, <1>4, Zenon

\* The target stays sound, whatever is imported.
LEMMA TargetStaysSound ==
    ExportersAreSound /\ DirectoryIsSound /\ LayoutIsSound /\ RegistryIsSound /\ TargetIsSound /\ [Next]_vars
        => TargetIsSound'
  <1> SUFFICES ASSUME ExportersAreSound, DirectoryIsSound, LayoutIsSound, RegistryIsSound, TargetIsSound, [Next]_vars
               PROVE  TargetIsSound'
    BY Zenon
  <1>g. Signed \subseteq Signed'
    BY Zenon, SignedStays
  <1>u. ASSUME target' = target, sidecars' = sidecars PROVE TargetIsSound'
    <2>1. TargetSkills' = TargetSkills
      BY Zenon, <1>u DEF TargetSkills
    <2> QED
      BY Zenon, <1>g, <1>u, <2>1 DEF TargetIsSound
  <1>i. ASSUME NEW b, NEW files, Install(b, files), NEW p \in Signed, IsPayload(p), b = p.bundle,
               NEW signature, NEW trusted, Imports(b, signature, files, trusted)
        PROVE  TargetIsSound'
    <2>1. IsBundle(b) /\ \E q \in Signed' : q.bundle = b
      BY Zenon, <1>g, <1>i DEF IsPayload
    <2>2. validate_bundle(b, files) /\ validate_import_targets(b)
      BY <1>i, Zenon DEF Imports
    <2> QED
      BY Zenon, <1>g, <1>i, <2>1, <2>2, InstallsSigned
  <1>1. ASSUME NEW trusted \in TrustStores, ImportBundle(trusted) PROVE TargetIsSound'
    <2>1. CASE /\ Imports(directory.index, directory.signature, directory.files, trusted)
               /\ Install(directory.index, directory.files)
      <3>1. PICK p \in Signed : IsPayload(p) /\ directory.index = p.bundle
        BY Zenon, <2>1, SignatureVouches
      <3> QED
        BY <1>i, <2>1, <3>1, Zenon
    <2>2. CASE UNCHANGED <<target, sidecars>>
      BY Zenon, <1>u, <2>2
    <2> QED
      BY <1>1, <2>1, <2>2, Zenon DEF ImportBundle
  <1>2. ASSUME NEW trusted \in TrustStores, ImportLayout(trusted) PROVE TargetIsSound'
    <2>1. CASE LayoutImports(trusted) /\ Install(DecodedLayout.bundle, DecodedLayout.files)
      <3>1. /\ DecodedLayout # None
            /\ Imports(DecodedLayout.bundle, DecodedLayout.signature, DecodedLayout.files, trusted)
        BY <2>1, Zenon DEF LayoutImports
      <3>2. PICK p \in Signed : IsPayload(p) /\ DecodedLayout = decode_oci_artifact(Manifest(p))
        BY Zenon, <3>1, LayoutDecodes
      <3>3. DecodedLayout.bundle = p.bundle
        BY <3>2, DecodesManifest, Zenon
      <3> QED
        BY <1>i, <2>1, <3>1, <3>2, <3>3, Zenon
    <2>2. CASE UNCHANGED <<target, sidecars>>
      BY <1>u, <2>2
    <2> QED
      BY <1>2, <2>1, <2>2, Zenon DEF ImportLayout
  <1>3. ASSUME NEW trusted \in TrustStores, PullBlobs(trusted) PROVE TargetIsSound'
    <2>0. PICK d : d = decode_oci_artifact(pull)
      BY Zenon
    <2>1. CASE PullImports(pull, trusted) /\ Install(d.bundle, d.files)
      <3>1. Imports(d.bundle, d.signature, d.files, trusted)
        BY <2>0, <2>1, Zenon DEF PullImports
      <3>2. pull # None
        BY <1>3, Zenon DEF PullBlobs
      <3>3. PICK p \in Signed : pull = Manifest(p)
        BY <3>2, Zenon DEF RegistryIsSound
      <3>4. IsPayload(p)
        BY Zenon, SignedIsWhole
      <3>5. d.bundle = p.bundle
        BY <2>0, <3>3, <3>4, DecodesManifest, Zenon
      <3> QED
        BY <1>i, <2>1, <3>1, <3>4, <3>5, Zenon
    <2>2. CASE UNCHANGED <<target, sidecars>>
      BY <1>u, <2>2
    <2> QED
      BY <1>3, <2>0, <2>1, <2>2, Zenon DEF PullBlobs
  <1>4. ASSUME NEW e \in Exporters,
               (\E kind \in Kinds, root \in Roots, deps \in BOOLEAN : StartExport(e, kind, root, deps))
                 \/ prepare_bundle_root(e) \/ prepare_oci_layout_root(e) \/ prepare_push(e)
                 \/ ExportStep(e) \/ PushFails(e) \/ Dies(e)
        PROVE  TargetIsSound'
    <2>1. target' = target /\ sidecars' = sidecars
      BY <1>4, Zenon DEF StartExport, prepare_bundle_root, prepare_oci_layout_root, prepare_push, ExportStep, PushFails, Dies
    <2> QED
      BY Zenon, <1>u, <2>1
  <1>5. CASE SourceChanges \/ CarrierDamaged \/ RegistryCollects \/ PullIndex
    <2>1. target' = target /\ sidecars' = sidecars
      BY <1>5, Zenon DEF SourceChanges, CarrierDamaged, RegistryCollects, PullIndex
    <2> QED
      BY Zenon, <1>u, <2>1
  <1>6. CASE UNCHANGED vars
    BY Zenon, <1>6, <1>u DEF vars
  <1> QED
    BY Zenon, <1>1, <1>2, <1>3, <1>4, <1>5, <1>6 DEF Next

-----------------------------------------------------------------------------
(* The results *)

TransportInv ==
    /\ ExportersAreSound /\ DirectoryIsSound /\ LayoutIsSound /\ RegistryIsSound /\ TargetIsSound
    /\ damaged \in BOOLEAN

\* There is nothing in an empty directory.
LEMMA NoFiles ==
    ASSUME NEW S
    PROVE  <<>> \in UNION {[D -> S] : D \in SUBSET Paths} /\ DOMAIN <<>> = {}
  <1>1. <<>> \in [{} -> S] /\ DOMAIN <<>> = {} /\ {} \in SUBSET Paths
    OBVIOUS
  <1> QED
    BY Zenon, <1>1

\* Nothing is exported and nothing is imported at the start.
LEMMA TransportStarts ==
    Init => TransportInv
  <1> SUFFICES ASSUME Init PROVE TransportInv
    BY Zenon
  <1>0. \A e \in Exporters : exports[e] = NotStarted
    BY Zenon DEF Init
  <1>1. ExportersAreSound
    <2>1. installed \subseteq Skills
      BY Zenon DEF Init
    <2>2. PICK D : D = {q \in Paths : q[1] \in installed /\ (q[2] = Verification => DependsOn[q[1]] = {})}
      BY Zenon
    <2>3. source = [p \in D |-> Good]
      BY <2>2, Zenon DEF Init
    <2>4. D \in SUBSET Paths /\ source \in [D -> {Good, Altered}]
      BY Zenon, <2>2, <2>3
    <2>5. source \in Files
      BY Zenon, <2>4 DEF Files
    <2>6. ASSUME NEW s \in installed, NEW p \in FilesOf(s) PROVE p \in DOMAIN source
      <3>1. s \in Skills
        BY Zenon, <2>1
      <3>2. FilesOf(s) \subseteq Paths /\ p[1] = s /\ p[2] # Verification
        BY <3>1, SkillFiles, Zenon
      <3> QED
        BY Zenon, <2>2, <2>3, <3>2
    <2>7. \A e \in Exporters : ExporterIsSound(exports[e])
      BY <1>0 DEF NotStarted, ExporterIsSound
    <2>8. DOMAIN exports = Exporters
      BY Zenon DEF Init
    <2> QED
      BY Zenon, <2>1, <2>5, <2>6, <2>7, <2>8 DEF ExportersAreSound, SourceIsWhole
  <1>2. Signed = {}
    BY <1>0 DEF Signed, NotStarted
  <1>3. DirectoryIsSound
    <2>1. PICK F : F = UNION {[D -> {Good, Altered, Bad}] : D \in SUBSET Paths}
      BY Zenon
    <2>2. <<>> \in F
      BY <2>1, NoFiles, Zenon
    <2>3. directory = [index |-> None, signature |-> None, files |-> <<>>, created |-> FALSE]
      BY Zenon DEF Init, EmptyDirectory
    <2>4. directory \in [index : Bundles \cup {Bad, None}, signature : Signatures \cup {Bad, None}, files : F, created : BOOLEAN]
      BY Zenon, <2>2, <2>3
    <2>5. directory.signature = None
      BY Zenon, <2>3
    <2>6. DirectoryIsMixed(directory, Signed)
      BY <2>1, <2>4, <2>5, Zenon DEF DirectoryIsMixed, Intact
    <2>7. \A e \in Exporters : DirectoryOf(exports[e], directory)
      BY <1>0 DEF NotStarted, DirectoryOf
    <2> QED
      BY Zenon, <1>2, <2>6, <2>7 DEF DirectoryIsSound, SignedFrom
  <1>4. LayoutIsSound
    <2>1. layout = [metadata |-> None, index |-> None, blobs |-> <<>>, created |-> FALSE]
      BY Zenon DEF Init, EmptyLayout
    <2>2. /\ DOMAIN layout = {"metadata", "index", "blobs", "created"} /\ layout.metadata = None
          /\ layout.index = None /\ layout.blobs = <<>>
      BY Zenon, <2>1
    <2>3. DOMAIN layout.blobs = {}
      BY Zenon, <2>2, NoFiles
    <2>4. LayoutIsMixed(layout, Signed) /\ LayoutIsIntact(layout)
      BY Zenon, <2>2, <2>3, TransportAssumption DEF LayoutIsMixed, LayoutIsIntact, Intact
    <2>5. \A e \in Exporters : LayoutWriter(exports[e], layout)
      BY <1>0 DEF NotStarted, LayoutWriter
    <2> QED
      BY Zenon, <2>4, <2>5 DEF LayoutIsSound
  <1>5. RegistryIsSound
    <2>1. registry = [tag |-> None, blobs |-> {}] /\ pull = None
      BY Zenon DEF Init, EmptyRegistry
    <2>2. DOMAIN registry = {"tag", "blobs"} /\ registry.tag = None
      BY Zenon, <2>1
    <2>3. \A e \in Exporters : Pusher(exports[e], registry)
      BY <1>0 DEF NotStarted, Pusher
    <2> QED
      BY Zenon, <2>1, <2>2, <2>3 DEF RegistryIsSound, RegistryIsMixed, TagIsBetween
  <1>6. TargetIsSound
    <2>1. sidecars = <<>> /\ DOMAIN sidecars = {}
      BY Zenon, NoFiles DEF Init
    <2>2. CASE target = <<>>
      <3>1. target \in Files /\ DOMAIN target = {}
        BY <2>2, NoFiles, Zenon DEF Files
      <3>2. TargetSkills = {}
        BY Zenon, <3>1 DEF TargetSkills
      <3> QED
        BY Zenon, <2>1, <3>1, <3>2 DEF TargetIsSound
    <2>3. ASSUME NEW s \in TargetSkillsAtStart, target = [p \in FilesOf(s) |-> Good] PROVE TargetIsSound
      <3>1. s \in Skills
        BY Zenon, TransportAssumption
      <3>2. /\ FilesOf(s) \subseteq Paths /\ <<s, "manifest">> \in FilesOf(s) /\ <<s, "artifact">> \in FilesOf(s)
            /\ \A p \in FilesOf(s) : p[1] = s
        BY <3>1, SkillFiles, Zenon
      <3>3. PICK D : D = FilesOf(s)
        BY Zenon
      <3>4. target = [p \in D |-> Good] /\ D \in SUBSET Paths
        BY <2>3, <3>2, <3>3, Zenon
      <3>5. target \in [D -> {Good, Altered}] /\ DOMAIN target = D /\ \A p \in D : target[p] = Good
        BY Zenon, <3>4
      <3>6. target \in Files
        BY Zenon, <3>4, <3>5 DEF Files
      <3>7. TargetSkills = {s}
        BY Zenon, <3>2, <3>3, <3>5 DEF TargetSkills
      <3> QED
        BY Zenon, <2>1, <3>2, <3>3, <3>5, <3>6, <3>7 DEF TargetIsSound
    <2>4. target = <<>> \/ \E s \in TargetSkillsAtStart : target = [p \in FilesOf(s) |-> Good]
      BY Zenon DEF Init
    <2> QED
      BY Zenon, <2>2, <2>3, <2>4
  <1> QED
    BY Zenon, <1>1, <1>3, <1>4, <1>5, <1>6 DEF TransportInv, Init

\* Every step keeps the invariant.
LEMMA TransportSteps ==
    TransportInv /\ [Next]_vars => TransportInv'
  <1> SUFFICES ASSUME TransportInv, [Next]_vars PROVE TransportInv'
    OBVIOUS
  <1>1. /\ ExportersAreSound' /\ DirectoryIsSound' /\ LayoutIsSound' /\ RegistryIsSound' /\ TargetIsSound'
    BY ExportersStaySound, DirectoryStaysSound, LayoutStaysSound, RegistryStaysSound, TargetStaysSound, Zenon DEF TransportInv
  <1>2. damaged' \in BOOLEAN
    <2>1. CASE UNCHANGED damaged
      BY Zenon, <2>1 DEF TransportInv
    <2>2. CASE CarrierDamaged
      BY Zenon, <2>2 DEF CarrierDamaged
    <2> QED
      BY Zenon, <2>1, <2>2, DamageStays
  <1> QED
    BY <1>1, <1>2, Zenon DEF TransportInv

\* So the invariant holds for ever.
LEMMA TransportIsSound ==
    Spec => []TransportInv
  BY TransportStarts, TransportSteps, PTL DEF Spec

\* TypeOK holds of every behaviour: the carriers hold bundles, signatures, manifests and
\* tags, or nothing, or half of one; what is installed is whole.
THEOREM TransportTypeCorrect == Spec => []TypeOK
  <1>1. TransportInv => TypeOK
    <2> SUFFICES ASSUME TransportInv PROVE TypeOK
      BY Zenon
    <2>0. ExportersAreSound /\ DirectoryIsSound /\ LayoutIsSound /\ RegistryIsSound /\ TargetIsSound /\ damaged \in BOOLEAN
      BY Zenon DEF TransportInv
    <2>1. installed \subseteq Skills /\ source \in Files /\ DOMAIN exports = Exporters
      BY Zenon, <2>0 DEF ExportersAreSound, SourceIsWhole
    <2>2. ASSUME NEW e \in Exporters
          PROVE  /\ exports[e].pc \in {"idle", "prepare", "write", "done", "failed", "dead"}
                 /\ exports[e].kind \in Kinds \cup {None} /\ exports[e].payload \in Payloads \cup {None}
      BY Zenon, <2>0 DEF ExportersAreSound, ExporterIsSound, IsPayload
    <2>3. directory \in [index : Bundles \cup {Bad, None}, signature : Signatures \cup {Bad, None},
                         files : UNION {[D -> {Good, Altered, Bad}] : D \in SUBSET Paths}, created : BOOLEAN]
      BY <2>0, Zenon DEF DirectoryIsSound, DirectoryIsMixed
    <2>4. layout.metadata \in {Good, Bad, None} /\ \A b \in DOMAIN layout.blobs : layout.blobs[b] \in BOOLEAN
      BY Zenon, <2>0 DEF LayoutIsSound, LayoutIsMixed
    <2>5. layout.index \in Manifests \cup {Bad, None}
      <3>1. CASE Intact(layout.index)
        <4>1. PICK p \in Signed : layout.index = Manifest(p)
          BY <2>0, <3>1, Zenon DEF LayoutIsSound, LayoutIsMixed
        <4>2. Manifest(p) \in Manifests
          BY <2>0, SignedIsWhole, PayloadTypes, Zenon
        <4> QED
          BY Zenon, <4>1, <4>2
      <3> QED
        BY Zenon, <3>1 DEF Intact
    <2>6. registry.tag \in Tags \cup {None}
      <3>1. CASE registry.tag # None
        <4>1. PICK p \in Signed : registry.tag \in {ManifestBlob(Manifest(p)), IndexBlob(Manifest(p))}
          BY <2>0, <3>1, Zenon DEF RegistryIsSound, RegistryIsMixed
        <4>2. ManifestBlob(Manifest(p)) \in Tags /\ IndexBlob(Manifest(p)) \in Tags
          BY <2>0, SignedIsWhole, PayloadTypes, Zenon
        <4> QED
          BY Zenon, <4>1, <4>2
      <3> QED
        BY Zenon, <3>1
    <2>7. pull \in Manifests \cup {None}
      <3>1. CASE pull # None
        <4>1. PICK p \in Signed : pull = Manifest(p)
          BY <2>0, <3>1, Zenon DEF RegistryIsSound
        <4>2. Manifest(p) \in Manifests
          BY <2>0, SignedIsWhole, PayloadTypes, Zenon
        <4> QED
          BY Zenon, <4>1, <4>2
      <3> QED
        BY Zenon, <3>1
    <2>8. ASSUME NEW s \in DOMAIN sidecars PROVE s \in TargetSkills /\ sidecars[s] \in Bundles
      <3>1. s \in TargetSkills /\ \E p \in Signed : p.bundle = sidecars[s]
        BY Zenon, <2>0 DEF TargetIsSound
      <3>2. PICK p \in Signed : p.bundle = sidecars[s]
        BY Zenon, <3>1
      <3>3. p.bundle \in Bundles
        BY <2>0, SignedIsWhole, PayloadTypes, Zenon
      <3> QED
        BY Zenon, <3>1, <3>2, <3>3
    <2>9. target \in Files
      BY Zenon, <2>0 DEF TargetIsSound
    <2> QED
      BY Zenon, <2>0, <2>1, <2>2, <2>3, <2>4, <2>5, <2>6, <2>7, <2>8, <2>9 DEF TypeOK
  <1> QED
    BY <1>1, TransportIsSound, PTL

\* The two validations agree: what validate_decoded_bundle looks at in memory is what
\* validate_bundle looks at on disk.
LEMMA ValidationsAgree ==
    ASSUME NEW b, NEW files
    PROVE  validate_decoded_bundle(b, files) <=> validate_bundle(b, files)
  <1>1. collect_decoded_bundle_files(b, files) = collect_actual_bundle_files(b, files)
    BY Zenon DEF collect_decoded_bundle_files, collect_actual_bundle_files
  <1>2. validate_decoded_bundle_skill_entries(b, files) <=> validate_bundle_skill_entries(b, files)
    BY Zenon DEF validate_decoded_bundle_skill_entries, validate_bundle_skill_entries, decoded_installed_manifest,
                 validate_decoded_support_files
  <1>3. validate_decoded_listed_bundle_files(b, files) <=> validate_listed_bundle_files(b, files)
    BY Zenon DEF validate_decoded_listed_bundle_files, validate_listed_bundle_files
  <1> QED
    BY <1>1, <1>2, <1>3, Zenon DEF validate_decoded_bundle, validate_bundle

\* A preview of an artifact that somebody made says what its import does.
LEMMA PreviewAgrees ==
    ASSUME NEW p, IsPayload(p), NEW d, d = decode_oci_artifact(Manifest(p)), NEW trusted
    PROVE  preview_decoded_oci_artifact(d, trusted) <=> Imports(d.bundle, d.signature, d.files, trusted)
  <1>1. parse_bundle_index(d.bundle) /\ Intact(d.signature)
    BY DecodesManifest, Zenon
  <1>2. validate_decoded_bundle(d.bundle, d.files) <=> validate_bundle(d.bundle, d.files)
    BY ValidationsAgree, Zenon
  <1> QED
    BY <1>1, <1>2, Zenon DEF preview_decoded_oci_artifact, preview_bundle_import, Imports

\* PreviewPredictsImport holds of every behaviour: for every carrier, however its content
\* came about, and for every trust store, the preview says WouldImport exactly when the
\* import installs.
THEOREM PreviewsPredict == Spec => []PreviewPredictsImport
  <1>1. TransportInv => PreviewPredictsImport
    <2> SUFFICES ASSUME TransportInv, NEW trusted \in TrustStores
                 PROVE  /\ preview_import_bundle(trusted)
                                = Imports(directory.index, directory.signature, directory.files, trusted)
                        /\ preview_import_oci_layout(trusted) = LayoutImports(trusted)
                        /\ pull # None => preview_pull_oci_registry(pull, trusted) = PullImports(pull, trusted)
      BY Zenon DEF PreviewPredictsImport
    <2>0. ExportersAreSound /\ LayoutIsSound /\ RegistryIsSound
      BY Zenon DEF TransportInv
    <2>1. preview_import_bundle(trusted) <=> Imports(directory.index, directory.signature, directory.files, trusted)
      BY Zenon DEF preview_import_bundle, preview_bundle_import, Imports
    <2>2. preview_import_oci_layout(trusted) <=> LayoutImports(trusted)
      <3>1. CASE DecodedLayout = None
        BY <3>1, Zenon DEF preview_import_oci_layout, LayoutImports
      <3>2. CASE DecodedLayout # None
        <4>1. PICK p \in Signed : IsPayload(p) /\ DecodedLayout = decode_oci_artifact(Manifest(p))
          BY Zenon, <2>0, <3>2, LayoutDecodes
        <4>2. preview_decoded_oci_artifact(DecodedLayout, trusted)
                <=> Imports(DecodedLayout.bundle, DecodedLayout.signature, DecodedLayout.files, trusted)
          BY <4>1, PreviewAgrees, Zenon
        <4> QED
          BY <4>2, Zenon DEF preview_import_oci_layout, LayoutImports
      <3> QED
        BY Zenon, <3>1, <3>2
    <2>3. pull # None => (preview_pull_oci_registry(pull, trusted) <=> PullImports(pull, trusted))
      <3>1. SUFFICES ASSUME pull # None PROVE preview_pull_oci_registry(pull, trusted) <=> PullImports(pull, trusted)
        BY Zenon
      <3>2. PICK p \in Signed : pull = Manifest(p)
        BY <2>0, <3>1, Zenon DEF RegistryIsSound
      <3>3. PICK d : d = decode_oci_artifact(pull)
        BY Zenon
      <3>4. preview_decoded_oci_artifact(d, trusted) <=> Imports(d.bundle, d.signature, d.files, trusted)
        BY <2>0, <3>2, <3>3, SignedIsWhole, PreviewAgrees, Zenon
      <3> QED
        BY <3>3, <3>4, Zenon DEF preview_pull_oci_registry, PullImports
    <2>4. /\ preview_import_bundle(trusted) \in BOOLEAN /\ preview_import_oci_layout(trusted) \in BOOLEAN
          /\ preview_pull_oci_registry(pull, trusted) \in BOOLEAN /\ PullImports(pull, trusted) \in BOOLEAN
          /\ Imports(directory.index, directory.signature, directory.files, trusted) \in BOOLEAN
          /\ LayoutImports(trusted) \in BOOLEAN
      BY Zenon DEF preview_import_bundle, Imports, preview_import_oci_layout, LayoutImports, preview_pull_oci_registry, PullImports
    <2> QED
      BY <2>1, <2>2, <2>3, <2>4, Zenon
  <1> QED
    BY <1>1, TransportIsSound, PTL

\* InstalledIsSigned holds of every behaviour: whoever mixed writes in a carrier, died or
\* damaged it, an import installs only files of a bundle that one exporter signed as a
\* whole, and all that a closed bundle needs.
THEOREM InstalledAlwaysSigned == Spec => []InstalledIsSigned
  <1>1. TransportInv => InstalledIsSigned
    <2> SUFFICES ASSUME TransportInv, NEW s \in DOMAIN sidecars
                 PROVE  /\ \E e \in Exporters : exports[e].payload # None /\ exports[e].payload.bundle = sidecars[s]
                        /\ \A f \in {"manifest", "artifact"} : target[<<s, f>>] = sidecars[s].files[<<s, f>>]
                        /\ target[<<s, "artifact">>] = Good
                        /\ sidecars[s].includes_dependency_closure => Needs[sidecars[s].root_skill] \subseteq TargetSkills
      BY Zenon DEF InstalledIsSigned
    <2>1. /\ s \in TargetSkills
          /\ \E p \in Signed : p.bundle = sidecars[s]
          /\ target[<<s, "manifest">>] = sidecars[s].files[<<s, "manifest">>]
          /\ sidecars[s].files[<<s, "artifact">>] = Good
          /\ sidecars[s].includes_dependency_closure => Needs[sidecars[s].root_skill] \subseteq TargetSkills
      BY Zenon DEF TransportInv, TargetIsSound
    <2>2. target[<<s, "artifact">>] = Good
      BY Zenon, <2>1 DEF TransportInv, TargetIsSound
    <2>3. \E e \in Exporters : exports[e].payload # None /\ exports[e].payload.bundle = sidecars[s]
      BY Zenon, <2>1 DEF Signed
    <2> QED
      BY Zenon, <2>1, <2>2, <2>3
  <1> QED
    BY <1>1, TransportIsSound, PTL

\* A layout export that finished left a layout that decodes, unless somebody is still
\* writing to it, died or damaged it.
LEMMA LayoutsDecode ==
    TransportInv => FinishedLayoutDecodes
  <1> SUFFICES ASSUME TransportInv, NEW e \in Exporters, exports[e].kind = "layout", exports[e].pc = "done", ~damaged,
                      \A f \in Exporters : exports[f].pc \notin {"write", "dead"}
               PROVE  /\ DecodedLayout # None
                      /\ \E f \in Exporters : exports[f].payload # None /\ exports[f].payload.bundle = DecodedLayout.bundle
    BY Zenon DEF FinishedLayoutDecodes
  <1>0. ExportersAreSound /\ LayoutIsSound
    BY Zenon DEF TransportInv
  <1>1. Untouched
    BY Zenon DEF Untouched
  <1>2. LayoutIsIntact(layout) /\ LayoutIsMixed(layout, Signed) /\ layout.metadata # None /\ layout.index # None
    BY <1>0, <1>1, Zenon DEF LayoutIsSound, LayoutWriter
  <1>3. layout.metadata = Good /\ Intact(layout.index)
    BY Zenon, <1>2 DEF LayoutIsIntact, LayoutIsMixed, Intact
  <1>4. PICK p \in Signed :
            layout.index = Manifest(p) /\ Blobs(layout.index) \cup {ManifestBlob(layout.index)} \subseteq DOMAIN layout.blobs
    BY <1>2, <1>3, Zenon DEF LayoutIsMixed
  <1>5. \A b \in Blobs(layout.index) \cup {ManifestBlob(layout.index)} : b \in DOMAIN layout.blobs /\ layout.blobs[b] = TRUE
    BY Zenon, <1>2, <1>4 DEF LayoutIsIntact
  <1>6. \A b \in Blobs(layout.index) \cup {ManifestBlob(layout.index)} : read_oci_blob_bytes(b)
    BY <1>5, Zenon DEF read_oci_blob_bytes
  <1>7. read_oci_blob_bytes([kind |-> "manifest", of |-> layout.index])
    BY <1>6, Zenon DEF ManifestBlob
  <1>8. \A b \in Blobs(layout.index) : read_oci_blob_bytes(b)
    BY Zenon, <1>6
  <1>9. DecodedLayout = decode_oci_artifact(Manifest(p))
    BY <1>3, <1>4, <1>7, <1>8, Zenon DEF DecodedLayout, LayoutManifest
  <1>10. IsPayload(p)
    BY Zenon, <1>0, SignedIsWhole
  <1>11. DecodedLayout # None /\ DecodedLayout.bundle = p.bundle
    BY <1>9, <1>10, DecodesManifest, Zenon
  <1>12. \E f \in Exporters : exports[f].payload # None /\ exports[f].payload = p
    BY Zenon DEF Signed
  <1> QED
    BY <1>11, <1>12, Zenon

\* A bundle export that finished, alone and from a root that did not change, left a
\* directory that validates.
LEMMA BundlesValidate ==
    TransportInv => FinishedBundleValidates
  <1> SUFFICES ASSUME TransportInv, NEW e \in Exporters, exports[e].kind = "bundle", exports[e].pc = "done", ~damaged,
                      \A f \in Exporters \ {e} : exports[f].kind = None, \A p \in DOMAIN source : source[p] = Good
               PROVE  validate_bundle(directory.index, directory.files)
    BY Zenon DEF FinishedBundleValidates
  <1>0. ExportersAreSound /\ DirectoryIsSound
    BY Zenon DEF TransportInv
  <1>1. Alone(e) /\ AllGood(source)
    BY Zenon DEF Alone, AllGood
  <1>2. PICK payload, b, files : payload = exports[e].payload /\ b = payload.bundle /\ files = directory.files
    BY Zenon
  <1>3. GoodFiles(files, DOMAIN b.files) /\ directory.index = b
    BY <1>0, <1>1, <1>2, Zenon DEF DirectoryIsSound, DirectoryOf
  <1>4. IsPayload(payload) /\ payload \in Signed
    <2>1. exports[e].kind # None
      BY Zenon, TransportAssumption DEF Kinds
    <2> QED
      BY Zenon, <1>0, <1>2, <2>1, ExporterSigned
  <1>5. AllGood(b.files)
    BY Zenon, <1>0, <1>1, <1>2, <1>4 DEF DirectoryIsSound, SignedFrom
  <1>6. IsBundle(b)
    BY Zenon, <1>2, <1>4 DEF IsPayload
  <1>7. b.publisher = Signer /\ b.skills \subseteq Skills
    BY Zenon, <1>6 DEF IsBundle, Bundles
  <1>8. validate_bundle_skill_entries(b, files)
    <2>1. SUFFICES ASSUME NEW s \in b.skills
                   PROVE  /\ Holds(files, <<s, "manifest">>, {Good, Altered}) /\ Publisher[s] = b.publisher
                          /\ Holds(files, <<s, "artifact">>, {Good})
                          /\ FilesOf(s) \subseteq DOMAIN files
      BY Zenon DEF validate_bundle_skill_entries
    <2>2. FilesOf(s) \subseteq DOMAIN files /\ Publisher[s] = b.publisher
      BY Zenon, <1>3, <1>6, <1>7 DEF IsBundle, GoodFiles
    <2>3. <<s, "manifest">> \in FilesOf(s) /\ <<s, "artifact">> \in FilesOf(s)
      BY Zenon, <1>7, SkillFiles
    <2> QED
      BY Zenon, <1>3, <2>2, <2>3 DEF Holds, GoodFiles, AllGood
  <1>9. validate_bundle_root_and_dependency_closure(b)
    BY Zenon, <1>6 DEF validate_bundle_root_and_dependency_closure, IsBundle
  <1>10. validate_listed_bundle_files(b, files)
    BY Zenon, <1>3, <1>5 DEF validate_listed_bundle_files, Holds, GoodFiles, AllGood
  <1>11. collect_actual_bundle_files(b, files) = DOMAIN b.files /\ \A p \in DOMAIN b.files : p[2] # Verification
    BY Zenon, <1>3, <1>6 DEF collect_actual_bundle_files, GoodFiles, IsBundle
  <1> QED
    BY <1>2, <1>3, <1>8, <1>9, <1>10, <1>11, Zenon DEF validate_bundle

\* A tag names an index, except between the two manifests of a push.
LEMMA TagsWork ==
    TransportInv => TagKeepsWorking
  <1> SUFFICES ASSUME TransportInv, registry.tag # None, registry.tag.kind # "index"
               PROVE  \E e \in Exporters :
                        /\ exports[e].kind = "push" /\ exports[e].pc \in {"write", "failed", "dead"}
                        /\ exports[e].todo # <<>> /\ Head(exports[e].todo).to = "tag"
                        /\ NextThing(exports[e].todo).kind = "index"
    BY Zenon DEF TagKeepsWorking
  <1>1. PICK p \in Signed : registry.tag \in {ManifestBlob(Manifest(p)), IndexBlob(Manifest(p))}
    BY Zenon DEF TransportInv, RegistryIsSound, RegistryIsMixed
  <1>2. registry.tag.kind = "manifest"
    BY <1>1 DEF ManifestBlob, IndexBlob
  <1>3. PICK e \in Exporters : BetweenManifests(exports[e])
    BY <1>2, Zenon DEF TransportInv, RegistryIsSound, TagIsBetween
  <1>4. PICK todo, m : todo = exports[e].todo /\ m = Manifest(exports[e].payload)
    BY Zenon
  <1>5. /\ exports[e].kind = "push" /\ exports[e].pc \in {"write", "failed", "dead"}
        /\ todo = <<Write("tag", IndexBlob(m)), Write("verify", m)>>
    BY <1>3, <1>4, Zenon DEF BetweenManifests
  <1>6. TakesWrite(todo, "tag", IndexBlob(m), <<Write("verify", m)>>)
    BY <1>5, WriteOf2, Zenon
  <1>7. todo # <<>>
    BY Zenon, <1>5
  <1>8. Head(todo).to = "tag" /\ NextThing(todo).kind = "index"
    BY <1>6 DEF TakesWrite, IndexBlob
  <1> QED
    BY Zenon, <1>4, <1>5, <1>7, <1>8

\* ExportsAreWhole holds of every behaviour: a finished layout decodes to what somebody
\* signed, a finished bundle directory validates, and the tag of a registry is never left
\* between two manifests by a push that went on.
THEOREM ExportsStayWhole == Spec => []ExportsAreWhole
  <1>1. TransportInv => ExportsAreWhole
    BY LayoutsDecode, BundlesValidate, TagsWork, Zenon DEF ExportsAreWhole
  <1> QED
    BY <1>1, TransportIsSound, PTL

\* PushedIsPullable holds of every behaviour: a push that reports success, whoever else
\* pushed to the same tag meanwhile, leaves a tag whose manifest, config, signature and
\* files the registry holds, and it is what was pushed.
THEOREM PushesArePullable == Spec => PushedIsPullable
  <1> DEFINE Pulls(e) ==
        exports[e].kind = "push" /\ exports[e].pc # "done" /\ exports'[e].pc = "done" =>
            /\ registry'.tag # None /\ registry'.tag.kind = "index"
            /\ registry'.tag.of.config = exports[e].payload.bundle
            /\ Blobs(registry'.tag.of) \cup {[kind |-> "manifest", of |-> registry'.tag.of]} \subseteq registry'.blobs
  <1>1. TransportInv /\ [Next]_vars => [\A e \in Exporters : Pulls(e)]_vars
    <2> SUFFICES ASSUME TransportInv, [Next]_vars, NEW e \in Exporters,
                        exports[e].kind = "push", exports[e].pc # "done", exports'[e].pc = "done"
                 PROVE  /\ registry'.tag # None /\ registry'.tag.kind = "index"
                        /\ registry'.tag.of.config = exports[e].payload.bundle
                        /\ Blobs(registry'.tag.of) \cup {[kind |-> "manifest", of |-> registry'.tag.of]} \subseteq registry'.blobs
      BY Zenon
    <2>0. ExportersAreSound /\ RegistryIsSound /\ DOMAIN exports = Exporters /\ exports'[e] # exports[e]
      BY Zenon DEF TransportInv, ExportersAreSound
    <2>1. ExportStep(e)
      <3>1. ASSUME NEW f \in Exporters, NEW pc, NEW todo, Reaches(f, pc, todo)
            PROVE  f = e /\ pc = "done"
        BY Zenon, <2>0, <3>1 DEF Reaches
      <3>2. ASSUME NEW f \in Exporters, NEW kind, NEW root, NEW deps, StartExport(f, kind, root, deps) PROVE FALSE
        <4>1. PICK payload : payload = build_signed_bundle_payload(root, deps)
          BY Zenon
        <4>2. IF payload = None THEN Fails(f)
              ELSE exports' = [exports EXCEPT ![f] = [pc |-> "prepare", kind |-> kind, payload |-> payload, todo |-> <<>>]]
          BY <3>2, <4>1, Zenon DEF StartExport
        <4>3. ~Fails(f)
          <5>1. ASSUME Reaches(f, "failed", exports[f].todo) PROVE FALSE
            BY Zenon, <2>0, <5>1 DEF Reaches
          <5> QED
            BY Zenon, <5>1 DEF Fails
        <4>4. PICK x : x = [pc |-> "prepare", kind |-> kind, payload |-> payload, todo |-> <<>>]
          BY Zenon
        <4>5. exports' = [exports EXCEPT ![f] = x] /\ x.pc = "prepare"
          BY Zenon, <4>2, <4>3, <4>4
        <4> QED
          BY Zenon, <2>0, <4>5
      <3>3. ASSUME NEW f \in Exporters, ExportStep(f) PROVE f = e
        <4>1. \E pc, todo : Reaches(f, pc, todo)
          BY <3>3, Zenon DEF ExportStep, Advances
        <4> QED
          BY <3>1, <4>1, Zenon
      <3>4. ASSUME NEW f \in Exporters, prepare_bundle_root(f) \/ prepare_oci_layout_root(f) \/ prepare_push(f) PROVE FALSE
        <4>1. \E todo : Reaches(f, "failed", todo) \/ Reaches(f, "write", todo)
          BY <3>4, Zenon DEF prepare_bundle_root, prepare_oci_layout_root, prepare_push, Fails
        <4>2. PICK todo : Reaches(f, "failed", todo) \/ Reaches(f, "write", todo)
          BY Zenon, <4>1
        <4>3. \E pc \in {"failed", "write"} : Reaches(f, pc, todo)
          BY Zenon, <4>2
        <4> QED
          BY Zenon, <3>1, <4>3
      <3>5. ASSUME NEW f \in Exporters, PushFails(f) \/ Dies(f) PROVE FALSE
        <4>1. \E todo : Reaches(f, "failed", todo) \/ Reaches(f, "dead", todo)
          BY <3>5, Zenon DEF PushFails, Dies, Fails
        <4>2. PICK todo : Reaches(f, "failed", todo) \/ Reaches(f, "dead", todo)
          BY Zenon, <4>1
        <4>3. \E pc \in {"failed", "dead"} : Reaches(f, pc, todo)
          BY Zenon, <4>2
        <4> QED
          BY Zenon, <3>1, <4>3
      <3>6. CASE UNCHANGED exports
        BY Zenon, <2>0, <3>6
      <3> QED
        BY Zenon, <3>2, <3>3, <3>4, <3>5, <3>6
           DEF Next, vars, SourceChanges, CarrierDamaged, RegistryCollects, PullIndex, ImportBundle, ImportLayout, PullBlobs
    <2>2. PICK todo, m, to, what : /\ todo = exports[e].todo /\ m = Manifest(exports[e].payload)
                                   /\ to = Head(todo).to /\ what = NextThing(todo)
      BY Zenon
    <2>3. exports[e].pc = "write" /\ Advances(e) /\ Verified(to, what) /\ WriteRegistry(to, what)
      <3>1. exports[e].kind # "bundle" /\ exports[e].kind # "layout"
        BY Zenon
      <3> QED
        BY <2>1, <2>2, <3>1, Zenon DEF ExportStep
    <2>4. PushTodo(todo, m, registry.blobs)
      BY Zenon, <2>0, <2>2, <2>3 DEF RegistryIsSound, Pusher
    <2>5. PICK all : all = registry.blobs \cup {what}
      BY Zenon
    <2>6. registry.blobs \subseteq all /\ NextThing(todo) \in all
      BY Zenon, <2>2, <2>5
    <2>7. PushWrites(todo, m, registry.blobs, all)
      BY <2>4, <2>6, PushAdvances, Zenon
    <2>8. Rest(todo) = <<>>
      <3>1. PICK rest : rest = Rest(todo)
        BY Zenon
      <3>2. Reaches(e, IF rest = <<>> THEN "done" ELSE "write", rest)
        BY <2>2, <2>3, <3>1, Zenon DEF Advances
      <3>3. exports'[e].pc = IF rest = <<>> THEN "done" ELSE "write"
        BY Zenon, <2>0, <3>2 DEF Reaches
      <3> QED
        BY Zenon, <3>1, <3>3
    <2>9. to = "verify" /\ what = m /\ Blobs(m) \cup {ManifestBlob(m)} \subseteq registry.blobs
      BY <2>2, <2>7, <2>8, Zenon DEF PushWrites
    <2>10. registry' = registry
      BY Zenon, <2>3, <2>9 DEF WriteRegistry
    <2>11. registry.tag = IndexBlob(m)
      BY <2>3, <2>9, Zenon DEF Verified, IndexBlob
    <2>12. IsPayload(exports[e].payload)
      <3>1. exports[e].kind # None
        BY Zenon, TransportAssumption DEF Kinds
      <3> QED
        BY Zenon, <2>0, <3>1, ExporterSigned
    <2>13. IndexBlob(m) # None
      BY <2>2, <2>12, PayloadTypes, Zenon
    <2>14. IndexBlob(m).kind = "index" /\ IndexBlob(m).of = m /\ m.config = exports[e].payload.bundle
      BY Zenon, <2>2 DEF IndexBlob, Manifest
    <2> QED
      BY <2>9, <2>10, <2>11, <2>13, <2>14, Zenon DEF ManifestBlob
  <1> QED
    BY <1>1, TransportIsSound, PTL DEF Spec, PushedIsPullable

=============================================================================
