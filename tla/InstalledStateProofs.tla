-------------------------- MODULE InstalledStateProofs ----------------------
(***************************************************************************)
(* For any number of installers, importers and administrators at work on   *)
(* one root, and whenever they die:                                        *)
(*   - installed state is a create-only store of manifests: InstalledState *)
(*     implements RecordStore;                                             *)
(*   - a source install stands on whole dependencies;                      *)
(*   - imports that have the root to themselves leave honest sidecars and  *)
(*     unambiguous versions behind.                                        *)
(***************************************************************************)
EXTENDS InstalledState, FiniteSetTheorems, TLAPS

InInstall == {"staged", "move", "load"}
AtSkill == {"copy", "rename", "open_sidecar", "write_sidecar"}
Job == Source \cup Bundle \cup Publisher \cup {None}

Shared ==
    /\ dir \in [Ref -> {Absent} \cup SkillDir]
    /\ staging \in [Ref -> {Absent} \cup SkillDir]
    /\ oci \in [Origin \ {"directory"} -> {Absent, Partial} \cup Bundle]

Private ==
    /\ pc = [p \in Process |-> pc[p]]
    /\ job \in [Process -> Job]
    /\ manifest \in [Process -> Manifest]
    /\ origin \in [Process -> Origin]
    /\ position \in [Process -> Nat]
    /\ copied \in [Process -> SUBSET Files]

\* A process works on what its operation took up, and the directory beside which an
\* importer writes its sidecar is there.
AtWork(p) ==
    /\ p \in Installer /\ pc[p] # "idle" => pc[p] \in InInstall /\ job[p] \in Source
    /\ p \in Importer /\ pc[p] # "idle" =>
        /\ job[p] \in Bundle
        /\ pc[p] = "next" => position[p] <= Len(job[p].skills)
        /\ pc[p] \in AtSkill => position[p] \in 1 .. Len(job[p].skills)
        /\ pc[p] \in {"open_sidecar", "write_sidecar"} => dir[Current(p).ref] # Absent

IInv == Shared /\ Private /\ \A p \in Process : AtWork(p)

Stored == [r \in Ref |-> IF Whole(r) THEN dir[r].manifest ELSE None]

\* What a step may do to the installed directories: nothing, create one, or change
\* no more than the sidecar of one.
DirStep ==
    \/ UNCHANGED dir
    \/ \E r \in Ref : \E d \in SkillDir :
        /\ dir' = [dir EXCEPT ![r] = d]
        /\ dir[r] # Absent => d.manifest = dir[r].manifest /\ d.artifact = dir[r].artifact

\* What it may tell: nothing, or a directory that is whole and that it does not create.
LoadStep ==
    \/ UNCHANGED loaded
    \/ /\ \E r \in Ref : Whole(r) /\ loaded' = loaded \cup {<<r, dir[r].manifest>>}
       /\ \A r \in Ref : dir[r] = Absent => dir'[r] = Absent

-----------------------------------------------------------------------------
\* An element of a sequence is a member of what it is a sequence over.
LEMMA Element ==
    ASSUME NEW S, NEW s \in Seq(S), NEW i \in 1 .. Len(s)
    PROVE s[i] \in S
  OBVIOUS

\* The values that a process's variables have while it is idle.
LEMMA IdleValues ==
    {} \in Manifest /\ None \in Job /\ "directory" \in Origin /\ {} \in SUBSET Files
  BY Zenon DEF Manifest, Job, Origin

\* A skill of a bundle has a reference and a manifest.
LEMMA BundledSkill ==
    ASSUME NEW b \in Bundle, NEW i \in 1 .. Len(b.skills)
    PROVE /\ b.skills[i].ref \in Ref
          /\ b.skills[i].manifest \in Manifest
          /\ Len(b.skills) \in Nat
          /\ DOMAIN b.skills = 1 .. Len(b.skills)
  <1>1. b.skills \in Seq([ref: Ref, manifest: Manifest])
    BY Zenon, Shapes
  <1>2. b.skills[i] \in [ref: Ref, manifest: Manifest]
    BY Zenon, <1>1, Element
  <1> QED BY <1>1, <1>2

\* An importer at a skill has a reference to install.
LEMMA CurrentRef ==
    ASSUME IInv, NEW p \in Importer, pc[p] \in AtSkill
    PROVE Current(p).ref \in Ref
  BY Zenon, BundledSkill DEF IInv, AtWork, Current, AtSkill, Process

\* The manifest that a bundle gives to a reference is a manifest.
LEMMA PinsType ==
    ASSUME NEW b \in Bundle, NEW r \in Ref
    PROVE Pins(b, r) \in Manifest
  <1>1. b.skills \in Seq([ref: Ref, manifest: Manifest])
    BY Zenon, Shapes
  <1>2. DOMAIN b.skills = 1 .. Len(b.skills)
    BY <1>1
  <1>3. \A i \in DOMAIN b.skills : b.skills[i].manifest \in SUBSET Ref
    BY Zenon, <1>2, BundledSkill DEF Manifest
  <1> QED BY Zenon, <1>3 DEF Pins, Manifest

\* A requirement that resolves does so to a reference.
LEMMA ResolveType ==
    ASSUME NEW req, Resolves(req)
    PROVE resolve(req) \in Ref
  <1>1. Newest(Candidates(req)) # {}
    BY FS_EmptySet DEF Resolves
  <1> QED BY Zenon, <1>1 DEF resolve, Newest, Candidates, Installed

\* A skill directory is there, and its parts are typed.
LEMMA NewDir ==
    ASSUME NEW d \in SkillDir
    PROVE d # Absent /\ d.manifest \in {Absent} \cup Manifest /\ d.artifact \in BOOLEAN
          /\ d.sidecar \in {Absent, Partial} \cup Bundle
  BY Zenon, AbsentDir DEF SkillDir

-----------------------------------------------------------------------------
(* The invariant is inductive *)

\* The inductive invariant holds at first.
LEMMA InitIInv == Init => IInv
  <1> SUFFICES ASSUME Init PROVE IInv
    BY Zenon
  <1>1. Shared
    BY Zenon DEF Init, Shared
  <1>2. Private
    BY Zenon, IdleValues DEF Init, Private
  <1>3. \A p \in Process : AtWork(p)
    BY Zenon DEF Init, AtWork
  <1> QED BY Zenon, <1>1, <1>2, <1>3 DEF IInv

\* A step of p is a step of the invariant when p itself is at work as it should, the
\* other processes stay where they are, and no installed directory goes.
LEMMA StepOf ==
    ASSUME IInv, NEW p \in Process, Shared', Private', AtWork(p)',
           \A q \in Process \ {p} :
               pc'[q] = pc[q] /\ job'[q] = job[q] /\ position'[q] = position[q],
           \A r \in Ref : dir[r] # Absent => dir'[r] # Absent
    PROVE IInv'
  <1> SUFFICES ASSUME NEW q \in Process \ {p}
               PROVE AtWork(q)'
    BY Zenon DEF IInv
  <1>1. q \in Importer /\ pc[q] \in {"open_sidecar", "write_sidecar"} =>
            Current(q)' = Current(q) /\ Current(q).ref \in Ref
    BY Zenon, CurrentRef DEF Current, AtSkill
  <1> QED BY Zenon, <1>1 DEF IInv, AtWork

\* A process returns and leaves installed state alone.
LEMMA Returning ==
    ASSUME IInv, NEW p \in Process, Return(p, pc[p]), Shared', UNCHANGED dir
    PROVE IInv'
  <1>1. Private'
    BY Zenon, IdleValues DEF IInv, Private, Return, Goto, Forget
  <1>2. pc'[p] = "idle"
    BY Zenon DEF IInv, Private, Return, Goto
  <1>3. \A q \in Process \ {p} :
            pc'[q] = pc[q] /\ job'[q] = job[q] /\ position'[q] = position[q]
    BY Zenon DEF IInv, Private, Return, Goto, Forget
  <1>4. AtWork(p)'
    BY Zenon, <1>2 DEF AtWork
  <1> QED BY Zenon, <1>1, <1>3, <1>4, StepOf

\* The steps of a source install keep the invariant and respect the directories.
LEMMA Installs ==
    ASSUME IInv, NEW p \in Installer, install(p) \/ InstallStep(p)
    PROVE IInv' /\ DirStep /\ LoadStep
  <1>0. p \in Process /\ p \notin Importer
    BY Zenon, Roles DEF Process
  <1>1. CASE install(p)
    <2>1. PICK s \in Source : /\ \A req \in s.requires : Resolves(req)
                              /\ job' = [job EXCEPT ![p] = s]
                              /\ manifest' = [manifest EXCEPT ![p] = resolve_source_dependencies(s)]
      BY Zenon, <1>1 DEF install
    <2>2. resolve_source_dependencies(s) \in Manifest /\ s \in Job
      BY Zenon, <2>1, ResolveType DEF resolve_source_dependencies, Manifest, Job
    <2>3. Private' /\ Shared'
      BY Zenon, <1>0, <1>1, <2>1, <2>2 DEF install, Goto, IInv, Private, Shared
    <2>4. AtWork(p)'
      BY Zenon, <1>0, <1>1, <2>1 DEF install, Goto, IInv, Private, AtWork, InInstall
    <2>5. IInv'
      BY Zenon, <1>0, <1>1, <2>1, <2>3, <2>4, StepOf DEF install, Goto, IInv, Private
    <2> QED BY Zenon, <1>1, <2>5 DEF install, DirStep, LoadStep
  <1>2. CASE InstallStep(p)
    <2>1. PICK r \in Ref : r = job[p].ref
      BY Zenon, <1>0, <1>2, Shapes
      DEF InstallStep, reusable_existing_install, move_staged_install, LoadInstalled, IInv, AtWork
    <2>2. CASE Return(p, pc[p]) /\ UNCHANGED <<dir, staging, oci>> /\ LoadStep
      <3>1. Shared'
        BY Zenon, <2>2 DEF IInv, Shared
      <3> QED BY Zenon, <1>0, <2>2, <3>1, Returning DEF DirStep
    <2>3. CASE reusable_existing_install(p)
      <3>1. CASE dir[r] = Absent
        <4>1. Private' /\ Shared' /\ AtWork(p)'
          BY Zenon, <1>0, <2>1, <2>3, <3>1
          DEF reusable_existing_install, Goto, local, IInv, Private, Shared, AtWork, InInstall
        <4>2. IInv'
          BY Zenon, <1>0, <2>1, <2>3, <3>1, <4>1, StepOf
          DEF reusable_existing_install, Goto, local, IInv, Private
        <4> QED BY Zenon, <2>1, <2>3, <3>1, <4>2
                DEF reusable_existing_install, local, DirStep, LoadStep
      <3>2. CASE dir[r] # Absent
        <4>1. Return(p, pc[p]) /\ UNCHANGED <<dir, staging, oci>>
          BY Zenon, <2>1, <2>3, <3>2 DEF reusable_existing_install
        <4>2. LoadStep
          BY Zenon, <2>1, <2>3, <3>2 DEF reusable_existing_install, LoadStep
        <4> QED BY Zenon, <2>2, <4>1, <4>2
      <3> QED BY Zenon, <3>1, <3>2
    <2>4. CASE move_staged_install(p)
      <3>1. CASE dir[r] = Absent
        <4>1. StagedInstall(p) \in SkillDir
          BY Zenon, <1>0 DEF StagedInstall, SkillDir, IInv, Private
        <4>2. dir' = [dir EXCEPT ![r] = StagedInstall(p)]
          BY Zenon, <2>1, <2>4, <3>1 DEF move_staged_install
        <4>3. Shared'
          BY Zenon, <2>4, <4>1, <4>2 DEF move_staged_install, IInv, Shared
        <4>4. Private' /\ AtWork(p)'
          BY Zenon, <1>0, <2>1, <2>4, <3>1
          DEF move_staged_install, Goto, local, IInv, Private, AtWork, InInstall
        <4>5. \A x \in Ref : dir[x] # Absent => dir'[x] # Absent
          BY Zenon, <3>1, <4>2 DEF IInv, Shared
        <4>6. IInv'
          BY Zenon, <1>0, <2>1, <2>4, <3>1, <4>3, <4>4, <4>5, StepOf
          DEF move_staged_install, Goto, local, IInv, Private
        <4>7. LoadStep
          BY Zenon, <2>4 DEF move_staged_install, LoadStep
        <4> QED BY Zenon, <3>1, <4>1, <4>2, <4>6, <4>7 DEF DirStep
      <3>2. CASE dir[r] # Absent
        BY Zenon, <2>1, <2>2, <2>4, <3>2 DEF move_staged_install, LoadStep
      <3> QED BY <3>1, <3>2
    <2>5. CASE LoadInstalled(p)
      <3>1. Return(p, pc[p]) /\ UNCHANGED <<dir, staging, oci>>
        BY Zenon, <2>5 DEF LoadInstalled
      <3>2. LoadStep
        BY Zenon, <2>1, <2>5 DEF LoadInstalled, load_manifest, LoadStep
      <3> QED BY <2>2, <3>1, <3>2
    <2> QED BY Zenon, <1>2, <2>3, <2>4, <2>5 DEF InstallStep
  <1> QED BY Zenon, <1>1, <1>2

\* The directory that CopyFile leaves in the staging area.
LEMMA CopyType ==
    ASSUME NEW d \in SkillDir, NEW dependencies \in Manifest
    PROVE /\ [d EXCEPT !.manifest = dependencies] \in SkillDir
          /\ [d EXCEPT !.artifact = TRUE] \in SkillDir
  BY Zenon DEF SkillDir

\* Writing a sidecar leaves a skill directory with the same manifest and artifact.
LEMMA SidecarType ==
    ASSUME NEW d \in SkillDir, NEW record \in {Absent, Partial} \cup Bundle
    PROVE LET e == [d EXCEPT !.sidecar = record]
          IN /\ e \in SkillDir /\ e # Absent
             /\ e.manifest = d.manifest /\ e.artifact = d.artifact
  <1> DEFINE e == [d EXCEPT !.sidecar = record]
  <1>1. e \in SkillDir /\ e.manifest = d.manifest /\ e.artifact = d.artifact
    BY Zenon DEF SkillDir
  <1> QED BY Zenon, <1>1, AbsentDir

\* The steps of an import that leave installed state alone.
LEMMA ImportsAside ==
    ASSUME IInv, NEW p \in Importer,
           \/ Begin(p) \/ RebuildBundle(p) \/ VerifyBundle(p) \/ ValidateBundle(p)
           \/ ValidateTargets(p) \/ reset_import_staging_root(p) \/ NextSkill(p) \/ CopyFile(p)
           \/ ProbeTarget(p) \/ cleanup_import_staging_root(p) \/ DiscardBundle(p)
    PROVE IInv' /\ UNCHANGED <<dir, loaded>>
  <1>0. p \in Process /\ p \notin Installer
    BY Zenon, Roles DEF Process
  <1> USE <1>0 DEF IInv, Goto, local
  <1>1. CASE Begin(p)
    <2>1. PICK b \in Bundle : job' = [job EXCEPT ![p] = b]
      BY Zenon, <1>1 DEF Begin
    <2>2. PICK o \in Origins : /\ pc' = [pc EXCEPT ![p] = IF o = "directory" THEN "verify" ELSE "rebuild"]
                               /\ origin' = [origin EXCEPT ![p] = o]
      BY Zenon, <1>1 DEF Begin
    <2>3. b \in Job /\ o \in Origin
      BY Zenon, Shapes DEF Job
    <2>4. Private' /\ Shared'
      BY Zenon, <1>1, <2>1, <2>2, <2>3 DEF Begin, Private, Shared
    <2>5. AtWork(p)'
      BY Zenon, <1>1, <2>1, <2>2 DEF Begin, Private, AtWork, AtSkill
    <2> QED BY Zenon, <1>1, <2>1, <2>2, <2>4, <2>5, StepOf DEF Begin, Private
  <1>2. CASE RebuildBundle(p)
    <2>1. job[p] \in Bundle
      BY Zenon, <1>2 DEF RebuildBundle, AtWork
    <2>2. Private' /\ AtWork(p)'
      BY Zenon, <1>2, <2>1 DEF RebuildBundle, Private, AtWork, AtSkill
    <2>3. oci' \in [Origin \ {"directory"} -> {Absent, Partial} \cup Bundle]
      BY Zenon, <1>2, <2>1 DEF RebuildBundle, Shared
    <2>4. Shared'
      BY Zenon, <1>2, <2>3 DEF RebuildBundle, Shared
    <2> QED BY Zenon, <1>2, <2>2, <2>4, StepOf DEF RebuildBundle, Private
  <1>3. CASE VerifyBundle(p)
    <2>1. \A b \in Bundle : b \in Job
      BY Zenon DEF Job
    <2>2. Private' /\ AtWork(p)'
      BY Zenon, <1>3, <2>1 DEF VerifyBundle, Private, AtWork, AtSkill
    <2>3. Shared'
      BY Zenon, <1>3 DEF VerifyBundle, Shared
    <2> QED BY Zenon, <1>3, <2>2, <2>3, StepOf DEF VerifyBundle, Private
  <1>4. CASE ValidateBundle(p)
    <2>1. Private' /\ AtWork(p)' /\ Shared'
      BY Zenon, <1>4 DEF ValidateBundle, Private, AtWork, AtSkill, Shared
    <2> QED BY Zenon, <1>4, <2>1, StepOf DEF ValidateBundle, Private
  <1>5. CASE ValidateTargets(p)
    <2>1. Private' /\ AtWork(p)' /\ Shared'
      BY Zenon, <1>5 DEF ValidateTargets, Private, AtWork, AtSkill, Shared
    <2> QED BY Zenon, <1>5, <2>1, StepOf DEF ValidateTargets, Private
  <1>6. CASE reset_import_staging_root(p)
    <2>1. Shared' /\ Private'
      BY Zenon, <1>6 DEF reset_import_staging_root, Private, Shared
    <2>2. job[p] \in Bundle
      BY Zenon, <1>6 DEF reset_import_staging_root, AtWork
    <2>3. Len(job[p].skills) \in Nat
      BY <2>2, Shapes
    <2>4. AtWork(p)'
      BY <1>6, <2>2, <2>3 DEF reset_import_staging_root, Private, AtWork, AtSkill
    <2> QED BY Zenon, <1>6, <2>1, <2>4, StepOf DEF reset_import_staging_root, Private
  <1>7. CASE NextSkill(p)
    <2>1. job[p] \in Bundle /\ position[p] <= Len(job[p].skills) /\ position[p] \in Nat
      BY Zenon, <1>7 DEF NextSkill, AtWork, Private
    <2>2. Len(job[p].skills) \in Nat
      BY <2>1, Shapes
    <2>3. CASE position[p] = Len(job[p].skills)
      <3>1. Private' /\ AtWork(p)' /\ Shared'
        BY Zenon, <1>7, <2>3 DEF NextSkill, Private, AtWork, AtSkill, Shared
      <3> QED BY Zenon, <1>7, <2>3, <3>1, StepOf DEF NextSkill, Private
    <2>4. CASE position[p] # Len(job[p].skills)
      <3>1. position[p] + 1 \in 1 .. Len(job[p].skills)
        BY <2>1, <2>2, <2>4
      <3>2. PICK r \in Ref : r = job[p].skills[position[p] + 1].ref
        BY Zenon, <2>1, <3>1, BundledSkill
      <3>3. [manifest |-> Absent, artifact |-> FALSE, sidecar |-> Absent] \in SkillDir
        BY Zenon DEF SkillDir
      <3>4. staging' \in [Ref -> {Absent} \cup SkillDir]
        BY Zenon, <1>7, <2>4, <3>2, <3>3 DEF NextSkill, Shared
      <3>5. Shared'
        BY Zenon, <1>7, <3>4 DEF NextSkill, Shared
      <3>6. Private'
        <4>0. position' = [position EXCEPT ![p] = position[p] + 1]
          BY Zenon, <1>7, <2>4 DEF NextSkill
        <4>1. position' \in [Process -> Nat]
          <5>1. position[p] + 1 \in Nat
            BY <2>1
          <5> QED BY Zenon, <4>0, <5>1 DEF Private
        <4>2. copied' \in [Process -> SUBSET Files]
          BY Zenon, <1>7, <2>4, IdleValues DEF NextSkill, Private
        <4>3. pc' = [q \in Process |-> pc'[q]] /\ UNCHANGED <<job, manifest, origin>>
          BY Zenon, <1>7, <2>4 DEF NextSkill, Private, Goto
        <4> QED BY Zenon, <4>1, <4>2, <4>3 DEF Private
      <3>7. AtWork(p)'
        BY Zenon, <1>7, <2>1, <2>4, <3>1 DEF NextSkill, Private, AtWork
      <3> QED BY Zenon, <1>7, <2>4, <3>5, <3>6, <3>7, StepOf DEF NextSkill, Private
    <2> QED BY Zenon, <2>3, <2>4
  <1>8. CASE CopyFile(p)
    <2>1. PICK r \in Ref : r = Current(p).ref
      BY Zenon, <1>8, CurrentRef DEF CopyFile, AtSkill
    <2>2. staging' \in [Ref -> {Absent} \cup SkillDir]
      <3>1. CASE staging' = staging
        BY Zenon, <3>1 DEF Shared
      <3>2. CASE /\ staging[r] # Absent /\ AtHand(p) \in Bundle
                 /\ \E f \in Files : staging' = [staging EXCEPT ![r] =
                        IF f = "manifest" THEN [@ EXCEPT !.manifest = Pins(AtHand(p), r)]
                                          ELSE [@ EXCEPT !.artifact = TRUE]]
        <4>1. staging[r] \in SkillDir
          BY Zenon, <3>2 DEF Shared
        <4>2. Pins(AtHand(p), r) \in Manifest
          BY Zenon, <3>2, PinsType
        <4> QED BY <3>2, <4>1, <4>2, CopyType DEF Shared
      <3> QED BY Zenon, <1>8, <2>1, <3>1, <3>2 DEF CopyFile
    <2>3. Shared'
      BY Zenon, <1>8, <2>2 DEF CopyFile, Shared
    <2>4. copied' \in [Process -> SUBSET Files]
      BY <1>8 DEF CopyFile, Private
    <2>5. Private'
      BY Zenon, <1>8, <2>4 DEF CopyFile, Private
    <2>6. AtWork(p)'
      BY Zenon, <1>8 DEF CopyFile, Private, AtWork, AtSkill
    <2> QED BY Zenon, <1>8, <2>3, <2>5, <2>6, StepOf DEF CopyFile, Private
  <1>9. CASE ProbeTarget(p)
    <2>1. Private' /\ Shared'
      BY Zenon, <1>9 DEF ProbeTarget, Private, Shared
    <2>2. AtWork(p)'
      BY Zenon, <1>9 DEF ProbeTarget, Private, AtWork, AtSkill, Current
    <2> QED BY Zenon, <1>9, <2>1, <2>2, StepOf DEF ProbeTarget, Private
  <1>10. CASE cleanup_import_staging_root(p)
    <2>1. Private' /\ Shared' /\ AtWork(p)'
      BY Zenon, <1>10 DEF cleanup_import_staging_root, Private, Shared, AtWork, AtSkill
    <2> QED BY Zenon, <1>10, <2>1, StepOf DEF cleanup_import_staging_root, Private
  <1>11. CASE DiscardBundle(p)
    <2>1. oci' \in [Origin \ {"directory"} -> {Absent, Partial} \cup Bundle]
      BY Zenon, <1>11 DEF DiscardBundle, Shared
    <2>2. Shared'
      BY Zenon, <1>11, <2>1 DEF DiscardBundle, Shared
    <2>3. Return(p, pc[p])
      BY Zenon, <1>11 DEF DiscardBundle, Return
    <2> QED BY Zenon, <1>11, <2>2, <2>3, Returning DEF DiscardBundle
  <1> QED BY Zenon, <1>1, <1>2, <1>3, <1>4, <1>5, <1>6, <1>7, <1>8, <1>9, <1>10, <1>11

\* The steps of an import that write to installed state.
LEMMA ImportsWrite ==
    ASSUME IInv, NEW p \in Importer, RenameStaged(p) \/ OpenSidecar(p) \/ WriteSidecar(p)
    PROVE IInv' /\ DirStep /\ LoadStep
  <1>0. p \in Process /\ p \notin Installer
    BY Zenon, Roles DEF Process
  <1>1. PICK r \in Ref : r = Current(p).ref
    BY Zenon, CurrentRef DEF RenameStaged, OpenSidecar, WriteSidecar, AtSkill
  <1>2. pc[p] \in AtSkill
    BY Zenon DEF RenameStaged, OpenSidecar, WriteSidecar, AtSkill
  <1>3. job[p] \in Bundle /\ position[p] \in 1 .. Len(job[p].skills)
    BY Zenon, <1>0, <1>2 DEF IInv, AtWork, AtSkill
  <1>4. Private'
    BY Zenon, <1>0 DEF RenameStaged, OpenSidecar, WriteSidecar, Goto, local, IInv, Private
  <1>5. \A q \in Process \ {p} :
            pc'[q] = pc[q] /\ job'[q] = job[q] /\ position'[q] = position[q]
    BY Zenon, <1>0 DEF RenameStaged, OpenSidecar, WriteSidecar, Goto, local, IInv, Private
  <1>6. Current(p)' = Current(p) /\ job' = job /\ position' = position
    BY Zenon DEF RenameStaged, OpenSidecar, WriteSidecar, local, Current
  <1>7. SUFFICES /\ Shared' /\ DirStep /\ LoadStep
                 /\ \A x \in Ref : dir[x] # Absent => dir'[x] # Absent
                 /\ pc'[p] \in {"open_sidecar", "write_sidecar"} => dir'[r] # Absent
    <2>1. AtWork(p)'
      BY <1>0, <1>1, <1>3, <1>6, <1>7
      DEF RenameStaged, OpenSidecar, WriteSidecar, Goto, IInv, Private, AtWork, AtSkill
    <2> QED BY Zenon, <1>0, <1>4, <1>5, <1>7, <2>1, StepOf
  <1>8. CASE RenameStaged(p)
    <2>1. CASE staging[r] # Absent /\ dir[r] = Absent
      <3>1. /\ dir' = [dir EXCEPT ![r] = staging[r]]
            /\ staging' = [staging EXCEPT ![r] = Absent]
            /\ UNCHANGED <<oci, loaded>>
        BY Zenon, <1>1, <1>8, <2>1 DEF RenameStaged
      <3>2. staging[r] \in SkillDir
        BY Zenon, <2>1 DEF IInv, Shared
      <3>3. Shared'
        BY Zenon, <3>1, <3>2 DEF IInv, Shared
      <3>4. \A x \in Ref : dir[x] # Absent => dir'[x] # Absent
        BY Zenon, <2>1, <3>1 DEF IInv, Shared
      <3>5. dir'[r] # Absent
        BY Zenon, <2>1, <3>1 DEF IInv, Shared
      <3> QED BY Zenon, <2>1, <3>1, <3>2, <3>3, <3>4, <3>5 DEF DirStep, LoadStep
    <2>2. CASE ~(staging[r] # Absent /\ dir[r] = Absent)
      <3>1. UNCHANGED <<dir, staging, oci, loaded>> /\ pc'[p] = "cleanup"
        BY Zenon, <1>0, <1>1, <1>8, <2>2 DEF RenameStaged, Goto, IInv, Private
      <3> QED BY Zenon, <3>1 DEF IInv, Shared, DirStep, LoadStep
    <2> QED BY Zenon, <2>1, <2>2
  <1>9. ASSUME NEW record \in {Partial} \cup Bundle, dir[r] # Absent,
               dir' = [dir EXCEPT ![r].sidecar = record], UNCHANGED <<staging, oci>>
        PROVE /\ Shared' /\ DirStep
              /\ \A x \in Ref : dir[x] = Absent <=> dir'[x] = Absent
    <2> DEFINE d == [dir[r] EXCEPT !.sidecar = record]
    <2>1. dir[r] \in SkillDir
      BY Zenon, <1>9 DEF IInv, Shared
    <2>2. d \in SkillDir /\ d # Absent /\ d.manifest = dir[r].manifest /\ d.artifact = dir[r].artifact
      BY Zenon, <2>1, SidecarType
    <2>3. dir' = [dir EXCEPT ![r] = d]
      BY Zenon, <1>9
    <2> HIDE DEF d
    <2>4. \A x \in Ref : dir[x] = Absent <=> dir'[x] = Absent
      BY Zenon, <1>9, <2>2, <2>3 DEF IInv, Shared
    <2>5. Shared'
      BY Zenon, <1>9, <2>2, <2>3 DEF IInv, Shared
    <2> QED BY Zenon, <2>2, <2>3, <2>4, <2>5 DEF DirStep
  <1>10. CASE OpenSidecar(p)
    <2>1. dir[r] # Absent
      BY Zenon, <1>0, <1>1, <1>10 DEF OpenSidecar, IInv, AtWork
    <2>2. /\ dir' = [dir EXCEPT ![r].sidecar = Partial]
          /\ UNCHANGED <<staging, oci, loaded>>
      BY Zenon, <1>1, <1>10 DEF OpenSidecar
    <2> QED BY Zenon, <1>9, <2>1, <2>2 DEF LoadStep
  <1>11. CASE WriteSidecar(p)
    <2>1. dir[r] # Absent
      BY Zenon, <1>0, <1>1, <1>11 DEF WriteSidecar, IInv, AtWork
    <2>2. /\ dir' = [dir EXCEPT ![r].sidecar = job[p]]
          /\ UNCHANGED <<staging, oci>>
      BY Zenon, <1>1, <1>11 DEF WriteSidecar
    <2>3. /\ Shared' /\ DirStep
          /\ \A x \in Ref : dir[x] = Absent <=> dir'[x] = Absent
      BY Zenon, <1>3, <1>9, <2>1, <2>2
    <2>4. LoadStep
      BY Zenon, <1>1, <1>11, <2>3 DEF WriteSidecar, LoadStep
    <2> QED BY Zenon, <2>1, <2>3, <2>4
  <1> QED BY Zenon, <1>8, <1>10, <1>11

\* The steps of an administrator leave the directories alone.
LEMMA Trusts ==
    ASSUME IInv, NEW p \in Admin,
           trust_publisher(p) \/ WriteTrusted(p) \/ remove_trusted_publisher(p)
    PROVE IInv' /\ UNCHANGED <<dir, loaded>>
  <1>0. p \in Process /\ p \notin Installer /\ p \notin Importer
    BY Zenon, Roles DEF Process
  <1>1. Shared' /\ UNCHANGED <<dir, loaded>>
    BY Zenon DEF trust_publisher, WriteTrusted, remove_trusted_publisher, IInv, Shared
  <1>2. CASE trust_publisher(p)
    <2>1. \A publisher \in Publisher : publisher \in Job
      BY Zenon DEF Job
    <2>2. Private'
      BY Zenon, <1>0, <1>2, <2>1 DEF trust_publisher, Goto, IInv, Private
    <2>3. AtWork(p)'
      BY Zenon, <1>0 DEF AtWork
    <2> QED BY Zenon, <1>0, <1>1, <1>2, <2>2, <2>3, StepOf DEF trust_publisher, Goto, IInv, Private
  <1>3. CASE WriteTrusted(p)
    <2>1. Return(p, pc[p])
      BY Zenon, <1>3 DEF WriteTrusted, Return, Goto
    <2> QED BY Zenon, <1>0, <1>1, <2>1, Returning
  <1>4. CASE remove_trusted_publisher(p)
    <2>1. Private' /\ AtWork(p)'
      BY Zenon, <1>0, <1>4 DEF remove_trusted_publisher, local, IInv, Private, AtWork
    <2> QED BY Zenon, <1>0, <1>1, <1>4, <2>1, StepOf DEF remove_trusted_publisher, local
  <1> QED BY Zenon, <1>2, <1>3, <1>4

\* Every step keeps the invariant and respects the directories.
LEMMA NextStep ==
    ASSUME IInv, [Next]_vars
    PROVE IInv' /\ DirStep /\ LoadStep
  <1> USE DEF DirStep, LoadStep
  <1>1. CASE UNCHANGED vars
    <2>1. Shared' /\ Private' /\ \A p \in Process : AtWork(p)'
      BY Zenon, <1>1 DEF vars, local, IInv, Shared, Private, AtWork, Current
    <2> QED BY Zenon, <1>1, <2>1 DEF vars, IInv
  <1>2. CASE \E p \in Installer : install(p) \/ InstallStep(p)
    BY Zenon, <1>2, Installs
  <1>3. CASE \E p \in Importer : Begin(p) \/ ImportStep(p)
    BY Zenon, <1>3, ImportsAside, ImportsWrite DEF ImportStep
  <1>4. CASE \E p \in Admin : trust_publisher(p) \/ WriteTrusted(p) \/ remove_trusted_publisher(p)
    BY Zenon, <1>4, Trusts
  <1>5. CASE \E p \in Process : Crash(p)
    <2>1. Shared'
      BY Zenon, <1>5 DEF Crash, IInv, Shared
    <2> QED BY Zenon, <1>5, <2>1, Returning DEF Crash
  <1> QED BY Zenon, <1>1, <1>2, <1>3, <1>4, <1>5 DEF Next, Step

-----------------------------------------------------------------------------
(* Refinement *)

\* A step that respects the directories is a step of the record store, or none.
LEMMA CatalogStep == IInv /\ [Next]_vars => [Catalog!Next]_(Catalog!vars)
  <1> SUFFICES ASSUME IInv, [Next]_vars PROVE [Catalog!Next]_(Catalog!vars)
    BY Zenon
  <1>1. DirStep /\ LoadStep /\ Shared /\ Shared'
    BY Zenon, NextStep DEF IInv
  <1>2. \A r \in Ref : Whole(r) => Stored[r] = dir[r].manifest /\ Stored[r] # None
    <2> SUFFICES ASSUME NEW r \in Ref, Whole(r) PROVE dir[r].manifest # None
      BY Zenon DEF Stored
    <2>1. dir[r] \in SkillDir /\ dir[r].manifest # Absent
      BY Zenon, <1>1 DEF Shared, Whole, HasManifest
    <2>2. dir[r].manifest \in Manifest
      BY Zenon, <2>1, NewDir
    <2> QED BY Zenon, <2>2, FileStates
  <1>3. ASSUME Stored' = Stored PROVE [Catalog!Next]_(Catalog!vars)
    <2>1. CASE UNCHANGED loaded
      BY Zenon, <1>3, <2>1 DEF Catalog!vars, Stored
    <2>2. CASE \E r \in Ref : Whole(r) /\ loaded' = loaded \cup {<<r, dir[r].manifest>>}
      <3>1. PICK r \in Ref : Whole(r) /\ loaded' = loaded \cup {<<r, dir[r].manifest>>}
        BY Zenon, <2>2
      <3>2. Catalog!Tell(r)
        BY Zenon, <1>2, <1>3, <3>1 DEF Catalog!Tell, Stored
      <3> QED BY Zenon, <3>2 DEF Catalog!Next
    <2> QED BY Zenon, <1>1, <2>1, <2>2 DEF LoadStep
  <1>4. CASE UNCHANGED dir
    <2>1. Stored' = Stored
      BY Zenon, <1>4 DEF Stored, Whole, HasManifest
    <2> QED BY Zenon, <1>3, <2>1
  <1>5. CASE ~ UNCHANGED dir
    <2>1. PICK r \in Ref : \E d \in SkillDir :
            /\ dir' = [dir EXCEPT ![r] = d]
            /\ dir[r] # Absent => d.manifest = dir[r].manifest /\ d.artifact = dir[r].artifact
      BY Zenon, <1>1, <1>5 DEF DirStep
    <2>2. PICK d \in SkillDir :
            /\ dir' = [dir EXCEPT ![r] = d]
            /\ dir[r] # Absent => d.manifest = dir[r].manifest /\ d.artifact = dir[r].artifact
      BY Zenon, <2>1
    <2>3. dir'[r] = d /\ d # Absent /\ \A x \in Ref \ {r} : dir'[x] = dir[x]
      BY Zenon, <1>1, <2>2, NewDir DEF Shared
    <2>4. \A x \in Ref \ {r} : Stored'[x] = Stored[x]
      BY Zenon, <2>3 DEF Stored, Whole, HasManifest
    <2>5. CASE dir[r] # Absent
      <3>1. Stored'[r] = Stored[r]
        BY Zenon, <2>2, <2>3, <2>5 DEF Stored, Whole, HasManifest
      <3>2. Stored' = Stored
        BY Zenon, <2>4, <3>1 DEF Stored
      <3> QED BY Zenon, <1>3, <3>2
    <2>6. CASE dir[r] = Absent
      <3>1. UNCHANGED loaded
        BY Zenon, <1>1, <2>3, <2>6 DEF LoadStep
      <3>2. Stored[r] = None
        BY Zenon, <2>6 DEF Stored, Whole, HasManifest
      <3>3. Stored' = [Stored EXCEPT ![r] = Stored'[r]]
        BY Zenon, <2>4 DEF Stored
      <3>4. Catalog!Put(r)
        BY Zenon, <3>1, <3>2, <3>3 DEF Catalog!Put, Stored
      <3> QED BY Zenon, <3>4 DEF Catalog!Next
    <2> QED BY Zenon, <2>5, <2>6
  <1> QED BY Zenon, <1>4, <1>5

\* Installed state is a create-only store of manifests for any set of installers,
\* importers and administrators, any bundles and sources, and with crashes: a whole
\* directory is never replaced or taken apart by another process's install, by an
\* import or by the removal of a publisher, and what was returned stays.
THEOREM CatalogRefinement == Spec => InstalledIsImmutable
  <1>1. Init => Catalog!Init
    BY Zenon DEF Init, Catalog!Init, Whole, HasManifest
  <1>2. IInv /\ [Next]_vars => IInv'
    BY Zenon, NextStep
  <1> QED
    BY <1>1, <1>2, InitIInv, CatalogStep, PTL DEF Spec, InstalledIsImmutable, Catalog!Spec

-----------------------------------------------------------------------------
(* Types, and what source installs stand on *)

InImport == {"rebuild", "write_bundle", "verify", "validate", "targets", "reset", "next",
             "copy", "rename", "open_sidecar", "write_sidecar", "cleanup", "discard"}

\* What IInv leaves open of TypeOK, and the publisher that an administrator is at.
Typed ==
    /\ trust \in [Publisher -> {Absent, Partial} \cup PublicKey]
    /\ loaded \subseteq Ref \X Manifest
    /\ \A p \in Importer : pc[p] \in {"idle"} \cup InImport
    /\ \A p \in Admin : pc[p] = "idle" \/ (pc[p] = "write_trust" /\ job[p] \in Publisher)

\* A step of p leaves what the other processes have in hand alone.
LEMMA OnlyActor ==
    ASSUME IInv, NEW p \in Process,
           \/ p \in Installer /\ (install(p) \/ InstallStep(p))
           \/ p \in Importer /\ (Begin(p) \/ ImportStep(p))
           \/ p \in Admin /\ (trust_publisher(p) \/ WriteTrusted(p) \/ remove_trusted_publisher(p))
           \/ Crash(p),
           NEW q \in Process \ {p}
    PROVE pc'[q] = pc[q] /\ job'[q] = job[q] /\ manifest'[q] = manifest[q]
  <1>1. Private
    BY Zenon DEF IInv
  <1> USE <1>1 DEF Private, Goto, Return, Forget, local
  <1>2. CASE p \in Installer /\ (install(p) \/ InstallStep(p))
    BY Zenon, <1>2 DEF install, InstallStep, reusable_existing_install, move_staged_install, LoadInstalled
  <1>3. CASE Begin(p) \/ RebuildBundle(p) \/ VerifyBundle(p) \/ ValidateBundle(p) \/ ValidateTargets(p)
    BY Zenon, <1>3 DEF Begin, RebuildBundle, VerifyBundle, ValidateBundle, ValidateTargets
  <1>4. CASE reset_import_staging_root(p) \/ NextSkill(p) \/ CopyFile(p) \/ ProbeTarget(p)
    BY Zenon, <1>4 DEF reset_import_staging_root, NextSkill, CopyFile, ProbeTarget
  <1>5. CASE \/ RenameStaged(p) \/ OpenSidecar(p) \/ WriteSidecar(p)
             \/ cleanup_import_staging_root(p) \/ DiscardBundle(p)
    BY Zenon, <1>5 DEF RenameStaged, OpenSidecar, WriteSidecar, cleanup_import_staging_root, DiscardBundle
  <1>6. CASE trust_publisher(p) \/ WriteTrusted(p) \/ remove_trusted_publisher(p)
    BY Zenon, <1>6 DEF trust_publisher, WriteTrusted, remove_trusted_publisher
  <1>7. CASE Crash(p)
    BY Zenon, <1>7 DEF Crash
  <1> QED BY Zenon, <1>2, <1>3, <1>4, <1>5, <1>6, <1>7 DEF ImportStep

\* What is whole stays whole, with its manifest.
LEMMA WholeStays ==
    ASSUME Shared, DirStep, NEW r \in Ref, Whole(r)
    PROVE Whole(r)' /\ dir'[r].manifest = dir[r].manifest
  <1>1. CASE UNCHANGED dir
    BY Zenon, <1>1 DEF Whole, HasManifest
  <1>2. CASE ~ UNCHANGED dir
    <2>1. PICK x \in Ref, d \in SkillDir :
            /\ dir' = [dir EXCEPT ![x] = d]
            /\ dir[x] # Absent => d.manifest = dir[x].manifest /\ d.artifact = dir[x].artifact
      BY Zenon, <1>2 DEF DirStep
    <2>2. d # Absent
      BY Zenon, NewDir
    <2> QED BY Zenon, <2>1, <2>2 DEF Shared, Whole, HasManifest
  <1> QED BY Zenon, <1>1, <1>2

\* The dependencies that an install resolves are whole: the registry loaded.
LEMMA ResolvedIsWhole ==
    ASSUME load, NEW s \in Source, \A req \in s.requires : Resolves(req),
           NEW d \in resolve_source_dependencies(s)
    PROVE d \in Ref /\ Whole(d)
  <1>1. PICK req \in s.requires : d = resolve(req)
    BY Zenon DEF resolve_source_dependencies
  <1>2. Newest(Candidates(req)) # {}
    BY FS_EmptySet DEF Resolves
  <1>3. d \in Candidates(req)
    BY Zenon, <1>1, <1>2 DEF resolve, Newest
  <1> QED BY Zenon, <1>3 DEF Candidates, Installed, load, load_manifest

Stands(q) ==
    /\ \A d \in manifest[q] : Whole(d)
    /\ pc[q] = "load" => Whole(job[q].ref) /\ dir[job[q].ref].manifest = manifest[q]

\* An install keeps standing on what is installed.
LEMMA NextStands ==
    ASSUME IInv, InstallsStandOnInstalled, [Next]_vars
    PROVE InstallsStandOnInstalled'
  <1>0. Shared /\ Private /\ DirStep /\ IInv'
    BY Zenon, NextStep DEF IInv
  <1> SUFFICES ASSUME NEW q \in Installer
               PROVE Stands(q)'
    BY Zenon DEF InstallsStandOnInstalled, Stands
  <1>a. ASSUME NEW r \in Ref, Whole(r)
        PROVE Whole(r)' /\ dir'[r].manifest = dir[r].manifest
    BY Zenon, <1>0, <1>a, WholeStays
  <1>1. q \in Process /\ q \notin Importer /\ q \notin Admin
    BY Zenon, Roles DEF Process
  <1>2. CASE pc'[q] = pc[q] /\ job'[q] = job[q] /\ manifest'[q] = manifest[q]
    <2>1. \A d \in manifest[q] : d \in Ref /\ Whole(d)
      BY Zenon, <1>0, <1>1 DEF InstallsStandOnInstalled, Private, Manifest
    <2>2. pc[q] = "load" => /\ job[q].ref \in Ref /\ Whole(job[q].ref)
                            /\ dir[job[q].ref].manifest = manifest[q]
      BY Zenon, <1>1, Shapes DEF InstallsStandOnInstalled, IInv, AtWork
    <2> QED BY Zenon, <1>2, <1>a, <2>1, <2>2 DEF Stands
  <1>3. CASE Return(q, pc[q])
    BY Zenon, <1>0, <1>1, <1>3 DEF Return, Goto, Forget, Private, Stands
  <1>4. CASE install(q)
    <2>1. PICK s \in Source : /\ load /\ \A req \in s.requires : Resolves(req)
                              /\ manifest' = [manifest EXCEPT ![q] = resolve_source_dependencies(s)]
      BY Zenon, <1>4 DEF install
    <2>2. \A d \in manifest'[q] : d \in Ref /\ Whole(d)
      BY Zenon, <1>0, <1>1, <2>1, ResolvedIsWhole DEF Private
    <2>3. pc'[q] = "staged"
      BY Zenon, <1>0, <1>1, <1>4 DEF install, Goto, Private
    <2> QED BY Zenon, <1>a, <2>2, <2>3 DEF Stands
  <1>5. CASE InstallStep(q)
    <2>1. PICK r \in Ref : r = job[q].ref
      BY Zenon, <1>1, <1>5, Shapes
      DEF InstallStep, reusable_existing_install, move_staged_install, LoadInstalled, IInv, AtWork
    <2>2. \A d \in manifest[q] : d \in Ref /\ Whole(d)
      BY Zenon, <1>0, <1>1 DEF InstallsStandOnInstalled, Private, Manifest
    <2>3. CASE /\ pc'[q] # "load" /\ manifest'[q] = manifest[q]
      BY Zenon, <1>a, <2>2, <2>3 DEF Stands
    <2>4. CASE /\ pc'[q] = "load" /\ manifest'[q] = manifest[q] /\ job'[q] = job[q]
               /\ dir' = [dir EXCEPT ![r] = StagedInstall(q)]
      <3>1. manifest[q] \in Manifest /\ dir'[r] = StagedInstall(q)
        BY Zenon, <1>0, <1>1, <2>4 DEF Private, Shared
      <3>2. StagedInstall(q) \in SkillDir
        BY Zenon, <3>1 DEF StagedInstall, SkillDir
      <3>3. dir'[r] # Absent /\ dir'[r].manifest = manifest[q] /\ dir'[r].artifact
        <4>1. StagedInstall(q) # Absent
          BY Zenon, <3>2, NewDir
        <4> QED BY <3>1, <4>1 DEF StagedInstall
      <3>4. manifest[q] # Absent
        BY Zenon, <3>1, FileStates
      <3>5. Whole(r)'
        BY Zenon, <3>3, <3>4 DEF Whole, HasManifest
      <3> QED BY Zenon, <1>a, <2>1, <2>2, <2>4, <3>3, <3>5 DEF Stands
    <2>5. CASE reusable_existing_install(q)
      BY Zenon, <1>0, <1>1, <1>3, <2>1, <2>3, <2>5 DEF reusable_existing_install, Goto, local, Private
    <2>6. CASE move_staged_install(q)
      BY Zenon, <1>0, <1>1, <1>3, <2>1, <2>4, <2>6 DEF move_staged_install, Goto, local, Private
    <2>7. CASE LoadInstalled(q)
      BY Zenon, <1>3, <2>7 DEF LoadInstalled
    <2> QED BY Zenon, <1>5, <2>5, <2>6, <2>7 DEF InstallStep
  <1>6. CASE UNCHANGED vars
    BY Zenon, <1>2, <1>6 DEF vars, local
  <1>7. ASSUME NEW p \in Process, p # q,
               \/ p \in Installer /\ (install(p) \/ InstallStep(p))
               \/ p \in Importer /\ (Begin(p) \/ ImportStep(p))
               \/ p \in Admin /\ (trust_publisher(p) \/ WriteTrusted(p) \/ remove_trusted_publisher(p))
               \/ Crash(p)
        PROVE pc'[q] = pc[q] /\ job'[q] = job[q] /\ manifest'[q] = manifest[q]
    BY Zenon, <1>1, <1>7, OnlyActor
  <1>8. CASE \E p \in Process : Crash(p)
    BY Zenon, <1>2, <1>3, <1>7, <1>8 DEF Crash
  <1> QED BY Zenon, <1>1, <1>2, <1>4, <1>5, <1>6, <1>7, <1>8 DEF Next, Step, Process

\* A source install stands on whole dependencies from its resolution on, and leaves a
\* whole directory with the manifest that it resolved, for any number of installs,
\* imports and crashes at the same time.
THEOREM InstallsAlwaysStand == Spec => []InstallsStandOnInstalled
  <1>1. Init => InstallsStandOnInstalled
    BY Zenon DEF Init, InstallsStandOnInstalled, Process
  <1>2. IInv /\ [Next]_vars => IInv'
    BY NextStep
  <1>3. IInv /\ InstallsStandOnInstalled /\ [Next]_vars => InstallsStandOnInstalled'
    BY Zenon, NextStands
  <1> QED
    BY <1>1, <1>2, <1>3, InitIInv, PTL DEF Spec

\* A step keeps the trust store, what was returned and where processes are well formed.
LEMMA NextTyped ==
    ASSUME IInv, Typed, [Next]_vars
    PROVE Typed'
  <1>0. Shared /\ Private /\ LoadStep
    BY Zenon, NextStep DEF IInv
  <1>1. loaded' \subseteq Ref \X Manifest
    <2>1. \A r \in Ref : Whole(r) => dir[r].manifest \in Manifest
      BY Zenon, <1>0, NewDir DEF Whole, HasManifest, Shared
    <2> QED BY <1>0, <2>1 DEF LoadStep, Typed
  <1>2. ASSUME NEW p \in Process, NEW to, pc' = [pc EXCEPT ![p] = to],
               p \in Importer => to \in {"idle"} \cup InImport,
               p \in Admin => to = "idle" \/ (to = "write_trust" /\ job'[p] \in Publisher),
               \A q \in Process \ {p} : job'[q] = job[q],
               trust' \in [Publisher -> {Absent, Partial} \cup PublicKey]
        PROVE Typed'
    <2>1. \A q \in Process : pc'[q] = IF q = p THEN to ELSE pc[q]
      BY Zenon, <1>0, <1>2 DEF Private
    <2> QED BY Zenon, <1>1, <1>2, <2>1 DEF Typed, Process
  <1>3. CASE UNCHANGED vars
    BY Zenon, <1>3 DEF vars, local, Typed
  <1>4. ASSUME NEW p \in Process, Return(p, pc[p]),
               trust' \in [Publisher -> {Absent, Partial} \cup PublicKey]
        PROVE Typed'
    BY Zenon, <1>0, <1>2, <1>4 DEF Return, Goto, Forget, Private
  <1>5. trust \in [Publisher -> {Absent, Partial} \cup PublicKey]
    BY Zenon DEF Typed
  <1>6. ASSUME NEW p \in Installer, install(p) \/ InstallStep(p) PROVE Typed'
    <2>1. p \in Process /\ p \notin Importer /\ p \notin Admin
      BY Zenon, Roles DEF Process
    <2>2. \A q \in Process \ {p} : job'[q] = job[q]
      BY Zenon, <1>6, <2>1, OnlyActor
    <2>3. trust' = trust
      BY Zenon, <1>6 DEF install, InstallStep, reusable_existing_install, move_staged_install, LoadInstalled
    <2>4. \E to : pc' = [pc EXCEPT ![p] = to]
      BY Zenon, <1>6 DEF install, InstallStep, reusable_existing_install, move_staged_install, LoadInstalled,
                  Return, Goto
    <2> QED BY Zenon, <1>2, <1>5, <2>1, <2>2, <2>3, <2>4
  <1>7. ASSUME NEW p \in Importer, Begin(p) \/ ImportStep(p) PROVE Typed'
    <2>1. p \in Process /\ p \notin Admin
      BY Zenon, Roles DEF Process
    <2>2. \A q \in Process \ {p} : job'[q] = job[q]
      BY Zenon, <1>7, <2>1, OnlyActor
    <2>3. trust' = trust
      BY Zenon, <1>7 DEF Begin, ImportStep, RebuildBundle, VerifyBundle, ValidateBundle, ValidateTargets,
                  reset_import_staging_root, NextSkill, CopyFile, ProbeTarget, RenameStaged,
                  OpenSidecar, WriteSidecar, cleanup_import_staging_root, DiscardBundle
    <2>4. \E to \in {"idle"} \cup InImport : pc' = [pc EXCEPT ![p] = to]
      <3>1. CASE pc' = pc /\ pc[p] \in InImport
        <4>1. pc' = [pc EXCEPT ![p] = pc[p]]
          BY Zenon, <1>0, <2>1, <3>1 DEF Private
        <4> QED BY Zenon, <3>1, <4>1
      <3>2. CASE Begin(p) \/ RebuildBundle(p) \/ VerifyBundle(p) \/ ValidateBundle(p) \/ ValidateTargets(p)
        BY Zenon, <3>2 DEF Begin, RebuildBundle, VerifyBundle, ValidateBundle, ValidateTargets, Goto, InImport
      <3>3. CASE reset_import_staging_root(p) \/ NextSkill(p) \/ CopyFile(p) \/ ProbeTarget(p)
        BY Zenon, <3>1, <3>3 DEF reset_import_staging_root, NextSkill, CopyFile, ProbeTarget, Goto, InImport
      <3>4. CASE \/ RenameStaged(p) \/ OpenSidecar(p) \/ WriteSidecar(p)
                 \/ cleanup_import_staging_root(p) \/ DiscardBundle(p)
        BY Zenon, <3>4 DEF RenameStaged, OpenSidecar, WriteSidecar, cleanup_import_staging_root,
                    DiscardBundle, Return, Goto, InImport
      <3> QED BY Zenon, <1>7, <3>2, <3>3, <3>4 DEF ImportStep
    <2> QED BY Zenon, <1>2, <1>5, <2>1, <2>2, <2>3, <2>4
  <1>8. ASSUME NEW p \in Admin,
               trust_publisher(p) \/ WriteTrusted(p) \/ remove_trusted_publisher(p)
        PROVE Typed'
    <2>1. p \in Process /\ p \notin Importer
      BY Zenon, Roles DEF Process
    <2>2. CASE trust_publisher(p)
      <3>1. PICK publisher \in Publisher : /\ job' = [job EXCEPT ![p] = publisher]
                                           /\ trust' = [trust EXCEPT ![publisher] = Partial]
        BY Zenon, <2>2 DEF trust_publisher
      <3>2. trust' \in [Publisher -> {Absent, Partial} \cup PublicKey]
        BY Zenon, <1>5, <3>1
      <3>3. pc' = [pc EXCEPT ![p] = "write_trust"]
        BY Zenon, <2>2 DEF trust_publisher, Goto
      <3> QED BY Zenon, <1>0, <1>2, <2>1, <3>1, <3>2, <3>3 DEF Private
    <2>3. CASE WriteTrusted(p)
      <3>1. job[p] \in Publisher /\ Return(p, pc[p])
        BY Zenon, <2>3 DEF WriteTrusted, Return, Goto, Typed
      <3>2. trust' \in [Publisher -> {Absent, Partial} \cup PublicKey]
        BY Zenon, <1>5, <2>3, <3>1 DEF WriteTrusted
      <3> QED BY Zenon, <1>4, <2>1, <3>1, <3>2
    <2>4. CASE remove_trusted_publisher(p)
      BY Zenon, <1>1, <1>5, <2>4 DEF remove_trusted_publisher, local, Typed
    <2> QED BY Zenon, <1>8, <2>2, <2>3, <2>4
  <1>9. CASE \E p \in Process : Crash(p)
    BY Zenon, <1>4, <1>5, <1>9 DEF Crash
  <1> QED BY Zenon, <1>3, <1>6, <1>7, <1>8, <1>9 DEF Next, Step

\* The directories, the trust store and the processes stay well formed.
THEOREM InstalledTypeCorrect == Spec => []TypeOK
  <1>1. Init => Typed
    BY Zenon, Shapes DEF Init, Typed, Process
  <1>2. IInv /\ [Next]_vars => IInv'
    BY NextStep
  <1>3. IInv /\ Typed /\ [Next]_vars => Typed'
    BY Zenon, NextTyped
  <1>4. IInv /\ Typed => TypeOK
    <2> SUFFICES ASSUME IInv, Typed PROVE TypeOK
      BY Zenon
    <2>1. \A p \in Installer : pc[p] \in {"idle", "staged", "move", "load"}
      BY Zenon DEF IInv, AtWork, InInstall, Process
    <2>2. \A p \in Process : copied[p] \subseteq Files /\ manifest[p] \subseteq Ref
      BY Zenon DEF IInv, Private, Manifest
    <2> QED BY Zenon, <2>1, <2>2 DEF IInv, Shared, Typed, TypeOK, InImport
  <1> QED
    BY <1>1, <1>2, <1>3, <1>4, InitIInv, PTL DEF Spec

-----------------------------------------------------------------------------
(* Imports that have the root to themselves *)

\* The steps from which on an import knows its signature, and its targets.
Checked == {"validate", "targets", "reset", "next", "copy", "rename", "open_sidecar", "write_sidecar"}
Placing == {"reset", "next", "copy", "rename", "open_sidecar", "write_sidecar"}

\* What an import has found out still holds while it installs: the bundle at hand is the one it
\* verified, every target that exists has the bundled manifest, and no target has a rival.
FoundOut(p) ==
    /\ pc[p] \in Checked => job[p].signing_key \in PublicKey /\ AtHand(p) = job[p]
    /\ pc[p] \in Placing =>
        /\ \A r \in Refs(job[p]) : dir[r] # Absent => dir[r].manifest = Pins(job[p], r)
        /\ BundlesAreUnambiguous =>
            \A r \in Refs(job[p]) : \A s \in Installed : SameRelease(r, s) => r = s

\* The manifest in the staging directory is the bundled one as soon as it has been copied.
CopiedRight(p) ==
    /\ pc[p] \in {"copy", "rename"} /\ "manifest" \in copied[p] /\ staging[Current(p).ref] # Absent =>
            staging[Current(p).ref].manifest = Pins(job[p], Current(p).ref)
    /\ pc[p] = "rename" => copied[p] = Files

\* Nothing in the staging area has a sidecar.
StagedBare == \A r \in Ref : staging[r] # Absent => staging[r].sidecar = Absent

Sound == SidecarVouches /\ VersionsAreUnambiguous
Alone == OneImport /\ Sound /\ \A p \in Importer : FoundOut(p) /\ CopiedRight(p)

\* An import at work has a bundle, and at a skill it has one of its references.
LEMMA AtBundle ==
    ASSUME IInv, NEW p \in Importer, pc[p] # "idle"
    PROVE /\ p \in Process /\ job[p] \in Bundle /\ Refs(job[p]) \subseteq Ref
          /\ pc[p] \in AtSkill => Current(p).ref \in Refs(job[p])
  <1>1. p \in Process /\ job[p] \in Bundle
    BY Zenon DEF IInv, AtWork, Process
  <1>2. job[p].skills \in Seq([ref: Ref, manifest: Manifest])
    BY Zenon, <1>1, Shapes
  <1>3. DOMAIN job[p].skills = 1 .. Len(job[p].skills)
    BY <1>2
  <1>4. Refs(job[p]) \subseteq Ref
    BY Zenon, <1>1, <1>3, BundledSkill DEF Refs
  <1>5. pc[p] \in AtSkill => Current(p).ref \in Refs(job[p])
    BY Zenon, <1>1, <1>3 DEF IInv, AtWork, Refs, Current
  <1> QED BY Zenon, <1>1, <1>4, <1>5

\* While installed state does not change, it stays sound.
LEMMA SoundStays ==
    ASSUME Sound, UNCHANGED dir
    PROVE Sound'
  BY Zenon DEF Sound, SidecarVouches, VersionsAreUnambiguous, Installed, HasManifest, BundlesAreUnambiguous

\* A step that is not an import's leaves what imports have found out alone.
LEMMA AsideStays ==
    ASSUME Alone, OneImport', UNCHANGED <<dir, staging, oci>>,
           \A p \in Importer : \/ pc'[p] = "idle"
                               \/ /\ pc'[p] = pc[p] /\ job'[p] = job[p] /\ origin'[p] = origin[p]
                                  /\ position'[p] = position[p] /\ copied'[p] = copied[p]
    PROVE Alone'
  <1>1. Sound'
    BY Zenon, SoundStays DEF Alone
  <1>2. ASSUME NEW p \in Importer PROVE FoundOut(p)' /\ CopiedRight(p)'
    <2>1. CASE pc'[p] = "idle"
      BY Zenon, <2>1 DEF FoundOut, CopiedRight, Checked, Placing
    <2>2. CASE /\ pc'[p] = pc[p] /\ job'[p] = job[p] /\ origin'[p] = origin[p]
               /\ position'[p] = position[p] /\ copied'[p] = copied[p]
      <3>1. AtHand(p)' = AtHand(p) /\ Current(p)' = Current(p)
        BY Zenon, <2>2 DEF AtHand, Current
      <3>2. Installed' = Installed
        BY Zenon DEF Installed, HasManifest
      <3> QED BY <2>2, <3>1, <3>2 DEF Alone, FoundOut, CopiedRight, Installed, BundlesAreUnambiguous
    <2> QED BY Zenon, <1>2, <2>1, <2>2
  <1> QED BY Zenon, <1>1, <1>2 DEF Alone

\* In a step of the only import, it is enough to look at that one.
LEMMA OnlyImport ==
    ASSUME IInv, Alone, OneImport', NEW p \in Importer, Begin(p) \/ ImportStep(p) \/ Crash(p),
           Sound', FoundOut(p)', CopiedRight(p)'
    PROVE Alone'
  <1>1. ASSUME NEW q \in Importer, q # p PROVE pc'[q] = "idle"
    <2>1. pc[p] # "idle" \/ pc'[p] # "idle"
      <3>1. CASE Begin(p)
        BY Zenon, <3>1 DEF Begin, Goto, IInv, Private, Process
      <3>2. CASE ImportStep(p) \/ Crash(p)
        BY Zenon, <3>2 DEF ImportStep, Crash, RebuildBundle, VerifyBundle, ValidateBundle, ValidateTargets,
                  reset_import_staging_root, NextSkill, CopyFile, ProbeTarget, RenameStaged,
                  OpenSidecar, WriteSidecar, cleanup_import_staging_root, DiscardBundle, Return, Goto
      <3> QED BY Zenon, <3>1, <3>2
    <2>2. pc'[q] = pc[q]
      BY <1>1, OnlyActor DEF Process
    <2> QED BY Zenon, <1>1, <2>1, <2>2 DEF Alone, OneImport
  <1> QED BY <1>1 DEF Alone, FoundOut, CopiedRight, Checked, Placing

\* A step of the only import that leaves installed state alone.
LEMMA ImportsLook ==
    ASSUME IInv, Typed, Alone, NEW p \in Importer, Begin(p) \/ ImportStep(p), UNCHANGED dir
    PROVE FoundOut(p)' /\ CopiedRight(p)'
  <1>0. p \in Process /\ Shared /\ Private /\ FoundOut(p) /\ CopiedRight(p)
    BY Zenon DEF Process, IInv, Alone
  <1>1. Installed' = Installed
    BY Zenon DEF Installed, HasManifest
  <1>2. ASSUME pc'[p] \notin Checked PROVE FoundOut(p)' /\ CopiedRight(p)'
    BY Zenon, <1>2 DEF FoundOut, CopiedRight, Checked, Placing
  <1>3. CASE Begin(p) \/ RebuildBundle(p) \/ cleanup_import_staging_root(p) \/ DiscardBundle(p)
    <2>1. pc'[p] \in {"verify", "rebuild", "write_bundle", "discard", "idle"}
      BY Zenon, <1>0, <1>3 DEF Begin, RebuildBundle, cleanup_import_staging_root, DiscardBundle, Return,
                        Goto, Private
    <2> QED BY Zenon, <1>2, <2>1 DEF Checked
  <1>4. CASE VerifyBundle(p)
    <2>1. CASE AtHand(p) \in Bundle /\ verify_bundle_signature(AtHand(p))
      <3>1. pc'[p] = "validate" /\ job'[p] = AtHand(p) /\ AtHand(p)' = AtHand(p)
        BY Zenon, <1>0, <1>4, <2>1 DEF VerifyBundle, Goto, Private, AtHand
      <3>2. AtHand(p).signing_key \in PublicKey
        BY Zenon, <2>1, Shapes DEF verify_bundle_signature, Typed
      <3> QED BY Zenon, <3>1, <3>2 DEF FoundOut, CopiedRight, Placing
    <2>2. CASE ~ (AtHand(p) \in Bundle /\ verify_bundle_signature(AtHand(p)))
      <3>1. pc'[p] = "discard"
        BY Zenon, <1>0, <1>4, <2>2 DEF VerifyBundle, Goto, Private
      <3> QED BY Zenon, <1>2, <3>1 DEF Checked
    <2> QED BY Zenon, <2>1, <2>2
  <1>5. ASSUME pc[p] \in Checked, job'[p] = job[p], UNCHANGED <<oci, origin>>,
               pc'[p] \in Placing => pc[p] \in Placing
        PROVE FoundOut(p)'
    <2>1. AtHand(p)' = AtHand(p)
      BY Zenon, <1>5 DEF AtHand
    <2> QED BY Zenon, <1>0, <1>1, <1>5, <2>1 DEF FoundOut, BundlesAreUnambiguous
  <1>6. CASE ValidateBundle(p)
    <2>1. pc[p] = "validate" /\ pc'[p] \in {"targets", "discard"} /\ job' = job /\ UNCHANGED <<oci, origin>>
      BY Zenon, <1>0, <1>6 DEF ValidateBundle, Goto, Private, local
    <2>2. FoundOut(p)'
      BY Zenon, <1>5, <2>1 DEF Checked, Placing
    <2> QED BY Zenon, <2>1, <2>2 DEF CopiedRight
  <1>7. CASE ValidateTargets(p)
    <2>1. pc[p] = "targets" /\ job' = job /\ AtHand(p)' = AtHand(p)
      BY Zenon, <1>7 DEF ValidateTargets, local, AtHand
    <2>2. CASE validate_import_targets(job[p])
      <3>1. pc'[p] = "reset"
        BY Zenon, <1>0, <1>7, <2>2 DEF ValidateTargets, Goto, Private
      <3>2. \A r \in Refs(job[p]) :
                /\ dir[r] # Absent => dir[r].manifest = Pins(job[p], r)
                /\ \A s \in Installed : SameRelease(r, s) => r = s
        BY Zenon, <2>2 DEF validate_import_targets, Conflicts
      <3>3. job[p].signing_key \in PublicKey /\ AtHand(p) = job[p]
        BY Zenon, <1>0, <2>1 DEF FoundOut, Checked
      <3> QED BY Zenon, <1>1, <2>1, <3>1, <3>2, <3>3 DEF FoundOut, CopiedRight
    <2>3. CASE ~ validate_import_targets(job[p])
      <3>1. pc'[p] = "discard"
        BY Zenon, <1>0, <1>7, <2>3 DEF ValidateTargets, Goto, Private
      <3> QED BY <1>2, <3>1 DEF Checked
    <2> QED BY Zenon, <2>2, <2>3
  <1>8. CASE reset_import_staging_root(p)
    <2>1. pc[p] = "reset" /\ pc'[p] = "next" /\ job' = job /\ UNCHANGED <<oci, origin>>
      BY Zenon, <1>0, <1>8 DEF reset_import_staging_root, Goto, Private
    <2>2. FoundOut(p)'
      BY Zenon, <1>5, <2>1 DEF Checked, Placing
    <2> QED BY Zenon, <2>1, <2>2 DEF CopiedRight
  <1>9. CASE NextSkill(p)
    <2>1. /\ pc[p] = "next" /\ job' = job /\ UNCHANGED <<oci, origin>>
          /\ pc'[p] = "cleanup" \/ (pc'[p] = "copy" /\ copied'[p] = {})
      BY Zenon, <1>0, <1>9 DEF NextSkill, Goto, Private
    <2>2. FoundOut(p)'
      BY Zenon, <1>5, <2>1 DEF Checked, Placing
    <2> QED BY Zenon, <2>1, <2>2 DEF CopiedRight
  <1>10. CASE CopyFile(p)
    <2>1. PICK r \in Ref : r = Current(p).ref
      BY Zenon, <1>10, CurrentRef DEF CopyFile, AtSkill
    <2>2. /\ pc[p] = "copy" /\ job' = job /\ UNCHANGED <<oci, origin, position>>
          /\ job[p] \in Bundle /\ AtHand(p) = job[p]
      BY Zenon, <1>0, <1>10, AtBundle DEF CopyFile, FoundOut, Checked
    <2>3. Current(p)' = Current(p) /\ AtHand(p) # Partial
      BY Zenon, <2>2, FileStates DEF Current
    <2>4. CASE pc'[p] = "cleanup"
      BY Zenon, <1>2, <2>4 DEF Checked
    <2>5. CASE pc'[p] # "cleanup"
      <3>1. PICK f \in Files \ copied[p] :
                /\ staging[r] # Absent /\ UNCHANGED pc
                /\ staging' = [staging EXCEPT ![r] =
                     IF f = "manifest" THEN [@ EXCEPT !.manifest = Pins(AtHand(p), r)]
                                       ELSE [@ EXCEPT !.artifact = TRUE]]
                /\ copied' = [copied EXCEPT ![p] = @ \cup {f}]
        BY Zenon, <1>0, <1>10, <2>1, <2>3, <2>5 DEF CopyFile, Goto, Private
      <3>2. FoundOut(p)'
        BY Zenon, <1>5, <2>2, <3>1 DEF Checked, Placing
      <3>3. staging[r] \in SkillDir
        BY Zenon, <1>0, <3>1 DEF Shared
      <3>4. copied'[p] = copied[p] \cup {f}
        BY Zenon, <1>0, <3>1 DEF Private
      <3>5. CASE f = "manifest"
        <4>1. staging'[r].manifest = Pins(job[p], r)
          BY <1>0, <2>2, <3>1, <3>3, <3>5 DEF Shared, SkillDir
        <4> QED BY Zenon, <2>1, <2>2, <2>3, <3>1, <3>2, <4>1 DEF CopiedRight
      <3>6. CASE f # "manifest"
        <4>1. staging'[r].manifest = staging[r].manifest
          BY Zenon, <1>0, <3>1, <3>3, <3>6 DEF Shared, SkillDir
        <4> QED BY Zenon, <1>0, <2>1, <2>2, <2>3, <3>1, <3>2, <3>4, <3>6, <4>1 DEF CopiedRight
      <3> QED BY Zenon, <3>5, <3>6
    <2> QED BY Zenon, <2>4, <2>5
  <1>11. CASE ProbeTarget(p)
    <2>1. /\ pc[p] = "copy" /\ pc'[p] \in {"rename", "open_sidecar"} /\ copied[p] = Files
          /\ UNCHANGED <<staging, job, oci, origin, position, copied>>
      BY Zenon, <1>0, <1>11 DEF ProbeTarget, Goto, Private, local
    <2>2. FoundOut(p)'
      BY Zenon, <1>5, <2>1 DEF Checked, Placing
    <2>3. Current(p)' = Current(p)
      BY Zenon, <2>1 DEF Current
    <2> QED BY Zenon, <1>0, <2>1, <2>2, <2>3 DEF CopiedRight
  <1>12. CASE RenameStaged(p) \/ OpenSidecar(p) \/ WriteSidecar(p)
    <2>1. pc[p] \in Checked /\ pc[p] \in Placing /\ job' = job /\ UNCHANGED <<oci, origin>>
      BY Zenon, <1>12 DEF RenameStaged, OpenSidecar, WriteSidecar, Checked, Placing, local
    <2>2. pc'[p] \in {"open_sidecar", "write_sidecar", "next", "cleanup"}
      BY Zenon, <1>0, <1>12 DEF RenameStaged, OpenSidecar, WriteSidecar, Goto, Private
    <2>3. FoundOut(p)'
      BY Zenon, <1>5, <2>1
    <2> QED BY Zenon, <2>2, <2>3 DEF CopiedRight
  <1> QED BY Zenon, <1>3, <1>4, <1>6, <1>7, <1>8, <1>9, <1>10, <1>11, <1>12 DEF ImportStep

\* A step of the only import that writes to installed state: the staged directory moves
\* into place, or the sidecar is written.
LEMMA ImportsPlace ==
    ASSUME IInv, StagedBare, Alone, NEW p \in Importer, ~ UNCHANGED dir,
           RenameStaged(p) \/ OpenSidecar(p) \/ WriteSidecar(p)
    PROVE Sound' /\ FoundOut(p)' /\ CopiedRight(p)'
  <1>0. /\ p \in Process /\ Shared /\ Private /\ Sound
        /\ FoundOut(p) /\ CopiedRight(p)
    BY Zenon DEF Process, IInv, Alone
  <1>1. pc[p] \in {"rename", "open_sidecar", "write_sidecar"}
    BY Zenon DEF RenameStaged, OpenSidecar, WriteSidecar
  <1>2. PICK r \in Ref : r = Current(p).ref
    BY Zenon, <1>1, CurrentRef DEF AtSkill
  <1>3. job[p] \in Bundle /\ Refs(job[p]) \subseteq Ref /\ r \in Refs(job[p])
    BY Zenon, <1>1, <1>2, AtBundle DEF AtSkill
  <1>4. /\ job[p].signing_key \in PublicKey /\ AtHand(p) = job[p]
        /\ \A x \in Refs(job[p]) : dir[x] # Absent => dir[x].manifest = Pins(job[p], x)
        /\ BundlesAreUnambiguous =>
            \A x \in Refs(job[p]) : \A s \in Installed : SameRelease(x, s) => x = s
    BY Zenon, <1>0, <1>1 DEF FoundOut, Checked, Placing
  <1>5. job' = job /\ AtHand(p)' = AtHand(p)
    BY Zenon DEF RenameStaged, OpenSidecar, WriteSidecar, local, AtHand
  <1>6. pc'[p] \in {"open_sidecar", "write_sidecar", "next", "cleanup"}
    BY Zenon, <1>0 DEF RenameStaged, OpenSidecar, WriteSidecar, Goto, Private
  <1>7. PICK d : /\ dir' = [dir EXCEPT ![r] = d] /\ d \in SkillDir
                 /\ d.manifest = Pins(job[p], r)
                 /\ d.sidecar \in {Absent, Partial, job[p]}
    <2>1. CASE RenameStaged(p)
      <3>1. dir' = [dir EXCEPT ![r] = staging[r]] /\ staging[r] # Absent
        BY Zenon, <1>2, <2>1 DEF RenameStaged
      <3>2. staging[r] \in SkillDir /\ staging[r].sidecar = Absent
        BY Zenon, <1>0, <3>1 DEF Shared, StagedBare
      <3>3. pc[p] = "rename" /\ "manifest" \in copied[p]
        BY Zenon, <1>0, <2>1 DEF RenameStaged, CopiedRight, Files
      <3>4. staging[r].manifest = Pins(job[p], r)
        BY Zenon, <1>0, <1>2, <3>1, <3>3 DEF CopiedRight
      <3> QED BY Zenon, <3>1, <3>2, <3>4
    <2>2. CASE OpenSidecar(p) \/ WriteSidecar(p)
      <3>1. dir[r] # Absent
        BY Zenon, <1>0, <1>2, <2>2 DEF OpenSidecar, WriteSidecar, IInv, AtWork
      <3>2. dir[r] \in SkillDir /\ dir[r].manifest = Pins(job[p], r)
        BY Zenon, <1>0, <1>3, <1>4, <3>1 DEF Shared
      <3>3. PICK record \in {Partial, job[p]} : dir' = [dir EXCEPT ![r].sidecar = record]
        BY Zenon, <1>2, <2>2 DEF OpenSidecar, WriteSidecar
      <3>4. PICK d : d = [dir[r] EXCEPT !.sidecar = record]
        BY Zenon
      <3>5. d \in SkillDir /\ d.manifest = dir[r].manifest
        BY Zenon, <1>3, <3>2, <3>4, SidecarType
      <3>6. d.sidecar = record
        BY Zenon, <3>2, <3>4 DEF SkillDir
      <3> QED BY Zenon, <3>2, <3>3, <3>4, <3>5, <3>6
    <2> QED BY Zenon, <2>1, <2>2
  <1>8. /\ dir'[r] = d /\ d # Absent
        /\ \A x \in Ref \ {r} : dir'[x] = dir[x]
    BY Zenon, <1>0, <1>7, NewDir DEF Shared
  <1>9. SidecarVouches'
    BY <1>0, <1>3, <1>4, <1>7, <1>8, FileStates DEF Sound, SidecarVouches
  <1>10. Installed' \subseteq Installed \cup {r} /\ r \in Ref
    BY Zenon, <1>8 DEF Installed, HasManifest
  <1>11. VersionsAreUnambiguous'
    <2> SUFFICES ASSUME BundlesAreUnambiguous, NEW x \in Installed', NEW y \in Installed',
                        SameRelease(x, y)
                 PROVE x = y
      BY Zenon DEF VersionsAreUnambiguous, BundlesAreUnambiguous
    <2>1. SameRelease(y, x)
      BY Zenon DEF SameRelease
    <2>2. \A s \in Installed : SameRelease(r, s) => r = s
      BY Zenon, <1>3, <1>4
    <2>3. \A s, t \in Installed : SameRelease(s, t) => s = t
      BY Zenon, <1>0 DEF Sound, VersionsAreUnambiguous
    <2> QED BY Zenon, <1>10, <2>1, <2>2, <2>3
  <1>12. \A x \in Refs(job[p]) : dir'[x] # Absent => dir'[x].manifest = Pins(job[p], x)
    BY Zenon, <1>3, <1>4, <1>7, <1>8
  <1>13. BundlesAreUnambiguous =>
            \A x \in Refs(job[p]) : \A s \in Installed' : SameRelease(x, s) => x = s
    BY Zenon, <1>3, <1>4, <1>10 DEF BundlesAreUnambiguous
  <1>14. FoundOut(p)'
    BY Zenon, <1>4, <1>5, <1>12, <1>13 DEF FoundOut, BundlesAreUnambiguous
  <1>15. CopiedRight(p)'
    BY Zenon, <1>6 DEF CopiedRight
  <1> QED BY Zenon, <1>9, <1>11, <1>14, <1>15 DEF Sound

\* Only import_bundle writes to the staging area, and it writes no sidecar there.
LEMMA NextBare ==
    ASSUME IInv, StagedBare, [Next]_vars
    PROVE StagedBare'
  <1>0. Shared
    BY Zenon DEF IInv
  <1>1. CASE UNCHANGED staging
    BY Zenon, <1>1 DEF StagedBare
  <1>2. ASSUME NEW p \in Importer, CopyFile(p) PROVE StagedBare'
    <2>1. PICK r \in Ref : r = Current(p).ref
      BY Zenon, <1>2, CurrentRef DEF CopyFile, AtSkill
    <2>2. CASE ~ UNCHANGED staging
      <3>1. PICK f \in Files :
                /\ staging[r] # Absent
                /\ staging' = [staging EXCEPT ![r] =
                     IF f = "manifest" THEN [@ EXCEPT !.manifest = Pins(AtHand(p), r)]
                                       ELSE [@ EXCEPT !.artifact = TRUE]]
        BY Zenon, <1>2, <2>1, <2>2 DEF CopyFile
      <3>2. staging[r] \in SkillDir
        BY Zenon, <1>0, <3>1 DEF Shared
      <3>3. staging'[r].sidecar = staging[r].sidecar
        BY Zenon, <1>0, <3>1, <3>2 DEF Shared, SkillDir
      <3>4. \A x \in Ref \ {r} : staging'[x] = staging[x]
        BY Zenon, <1>0, <3>1 DEF Shared
      <3> QED BY Zenon, <3>1, <3>3, <3>4 DEF StagedBare
    <2> QED BY Zenon, <1>1, <2>2
  <1>3. ASSUME NEW p \in Importer, NextSkill(p) PROVE StagedBare'
    BY <1>0, <1>3 DEF NextSkill, StagedBare, Shared
  <1>4. ASSUME NEW p \in Importer, RenameStaged(p) PROVE StagedBare'
    BY Zenon, <1>0, <1>4 DEF RenameStaged, StagedBare, Shared
  <1>5. ASSUME NEW p \in Importer, reset_import_staging_root(p) \/ cleanup_import_staging_root(p)
        PROVE StagedBare'
    BY Zenon, <1>5 DEF reset_import_staging_root, cleanup_import_staging_root, StagedBare
  <1>6. ASSUME NEW p \in Importer, Begin(p) \/ ImportStep(p) PROVE StagedBare'
    BY Zenon, <1>1, <1>2, <1>3, <1>4, <1>5, <1>6
    DEF Begin, ImportStep, RebuildBundle, VerifyBundle, ValidateBundle, ValidateTargets, ProbeTarget,
        OpenSidecar, WriteSidecar, DiscardBundle
  <1> QED
    BY Zenon, <1>1, <1>6
    DEF Next, Step, vars, install, InstallStep, reusable_existing_install, move_staged_install,
        LoadInstalled, trust_publisher, WriteTrusted, remove_trusted_publisher, Crash

\* While imports have the root to themselves, a step keeps what they leave behind sound.
LEMMA NextAlone ==
    ASSUME IInv, Typed, StagedBare, Alone, [Next]_vars, OneImport'
    PROVE Alone'
  <1>0. Private /\ Shared /\ OneImport /\ Sound
    BY Zenon DEF IInv, Alone
  <1>1. CASE UNCHANGED vars
    BY Zenon, <1>1, AsideStays DEF vars, local
  <1>2. ASSUME NEW p \in Installer, install(p) \/ InstallStep(p) PROVE FALSE
    <2>1. p \in Process /\ pc[p] = "idle" /\ pc'[p] = "idle"
      BY Zenon, <1>0 DEF Process, OneImport
    <2> QED
      BY Zenon, <1>0, <1>2, <2>1
      DEF install, InstallStep, reusable_existing_install, move_staged_install, LoadInstalled, Goto,
          Private
  <1>3. ASSUME NEW p \in Importer, Begin(p) \/ ImportStep(p) PROVE Alone'
    <2>1. CASE UNCHANGED dir
      <3>1. Sound'
        BY Zenon, <1>0, <2>1, SoundStays
      <3> QED BY Zenon, <1>3, <2>1, <3>1, ImportsLook, OnlyImport
    <2>2. CASE ~ UNCHANGED dir
      <3>1. RenameStaged(p) \/ OpenSidecar(p) \/ WriteSidecar(p)
        BY Zenon, <1>3, <2>2
        DEF Begin, ImportStep, RebuildBundle, VerifyBundle, ValidateBundle, ValidateTargets,
            reset_import_staging_root, NextSkill, CopyFile, ProbeTarget,
            cleanup_import_staging_root, DiscardBundle
      <3> QED BY Zenon, <1>3, <2>2, <3>1, ImportsPlace, OnlyImport
    <2> QED BY Zenon, <2>1, <2>2
  <1>4. ASSUME NEW p \in Process, p \notin Importer, UNCHANGED <<dir, staging, oci>>,
               \A q \in Process \ {p} : /\ pc'[q] = pc[q] /\ job'[q] = job[q] /\ origin'[q] = origin[q]
                                        /\ position'[q] = position[q] /\ copied'[q] = copied[q]
        PROVE Alone'
    BY Zenon, <1>4, AsideStays DEF Process
  <1>5. ASSUME NEW p \in Admin,
               trust_publisher(p) \/ WriteTrusted(p) \/ remove_trusted_publisher(p)
        PROVE Alone'
    <2>1. p \in Process /\ p \notin Importer
      BY Zenon, Roles DEF Process
    <2>2. UNCHANGED <<dir, staging, oci>>
      BY Zenon, <1>5 DEF trust_publisher, WriteTrusted, remove_trusted_publisher
    <2>3. \A q \in Process \ {p} : /\ pc'[q] = pc[q] /\ job'[q] = job[q] /\ origin'[q] = origin[q]
                                   /\ position'[q] = position[q] /\ copied'[q] = copied[q]
      BY Zenon, <1>0, <1>5
      DEF trust_publisher, WriteTrusted, remove_trusted_publisher, Goto, Return, Forget, local, Private
    <2> QED BY Zenon, <1>4, <2>1, <2>2, <2>3
  <1>6. ASSUME NEW p \in Process, Crash(p) PROVE Alone'
    <2>1. UNCHANGED <<dir, staging, oci>> /\ pc'[p] = "idle"
      BY Zenon, <1>0, <1>6 DEF Crash, Return, Goto, Private
    <2>2. \A q \in Process \ {p} : /\ pc'[q] = pc[q] /\ job'[q] = job[q] /\ origin'[q] = origin[q]
                                   /\ position'[q] = position[q] /\ copied'[q] = copied[q]
      BY Zenon, <1>0, <1>6 DEF Crash, Goto, Return, Forget, Private
    <2> QED BY Zenon, <2>1, <2>2, AsideStays DEF Process
  <1> QED BY Zenon, <1>1, <1>2, <1>3, <1>5, <1>6 DEF Next, Step

\* Imports that have the root to themselves leave honest sidecars and one digest of every
\* version behind, for any bundles, whenever one dies or fails and whatever administrators
\* do to the trust store meanwhile.
THEOREM ImportsAlone == Spec => []ImportsAloneAreSound
  <1> DEFINE Inv == exclusive => Alone
  <1>1. Init => Typed /\ StagedBare /\ Inv
    <2> SUFFICES ASSUME Init PROVE Typed /\ StagedBare /\ Alone
      BY Zenon
    <2>1. Typed /\ StagedBare
      BY Zenon, Shapes DEF Init, Typed, StagedBare, Process
    <2>2. Sound
      BY Zenon DEF Init, Sound, SidecarVouches, VersionsAreUnambiguous, Installed, HasManifest
    <2>3. OneImport /\ \A p \in Importer : FoundOut(p) /\ CopiedRight(p)
      BY Zenon DEF Init, OneImport, FoundOut, CopiedRight, Checked, Placing, Process
    <2> QED BY Zenon, <2>1, <2>2, <2>3 DEF Alone
  <1>2. IInv /\ [Next]_vars => IInv'
    BY NextStep
  <1>3. IInv /\ Typed /\ [Next]_vars => Typed'
    BY NextTyped
  <1>4. IInv /\ StagedBare /\ [Next]_vars => StagedBare'
    BY NextBare
  <1>5. IInv /\ Typed /\ StagedBare /\ Inv /\ [Next]_vars => Inv'
    <2> SUFFICES ASSUME IInv, Typed, StagedBare, Inv, [Next]_vars, exclusive' PROVE Alone'
      BY Zenon
    <2>1. CASE UNCHANGED vars
      <3>1. Alone /\ OneImport'
        BY Zenon, <2>1 DEF vars, local, Alone, OneImport
      <3> QED BY Zenon, <3>1, NextAlone
    <2>2. CASE Next
      <3>1. exclusive /\ OneImport'
        BY Zenon, <2>2 DEF Next, Observe
      <3> QED BY Zenon, <3>1, NextAlone
    <2> QED BY Zenon, <2>1, <2>2
  <1>6. Inv => ImportsAloneAreSound
    BY Zenon DEF Alone, Sound, ImportsAloneAreSound
  <1> HIDE DEF Inv
  <1> QED
    BY <1>1, <1>2, <1>3, <1>4, <1>5, <1>6, InitIInv, PTL DEF Spec
=============================================================================
