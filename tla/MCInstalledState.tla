-------------------------- MODULE MCInstalledState --------------------------
(***************************************************************************)
(* Instances of InstalledState: one skill with a dependency, in two builds *)
(* of the same version, and the bundles that other roots exported.         *)
(***************************************************************************)
EXTENDS InstalledState, TLC

App == [key |-> "app", version |-> 1, digest |-> "d1"]
AppRebuilt == [key |-> "app", version |-> 1, digest |-> "d2"]
Lib == [key |-> "lib", version |-> 1, digest |-> "d3"]

Skills == {App, AppRebuilt, Lib}

AnyLib == [key |-> "lib", versions |-> {1, 2}]
AppSource == [ref |-> App, requires |-> {AnyLib}]
LibSource == [ref |-> Lib, requires |-> {}]

AppAndLibSources == {AppSource, LibSource}
NoSource == {}

\* An app with its closure, the same build without the dependency, another build of
\* the version, a closure that misses a skill, a signature by an unknown key, and the first
\* app alone.
WithClosure == [publisher |-> "acme", signing_key |-> "k1", root_skill |-> App,
                closure |-> TRUE,
                skills |-> << [ref |-> App, manifest |-> {Lib}],
                              [ref |-> Lib, manifest |-> {}] >>]
Bare == [publisher |-> "acme", signing_key |-> "k1", root_skill |-> App,
         closure |-> FALSE, skills |-> << [ref |-> App, manifest |-> {}] >>]
Rebuilt == [publisher |-> "acme", signing_key |-> "k1", root_skill |-> AppRebuilt,
            closure |-> FALSE, skills |-> << [ref |-> AppRebuilt, manifest |-> {}] >>]
Unclosed == [WithClosure EXCEPT !.skills = << [ref |-> App, manifest |-> {Lib}] >>]
ForeignKey == [Bare EXCEPT !.signing_key = "k2"]

Pinned == [Unclosed EXCEPT !.closure = FALSE]

ImportedAlone == {WithClosure, Bare, Rebuilt, Unclosed, ForeignKey}
RivalBundles == {Pinned, Bare}
AllBundles == ImportedAlone \cup RivalBundles
OneBundle == {WithClosure}

Acme == {"acme"}
AcmeTrusted == [p \in Acme |-> "k1"]

Directory == {"directory"}
AllOrigins == Origin

-----------------------------------------------------------------------------
VARIABLE together    \* whether processes work on the root at the same time

InstalledInit == Init /\ together \in BOOLEAN

\* Two importers that share both staging directories, and an installer.
Contention ==
    \/ \E p \in Installer : install(p) \/ InstallStep(p)
    \/ \E p \in Importer :
        \/ /\ Begin(p)
           /\ job'[p] \in RivalBundles /\ origin'[p] = "oci_layout"
        \/ ImportStep(p)

\* Imports one after the other, which may die, while trust is edited.
OneByOne ==
    \/ \E p \in Importer :
        \/ /\ \A q \in Importer : pc[q] = "idle"
           /\ Begin(p)
           /\ job'[p] \in ImportedAlone
        \/ ImportStep(p)
    \/ \E p \in Admin : trust_publisher(p) \/ WriteTrusted(p) \/ remove_trusted_publisher(p)
    \/ \E p \in Process : Crash(p)

InstalledNext ==
    /\ (together /\ Contention) \/ (~ together /\ OneByOne)
    /\ Observe
    /\ UNCHANGED together

InstalledSpec == InstalledInit /\ [][InstalledNext]_<<vars, together>>

\* Processes that do what they like at the same time.
TogetherSpec ==
    Init /\ together = TRUE /\ [][Next /\ UNCHANGED together]_<<vars, together>>

Importers == Permutations(Importer)
=============================================================================
