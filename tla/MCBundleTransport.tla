-------------------------- MODULE MCBundleTransport --------------------------
(***************************************************************************)
(* An instance of BundleTransport for TLC: a skill "app" that depends on   *)
(* "lib", and "lib2", another build of the same version of "lib".          *)
(***************************************************************************)
EXTENDS BundleTransport, TLC

MCDependsOn == [s \in Skills |-> IF s = "app" THEN {"lib"} ELSE {}]
MCPublisher == [s \in Skills |-> IF s = "lib2" THEN "other" ELSE "acme"]
MCSupportFiles == [s \in Skills |-> IF s = "lib" THEN {"schema"} ELSE {}]
MCSameVersion(s, t) == {s, t} = {"lib", "lib2"}

\* Exporters differ in nothing but their names.
Symmetry == Permutations(Exporters)

=============================================================================
