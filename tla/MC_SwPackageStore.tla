-------------------------- MODULE MC_SwPackageStore --------------------------
(***************************************************************************)
(* Two sites and two dependencies of different guids, bundles with none,    *)
(* one and two of them, and a bundle that must be refused for its main blob *)
(* or for a dependency.                                                     *)
(***************************************************************************)
EXTENDS SwPackageStore

CONSTANTS site1, site2, core, lib, bad, torn

\* The guid a dependency package names in its own metadata.json.
GuidOf == [c \in {core, lib} |-> IF c = core THEN "g-core" ELSE "g-lib"]
Dep(c) == [guid |-> IF c = lib THEN "g-lib" ELSE "g-core", cap |-> c]
Bundle(c, deps) == [main |-> c, deps |-> deps]

MCBundles == {Bundle(site1, <<Dep(core)>>), Bundle(site2, <<Dep(lib), Dep(core)>>),
              Bundle(site2, <<>>), Bundle(bad, <<>>), Bundle(site1, <<Dep(bad)>>)}

\* The dependency served under a guid is the package of that guid
\* (package-store.ts:72-76).
GuidsBound ==
  \A g \in Guids : installed.deps[g] # NoCap => GuidOf[installed.deps[g]] = g
===============================================================================
