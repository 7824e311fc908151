---------------------------- MODULE MC_CacheStore ----------------------------
(***************************************************************************)
(* Small instances of CacheStore: two packages of the same name that both   *)
(* carry a security.json and differ in every byte (A, B), one without any   *)
(* (C, same name, an extra file), one of another name (D).                  *)
(***************************************************************************)
EXTENDS CacheStore, TLC

CONSTANTS A, B, C, D, bad, i1, i2

MCName  == [c \in Caps |-> IF c = D THEN "blog" ELSE "site"]
MCPaths == {"security.json", "index", "extra"}
MCFiles == [c \in Caps |-> IF c \in {A, B} THEN {"security.json", "index"}
                           ELSE {"index", "extra"}]
MCCovered == {"index", "extra"}

\* Isolates are interchangeable: no property or constant tells them apart.
Swap == Permutations({i1, i2})
==============================================================================
