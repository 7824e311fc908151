------------------------------ MODULE MC_AuthGate ------------------------------
(***************************************************************************)
(* An open package, one behind htpasswd alone, and one that also takes      *)
(* OAuth2 logins; ann is an administrator at the provider, bob is not and  *)
(* has an entry of an unsupported hash type at the intranet.                 *)
(***************************************************************************)
EXTENDS AuthGate, TLC

CONSTANTS open, intranet, staff, ann, bob, t1, t2

MCForms == [p \in Packages |-> CASE p = staff -> {"basic", "oauth2"}
                                [] p = intranet -> {"basic"}
                                [] OTHER -> {}]
MCHtpasswd == [p \in Packages |-> CASE p = staff -> {bob} \cap Users
                                    [] p = intranet -> {ann}
                                    [] OTHER -> {}]
MCUnreadable == [p \in Packages |-> IF p = intranet THEN {bob} ELSE {}]
MCRoles == [u \in Users |-> IF u = ann THEN {"admin"} ELSE {}]

\* The requests in flight are interchangeable.
Swap == Permutations({t1, t2})
===============================================================================
