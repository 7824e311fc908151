------------------------------ MODULE MC_Publishing ------------------------------
(***************************************************************************)
(* One directory of two content files and a marker, two archive paths, two  *)
(* keys and two processes.  It starts unsealed, signed or as an extracted   *)
(* envelope, with an archive of the same or another version beside it.      *)
(***************************************************************************)
EXTENDS Publishing, TLC

CONSTANTS k1, k2, c1, c2, p1, p2

MCOrder   == <<"content/extra", "content/page", "layer/.tombstones", Manifest, Meta, Enc, Sec, Env, Pub, Sig>>
MCReads   == {MCOrder, Reverse(MCOrder)}
MCContent == {"content/extra", "content/page"}
MCEdits   == {<<"content/page", <<"data", 2>>>>, <<"content/extra", <<"data", 0>>>>, <<"content/page", None>>, <<"content/extra", <<"data", 1>>>>}

\* An empty file leaves no trace in what is joined.
MCJoin(chunks) == SelectSeq(chunks, LAMBDA b : b # <<"data", 0>>)

Plain(n)  == ("content/page" :> <<"data", n>>) @@ (Meta :> <<"data", 3>>)
Listed(n) == Generated(Plain(n))
Packed(n) == With(Listed(n), Sec, BuildSecurity(Listed(n)))
Of(files, k) == [files |-> files, key |-> k]
Start(d, a, b) == [dir |-> d, caps |-> (c1 :> a) @@ (c2 :> b),
                   snapshots |-> {Of(Packed(n)[Sec][2], None) : n \in 1 .. 2} \cup {Of(SignFiles(Plain(1), k1)[Sec][2], k1)},
                   wrapped |-> {[files |-> Packed(n), key |-> k1, dek |-> 100 + n] : n \in 1 .. 2}]
MCStarts ==
  {Start(Plain(1), Packed(2), None),
   Start(With(SignFiles(Plain(1), k1), Marker, <<"data", 1>>), Packed(1), None),
   Start(EncryptBytes(Packed(1), k1, 101), EncryptBytes(Packed(2), k1, 102), None)}

\* One process runs the packager, the other loads, verifies or signs.  Archives are made
\* at c2, from c1; a wrong key, or none, is tried on archives of envelopes.
Begins(p) == run'[p].id \notin {0, run[p].id}
Focus ==
  \A p \in Procs : Begins(p) =>
    /\ run'[p].op \in IF p = p1 THEN {"seal", "sign", "extract", "pack", "encryptDirectory", "encryptCap", "decrypt"}
                      ELSE {"load", "verify", "verifySignature", "sign"}
    /\ run'[p].cap \in {None, c2}
    /\ run'[p].id = 3 => run'[p].op = "load" /\ run'[p].got = NoFiles /\ \A q \in Procs : run[q] = Idle
    /\ run'[p].op = "load" /\ run'[p].key = None => IsEncryptedPackage(run'[p].got)
    /\ run'[p].key \in {None, k1} \/ run'[p].op = "sign" \/ IsEncryptedPackage(run'[p].got)
MCSpec == Init /\ [][Next /\ Focus]_vars
===============================================================================
