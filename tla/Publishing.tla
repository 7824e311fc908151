------------------------------- MODULE Publishing -------------------------------
(***************************************************************************)
(* The life of a package on disk: its author edits the directory while the  *)
(* packager seals, signs, packs, encrypts, decrypts and extracts            *)
(* (packager/src, core/src/checksums.ts, signatures.ts, package.ts) and the *)
(* Node reactor and the verifiers load it (reactor-node/src/loader.ts).     *)
(* A run walks the directory file by file and writes file by file, and may  *)
(* stop between any two of these steps; a file whose writer is not done, or *)
(* stopped, is torn.                                                        *)
(*                                                                         *)
(* Bytes are tuples headed by what they are: <<"torn">>, <<"data", n>>,     *)
(* <<"manifest", names>>, <<"key", k>>, security.json <<"sums", path ->     *)
(* bytes, signed>>, <<"sig", k, payload>>, and of the encrypted layout      *)
(* <<"env", k, dek>> and <<"enc", dek, files>>.  Digests, signatures and    *)
(* ciphers are perfect: a digest is the bytes themselves.                   *)
(***************************************************************************)
EXTENDS Integers, Sequences, SequencesExt

CONSTANTS
  None,
  Content,          \* the names below content/
  Marker,           \* the name of a tombstone marker
  Join(_),          \* the bytes of files one after another; where one ends is lost
  Order,            \* all names in the order of their strings
  ReadOrders,       \* the orders readdir may list them in
  EditSet,          \* what the author does: <<name, bytes, or None to remove it>>
  Keys,             \* RSA key pairs
  Caps,             \* paths of .cap files
  Procs,            \* processes: a packager's or a reactor's
  Starts,           \* what is on disk at first: [dir, caps, snapshots, wrapped]
  MaxEdits, MaxRuns \* bounds

Manifest == "manifest"  \* and routes.json, generated with it
Meta == "metadata"
Sec  == "security"
Sig  == "signature"
Pub  == "publicKey"
Env  == "envelope"
Enc  == "payload"
Names == Content \cup {Marker, Manifest, Meta, Sec, Sig, Pub, Env, Enc}
Torn  == <<"torn">>
NoSecurity == <<"none">>

(***************************************************************************)
(* core: checksums, signatures, the package parser                          *)
(***************************************************************************)
With(files, name, bytes) ==
  [n \in DOMAIN files \cup {name} |-> IF n = name THEN bytes ELSE files[n]]
Sorted(names) == SelectSeq(Order, LAMBDA n : n \in names)

CoveredByChecksums(name) == name \notin {Sec, Sig, Marker}
ComputeChecksums(files)  == [n \in {n \in DOMAIN files : CoveredByChecksums(n)} |-> files[n]]
BuildSecurity(files)     == <<"sums", ComputeChecksums(files), FALSE>>
WithDigitalSignatures(security) == <<"sums", security[2], TRUE>>
IsPackageSigned(security)       == security # NoSecurity /\ security[3]

\* security.json, if there is one; only asked of files that parse.
SecurityOf(files) == IF Sec \in DOMAIN files THEN files[Sec] ELSE NoSecurity

\* Variant: files the checksums do not list are not looked for.
VerifyIntegrityListed(files, security) ==
  IF security = NoSecurity THEN {<<"missing-security-file">>}
  ELSE {<<"missing-file", n>> : n \in DOMAIN security[2] \ DOMAIN files}
         \cup {<<"checksum-mismatch", n>> : n \in {n \in DOMAIN security[2] \cap DOMAIN files : files[n] # security[2][n]}}

\* The issues verifyIntegrity reports.  No name here is one of Object.prototype's, like
\* constructor, which the code's "in" (checksums.ts:123) takes for a listed one.
VerifyIntegrity(files, security) ==
  IF security = NoSecurity THEN {<<"missing-security-file">>}
  ELSE {<<"missing-file", n>> : n \in DOMAIN security[2] \ DOMAIN files}
         \cup {<<"checksum-mismatch", n>> : n \in {n \in DOMAIN security[2] \cap DOMAIN files : files[n] # security[2][n]}}
         \cup {<<"uncovered-file", n>> : n \in {n \in DOMAIN files \ DOMAIN security[2] : CoveredByChecksums(n)}}

\* buildSignedPayload: the covered files' bytes in the order of their paths, without the paths.
Concat(files) ==
  LET paths == Sorted(DOMAIN files) IN Join([i \in DOMAIN paths |-> files[paths[i]]])
Payload(files, security) == Concat([n \in DOMAIN security[2] |-> files[n]])

\* verifyPackageSignature with the embedded key; a missing file is an error.
SignedBy(files, security, k) ==
  /\ {Sig, Pub} \cup DOMAIN security[2] \subseteq DOMAIN files
  /\ files[Pub] = <<"key", k>>
  /\ files[Sig] = <<"sig", k, Payload(files, security)>>
VerifyPackageSignature(files, security) == \E k \in Keys : SignedBy(files, security, k)

\* parsePackage succeeds.
Parses(files) == Meta \in DOMAIN files /\ \A n \in DOMAIN files \cap {Meta, Manifest, Sec} : files[n] # Torn
GenerateManifest(files) == <<"manifest", DOMAIN files \cap Content>>

(***************************************************************************)
(* packager: what each operation makes of the files it loaded, or None      *)
(***************************************************************************)
SignFiles(files, k) ==
  LET embedded == With(files, Pub, <<"key", k>>)
      security == WithDigitalSignatures(BuildSecurity(embedded))
      out      == With(embedded, Sec, security)
  IN With(out, Sig, <<"sig", k, Payload(out, security)>>)

\* manifest.json and routes.json are generated each where it is missing; one file here.
Generated(files) == IF Manifest \in DOMAIN files THEN files ELSE With(files, Manifest, GenerateManifest(files))

\* Variant: the checksums are taken before the configuration is generated.
PackFilesEarly(files) ==
  IF Parses(files) THEN With(Generated(files), Sec, BuildSecurity(files)) ELSE None

PackFiles(files) ==
  IF Parses(files) THEN With(Generated(files), Sec, BuildSecurity(Generated(files))) ELSE None

IsEncryptedPackage(files) == {Enc, Env} \subseteq DOMAIN files

\* encryptBytes: dek is drawn for this call.
EncryptBytes(files, k, dek) ==
  IF files = None \/ (files # None /\ Meta \notin DOMAIN files) THEN None
  ELSE [n \in {Meta, Env, Enc} |->
         CASE n = Meta -> files[Meta] [] n = Env -> <<"env", k, dek>> [] n = Enc -> <<"enc", dek, files>>]

\* decryptFiles: the key unwraps the dek, the dek opens the payload.
DecryptFiles(files, k) ==
  IF /\ IsEncryptedPackage(files) /\ files[Env] # Torn /\ files[Enc] # Torn
     /\ files[Env][2] = k /\ files[Env][3] = files[Enc][2]
  THEN files[Enc][3] ELSE None

\* Variant: an envelope read without a key is not refused but taken as it stands.
ReadFilesKeyless(files, k) ==
  LET inner == IF IsEncryptedPackage(files) /\ k # None THEN DecryptFiles(files, k) ELSE files
  IN IF /\ inner # None /\ Parses(inner)
        /\ IsPackageSigned(SecurityOf(inner)) => VerifyPackageSignature(inner, SecurityOf(inner))
     THEN inner ELSE None

\* PackageReader.readFiles: the package's files, or None for a typed error.
ReadFiles(files, k) ==
  LET inner == CASE ~IsEncryptedPackage(files)            -> files
                 [] IsEncryptedPackage(files) /\ k # None -> DecryptFiles(files, k)
                 [] OTHER                                -> None
  IN IF /\ inner # None /\ Parses(inner)
        /\ IsPackageSigned(SecurityOf(inner)) => VerifyPackageSignature(inner, SecurityOf(inner))
     THEN inner ELSE None

\* Variant: a signature stands for the checksums.
VerifyModelSignature(files) ==
  LET security == SecurityOf(files)
  IN security # NoSecurity =>
       IF IsPackageSigned(security) THEN VerifyPackageSignature(files, security)
       ELSE VerifyIntegrity(files, security) = {}

\* verifyModel: the gates of the Node reactor.
VerifyModel(files) ==
  LET security == SecurityOf(files)
  IN security # NoSecurity =>
       /\ IsPackageSigned(security) => VerifyPackageSignature(files, security)
       /\ VerifyIntegrity(files, security) = {}

\* What is not an author's was computed: checksums of a snapshot, its signature, an
\* envelope of what was wrapped.
Genuine(S, W, name, bytes) ==
  bytes # Torn =>
    /\ name = Sec => /\ bytes[1] = "sums"
                     /\ \E s \in S : /\ s.files = bytes[2]
                                     /\ bytes[3] => s.key \in Keys /\ s.files[Pub] = <<"key", s.key>>
    /\ name = Sig => \E s \in S : /\ s.key = bytes[2]
                                  /\ bytes[3] = Payload(s.files, BuildSecurity(s.files))
    /\ name = Env => \E w \in W : w.key = bytes[2] /\ w.dek = bytes[3]
    /\ name = Enc => \E w \in W : w.dek = bytes[2] /\ w.files = bytes[3]
GenuineFiles(S, W, files) == \A n \in DOMAIN files : Genuine(S, W, n, files[n])

\* An archive that passes the checks it declares, or is to be decrypted first.
Whole(files) ==
  \/ IsEncryptedPackage(files)
  \/ Parses(files) /\ SecurityOf(files) # NoSecurity /\ VerifyModel(files)

\* The author does not write what is computed, and what is there at first was made so,
\* by calls that drew a dek each.
PublishingAssumption ==
  /\ \A o \in ReadOrders \cup {Order} : o \in Seq(Names) /\ ToSet(o) = Names /\ IsInjective(o)
  /\ None \notin Keys \cup Caps \cup Procs /\ Marker \notin {Manifest, Meta, Sec, Sig, Pub, Env, Enc}
  /\ MaxEdits \in Nat /\ MaxRuns \in Nat
  /\ \A e \in EditSet : e[1] \in Names \ {Sec, Sig, Env, Enc}
  /\ \A s \in Starts :
       /\ GenuineFiles(s.snapshots, s.wrapped, s.dir) /\ DOMAIN s.dir \subseteq Names
       /\ DOMAIN s.caps = Caps
       /\ \A c \in Caps : s.caps[c] \notin {None, Torn} =>
            GenuineFiles(s.snapshots, s.wrapped, s.caps[c]) /\ Whole(s.caps[c])
       /\ \A w \in s.wrapped : /\ GenuineFiles(s.snapshots, s.wrapped, w.files) /\ Whole(w.files)
                                /\ w.dek \notin 1 .. MaxRuns
                                /\ \A v \in s.wrapped : v.dek = w.dek => v = w
       /\ \A x \in s.snapshots : x.files = ComputeChecksums(x.files)
ASSUME PublishingAssumption

(***************************************************************************)
(* Processes on one directory and its archives                              *)
(***************************************************************************)
VARIABLES
  dir,       \* the package directory: name -> bytes
  caps,      \* the .cap files: files, Torn or None
  run,       \* what a process does: [op, stage, key, cap, id, todo, got, queue, alone]
  told,      \* what its last load or verification said, None for an error
  order,     \* how readdir lists
  edits, runs,
  snapshots, \* history: [files, key] of every security.json computed
  wrapped,   \* history: [files, key, dek] of every envelope made
  settled    \* history: the directory is what a seal or sign run made of it, alone

vars == <<dir, caps, run, told, order, edits, runs, snapshots, wrapped, settled>>

NoFiles == [n \in {} |-> None]
Idle == [op |-> None, stage |-> "idle", key |-> None, cap |-> None, id |-> 0, todo |-> {},
         got |-> NoFiles, queue |-> NoFiles, alone |-> FALSE]

Init ==
  /\ \E s \in Starts : dir = s.dir /\ caps = s.caps /\ snapshots = s.snapshots /\ wrapped = s.wrapped
  /\ run = [p \in Procs |-> Idle] /\ told = [p \in Procs |-> None]
  /\ order \in ReadOrders
  /\ edits = 0 /\ runs = 0 /\ settled = FALSE

\* Somebody, p or the author, changes the directory under the other runs.
Disturbed(p) == [q \in Procs |-> IF q = p THEN run[q] ELSE [run[q] EXCEPT !.alone = FALSE]]

Edit(name, bytes) ==
  /\ edits < MaxEdits
  /\ dir' = IF bytes = None THEN [n \in DOMAIN dir \ {name} |-> dir[n]] ELSE With(dir, name, bytes)
  /\ edits' = edits + 1 /\ settled' = FALSE /\ run' = Disturbed(None)
  /\ UNCHANGED <<caps, told, order, runs, snapshots, wrapped>>

\* DirectoryPackageSource.load lists the directory first.  The whole tree is listed here
\* in one step, where walk lists a subdirectory when it comes to it: what the properties
\* say holds of any files read.
StartOnDirectory(p, op, k, c) ==
  /\ run[p].stage = "idle" /\ runs < MaxRuns
  /\ runs' = runs + 1
  /\ run' = [run EXCEPT ![p] = [Idle EXCEPT !.op = op, !.stage = "reading", !.key = k, !.cap = c, !.id = runs + 1,
                                            !.todo = {i \in DOMAIN order : order[i] \in DOMAIN dir}, !.alone = TRUE]]
  /\ UNCHANGED <<dir, caps, told, order, edits, snapshots, wrapped, settled>>

\* An archive is read at once; a torn one is not a zip.
StartOnCap(p, op, k, from, c) ==
  /\ run[p].stage = "idle" /\ runs < MaxRuns
  /\ caps[from] \notin {None, Torn}
  /\ runs' = runs + 1
  /\ run' = [run EXCEPT ![p] = [Idle EXCEPT !.op = op, !.stage = "reading", !.key = k, !.cap = c, !.id = runs + 1,
                                            !.got = caps[from], !.alone = TRUE]]
  /\ UNCHANGED <<dir, caps, told, order, edits, snapshots, wrapped, settled>>

\* Positions in a listing or a queue are taken in their order.
First(positions) == {i \in positions : \A j \in positions : i <= j}

\* walk reads the next file; one that is gone ends the run.
ReadNext(p) ==
  /\ run[p].stage = "reading"
  /\ \E i \in First(run[p].todo) :
       run' = [run EXCEPT ![p] =
         IF order[i] \in DOMAIN dir
         THEN [run[p] EXCEPT !.todo = run[p].todo \ {i}, !.got = With(run[p].got, order[i], dir[order[i]])]
         ELSE Idle]
  /\ UNCHANGED <<dir, caps, told, order, edits, runs, snapshots, wrapped, settled>>

Ready(p, op) == run[p].op = op /\ run[p].stage = "reading" /\ run[p].todo = {}
WillWrite(p, queue) == run' = [run EXCEPT ![p].stage = "writing", ![p].queue = queue]
Fails(p) == run' = [run EXCEPT ![p] = Idle]
InDir(files, names) == [i \in DOMAIN names |-> [in |-> None, name |-> names[i], bytes |-> files[names[i]]]]
ToCap(p, files)     == <<[in |-> run[p].cap, name |-> None, bytes |-> files]>>
ByPath(files)       == [i \in {i \in DOMAIN Order : Order[i] \in DOMAIN files} |-> Order[i]]

Snapshot(files, k) == snapshots' = snapshots \cup {[files |-> ComputeChecksums(files), key |-> k]}

\* Variant: a security.json that is there is kept.
SealOnce(p) ==
  LET got == run[p].got
  IN /\ Ready(p, "seal")
     /\ WillWrite(p, InDir(IF Sec \in DOMAIN got THEN got ELSE With(got, Sec, BuildSecurity(got)), <<Sec>>))
     /\ Snapshot(got, None)
     /\ UNCHANGED <<dir, caps, told, order, edits, runs, wrapped, settled>>

\* writeSecurityFile.
Seal(p) ==
  /\ Ready(p, "seal")
  /\ WillWrite(p, InDir(With(run[p].got, Sec, BuildSecurity(run[p].got)), <<Sec>>))
  /\ Snapshot(run[p].got, None)
  /\ UNCHANGED <<dir, caps, told, order, edits, runs, wrapped, settled>>

\* sign: the key, the checksums, the signature, in this order.
Sign(p) ==
  LET signed == SignFiles(run[p].got, run[p].key)
  IN /\ Ready(p, "sign")
     /\ WillWrite(p, InDir(signed, <<Pub, Sec, Sig>>))
     /\ Snapshot(signed, run[p].key)
     /\ UNCHANGED <<dir, caps, told, order, edits, runs, wrapped, settled>>

\* writeCap.
Pack(p) ==
  LET out == PackFiles(run[p].got)
  IN /\ Ready(p, "pack")
     /\ IF out = None THEN Fails(p) /\ UNCHANGED snapshots ELSE WillWrite(p, ToCap(p, out)) /\ Snapshot(out, None)
     /\ UNCHANGED <<dir, caps, told, order, edits, runs, wrapped, settled>>

\* encrypt a directory, packed first, or an archive as it is.
Wrap(p, inner) ==
  LET out == EncryptBytes(inner, run[p].key, run[p].id)
  IN IF out = None THEN Fails(p) /\ UNCHANGED wrapped
     ELSE WillWrite(p, ToCap(p, out)) /\ wrapped' = wrapped \cup {[files |-> inner, key |-> run[p].key, dek |-> run[p].id]}
EncryptDirectory(p) ==
  /\ Ready(p, "encryptDirectory") /\ Wrap(p, PackFiles(run[p].got))
  /\ IF PackFiles(run[p].got) = None THEN UNCHANGED snapshots ELSE Snapshot(PackFiles(run[p].got), None)
  /\ UNCHANGED <<dir, caps, told, order, edits, runs, settled>>
EncryptCap(p) ==
  /\ Ready(p, "encryptCap") /\ Wrap(p, run[p].got)
  /\ UNCHANGED <<dir, caps, told, order, edits, runs, snapshots, settled>>

Decrypt(p) ==
  LET out == DecryptFiles(run[p].got, run[p].key)
  IN /\ Ready(p, "decrypt")
     /\ IF out = None THEN Fails(p) ELSE WillWrite(p, ToCap(p, out))
     /\ UNCHANGED <<dir, caps, told, order, edits, runs, snapshots, wrapped, settled>>

\* extractBytes: save over whatever is there, in the order of the paths.
Extract(p) ==
  /\ Ready(p, "extract")
  /\ WillWrite(p, InDir(run[p].got, ByPath(run[p].got)))
  /\ UNCHANGED <<dir, caps, told, order, edits, runs, snapshots, wrapped, settled>>

Says(p, files) ==
  /\ told' = [told EXCEPT ![p] = IF files = None THEN None
                                 ELSE [op |-> run[p].op, key |-> run[p].key, files |-> files,
                                       encrypted |-> IsEncryptedPackage(run[p].got)]]
  /\ Fails(p)
  /\ UNCHANGED <<dir, caps, order, edits, runs, snapshots, wrapped, settled>>

\* loadPackage: read, then the gates; what the reactor serves from then on.
Load(p) ==
  LET files == ReadFiles(run[p].got, run[p].key)
  IN /\ Ready(p, "load")
     /\ Says(p, IF files # None /\ (files # None => VerifyModel(files)) THEN files ELSE None)

\* IntegrityVerifier and PackageSigner.verifyFiles: a torn security.json is an error.
Verify(p) ==
  /\ Ready(p, "verify")
  /\ Says(p, IF SecurityOf(run[p].got) # Torn /\ VerifyIntegrity(run[p].got, SecurityOf(run[p].got)) = {}
             THEN run[p].got ELSE None)
VerifySignature(p) ==
  LET security == SecurityOf(run[p].got)
  IN /\ Ready(p, "verifySignature")
     /\ Says(p, IF security \notin {NoSecurity, Torn} /\ IsPackageSigned(security) /\ VerifyPackageSignature(run[p].got, security)
                THEN run[p].got ELSE None)

\* The write that is next.
Due(p) == First(DOMAIN run[p].queue)

Put(w, bytes) ==
  IF w.in = None THEN dir' = With(dir, w.name, bytes) /\ UNCHANGED caps
  ELSE caps' = [caps EXCEPT ![w.in] = bytes] /\ UNCHANGED dir
Gone(w)     == w.in = None /\ w.name \notin DOMAIN dir
There(w)    == IF w.in = None THEN dir[w.name] ELSE caps[w.in]
After(p, w) == IF w.in = None THEN Disturbed(p) ELSE run

\* writeFile truncates ...
Open(p) ==
  /\ run[p].stage = "writing"
  /\ \E i \in Due(p) :
       LET w == run[p].queue[i]
       IN /\ Put(w, Torn)
          /\ run' = [After(p, w) EXCEPT ![p].stage = "open"]
          /\ settled' = (settled /\ w.in # None)
  /\ UNCHANGED <<told, order, edits, runs, snapshots, wrapped>>

\* What a write leaves: where another has written meanwhile the two may be mixed, and a
\* file that was removed takes the bytes with it.
Finish(w) ==
  CASE Gone(w) -> UNCHANGED <<dir, caps>>
    [] ~Gone(w) /\ There(w) = Torn -> Put(w, w.bytes)
    [] ~Gone(w) /\ There(w) # Torn -> Put(w, w.bytes) \/ Put(w, Torn)
SettledBy(p, w, last) ==
  IF w.in = None THEN last /\ run[p].alone /\ run[p].op \in {"seal", "sign"} ELSE settled

\* Variant: a run that has written everything is not over.
WriteOn(p) ==
  /\ run[p].stage = "open"
  /\ \E i \in Due(p) :
       LET w    == run[p].queue[i]
           rest == DOMAIN run[p].queue \ {i}
       IN /\ Finish(w)
          /\ run' = [After(p, w) EXCEPT ![p].stage = "writing", ![p].queue = [j \in rest |-> @[j]]]
          /\ settled' = SettledBy(p, w, rest = {})
  /\ UNCHANGED <<told, order, edits, runs, snapshots, wrapped>>

\* ... and writes.
Write(p) ==
  /\ run[p].stage = "open"
  /\ \E i \in Due(p) :
       LET w    == run[p].queue[i]
           rest == DOMAIN run[p].queue \ {i}
       IN /\ Finish(w)
          /\ run' = [After(p, w) EXCEPT ![p] = IF rest = {} THEN Idle
                                               ELSE [run[p] EXCEPT !.stage = "writing", !.queue = [j \in rest |-> run[p].queue[j]]]]
          /\ settled' = SettledBy(p, w, rest = {})
  /\ UNCHANGED <<told, order, edits, runs, snapshots, wrapped>>

\* The process is killed.
Stop(p) ==
  /\ run[p].stage # "idle"
  /\ run' = [run EXCEPT ![p] = Idle]
  /\ UNCHANGED <<dir, caps, told, order, edits, runs, snapshots, wrapped, settled>>

Next ==
  \/ \E e \in EditSet : Edit(e[1], e[2])
  \/ \E p \in Procs, k \in Keys, c \in Caps :
       \/ \E op \in {"seal", "verify", "verifySignature"} : StartOnDirectory(p, op, None, None)
       \/ StartOnDirectory(p, "sign", k, None)
       \/ \E given \in {None, k} : StartOnDirectory(p, "load", given, None)
       \/ StartOnDirectory(p, "pack", None, c) \/ StartOnDirectory(p, "encryptDirectory", k, c)
       \/ \E from \in Caps :
            \/ \E op \in {"extract", "verify", "verifySignature"} : StartOnCap(p, op, None, from, None)
            \/ \E given \in {None, k} : StartOnCap(p, "load", given, from, None)
            \/ \E op \in {"encryptCap", "decrypt"} : StartOnCap(p, op, k, from, c)
  \/ \E p \in Procs :
       \/ ReadNext(p) \/ Open(p) \/ Write(p) \/ Stop(p)
       \/ Seal(p) \/ Sign(p) \/ Pack(p) \/ EncryptDirectory(p) \/ EncryptCap(p) \/ Decrypt(p) \/ Extract(p)
       \/ Load(p) \/ Verify(p) \/ VerifySignature(p)

Spec == Init /\ [][Next]_vars

(***************************************************************************)
(* What readers of a package may rely on                                    *)
(***************************************************************************)
Files == {dir} \cup {caps[c] : c \in Caps}

\* Every process holds what it listed, or an archive, and a writer has something to write.
TypeOK ==
  /\ DOMAIN dir \subseteq Names
  /\ \A p \in Procs :
       /\ run[p].stage = "idle" <=> run[p] = Idle
       /\ {order[i] : i \in run[p].todo} \cap DOMAIN run[p].got = {}
       /\ run[p].stage \in {"writing", "open"} <=> DOMAIN run[p].queue # {}
  /\ edits \in 0 .. MaxEdits /\ runs \in 0 .. MaxRuns

Told(p, ops) == told[p] # None /\ (told[p] # None => told[p].op \in ops)

\* What is served, or reported valid, under checksums is what one run saw when it
\* computed them, though directories are read and written file by file, edited meanwhile,
\* extracted over and left half written (checksums.ts:91-130, loader.ts:79-91).
ServedAsSealed ==
  \A p \in Procs : Told(p, {"load", "verify"}) /\ Sec \in DOMAIN told[p].files =>
    \E s \in snapshots : s.files = ComputeChecksums(told[p].files)

\* What is served as signed is what the holder of the embedded key signed, name by name;
\* the signature alone vouches for the bytes in their order (package-signer.ts:57-88,
\* signatures.ts:57-80).
ServedAsSigned ==
  \A p \in Procs : Told(p, {"load", "verifySignature"}) /\ IsPackageSigned(SecurityOf(told[p].files)) =>
    \E s \in snapshots, k \in Keys :
      /\ s.key = k /\ told[p].files[Pub] = <<"key", k>>
      /\ IF told[p].op = "load" THEN s.files = ComputeChecksums(told[p].files)
         ELSE Payload(s.files, BuildSecurity(s.files)) = Payload(told[p].files, SecurityOf(told[p].files))

\* An archive that was written to its end passes the checks it declares, whatever state
\* of the directory it was packed from (package-writer.ts:41-53).
ArchivesVerify ==
  \A c \in Caps : caps[c] \notin {None, Torn} => Whole(caps[c])

\* What a reactor opens with its key is what was put in an envelope for that key, also
\* when envelopes were extracted over each other (package-cipher.ts:102-176).
OpensWhatWasWrapped ==
  \A p \in Procs : Told(p, {"load"}) /\ told[p].encrypted =>
    \E w \in wrapped : w.files = told[p].files /\ w.key = told[p].key

\* Sealing or signing again, undisturbed, repairs whatever a stopped run left: the
\* directory passes the gates (package-writer.ts:64-68, package-signer.ts:57-66).
RunAgainRepairs == settled => VerifyModel(dir)
===============================================================================
