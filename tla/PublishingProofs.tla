---------------------------- MODULE PublishingProofs ----------------------------
(***************************************************************************)
(* What passes the gates is what one run saw and signed, for any number of  *)
(* processes, runs, edits and archives, any order of listing and a stop     *)
(* anywhere.  Every security.json, signature and payload on disk, in memory *)
(* or queued to be written is one that a run computed (Genuine), whatever   *)
(* the files beside it are.                                                 *)
(***************************************************************************)
EXTENDS Publishing, TLAPS

Fields == {"op", "stage", "key", "cap", "id", "todo", "got", "queue", "alone"}
KnownBytes(S, W, files) == files \notin {None, Torn} => GenuineFiles(S, W, files)
KnownWrite(S, W, w) ==
  IF w.in = None THEN Genuine(S, W, w.name, w.bytes) ELSE KnownBytes(S, W, w.bytes)
KnownRun(S, W, r) ==
  /\ Fields \subseteq DOMAIN r
  /\ r.stage # "idle" /\ r.op = "sign" => r.key \in Keys
  /\ r.stage # "idle" /\ r.op \in {"pack", "encryptDirectory", "encryptCap", "decrypt"} => r.cap # None
  /\ GenuineFiles(S, W, r.got)
  /\ \A i \in DOMAIN r.queue : KnownWrite(S, W, r.queue[i])

\* What a report a vouches for, given the snapshots taken.
Vouched(S, a) ==
  a # None =>
    /\ a.op \in {"load", "verify"} /\ Sec \in DOMAIN a.files => \E s \in S : s.files = ComputeChecksums(a.files)
    /\ a.op \in {"load", "verifySignature"} /\ IsPackageSigned(SecurityOf(a.files)) =>
         \E s \in S, k \in Keys :
           /\ s.key = k /\ a.files[Pub] = <<"key", k>>
           /\ IF a.op = "load" THEN s.files = ComputeChecksums(a.files)
              ELSE Payload(s.files, BuildSecurity(s.files)) = Payload(a.files, SecurityOf(a.files))

History(S, W) ==
  /\ \A s \in S : s.files = ComputeChecksums(s.files)
  /\ \A w \in W : GenuineFiles(S, W, w.files)
Disk(S, W, d, c) ==
  /\ GenuineFiles(S, W, d)
  /\ DOMAIN c = Caps /\ \A x \in Caps : KnownBytes(S, W, c[x])
Inv ==
  /\ DOMAIN run = Procs /\ DOMAIN told = Procs
  /\ History(snapshots, wrapped)
  /\ Disk(snapshots, wrapped, dir, caps)
  /\ \A p \in Procs : KnownRun(snapshots, wrapped, run[p])
  /\ \A p \in Procs : Vouched(snapshots, told[p])

\* Histories only grow, and what was genuine stays so.
LEMMA Grow ==
  ASSUME NEW S, NEW W, NEW T, NEW V, S \subseteq T, W \subseteq V
  PROVE  /\ \A n, b : Genuine(S, W, n, b) => Genuine(T, V, n, b)
         /\ \A f : GenuineFiles(S, W, f) => GenuineFiles(T, V, f)
         /\ \A r : KnownRun(S, W, r) => KnownRun(T, V, r)
         /\ \A a : Vouched(S, a) => Vouched(T, a)
         /\ \A d, c : Disk(S, W, d, c) => Disk(T, V, d, c)
  <1>1. \A n, b : Genuine(S, W, n, b) => Genuine(T, V, n, b)
    BY DEF Genuine
  <1>2. \A f : GenuineFiles(S, W, f) => GenuineFiles(T, V, f)
    BY <1>1 DEF GenuineFiles
  <1>3. \A f : KnownBytes(S, W, f) => KnownBytes(T, V, f)
    BY <1>2 DEF KnownBytes
  <1>4. \A w : KnownWrite(S, W, w) => KnownWrite(T, V, w)
    BY <1>1, <1>3 DEF KnownWrite
  <1>5. \A r : KnownRun(S, W, r) => KnownRun(T, V, r)
    BY <1>2, <1>4 DEF KnownRun
  <1>6. \A a : Vouched(S, a) => Vouched(T, a)
    BY Zenon DEF Vouched
  <1>7. \A d, c : Disk(S, W, d, c) => Disk(T, V, d, c)
    BY <1>2, <1>3 DEF Disk
  <1> QED BY <1>1, <1>2, <1>5, <1>6, <1>7

\* Adding a file (With) keeps a file map genuine if the file is.
LEMMA WithGenuine ==
  ASSUME NEW S, NEW W, NEW files, NEW n, NEW b, GenuineFiles(S, W, files), Genuine(S, W, n, b)
  PROVE  GenuineFiles(S, W, With(files, n, b))
  BY DEF GenuineFiles, With

\* Checksums are of the covered files, and taking them again changes nothing.
LEMMA ChecksumsIdempotent ==
  ASSUME NEW files
  PROVE  ComputeChecksums(ComputeChecksums(files)) = ComputeChecksums(files)
  BY DEF ComputeChecksums

LEMMA KnownIdle ==
  ASSUME NEW S, NEW W
  PROVE  KnownRun(S, W, Idle)
  <1>1. Fields \subseteq DOMAIN Idle /\ Idle.stage = "idle"
    BY DEF Idle, Fields
  <1>2. Idle.got = NoFiles /\ Idle.queue = NoFiles
    BY DEF Idle
  <1>3. DOMAIN NoFiles = {}
    BY DEF NoFiles
  <1> QED BY <1>1, <1>2, <1>3 DEF KnownRun, GenuineFiles

LEMMA InitInv == Init => Inv
  <1> SUFFICES ASSUME Init PROVE Inv
    OBVIOUS
  <1>1. PICK s \in Starts : dir = s.dir /\ caps = s.caps /\ snapshots = s.snapshots /\ wrapped = s.wrapped
    BY DEF Init
  <1>2. History(snapshots, wrapped) /\ Disk(snapshots, wrapped, dir, caps)
    BY <1>1, PublishingAssumption DEF PublishingAssumption, History, Disk, KnownBytes
  <1>3. \A p \in Procs : run[p] = Idle /\ told[p] = None
    BY DEF Init
  <1>4. KnownRun(snapshots, wrapped, Idle)
    BY KnownIdle
  <1>5. \A p \in Procs : Vouched(snapshots, told[p])
    BY <1>3 DEF Vouched
  <1>6. DOMAIN run = Procs /\ DOMAIN told = Procs
    BY DEF Init
  <1> QED BY <1>2, <1>3, <1>4, <1>5, <1>6 DEF Inv

\* A step of one run: it alone changes, the histories grow.
LEMMA RunStep ==
  ASSUME Inv, NEW p \in Procs, NEW r, run' = [run EXCEPT ![p] = r],
         UNCHANGED <<dir, caps, told>>, snapshots \subseteq snapshots', wrapped \subseteq wrapped',
         KnownRun(snapshots', wrapped', r), History(snapshots', wrapped')
  PROVE  Inv'
  <1>1. \A q \in Procs : KnownRun(snapshots', wrapped', run'[q])
    BY Grow DEF Inv
  <1>2. \A q \in Procs : Vouched(snapshots', told'[q])
    BY Grow DEF Inv
  <1>3. Disk(snapshots', wrapped', dir', caps')
    BY Grow DEF Inv
  <1>4. DOMAIN run' = Procs /\ DOMAIN told' = Procs
    BY DEF Inv
  <1> QED BY <1>1, <1>2, <1>3, <1>4 DEF Inv

\* A run that fails or is over.
LEMMA FailStep ==
  ASSUME Inv, NEW p \in Procs, Fails(p), UNCHANGED <<dir, caps, told>>,
         snapshots \subseteq snapshots', wrapped \subseteq wrapped', History(snapshots', wrapped')
  PROVE  Inv'
  BY RunStep, KnownIdle DEF Fails

\* A run that has computed what it will write.
LEMMA WriteStep ==
  ASSUME Inv, NEW p \in Procs, NEW queue, WillWrite(p, queue), UNCHANGED <<dir, caps, told>>,
         snapshots \subseteq snapshots', wrapped \subseteq wrapped', History(snapshots', wrapped'),
         \A i \in DOMAIN queue : KnownWrite(snapshots', wrapped', queue[i]),
         run[p].stage # "idle"
  PROVE  Inv'
  <1> DEFINE r == [run[p] EXCEPT !.stage = "writing", !.queue = queue]
  <1>1. run' = [run EXCEPT ![p] = r]
    BY DEF WillWrite, Inv
  <1>2. KnownRun(snapshots', wrapped', run[p])
    BY Grow DEF Inv
  <1>3. KnownRun(snapshots', wrapped', r)
    <2>1. /\ r.op = run[p].op /\ r.key = run[p].key /\ r.cap = run[p].cap /\ r.got = run[p].got
          /\ r.queue = queue /\ DOMAIN r = DOMAIN run[p]
      BY <1>2 DEF KnownRun, Fields
    <2> HIDE DEF r
    <2> QED BY <1>2, <2>1 DEF KnownRun
  <1> HIDE DEF r
  <1> QED BY <1>1, <1>3, RunStep

\* Being disturbed takes nothing from a run but that it is alone.
LEMMA DisturbedKnown ==
  ASSUME NEW S, NEW W, NEW p, NEW q \in Procs, KnownRun(S, W, run[q])
  PROVE  KnownRun(S, W, Disturbed(p)[q])
  <1> DEFINE r == [run[q] EXCEPT !.alone = FALSE]
  <1>1. Disturbed(p)[q] = run[q] \/ Disturbed(p)[q] = r
    BY DEF Disturbed
  <1>2. /\ r.op = run[q].op /\ r.key = run[q].key /\ r.cap = run[q].cap /\ r.got = run[q].got
        /\ r.queue = run[q].queue /\ r.stage = run[q].stage /\ DOMAIN r = DOMAIN run[q]
    BY DEF KnownRun, Fields
  <1> HIDE DEF r
  <1>3. KnownRun(S, W, r)
    BY <1>2 DEF KnownRun
  <1> QED BY <1>1, <1>3

LEMMA EditInv == \A e \in EditSet : Inv /\ Edit(e[1], e[2]) => Inv'
  <1> SUFFICES ASSUME NEW e \in EditSet, Inv, Edit(e[1], e[2]) PROVE Inv'
    OBVIOUS
  <1>1. Genuine(snapshots, wrapped, e[1], e[2])
    BY PublishingAssumption DEF PublishingAssumption, Genuine
  <1>2. GenuineFiles(snapshots, wrapped, dir')
    <2>1. CASE e[2] = None
      BY <2>1 DEF Edit, Inv, Disk, GenuineFiles
    <2>2. CASE e[2] # None
      BY <2>2, <1>1, WithGenuine DEF Edit, Inv, Disk
    <2> QED BY <2>1, <2>2
  <1>3. DOMAIN run' = Procs /\ UNCHANGED <<snapshots, wrapped, caps, told>>
    BY DEF Edit, Disturbed
  <1>4. \A q \in Procs : KnownRun(snapshots, wrapped, run'[q])
    BY DisturbedKnown, PublishingAssumption DEF Edit, Inv
  <1> QED BY <1>2, <1>3, <1>4 DEF Inv, Disk

\* A directory or an archive is picked up by an idle process.
LEMMA StartOnDirectoryInv ==
  ASSUME Inv, NEW p \in Procs, NEW op, NEW k, NEW c, StartOnDirectory(p, op, k, c),
         op = "sign" => k \in Keys,
         op \in {"pack", "encryptDirectory", "encryptCap", "decrypt"} => c # None
  PROVE  Inv'
  <1> DEFINE r == [Idle EXCEPT !.op = op, !.stage = "reading", !.key = k, !.cap = c, !.id = runs + 1,
                               !.todo = {i \in DOMAIN order : order[i] \in DOMAIN dir}, !.alone = TRUE]
  <1>1. run' = [run EXCEPT ![p] = r]
    BY DEF StartOnDirectory
  <1>2. /\ r.op = op /\ r.key = k /\ r.cap = c /\ r.got = Idle.got /\ r.queue = Idle.queue
        /\ DOMAIN r = DOMAIN Idle
    BY DEF Idle
  <1> HIDE DEF r
  <1>3. KnownRun(snapshots', wrapped', Idle)
    BY KnownIdle
  <1>4. KnownRun(snapshots', wrapped', r)
    BY <1>2, <1>3 DEF KnownRun
  <1>5. UNCHANGED <<dir, caps, told, snapshots, wrapped>> /\ History(snapshots', wrapped')
    BY DEF StartOnDirectory, Inv
  <1> QED BY <1>1, <1>4, <1>5, RunStep

LEMMA StartOnCapInv ==
  ASSUME Inv, NEW p \in Procs, NEW op, NEW k, NEW from \in Caps, NEW c,
         StartOnCap(p, op, k, from, c), op # "sign",
         op \in {"pack", "encryptDirectory", "encryptCap", "decrypt"} => c # None
  PROVE  Inv'
  <1> DEFINE r == [Idle EXCEPT !.op = op, !.stage = "reading", !.key = k, !.cap = c, !.id = runs + 1,
                               !.got = caps[from], !.alone = TRUE]
  <1>1. run' = [run EXCEPT ![p] = r]
    BY DEF StartOnCap
  <1>2. /\ r.op = op /\ r.key = k /\ r.cap = c /\ r.got = caps[from] /\ r.queue = Idle.queue
        /\ DOMAIN r = DOMAIN Idle
    BY DEF Idle
  <1> HIDE DEF r
  <1>3. KnownRun(snapshots', wrapped', Idle)
    BY KnownIdle
  <1>4. UNCHANGED <<dir, caps, told, snapshots, wrapped>> /\ History(snapshots', wrapped')
    BY DEF StartOnCap, Inv
  <1>5. GenuineFiles(snapshots', wrapped', r.got)
    BY <1>2, <1>4 DEF StartOnCap, Inv, Disk, KnownBytes
  <1>6. KnownRun(snapshots', wrapped', r)
    BY <1>2, <1>3, <1>5 DEF KnownRun
  <1> QED BY <1>1, <1>4, <1>6, RunStep

LEMMA ReadNextInv == ASSUME Inv, NEW p \in Procs, ReadNext(p) PROVE Inv'
  <1>1. PICK i \in First(run[p].todo) :
          run' = [run EXCEPT ![p] =
            IF order[i] \in DOMAIN dir
            THEN [run[p] EXCEPT !.todo = run[p].todo \ {i}, !.got = With(run[p].got, order[i], dir[order[i]])]
            ELSE Idle]
    BY DEF ReadNext
  <1> DEFINE n == order[i]
             r == [run[p] EXCEPT !.todo = run[p].todo \ {i}, !.got = With(run[p].got, n, dir[n])]
  <1>2. UNCHANGED <<dir, caps, told, snapshots, wrapped>> /\ History(snapshots', wrapped')
    BY DEF ReadNext, Inv
  <1>3. CASE n \notin DOMAIN dir
    <2>1. Fails(p)
      BY <1>1, <1>3 DEF Fails
    <2> QED BY <1>2, <2>1, FailStep
  <1>4. CASE n \in DOMAIN dir
    <2>1. run' = [run EXCEPT ![p] = r]
      BY <1>1, <1>4
    <2>2. KnownRun(snapshots, wrapped, run[p])
      BY DEF Inv
    <2>3. /\ r.op = run[p].op /\ r.key = run[p].key /\ r.cap = run[p].cap /\ r.stage = run[p].stage
          /\ r.queue = run[p].queue /\ DOMAIN r = DOMAIN run[p] /\ r.got = With(run[p].got, n, dir[n])
      BY <2>2 DEF KnownRun, Fields
    <2>4. Genuine(snapshots, wrapped, n, dir[n]) /\ GenuineFiles(snapshots, wrapped, run[p].got)
      BY <1>4, <2>2 DEF Inv, Disk, GenuineFiles, KnownRun
    <2> HIDE DEF r, n
    <2>5. GenuineFiles(snapshots, wrapped, r.got)
      BY <2>3, <2>4, WithGenuine
    <2>6. KnownRun(snapshots', wrapped', r)
      BY <1>2, <2>2, <2>3, <2>5 DEF KnownRun
    <2> QED BY <1>2, <2>1, <2>6, RunStep
  <1> QED BY <1>3, <1>4

\* A snapshot or an envelope is recorded.
LEMMA SnapshotHistory ==
  ASSUME NEW S, NEW W, NEW files, NEW k, History(S, W)
  PROVE  History(S \cup {[files |-> ComputeChecksums(files), key |-> k]}, W)
  <1> DEFINE T == S \cup {[files |-> ComputeChecksums(files), key |-> k]}
  <1>1. \A s \in T : s.files = ComputeChecksums(s.files)
    BY ChecksumsIdempotent DEF History
  <1>2. \A w \in W : GenuineFiles(S, W, w.files)
    BY DEF History
  <1>3. \A w \in W : GenuineFiles(T, W, w.files)
    BY <1>2, Grow
  <1> QED BY <1>1, <1>3 DEF History

LEMMA WrapHistory ==
  ASSUME NEW S, NEW W, NEW files, NEW k, NEW dek, History(S, W), GenuineFiles(S, W, files)
  PROVE  History(S, W \cup {[files |-> files, key |-> k, dek |-> dek]})
  <1> DEFINE V == W \cup {[files |-> files, key |-> k, dek |-> dek]}
  <1>1. \A w \in V : GenuineFiles(S, W, w.files)
    BY DEF History
  <1>2. \A w \in V : GenuineFiles(S, V, w.files)
    BY <1>1, Grow
  <1> QED BY <1>2 DEF History

\* The writes of genuine files, one by one into the directory or at once to an archive.
LEMMA InDirKnown ==
  ASSUME NEW S, NEW W, NEW files, NEW names, GenuineFiles(S, W, files),
         \A i \in DOMAIN names : names[i] \in DOMAIN files
  PROVE  \A i \in DOMAIN InDir(files, names) : KnownWrite(S, W, InDir(files, names)[i])
  BY DEF InDir, KnownWrite, GenuineFiles

LEMMA ToCapKnown ==
  ASSUME NEW S, NEW W, NEW files, NEW p \in Procs, GenuineFiles(S, W, files), run[p].cap # None
  PROVE  \A i \in DOMAIN ToCap(p, files) : KnownWrite(S, W, ToCap(p, files)[i])
  <1>1. DOMAIN ToCap(p, files) = {1} /\ ToCap(p, files)[1].in = run[p].cap /\ ToCap(p, files)[1].bytes = files
    BY DEF ToCap
  <1> QED BY <1>1 DEF KnownWrite, KnownBytes

\* What seal, sign, pack and encrypt compute is genuine once it is recorded.
LEMMA SealKnown ==
  ASSUME NEW S, NEW W, NEW files, NEW k, GenuineFiles(S, W, files),
         [files |-> ComputeChecksums(files), key |-> k] \in S
  PROVE  GenuineFiles(S, W, With(files, Sec, BuildSecurity(files)))
  <1>1. Genuine(S, W, Sec, BuildSecurity(files))
    BY DEF Genuine, BuildSecurity, Sec, Sig, Env, Enc
  <1> QED BY <1>1, WithGenuine

LEMMA SignKnown ==
  ASSUME NEW S, NEW W, NEW files, NEW k \in Keys, GenuineFiles(S, W, files),
         [files |-> ComputeChecksums(SignFiles(files, k)), key |-> k] \in S
  PROVE  GenuineFiles(S, W, SignFiles(files, k))
  <1> DEFINE embedded == With(files, Pub, <<"key", k>>)
             security == WithDigitalSignatures(BuildSecurity(embedded))
             out      == With(embedded, Sec, security)
             sums     == ComputeChecksums(embedded)
             payload  == Payload(out, security)
  <1>1. SignFiles(files, k) = With(out, Sig, <<"sig", k, payload>>)
    BY DEF SignFiles
  <1>2. security = <<"sums", sums, TRUE>>
    BY DEF WithDigitalSignatures, BuildSecurity
  <1>3. ComputeChecksums(SignFiles(files, k)) = sums
    BY <1>1 DEF ComputeChecksums, CoveredByChecksums, With
  <1>4. PICK s \in S : s.files = sums /\ s.key = k
    BY <1>3
  <1>5. sums[Pub] = <<"key", k>>
    BY PublishingAssumption
    DEF PublishingAssumption, ComputeChecksums, CoveredByChecksums, With, Sec, Sig, Pub
  <1>6. GenuineFiles(S, W, embedded)
    <2>1. Genuine(S, W, Pub, <<"key", k>>)
      BY DEF Genuine, Sec, Sig, Pub, Env, Enc
    <2> QED BY <2>1, WithGenuine
  <1>7. GenuineFiles(S, W, out)
    <2>1. Genuine(S, W, Sec, <<"sums", sums, TRUE>>)
      BY <1>4, <1>5 DEF Genuine, Sec, Sig, Env, Enc
    <2> HIDE DEF embedded, security
    <2> QED BY <1>2, <1>6, <2>1, WithGenuine
  <1>8. payload = Payload(sums, BuildSecurity(sums))
    <2>1. security[2] = sums /\ BuildSecurity(sums)[2] = ComputeChecksums(sums)
      BY <1>2 DEF BuildSecurity
    <2>2. ComputeChecksums(sums) = sums
      BY ChecksumsIdempotent
    <2>3. \A n \in DOMAIN sums : out[n] = sums[n]
      BY DEF ComputeChecksums, CoveredByChecksums, With
    <2>4. [n \in DOMAIN sums |-> out[n]] = [n \in DOMAIN sums |-> sums[n]]
      BY <2>3
    <2> HIDE DEF out, sums, security
    <2> QED BY <2>1, <2>2, <2>4 DEF Payload
  <1>9. Genuine(S, W, Sig, <<"sig", k, payload>>)
    BY <1>4, <1>8 DEF Genuine, Sec, Sig, Env, Enc
  <1> HIDE DEF embedded, security, out, sums, payload
  <1> QED BY <1>1, <1>7, <1>9, WithGenuine

LEMMA PackKnown ==
  ASSUME NEW S, NEW W, NEW files, NEW k, GenuineFiles(S, W, files), PackFiles(files) # None,
         [files |-> ComputeChecksums(PackFiles(files)), key |-> k] \in S
  PROVE  GenuineFiles(S, W, PackFiles(files))
  <1>1. PackFiles(files) = With(Generated(files), Sec, BuildSecurity(Generated(files)))
    BY DEF PackFiles
  <1>2. GenuineFiles(S, W, Generated(files))
    <2>1. Genuine(S, W, Manifest, GenerateManifest(files))
      BY DEF Genuine, Manifest, Sec, Sig, Env, Enc
    <2> QED BY <2>1, WithGenuine DEF Generated
  <1>3. ComputeChecksums(PackFiles(files)) = ComputeChecksums(Generated(files))
    BY <1>1 DEF ComputeChecksums, CoveredByChecksums, With
  <1> QED BY <1>1, <1>2, <1>3, SealKnown

LEMMA EncryptKnown ==
  ASSUME NEW S, NEW W, NEW files, NEW k, NEW dek, GenuineFiles(S, W, files), EncryptBytes(files, k, dek) # None,
         [files |-> files, key |-> k, dek |-> dek] \in W
  PROVE  GenuineFiles(S, W, EncryptBytes(files, k, dek))
  <1> DEFINE out == EncryptBytes(files, k, dek)
  <1>1. DOMAIN out = {Meta, Env, Enc} /\ out[Env] = <<"env", k, dek>> /\ out[Enc] = <<"enc", dek, files>>
    BY DEF EncryptBytes, Meta, Env, Enc
  <1>2. Genuine(S, W, Meta, out[Meta])
    BY DEF Genuine, Meta, Env, Enc, Sec, Sig
  <1>3. Genuine(S, W, Env, <<"env", k, dek>>) /\ Genuine(S, W, Enc, <<"enc", dek, files>>)
    BY DEF Genuine, Env, Enc, Sec, Sig
  <1>4. GenuineFiles(S, W, out)
    <2> HIDE DEF out
    <2> QED BY <1>1, <1>2, <1>3 DEF GenuineFiles
  <1> QED BY <1>4

LEMMA DecryptKnown ==
  ASSUME NEW S, NEW W, NEW files, NEW k, GenuineFiles(S, W, files), History(S, W), DecryptFiles(files, k) # None
  PROVE  GenuineFiles(S, W, DecryptFiles(files, k))
  <1>1. DecryptFiles(files, k) = files[Enc][3] /\ Enc \in DOMAIN files /\ files[Enc] # Torn
    BY DEF DecryptFiles, IsEncryptedPackage
  <1>2. PICK w \in W : w.files = files[Enc][3]
    BY <1>1 DEF GenuineFiles, Genuine
  <1> QED BY <1>1, <1>2 DEF History

(***************************************************************************)
(* One lemma per operation                                                  *)
(***************************************************************************)
LEMMA Known ==
  ASSUME Inv, NEW p \in Procs
  PROVE  /\ GenuineFiles(snapshots, wrapped, run[p].got)
         /\ run[p].stage # "idle" /\ run[p].op = "sign" => run[p].key \in Keys
         /\ run[p].stage # "idle" /\ run[p].op \in {"pack", "encryptDirectory", "encryptCap", "decrypt"}
              => run[p].cap # None
         /\ History(snapshots, wrapped)
  BY DEF Inv, KnownRun

LEMMA SealInv == ASSUME Inv, NEW p \in Procs, Seal(p) PROVE Inv'
  <1> DEFINE got == run[p].got
             out == With(got, Sec, BuildSecurity(got))
  <1>1. /\ run[p].stage # "idle" /\ WillWrite(p, InDir(out, <<Sec>>))
        /\ snapshots' = snapshots \cup {[files |-> ComputeChecksums(got), key |-> None]}
        /\ UNCHANGED <<dir, caps, told, wrapped>>
    BY DEF Seal, Ready, Snapshot
  <1>2. GenuineFiles(snapshots, wrapped, got) /\ History(snapshots, wrapped)
    BY Known
  <1>3. Sec \in DOMAIN out
    BY DEF With
  <1> HIDE DEF got, out
  <1>4. History(snapshots', wrapped')
    BY <1>1, <1>2, SnapshotHistory
  <1>5. GenuineFiles(snapshots', wrapped, got)
    BY <1>1, <1>2, Grow
  <1>6. GenuineFiles(snapshots', wrapped', out)
    BY <1>1, <1>5, SealKnown DEF out
  <1>7. \A i \in DOMAIN <<Sec>> : <<Sec>>[i] \in DOMAIN out
    BY <1>3
  <1>8. \A i \in DOMAIN InDir(out, <<Sec>>) : KnownWrite(snapshots', wrapped', InDir(out, <<Sec>>)[i])
    BY <1>6, <1>7, InDirKnown
  <1> QED BY <1>1, <1>4, <1>8, WriteStep

LEMMA SignInv == ASSUME Inv, NEW p \in Procs, Sign(p) PROVE Inv'
  <1> DEFINE got == run[p].got
             k   == run[p].key
             out == SignFiles(got, k)
             names == <<Pub, Sec, Sig>>
  <1>1. /\ run[p].stage # "idle" /\ run[p].op = "sign" /\ WillWrite(p, InDir(out, names))
        /\ snapshots' = snapshots \cup {[files |-> ComputeChecksums(out), key |-> k]}
        /\ UNCHANGED <<dir, caps, told, wrapped>>
    BY DEF Sign, Ready, Snapshot
  <1>2. GenuineFiles(snapshots, wrapped, got) /\ History(snapshots, wrapped) /\ k \in Keys
    BY <1>1, Known
  <1>3. {Pub, Sec, Sig} \subseteq DOMAIN out
    BY DEF With, SignFiles
  <1> HIDE DEF got, out, k
  <1>4. History(snapshots', wrapped')
    BY <1>1, <1>2, SnapshotHistory
  <1>5. GenuineFiles(snapshots', wrapped, got)
    BY <1>1, <1>2, Grow
  <1>6. GenuineFiles(snapshots', wrapped', out)
    BY <1>1, <1>2, <1>5, SignKnown DEF out
  <1>7. \A i \in DOMAIN names : names[i] \in DOMAIN out
    BY <1>3
  <1> HIDE DEF names
  <1>8. \A i \in DOMAIN InDir(out, names) : KnownWrite(snapshots', wrapped', InDir(out, names)[i])
    BY <1>6, <1>7, InDirKnown
  <1> QED BY <1>1, <1>4, <1>8, WriteStep

LEMMA PackInv == ASSUME Inv, NEW p \in Procs, Pack(p) PROVE Inv'
  <1> DEFINE got == run[p].got
             out == PackFiles(got)
  <1>1. CASE out = None
    BY <1>1, FailStep, Known DEF Pack
  <1>2. CASE out # None
    <2>1. /\ run[p].stage # "idle" /\ run[p].op = "pack" /\ WillWrite(p, ToCap(p, out))
          /\ snapshots' = snapshots \cup {[files |-> ComputeChecksums(out), key |-> None]}
          /\ UNCHANGED <<dir, caps, told, wrapped>>
      BY <1>2 DEF Pack, Ready, Snapshot
    <2>2. GenuineFiles(snapshots, wrapped, got) /\ History(snapshots, wrapped) /\ run[p].cap # None
      BY <2>1, Known
    <2> HIDE DEF got, out
    <2>3. History(snapshots', wrapped')
      BY <2>1, <2>2, SnapshotHistory
    <2>4. GenuineFiles(snapshots', wrapped, got)
      BY <2>1, <2>2, Grow
    <2>5. GenuineFiles(snapshots', wrapped', out)
      BY <1>2, <2>1, <2>4, PackKnown DEF out
    <2>6. \A i \in DOMAIN ToCap(p, out) : KnownWrite(snapshots', wrapped', ToCap(p, out)[i])
      BY <2>2, <2>5, ToCapKnown
    <2> QED BY <2>1, <2>3, <2>6, WriteStep
  <1> QED BY <1>1, <1>2

\* An envelope is made of inner, genuine with the snapshots taken on the way.
LEMMA WrapInv ==
  ASSUME Inv, NEW p \in Procs, NEW inner, Wrap(p, inner), UNCHANGED <<dir, caps, told>>,
         run[p].stage # "idle", run[p].cap # None, snapshots \subseteq snapshots',
         History(snapshots', wrapped), GenuineFiles(snapshots', wrapped, inner)
  PROVE  Inv'
  <1> DEFINE k   == run[p].key
             out == EncryptBytes(inner, k, run[p].id)
  <1>1. CASE out = None
    BY <1>1, FailStep DEF Wrap
  <1>2. CASE out # None
    <2>1. WillWrite(p, ToCap(p, out)) /\ wrapped' = wrapped \cup {[files |-> inner, key |-> k, dek |-> run[p].id]}
      BY <1>2 DEF Wrap
    <2> HIDE DEF k
    <2>2. History(snapshots', wrapped')
      BY <2>1, WrapHistory
    <2>3. GenuineFiles(snapshots', wrapped', inner)
      BY <2>1, Grow
    <2>4. GenuineFiles(snapshots', wrapped', out)
      BY <1>2, <2>1, <2>3, EncryptKnown
    <2> HIDE DEF out
    <2>5. \A i \in DOMAIN ToCap(p, out) : KnownWrite(snapshots', wrapped', ToCap(p, out)[i])
      BY <2>4, ToCapKnown
    <2> QED BY <2>1, <2>2, <2>5, WriteStep
  <1> QED BY <1>1, <1>2

LEMMA EncryptDirectoryInv == ASSUME Inv, NEW p \in Procs, EncryptDirectory(p) PROVE Inv'
  <1> DEFINE got == run[p].got
             inner == PackFiles(got)
  <1>1. /\ run[p].stage # "idle" /\ run[p].op = "encryptDirectory" /\ Wrap(p, inner)
        /\ UNCHANGED <<dir, caps, told>>
    BY DEF EncryptDirectory, Ready
  <1>2. GenuineFiles(snapshots, wrapped, got) /\ History(snapshots, wrapped) /\ run[p].cap # None
    BY <1>1, Known
  <1>3. CASE inner = None
    <2>1. Fails(p) /\ UNCHANGED <<snapshots, wrapped>>
      BY <1>1, <1>3 DEF EncryptDirectory, Wrap, EncryptBytes
    <2> QED BY <1>1, <1>2, <2>1, FailStep
  <1>4. CASE inner # None
    <2>1. snapshots' = snapshots \cup {[files |-> ComputeChecksums(inner), key |-> None]}
      BY <1>4 DEF EncryptDirectory, Snapshot
    <2> HIDE DEF got, inner
    <2>2. History(snapshots', wrapped)
      BY <1>2, <2>1, SnapshotHistory
    <2>3. GenuineFiles(snapshots', wrapped, got)
      BY <1>2, <2>1, Grow
    <2>4. GenuineFiles(snapshots', wrapped, inner)
      BY <1>4, <2>1, <2>3, PackKnown DEF inner
    <2> QED BY <1>1, <1>2, <2>1, <2>2, <2>4, WrapInv
  <1> QED BY <1>3, <1>4

LEMMA EncryptCapInv == ASSUME Inv, NEW p \in Procs, EncryptCap(p) PROVE Inv'
  <1>1. /\ run[p].stage # "idle" /\ run[p].op = "encryptCap" /\ Wrap(p, run[p].got)
        /\ UNCHANGED <<dir, caps, told, snapshots>>
    BY DEF EncryptCap, Ready
  <1>2. GenuineFiles(snapshots, wrapped, run[p].got) /\ History(snapshots, wrapped) /\ run[p].cap # None
    BY <1>1, Known
  <1> QED BY <1>1, <1>2, WrapInv

LEMMA DecryptInv == ASSUME Inv, NEW p \in Procs, Decrypt(p) PROVE Inv'
  <1> DEFINE out == DecryptFiles(run[p].got, run[p].key)
  <1>1. /\ run[p].stage # "idle" /\ run[p].op = "decrypt" /\ UNCHANGED <<dir, caps, told, snapshots, wrapped>>
    BY DEF Decrypt, Ready
  <1>2. GenuineFiles(snapshots, wrapped, run[p].got) /\ History(snapshots, wrapped) /\ run[p].cap # None
    BY <1>1, Known
  <1>3. CASE out = None
    BY <1>1, <1>2, <1>3, FailStep DEF Decrypt
  <1>4. CASE out # None
    <2>1. WillWrite(p, ToCap(p, out))
      BY <1>4 DEF Decrypt
    <2>2. GenuineFiles(snapshots, wrapped, out)
      BY <1>2, <1>4, DecryptKnown
    <2> HIDE DEF out
    <2>3. \A i \in DOMAIN ToCap(p, out) : KnownWrite(snapshots, wrapped, ToCap(p, out)[i])
      BY <1>2, <2>2, ToCapKnown
    <2>4. \A i \in DOMAIN ToCap(p, out) : KnownWrite(snapshots', wrapped', ToCap(p, out)[i])
      BY <1>1, <2>3
    <2> QED BY <1>1, <1>2, <2>1, <2>4, WriteStep
  <1> QED BY <1>3, <1>4

LEMMA ExtractInv == ASSUME Inv, NEW p \in Procs, Extract(p) PROVE Inv'
  <1> DEFINE got == run[p].got
             names == ByPath(got)
  <1>1. /\ run[p].stage # "idle" /\ WillWrite(p, InDir(got, names))
        /\ UNCHANGED <<dir, caps, told, snapshots, wrapped>>
    BY DEF Extract, Ready
  <1>2. GenuineFiles(snapshots, wrapped, got) /\ History(snapshots, wrapped)
    BY Known
  <1>3. \A i \in DOMAIN names : names[i] \in DOMAIN got
    BY DEF ByPath
  <1> HIDE DEF got, names
  <1>4. \A i \in DOMAIN InDir(got, names) : KnownWrite(snapshots, wrapped, InDir(got, names)[i])
    BY <1>2, <1>3, InDirKnown
  <1>5. \A i \in DOMAIN InDir(got, names) : KnownWrite(snapshots', wrapped', InDir(got, names)[i])
    BY <1>1, <1>4
  <1> QED BY <1>1, <1>2, <1>5, WriteStep

\* A process reports and is idle again.
LEMMA SaysInv ==
  ASSUME Inv, NEW p \in Procs, NEW files, Says(p, files),
         NEW a, a = [op |-> run[p].op, key |-> run[p].key, files |-> files,
                     encrypted |-> IsEncryptedPackage(run[p].got)],
         files # None => Vouched(snapshots, a)
  PROVE  Inv'
  <1>1. /\ Fails(p) /\ told' = [told EXCEPT ![p] = IF files = None THEN None ELSE a]
        /\ UNCHANGED <<dir, caps, snapshots, wrapped>>
    BY DEF Says
  <1>2. Vouched(snapshots, IF files = None THEN None ELSE a)
    BY DEF Vouched
  <1>3. \A q \in Procs : Vouched(snapshots, told'[q])
    BY <1>1, <1>2 DEF Inv
  <1>4. \A q \in Procs : KnownRun(snapshots, wrapped, run'[q])
    BY <1>1, KnownIdle DEF Inv, Fails
  <1>5. DOMAIN run' = Procs /\ DOMAIN told' = Procs
    BY <1>1 DEF Inv, Fails
  <1> QED BY <1>1, <1>3, <1>4, <1>5 DEF Inv

\* Without an issue the checksums are those of the files, as one snapshot has them.
LEMMA ChecksumsVouch ==
  ASSUME NEW S, NEW W, NEW files, GenuineFiles(S, W, files), History(S, W), Sec \in DOMAIN files,
         files[Sec] # Torn, VerifyIntegrity(files, files[Sec]) = {}
  PROVE  \E s \in S : /\ s.files = ComputeChecksums(files) /\ s.files = files[Sec][2]
                      /\ files[Sec][3] => s.key \in Keys /\ s.files[Pub] = <<"key", s.key>>
  <1> DEFINE sec == files[Sec]
             sums == sec[2]
  <1>1. /\ sec[1] = "sums"
        /\ \E s \in S : s.files = sums /\ (sec[3] => s.key \in Keys /\ s.files[Pub] = <<"key", s.key>>)
    <2>1. Genuine(S, W, Sec, sec)
      BY DEF GenuineFiles
    <2>2. sec # Torn
      OBVIOUS
    <2> HIDE DEF sec
    <2> QED BY <2>1, <2>2 DEF Genuine
  <1>2. sums = ComputeChecksums(sums)
    BY <1>1 DEF History
  <1>3. sec # NoSecurity
    BY <1>1 DEF NoSecurity
  <1>4. /\ \A n \in DOMAIN sums : n \in DOMAIN files /\ files[n] = sums[n]
        /\ \A n \in DOMAIN files \ DOMAIN sums : ~CoveredByChecksums(n)
    <2> HIDE DEF sec, sums
    <2>1. VerifyIntegrity(files, sec) =
            {<<"missing-file", n>> : n \in DOMAIN sums \ DOMAIN files}
              \cup {<<"checksum-mismatch", n>> : n \in {n \in DOMAIN sums \cap DOMAIN files : files[n] # sums[n]}}
              \cup {<<"uncovered-file", n>> : n \in {n \in DOMAIN files \ DOMAIN sums : CoveredByChecksums(n)}}
      BY <1>3 DEF VerifyIntegrity, sums
    <2>2. VerifyIntegrity(files, sec) = {}
      BY DEF sec
    <2>3. \A n \in DOMAIN sums \ DOMAIN files : FALSE
      BY <2>1, <2>2
    <2>4. \A n \in DOMAIN sums \cap DOMAIN files : files[n] = sums[n]
      BY <2>1, <2>2, Zenon
    <2>5. \A n \in DOMAIN files \ DOMAIN sums : ~CoveredByChecksums(n)
      BY <2>1, <2>2, Zenon
    <2> QED BY <2>3, <2>4, <2>5
  <1>5. sums = ComputeChecksums(files)
    <2> HIDE DEF sums, sec
    <2>1. DOMAIN sums = {n \in DOMAIN files : CoveredByChecksums(n)}
      BY <1>2, <1>4 DEF ComputeChecksums
    <2>2. sums = [n \in DOMAIN sums |-> sums[n]]
      BY <1>2 DEF ComputeChecksums
    <2> QED BY <1>4, <2>1, <2>2 DEF ComputeChecksums
  <1> QED BY <1>1, <1>5

\* A file that a signature is checked against is one that its key was used for.
LEMMA SignatureVouches ==
  ASSUME NEW S, NEW W, NEW files, NEW security, GenuineFiles(S, W, files),
         VerifyPackageSignature(files, security)
  PROVE  \E s \in S, k \in Keys :
           /\ s.key = k /\ files[Pub] = <<"key", k>> /\ Pub \in DOMAIN files
           /\ Payload(s.files, BuildSecurity(s.files)) = Payload(files, security)
  <1>1. PICK k \in Keys : SignedBy(files, security, k)
    BY DEF VerifyPackageSignature
  <1> DEFINE sig == files[Sig]
             payload == Payload(files, security)
  <1>2. sig = <<"sig", k, payload>> /\ files[Pub] = <<"key", k>> /\ {Sig, Pub} \subseteq DOMAIN files
    BY <1>1 DEF SignedBy
  <1>3. Genuine(S, W, Sig, sig)
    BY <1>2 DEF GenuineFiles
  <1> HIDE DEF sig, payload
  <1>4. sig # Torn /\ sig[2] = k /\ sig[3] = payload
    BY <1>2 DEF Torn
  <1>5. PICK s \in S : s.key = sig[2] /\ sig[3] = Payload(s.files, BuildSecurity(s.files))
    BY <1>3, <1>4 DEF Genuine
  <1> QED BY <1>2, <1>4, <1>5 DEF payload

LEMMA LoadInv == ASSUME Inv, NEW p \in Procs, Load(p) PROVE Inv'
  <1> DEFINE files == ReadFiles(run[p].got, run[p].key)
             sec   == files[Sec]
             said  == IF files # None /\ (files # None => VerifyModel(files)) THEN files ELSE None
             a     == [op |-> run[p].op, key |-> run[p].key, files |-> said,
                       encrypted |-> IsEncryptedPackage(run[p].got)]
  <1>1. Says(p, said) /\ run[p].op = "load"
    BY DEF Load, Ready
  <1>2. GenuineFiles(snapshots, wrapped, run[p].got) /\ History(snapshots, wrapped)
    BY Known
  <1>3. ASSUME said # None PROVE Vouched(snapshots, a)
    <2>1. said = files /\ files # None /\ VerifyModel(files)
      BY <1>3
    <2>2. Parses(files) /\ GenuineFiles(snapshots, wrapped, files)
      <3>1. CASE IsEncryptedPackage(run[p].got)
        <4>1. files = DecryptFiles(run[p].got, run[p].key) /\ Parses(files)
          BY <2>1, <3>1 DEF ReadFiles
        <4> QED BY <1>2, <2>1, <4>1, DecryptKnown
      <3>2. CASE ~IsEncryptedPackage(run[p].got)
        BY <1>2, <2>1, <3>2 DEF ReadFiles
      <3> QED BY <3>1, <3>2
    <2>3. a.op = "load" /\ a.files = files
      BY <1>1, <2>1
    <2> HIDE DEF files, said, a
    <2>4. CASE Sec \notin DOMAIN files
      <3>1. ~IsPackageSigned(SecurityOf(files))
        BY <2>4 DEF IsPackageSigned, SecurityOf
      <3> QED BY <2>3, <2>4, <3>1 DEF Vouched
    <2>5. CASE Sec \in DOMAIN files
      <3>1. SecurityOf(files) = files[Sec] /\ files[Sec] # Torn
        BY <2>2, <2>5 DEF SecurityOf, Parses
      <3>2. files[Sec] # NoSecurity
        <4>1. Genuine(snapshots, wrapped, Sec, files[Sec])
          BY <2>2, <2>5 DEF GenuineFiles
        <4> QED BY <3>1, <4>1 DEF Genuine, NoSecurity
      <3>3. /\ VerifyIntegrity(files, files[Sec]) = {}
            /\ IsPackageSigned(files[Sec]) => VerifyPackageSignature(files, files[Sec])
        BY <2>1, <3>1, <3>2 DEF VerifyModel
      <3>4. PICK s \in snapshots :
              /\ s.files = ComputeChecksums(files)
              /\ files[Sec][3] => s.key \in Keys /\ s.files[Pub] = <<"key", s.key>>
        BY <1>2, <2>2, <2>5, <3>1, <3>3, ChecksumsVouch
      <3>5. ASSUME IsPackageSigned(files[Sec]) PROVE s.key \in Keys /\ files[Pub] = <<"key", s.key>>
        <4>1. Pub \in DOMAIN files
          BY <2>2, <3>3, <3>5, SignatureVouches
        <4>2. ComputeChecksums(files)[Pub] = files[Pub]
          BY <4>1, PublishingAssumption
          DEF PublishingAssumption, ComputeChecksums, CoveredByChecksums, Sec, Sig, Pub
        <4> QED BY <3>4, <3>5, <4>2 DEF IsPackageSigned
      <3> QED BY <2>3, <3>1, <3>4, <3>5, Zenon DEF Vouched
    <2> QED BY <2>4, <2>5
  <1> HIDE DEF files, said
  <1> QED BY <1>1, <1>3, SaysInv

LEMMA VerifyInv == ASSUME Inv, NEW p \in Procs, Verify(p) PROVE Inv'
  <1> DEFINE got  == run[p].got
             said == IF SecurityOf(got) # Torn /\ VerifyIntegrity(got, SecurityOf(got)) = {} THEN got ELSE None
             a    == [op |-> run[p].op, key |-> run[p].key, files |-> said, encrypted |-> IsEncryptedPackage(got)]
  <1>1. Says(p, said) /\ run[p].op = "verify"
    BY DEF Verify, Ready
  <1>2. GenuineFiles(snapshots, wrapped, got) /\ History(snapshots, wrapped)
    BY Known
  <1>3. ASSUME said # None PROVE Vouched(snapshots, a)
    <2>1. a.op = "verify" /\ a.files = got /\ SecurityOf(got) # Torn /\ VerifyIntegrity(got, SecurityOf(got)) = {}
      BY <1>1, <1>3
    <2> HIDE DEF got, said, a
    <2>2. ASSUME Sec \in DOMAIN got PROVE \E s \in snapshots : s.files = ComputeChecksums(got)
      <3>1. SecurityOf(got) = got[Sec]
        BY <2>2 DEF SecurityOf
      <3> QED BY <1>2, <2>1, <2>2, <3>1, ChecksumsVouch
    <2> QED BY <2>1, <2>2 DEF Vouched
  <1> HIDE DEF said
  <1> QED BY <1>1, <1>3, SaysInv

LEMMA VerifySignatureInv == ASSUME Inv, NEW p \in Procs, VerifySignature(p) PROVE Inv'
  <1> DEFINE got == run[p].got
             security == SecurityOf(got)
             said == IF security \notin {NoSecurity, Torn} /\ IsPackageSigned(security) /\ VerifyPackageSignature(got, security)
                     THEN got ELSE None
             a    == [op |-> run[p].op, key |-> run[p].key, files |-> said, encrypted |-> IsEncryptedPackage(got)]
  <1>1. Says(p, said) /\ run[p].op = "verifySignature"
    BY DEF VerifySignature, Ready
  <1>2. GenuineFiles(snapshots, wrapped, got)
    BY Known
  <1>3. ASSUME said # None PROVE Vouched(snapshots, a)
    <2>1. a.op = "verifySignature" /\ a.files = got /\ VerifyPackageSignature(got, security)
      BY <1>1, <1>3
    <2> HIDE DEF got, said, a
    <2>2. \E s \in snapshots, k \in Keys :
            /\ s.key = k /\ got[Pub] = <<"key", k>>
            /\ Payload(s.files, BuildSecurity(s.files)) = Payload(got, security)
      BY <1>2, <2>1, SignatureVouches
    <2> QED BY <2>1, <2>2, Zenon DEF Vouched
  <1> HIDE DEF said
  <1> QED BY <1>1, <1>3, SaysInv

\* What a write leaves on disk is known if its bytes are.
LEMMA PutKnown ==
  ASSUME NEW S, NEW W, NEW w, NEW bytes, Disk(S, W, dir, caps), Put(w, bytes),
         w.in = None => Genuine(S, W, w.name, bytes), w.in # None => KnownBytes(S, W, bytes)
  PROVE  Disk(S, W, dir', caps')
  <1>1. CASE w.in = None
    <2>1. dir' = With(dir, w.name, bytes) /\ caps' = caps
      BY <1>1 DEF Put
    <2>2. GenuineFiles(S, W, dir')
      BY <1>1, <2>1, WithGenuine DEF Disk
    <2> QED BY <2>1, <2>2 DEF Disk
  <1>2. CASE w.in # None
    BY <1>2 DEF Put, Disk
  <1> QED BY <1>1, <1>2

LEMMA TornKnown ==
  ASSUME NEW S, NEW W, NEW w, Disk(S, W, dir, caps), Put(w, Torn)
  PROVE  Disk(S, W, dir', caps')
  <1>1. Genuine(S, W, w.name, Torn) /\ KnownBytes(S, W, Torn)
    BY DEF Genuine, KnownBytes
  <1> QED BY <1>1, PutKnown

LEMMA FinishKnown ==
  ASSUME NEW S, NEW W, NEW w, Disk(S, W, dir, caps), KnownWrite(S, W, w), Finish(w)
  PROVE  Disk(S, W, dir', caps')
  <1>1. CASE UNCHANGED <<dir, caps>>
    BY <1>1
  <1>2. CASE Put(w, Torn)
    BY <1>2, TornKnown
  <1>3. CASE Put(w, w.bytes)
    <2>1. /\ w.in = None => Genuine(S, W, w.name, w.bytes)
          /\ w.in # None => KnownBytes(S, W, w.bytes)
      BY DEF KnownWrite
    <2> QED BY <1>3, <2>1, PutKnown
  <1> QED BY <1>1, <1>2, <1>3 DEF Finish

\* A step of one run that writes: the others may be disturbed.
LEMMA DiskStep ==
  ASSUME Inv, NEW p \in Procs, NEW w, NEW r, run' = [After(p, w) EXCEPT ![p] = r],
         KnownRun(snapshots, wrapped, r), Disk(snapshots, wrapped, dir', caps'),
         UNCHANGED <<told, snapshots, wrapped>>
  PROVE  Inv'
  <1>1. DOMAIN After(p, w) = Procs
    BY DEF After, Disturbed, Inv
  <1>2. \A q \in Procs : KnownRun(snapshots, wrapped, Disturbed(p)[q])
    BY DisturbedKnown DEF Inv
  <1>3. \A q \in Procs : KnownRun(snapshots, wrapped, After(p, w)[q])
    BY <1>2 DEF After, Inv
  <1>4. \A q \in Procs : KnownRun(snapshots, wrapped, run'[q])
    BY <1>1, <1>3
  <1>5. DOMAIN run' = Procs
    BY <1>1
  <1> QED BY <1>4, <1>5 DEF Inv

LEMMA AfterSelf == ASSUME Inv, NEW p \in Procs, NEW w PROVE After(p, w)[p] = run[p] /\ DOMAIN After(p, w) = Procs
  BY DEF After, Disturbed, Inv

LEMMA OpenInv == ASSUME Inv, NEW p \in Procs, Open(p) PROVE Inv'
  <1> DEFINE r == [run[p] EXCEPT !.stage = "open"]
  <1>1. PICK i \in Due(p) :
          /\ Put(run[p].queue[i], Torn)
          /\ run' = [After(p, run[p].queue[i]) EXCEPT ![p].stage = "open"]
    BY DEF Open
  <1> DEFINE w == run[p].queue[i]
  <1>2. run[p].stage = "writing" /\ UNCHANGED <<told, snapshots, wrapped>>
    BY DEF Open
  <1>3. Disk(snapshots, wrapped, dir', caps')
    BY <1>1, TornKnown DEF Inv
  <1>4. run' = [After(p, w) EXCEPT ![p] = r]
    BY <1>1, AfterSelf
  <1>5. KnownRun(snapshots, wrapped, run[p])
    BY DEF Inv
  <1>6. /\ r.op = run[p].op /\ r.key = run[p].key /\ r.cap = run[p].cap /\ r.got = run[p].got
        /\ r.queue = run[p].queue /\ DOMAIN r = DOMAIN run[p]
    BY <1>5 DEF KnownRun, Fields
  <1> HIDE DEF r, w
  <1>7. KnownRun(snapshots, wrapped, r)
    BY <1>2, <1>5, <1>6 DEF KnownRun
  <1> QED BY <1>2, <1>3, <1>4, <1>7, DiskStep

LEMMA WriteInv == ASSUME Inv, NEW p \in Procs, Write(p) PROVE Inv'
  <1>1. PICK i \in Due(p) :
          /\ Finish(run[p].queue[i])
          /\ run' = [After(p, run[p].queue[i]) EXCEPT ![p] =
                       IF DOMAIN run[p].queue \ {i} = {} THEN Idle
                       ELSE [run[p] EXCEPT !.stage = "writing",
                                           !.queue = [j \in DOMAIN run[p].queue \ {i} |-> run[p].queue[j]]]]
    BY DEF Write
  <1> DEFINE w    == run[p].queue[i]
             rest == [j \in DOMAIN run[p].queue \ {i} |-> run[p].queue[j]]
             on   == [run[p] EXCEPT !.stage = "writing", !.queue = rest]
             r    == IF DOMAIN run[p].queue \ {i} = {} THEN Idle ELSE on
  <1>2. run[p].stage = "open" /\ UNCHANGED <<told, snapshots, wrapped>>
    BY DEF Write
  <1>3. KnownRun(snapshots, wrapped, run[p]) /\ Disk(snapshots, wrapped, dir, caps)
    BY DEF Inv
  <1>4. Disk(snapshots, wrapped, dir', caps')
    <2>1. KnownWrite(snapshots, wrapped, w)
      BY <1>3 DEF KnownRun, Due, First
    <2> QED BY <1>1, <1>3, <2>1, FinishKnown
  <1>5. KnownRun(snapshots, wrapped, on)
    <2>1. /\ on.op = run[p].op /\ on.key = run[p].key /\ on.cap = run[p].cap /\ on.got = run[p].got
          /\ on.queue = rest /\ DOMAIN on = DOMAIN run[p]
      BY <1>3 DEF KnownRun, Fields
    <2>2. \A j \in DOMAIN rest : KnownWrite(snapshots, wrapped, rest[j])
      BY <1>3 DEF KnownRun
    <2> HIDE DEF on, rest
    <2> QED BY <1>2, <1>3, <2>1, <2>2 DEF KnownRun
  <1>6. KnownRun(snapshots, wrapped, r)
    BY <1>5, KnownIdle
  <1>7. run' = [After(p, w) EXCEPT ![p] = r]
    BY <1>1
  <1> HIDE DEF r, w
  <1> QED BY <1>2, <1>4, <1>6, <1>7, DiskStep

LEMMA StopInv == ASSUME Inv, NEW p \in Procs, Stop(p) PROVE Inv'
  <1>1. Fails(p) /\ UNCHANGED <<dir, caps, told, snapshots, wrapped>>
    BY DEF Stop, Fails
  <1> QED BY <1>1, Known, FailStep

(***************************************************************************)
(* The theorems                                                             *)
(***************************************************************************)
LEMMA StartInv ==
  ASSUME Inv, NEW p \in Procs, NEW k \in Keys, NEW c \in Caps,
         \/ \E op \in {"seal", "verify", "verifySignature"} : StartOnDirectory(p, op, None, None)
         \/ StartOnDirectory(p, "sign", k, None)
         \/ \E given \in {None, k} : StartOnDirectory(p, "load", given, None)
         \/ StartOnDirectory(p, "pack", None, c) \/ StartOnDirectory(p, "encryptDirectory", k, c)
         \/ \E from \in Caps :
              \/ \E op \in {"extract", "verify", "verifySignature"} : StartOnCap(p, op, None, from, None)
              \/ \E given \in {None, k} : StartOnCap(p, "load", given, from, None)
              \/ \E op \in {"encryptCap", "decrypt"} : StartOnCap(p, op, k, from, c)
  PROVE  Inv'
  <1>1. c # None
    BY PublishingAssumption DEF PublishingAssumption
  <1> DEFINE writers == {"pack", "encryptDirectory", "encryptCap", "decrypt"}
  <1>2. ASSUME NEW op \in {"seal", "verify", "verifySignature"}, StartOnDirectory(p, op, None, None) PROVE Inv'
    <2>1. op # "sign" /\ op \notin writers
      OBVIOUS
    <2> QED BY <1>2, <2>1, StartOnDirectoryInv
  <1>3. ASSUME NEW op \in {"sign", "load"}, NEW key, op = "sign" => key \in Keys, StartOnDirectory(p, op, key, None)
        PROVE  Inv'
    <2>1. op \notin writers
      OBVIOUS
    <2> QED BY <1>3, <2>1, StartOnDirectoryInv
  <1>4. ASSUME NEW op \in {"pack", "encryptDirectory"}, NEW key, StartOnDirectory(p, op, key, c) PROVE Inv'
    <2>1. op # "sign"
      OBVIOUS
    <2> QED BY <1>1, <1>4, <2>1, StartOnDirectoryInv
  <1>5. ASSUME NEW op \in {"extract", "verify", "verifySignature", "load"}, NEW key, NEW from \in Caps,
               StartOnCap(p, op, key, from, None)
        PROVE  Inv'
    <2>1. op # "sign" /\ op \notin writers
      OBVIOUS
    <2> QED BY <1>5, <2>1, StartOnCapInv
  <1>6. ASSUME NEW op \in {"encryptCap", "decrypt"}, NEW from \in Caps, StartOnCap(p, op, k, from, c) PROVE Inv'
    <2>1. op # "sign"
      OBVIOUS
    <2> QED BY <1>1, <1>6, <2>1, StartOnCapInv
  <1> QED BY <1>2, <1>3, <1>4, <1>5, <1>6, Zenon

LEMMA NextInv == Inv /\ [Next]_vars => Inv'
  <1> SUFFICES ASSUME Inv, [Next]_vars PROVE Inv'
    OBVIOUS
  <1>1. CASE UNCHANGED vars
    BY <1>1 DEF vars, Inv
  <1>2. ASSUME NEW p \in Procs, ReadNext(p) \/ Open(p) \/ Write(p) \/ Stop(p)
        PROVE  Inv'
    BY <1>2, ReadNextInv, OpenInv, WriteInv, StopInv
  <1>3. ASSUME NEW p \in Procs,
               Seal(p) \/ Sign(p) \/ Pack(p) \/ EncryptDirectory(p) \/ EncryptCap(p) \/ Decrypt(p) \/ Extract(p)
        PROVE  Inv'
    BY <1>3, SealInv, SignInv, PackInv, EncryptDirectoryInv, EncryptCapInv, DecryptInv, ExtractInv
  <1>4. ASSUME NEW p \in Procs, Load(p) \/ Verify(p) \/ VerifySignature(p)
        PROVE  Inv'
    BY <1>4, LoadInv, VerifyInv, VerifySignatureInv
  <1>5. ASSUME NEW e \in EditSet, Edit(e[1], e[2])
        PROVE  Inv'
    BY <1>5, EditInv
  <1> QED BY <1>1, <1>2, <1>3, <1>4, <1>5, StartInv DEF Next

\* Every security.json, signature and payload, wherever it is, was computed by a run,
\* and every report was of files that what was computed vouches for.
THEOREM Computed == Spec => []Inv
  <1> QED BY InitInv, NextInv, PTL DEF Spec

\* For any number of processes, edits, archives and stops: files that are served or reported
\* valid under checksums are, all of them, what one run saw (verifyModel, verifyIntegrity).
THEOREM OneSnapshot == Spec => []ServedAsSealed
  <1>1. Inv => ServedAsSealed
    BY Zenon DEF Inv, Vouched, ServedAsSealed, Told
  <1> QED BY <1>1, Computed, PTL

\* ... and files served as signed are what the holder of the key they embed signed.
THEOREM OneSigner == Spec => []ServedAsSigned
  <1>1. Inv => ServedAsSigned
    BY Zenon DEF Inv, Vouched, ServedAsSigned, Told
  <1> QED BY <1>1, Computed, PTL
===============================================================================
