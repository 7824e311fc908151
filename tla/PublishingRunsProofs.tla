-------------------------- MODULE PublishingRunsProofs --------------------------
(***************************************************************************)
(* What runs leave behind, for any number of processes, runs, edits and     *)
(* archives and a stop anywhere: archives that pass the checks they         *)
(* declare, envelopes that open to what was put in them, and a directory    *)
(* that passes the gates once a seal or sign run has ended undisturbed.     *)
(***************************************************************************)
EXTENDS PublishingProofs

(***************************************************************************)
(* The inductive invariant                                                  *)
(***************************************************************************)
WholeBytes(bytes) == bytes \notin {None, Torn} => Whole(bytes)

\* A run is idle, or reads what it has listed or opened, or has writes left.
RunOK(o, r) ==
  /\ r.stage \in {"idle", "reading", "writing", "open"}
  /\ r.stage = "idle" => r = Idle
  /\ r.todo \subseteq DOMAIN o /\ {o[i] : i \in r.todo} \cap DOMAIN r.got = {}
  /\ r.stage = "reading" /\ r.op \in {"extract", "encryptCap", "decrypt"} => Whole(r.got) /\ r.todo = {}
  /\ r.stage \in {"writing", "open"} <=> DOMAIN r.queue # {}
  /\ DOMAIN r.queue \subseteq Nat
  /\ \A i \in DOMAIN r.queue :
       IF r.queue[i].in = None THEN r.queue[i].name \in Names ELSE WholeBytes(r.queue[i].bytes)

\* The directory a seal or sign run is making.
Target(r) ==
  IF r.op = "seal" THEN With(r.got, Sec, BuildSecurity(r.got)) ELSE SignFiles(r.got, r.key)

\* Of a seal or sign run nobody disturbed: what it read is what is there, what it has not
\* yet written is all that differs from its target, and what it is writing is torn.
QueueOf(r) ==
  /\ \A i \in DOMAIN r.queue : /\ r.queue[i].in = None /\ r.queue[i].name \in DOMAIN Target(r)
                               /\ r.queue[i].bytes = Target(r)[r.queue[i].name]
  /\ \A i, j \in DOMAIN r.queue : r.queue[i].name = r.queue[j].name => i = j
Queued(r) == {r.queue[i].name : i \in DOMAIN r.queue}
AloneOK(o, d, r) ==
  r.alone /\ r.op \in {"seal", "sign"} =>
    /\ r.stage = "reading" => /\ \A n \in DOMAIN r.got : n \in DOMAIN d /\ d[n] = r.got[n]
                              /\ \A n \in DOMAIN d \ DOMAIN r.got : \E i \in r.todo : n = o[i]
    /\ r.stage \in {"writing", "open"} =>
         /\ QueueOf(r)
         /\ DOMAIN d \ Queued(r) = DOMAIN Target(r) \ Queued(r)
         /\ \A n \in DOMAIN d \ Queued(r) : d[n] = Target(r)[n]
    /\ r.stage = "open" => \A i \in First(DOMAIN r.queue) :
                             r.queue[i].name \in DOMAIN d /\ d[r.queue[i].name] = Torn

\* Every envelope has its own dek, and a run that may still draw one has none of them.
Deks ==
  /\ runs \in 0 .. MaxRuns
  /\ \A w, v \in wrapped : w.dek = v.dek => w = v
  /\ \A w \in wrapped : w.dek \in 1 .. MaxRuns => w.dek <= runs
  /\ \A p \in Procs : run[p].stage = "reading" =>
       run[p].id \in 1 .. runs /\ \A w \in wrapped : w.dek # run[p].id
  /\ \A p, q \in Procs :
       run[p].stage = "reading" /\ run[q].stage = "reading" /\ run[p].id = run[q].id => p = q

Opened(W, a) ==
  a # None => (a.op = "load" /\ a.encrypted => \E w \in W : w.files = a.files /\ w.key = a.key)

DiskOK ==
  /\ DOMAIN dir \subseteq Names
  /\ \A c \in Caps : WholeBytes(caps[c])
  /\ settled => VerifyModel(dir)
  /\ edits \in 0 .. MaxEdits
Left ==
  /\ order \in ReadOrders
  /\ DiskOK
  /\ Deks
  /\ \A w \in wrapped : Whole(w.files)
  /\ \A p \in Procs : RunOK(order, run[p]) /\ AloneOK(order, dir, run[p])
  /\ \A p \in Procs : Opened(wrapped, told[p])

(***************************************************************************)
(* Steps and frames                                                         *)
(***************************************************************************)
LEMMA OrderFacts ==
  ASSUME NEW o \in ReadOrders \cup {Order}
  PROVE  /\ DOMAIN o \subseteq Nat
         /\ \A i \in DOMAIN o : o[i] \in Names
         /\ \A n \in Names : \E i \in DOMAIN o : o[i] = n
         /\ \A i, j \in DOMAIN o : o[i] = o[j] => i = j
  <1>1. o \in Seq(Names) /\ ToSet(o) = Names /\ IsInjective(o)
    BY PublishingAssumption DEF PublishingAssumption
  <1>2. DOMAIN o \subseteq Nat /\ \A i \in DOMAIN o : o[i] \in Names
    BY <1>1
  <1>3. \A n \in Names : \E i \in DOMAIN o : o[i] = n
    BY <1>1 DEF ToSet
  <1>4. \A i, j \in DOMAIN o : o[i] = o[j] => i = j
    BY <1>1 DEF IsInjective
  <1> QED BY <1>2, <1>3, <1>4

LEMMA IdleOK == \A o : RunOK(o, Idle) /\ \A d : AloneOK(o, d, Idle)
  <1>1. /\ Idle.stage = "idle" /\ Idle.op = None /\ Idle.todo = {} /\ Idle.alone = FALSE
        /\ Idle.queue = NoFiles /\ Idle.got = NoFiles
    BY DEF Idle
  <1>2. DOMAIN NoFiles = {}
    BY DEF NoFiles
  <1> QED BY <1>1, <1>2 DEF RunOK, AloneOK

LEMMA InitLeft == Init => Left
  <1> SUFFICES ASSUME Init PROVE Left
    OBVIOUS
  <1>1. PICK s \in Starts : dir = s.dir /\ caps = s.caps /\ snapshots = s.snapshots /\ wrapped = s.wrapped
    BY DEF Init
  <1>2. /\ DOMAIN s.dir \subseteq Names /\ DOMAIN s.caps = Caps
        /\ \A c \in Caps : s.caps[c] \notin {None, Torn} => Whole(s.caps[c])
        /\ \A w \in s.wrapped : /\ Whole(w.files) /\ w.dek \notin 1 .. MaxRuns
                                 /\ \A v \in s.wrapped : v.dek = w.dek => v = w
    BY PublishingAssumption DEF PublishingAssumption
  <1>3. MaxEdits \in Nat /\ MaxRuns \in Nat
    BY PublishingAssumption DEF PublishingAssumption
  <1>4. DiskOK
    BY <1>1, <1>2, <1>3 DEF DiskOK, WholeBytes, Init
  <1>5. \A p \in Procs : run[p] = Idle /\ told[p] = None
    BY DEF Init
  <1>6. Deks
    <2>1. \A p \in Procs : run[p].stage # "reading"
      BY <1>5 DEF Idle
    <2>2. runs \in 0 .. MaxRuns
      BY <1>3 DEF Init
    <2> QED BY <1>1, <1>2, <2>1, <2>2 DEF Deks
  <1>7. order \in ReadOrders
    BY DEF Init
  <1> QED BY <1>1, <1>2, <1>4, <1>5, <1>6, <1>7, IdleOK DEF Left, Opened

\* What a step of p does to another run: nothing where the directory stays, or it disturbs it.
Others(p) ==
  \A q \in Procs \ {p} : \/ run'[q] = run[q] /\ dir' = dir
                         \/ run'[q] = [run[q] EXCEPT !.alone = FALSE]

LEMMA DisturbedOK ==
  ASSUME NEW o, NEW s, Fields \subseteq DOMAIN s, RunOK(o, s), NEW r, r = [s EXCEPT !.alone = FALSE]
  PROVE  /\ RunOK(o, r) /\ r.stage = s.stage /\ r.id = s.id
         /\ \A d : AloneOK(o, d, r)
  <1>1. /\ r.stage = s.stage /\ r.id = s.id /\ r.todo = s.todo /\ r.got = s.got /\ r.op = s.op
        /\ r.queue = s.queue /\ r.alone = FALSE
    BY DEF Fields
  <1>2. s = Idle => r = Idle
    <2>1. Idle = [x \in DOMAIN Idle |-> Idle[x]] /\ Idle.alone = FALSE
      BY DEF Idle
    <2>2. \A f : f = [x \in DOMAIN f |-> f[x]] /\ f.alone = FALSE => [f EXCEPT !.alone = FALSE] = f
      OBVIOUS
    <2> QED BY <2>1, <2>2
  <1>3. \A d : AloneOK(o, d, r)
    BY <1>1 DEF AloneOK
  <1>4. RunOK(o, r)
    <2> HIDE DEF Idle
    <2> QED BY <1>1, <1>2 DEF RunOK
  <1> QED BY <1>1, <1>3, <1>4

LEMMA OthersKept ==
  ASSUME Inv, Left, NEW p \in Procs, Others(p), NEW q \in Procs \ {p}
  PROVE  /\ RunOK(order, run'[q]) /\ AloneOK(order, dir', run'[q])
         /\ run'[q].stage = run[q].stage /\ run'[q].id = run[q].id
  <1>1. Fields \subseteq DOMAIN run[q] /\ RunOK(order, run[q]) /\ AloneOK(order, dir, run[q])
    BY DEF Inv, Left, KnownRun
  <1>2. CASE run'[q] = run[q] /\ dir' = dir
    BY <1>1, <1>2
  <1>3. CASE run'[q] = [run[q] EXCEPT !.alone = FALSE]
    BY <1>1, <1>3, DisturbedOK
  <1> QED BY <1>2, <1>3 DEF Others

\* A step of p leaves everything as it should if it leaves its own part so.
LEMMA LeftStep ==
  ASSUME Inv, Left, NEW p \in Procs, Others(p), order' = order, DiskOK', Deks',
         \A w \in wrapped' : Whole(w.files), RunOK(order, run'[p]), AloneOK(order, dir', run'[p]),
         \A q \in Procs : Opened(wrapped', told'[q])
  PROVE  Left'
  <1>1. order' \in ReadOrders
    BY DEF Left
  <1>2. \A q \in Procs : RunOK(order', run'[q]) /\ AloneOK(order', dir', run'[q])
    BY OthersKept
  <1> QED BY <1>1, <1>2 DEF Left

\* Nothing happens to the deks when a run goes on reading or stops.
LEMMA DeksKept ==
  ASSUME Inv, Left, NEW p \in Procs, Others(p), UNCHANGED <<runs, wrapped>>,
         run'[p].stage = "reading" => run[p].stage = "reading" /\ run'[p].id = run[p].id
  PROVE  Deks'
  <1>1. \A q \in Procs : run'[q].stage = "reading" => run[q].stage = "reading" /\ run'[q].id = run[q].id
    BY OthersKept
  <1> QED BY <1>1 DEF Deks, Left

\* A run that only computes.
LEMMA QuietStep ==
  ASSUME Inv, Left, NEW p \in Procs, NEW r, run' = [run EXCEPT ![p] = r],
         UNCHANGED <<dir, caps, order, edits, settled>>
  PROVE  Others(p) /\ run'[p] = r /\ order' = order /\ DiskOK'
  BY DEF Others, Inv, Left, DiskOK

LEMMA ComputeStep ==
  ASSUME Inv, Left, NEW p \in Procs, NEW r, run' = [run EXCEPT ![p] = r],
         UNCHANGED <<dir, caps, order, edits, settled, runs, wrapped, told>>,
         RunOK(order, r), AloneOK(order, dir, r),
         r.stage = "reading" => run[p].stage = "reading" /\ r.id = run[p].id
  PROVE  Left'
  <1>1. Others(p) /\ run'[p] = r /\ DiskOK'
    BY QuietStep
  <1>2. Deks'
    BY <1>1, DeksKept
  <1>3. \A w \in wrapped' : Whole(w.files)
    BY DEF Left
  <1>4. \A q \in Procs : Opened(wrapped', told'[q])
    BY DEF Left
  <1> QED BY <1>1, <1>2, <1>3, <1>4, LeftStep

\* A run that fails, reports or is killed.
LEMMA EndStep ==
  ASSUME Inv, Left, NEW p \in Procs, Fails(p),
         UNCHANGED <<dir, caps, order, edits, settled, runs, wrapped, told>>
  PROVE  Left'
  <1>1. Idle.stage = "idle"
    BY DEF Idle
  <1> QED BY <1>1, ComputeStep, IdleOK DEF Fails

(***************************************************************************)
(* What the packager computes passes the gates                              *)
(***************************************************************************)
LEMMA IntegrityHolds ==
  ASSUME NEW files, NEW security, security # NoSecurity, security[2] = ComputeChecksums(files)
  PROVE  VerifyIntegrity(files, security) = {}
  <1> DEFINE sums == security[2]
  <1>1. DOMAIN sums = {n \in DOMAIN files : CoveredByChecksums(n)} /\ \A n \in DOMAIN sums : sums[n] = files[n]
    BY DEF ComputeChecksums
  <1> HIDE DEF sums
  <1>2. DOMAIN sums \ DOMAIN files = {}
    BY <1>1
  <1>3. {n \in DOMAIN sums \cap DOMAIN files : files[n] # sums[n]} = {}
    BY <1>1
  <1>4. {n \in DOMAIN files \ DOMAIN sums : CoveredByChecksums(n)} = {}
    BY <1>1
  <1>5. VerifyIntegrity(files, security) =
          {<<"missing-file", n>> : n \in DOMAIN sums \ DOMAIN files}
            \cup {<<"checksum-mismatch", n>> : n \in {n \in DOMAIN sums \cap DOMAIN files : files[n] # sums[n]}}
            \cup {<<"uncovered-file", n>> : n \in {n \in DOMAIN files \ DOMAIN sums : CoveredByChecksums(n)}}
    BY DEF VerifyIntegrity, sums
  <1> QED BY <1>2, <1>3, <1>4, <1>5

LEMMA SealVerifies ==
  ASSUME NEW files
  PROVE  LET out == With(files, Sec, BuildSecurity(files))
         IN SecurityOf(out) = BuildSecurity(files) /\ BuildSecurity(files) # NoSecurity /\ VerifyModel(out)
  <1> DEFINE security == BuildSecurity(files)
             out == With(files, Sec, security)
  <1>1. security[2] = ComputeChecksums(files) /\ security[3] = FALSE /\ security # NoSecurity
    BY DEF BuildSecurity, NoSecurity
  <1>2. ComputeChecksums(out) = ComputeChecksums(files)
    BY DEF ComputeChecksums, CoveredByChecksums, With
  <1> HIDE DEF security
  <1>3. SecurityOf(out) = security
    BY DEF SecurityOf, With
  <1> HIDE DEF out
  <1>4. VerifyIntegrity(out, security) = {}
    BY <1>1, <1>2, IntegrityHolds
  <1>5. VerifyModel(out)
    BY <1>1, <1>3, <1>4 DEF VerifyModel, IsPackageSigned
  <1> QED BY <1>1, <1>3, <1>5 DEF out, security

LEMMA SignVerifies ==
  ASSUME NEW files, NEW k \in Keys
  PROVE  VerifyModel(SignFiles(files, k))
  <1> DEFINE embedded == With(files, Pub, <<"key", k>>)
             sums     == ComputeChecksums(embedded)
             security == WithDigitalSignatures(BuildSecurity(embedded))
             signed   == With(embedded, Sec, security)
             payload  == Payload(signed, security)
             out      == With(signed, Sig, <<"sig", k, payload>>)
  <1>1. SignFiles(files, k) = out
    BY DEF SignFiles
  <1>2. security = <<"sums", sums, TRUE>>
    BY DEF WithDigitalSignatures, BuildSecurity
  <1>3. ComputeChecksums(out) = sums
    BY DEF ComputeChecksums, CoveredByChecksums, With
  <1>4. DOMAIN sums \subseteq DOMAIN embedded \ {Sec, Sig}
    BY DEF ComputeChecksums, CoveredByChecksums
  <1>5. Pub \in DOMAIN embedded /\ embedded[Pub] = <<"key", k>>
    BY DEF With
  <1> HIDE DEF embedded, sums, security
  <1>6. /\ DOMAIN out = DOMAIN embedded \cup {Sec, Sig} /\ out[Sec] = security
        /\ out[Sig] = <<"sig", k, payload>> /\ out[Pub] = <<"key", k>>
    BY <1>5 DEF With, Sec, Sig, Pub
  <1>7. \A n \in DOMAIN sums : out[n] = signed[n]
    BY <1>4, <1>6 DEF With
  <1>8. security[2] = sums /\ security[3] = TRUE /\ security # NoSecurity
    BY <1>2 DEF NoSecurity
  <1> HIDE DEF out, signed
  <1>9. payload = Payload(out, security)
    <2>1. [n \in DOMAIN sums |-> out[n]] = [n \in DOMAIN sums |-> signed[n]]
      BY <1>7
    <2> QED BY <1>8, <2>1 DEF Payload
  <1>10. SecurityOf(out) = security
    BY <1>6 DEF SecurityOf
  <1>11. SignedBy(out, security, k)
    BY <1>4, <1>5, <1>6, <1>8, <1>9 DEF SignedBy
  <1>12. VerifyIntegrity(out, security) = {}
    BY <1>3, <1>8, IntegrityHolds
  <1>13. VerifyModel(out)
    BY <1>10, <1>11, <1>12 DEF VerifyModel, VerifyPackageSignature
  <1> QED BY <1>1, <1>13

LEMMA PackWhole ==
  ASSUME NEW files, PackFiles(files) # None
  PROVE  Whole(PackFiles(files))
  <1> DEFINE listed == Generated(files)
             out    == With(listed, Sec, BuildSecurity(listed))
  <1>1. PackFiles(files) = out /\ Parses(files)
    BY DEF PackFiles
  <1>2. Parses(listed)
    BY <1>1 DEF Parses, Generated, With, GenerateManifest, Manifest, Meta, Sec, Torn
  <1> HIDE DEF listed
  <1>3. SecurityOf(out) = BuildSecurity(listed) /\ BuildSecurity(listed) # NoSecurity /\ VerifyModel(out)
    BY SealVerifies
  <1>4. Parses(out)
    <2>1. BuildSecurity(listed) # Torn
      BY DEF BuildSecurity, Torn
    <2> QED BY <1>2, <2>1 DEF Parses, With, Manifest, Meta, Sec
  <1> HIDE DEF out
  <1> QED BY <1>1, <1>3, <1>4 DEF Whole

LEMMA EncryptWhole ==
  ASSUME NEW files, NEW k, NEW dek, EncryptBytes(files, k, dek) # None
  PROVE  files # None /\ Whole(EncryptBytes(files, k, dek))
  <1>1. files # None /\ DOMAIN EncryptBytes(files, k, dek) = {Meta, Env, Enc}
    BY DEF EncryptBytes
  <1> QED BY <1>1 DEF Whole, IsEncryptedPackage

\* What a payload opens to was wrapped, and under which dek.
LEMMA DecryptWrapped ==
  ASSUME NEW S, NEW W, NEW files, NEW k, GenuineFiles(S, W, files), DecryptFiles(files, k) # None,
         \A w, v \in W : w.dek = v.dek => w = v
  PROVE  \E w \in W : w.files = DecryptFiles(files, k) /\ w.key = k
  <1>1. /\ DecryptFiles(files, k) = files[Enc][3] /\ files[Env][2] = k /\ files[Env][3] = files[Enc][2]
        /\ {Enc, Env} \subseteq DOMAIN files /\ files[Env] # Torn /\ files[Enc] # Torn
    BY DEF DecryptFiles, IsEncryptedPackage
  <1>2. PICK w \in W : w.dek = files[Enc][2] /\ w.files = files[Enc][3]
    BY <1>1 DEF GenuineFiles, Genuine
  <1>3. PICK v \in W : v.key = files[Env][2] /\ v.dek = files[Env][3]
    BY <1>1 DEF GenuineFiles, Genuine
  <1> QED BY <1>1, <1>2, <1>3

(***************************************************************************)
(* One lemma per operation                                                  *)
(***************************************************************************)
LEMMA EditLeft == \A e \in EditSet : Inv /\ Left /\ Edit(e[1], e[2]) => Left'
  <1> SUFFICES ASSUME NEW e \in EditSet, Inv, Left, Edit(e[1], e[2]) PROVE Left'
    OBVIOUS
  <1>1. e[1] \in Names /\ None \notin Procs /\ MaxEdits \in Nat
    BY PublishingAssumption DEF PublishingAssumption
  <1>2. /\ UNCHANGED <<caps, told, order, runs, wrapped>> /\ edits < MaxEdits /\ edits' = edits + 1
        /\ settled' = FALSE /\ run' = Disturbed(None) /\ edits \in 0 .. MaxEdits
    BY DEF Edit, Left, DiskOK
  <1>3. DOMAIN dir' \subseteq Names
    <2>1. CASE e[2] = None
      BY <2>1 DEF Edit, Left, DiskOK
    <2>2. CASE e[2] # None
      BY <2>2, <1>1 DEF Edit, Left, DiskOK, With
    <2> QED BY <2>1, <2>2
  <1>4. DiskOK'
    BY <1>1, <1>2, <1>3 DEF DiskOK, Left
  <1>5. \A q \in Procs : run'[q] = [run[q] EXCEPT !.alone = FALSE]
    BY <1>1, <1>2 DEF Disturbed
  <1>6. \A q \in Procs : /\ RunOK(order, run'[q]) /\ AloneOK(order, dir', run'[q])
                         /\ run'[q].stage = run[q].stage /\ run'[q].id = run[q].id
    <2> SUFFICES ASSUME NEW q \in Procs
                 PROVE  /\ RunOK(order, run'[q]) /\ AloneOK(order, dir', run'[q])
                        /\ run'[q].stage = run[q].stage /\ run'[q].id = run[q].id
      OBVIOUS
    <2>1. Fields \subseteq DOMAIN run[q] /\ RunOK(order, run[q])
      BY DEF Inv, Left, KnownRun
    <2> QED BY <1>5, <2>1, DisturbedOK
  <1>7. Deks'
    BY <1>2, <1>6 DEF Deks, Left
  <1> QED BY <1>2, <1>4, <1>6, <1>7 DEF Left

\* A run that begins draws the next dek.
LEMMA DeksStart ==
  ASSUME Inv, Left, NEW p \in Procs, NEW r, run' = [run EXCEPT ![p] = r], r.id = runs + 1,
         runs < MaxRuns, runs' = runs + 1, wrapped' = wrapped
  PROVE  Deks'
  <1>1. MaxRuns \in Nat /\ runs \in 0 .. MaxRuns /\ Deks
    BY PublishingAssumption DEF PublishingAssumption, Left, Deks
  <1>2. run'[p] = r /\ \A q \in Procs \ {p} : run'[q] = run[q]
    BY DEF Inv
  <1>3. runs' \in 0 .. MaxRuns /\ runs + 1 \in 1 .. MaxRuns /\ runs + 1 \in 1 .. runs'
    BY <1>1
  <1>4. \A w \in wrapped : w.dek # runs + 1
    <2> SUFFICES ASSUME NEW w \in wrapped, w.dek = runs + 1 PROVE FALSE
      OBVIOUS
    <2>1. w.dek <= runs
      BY <1>1, <1>3 DEF Deks
    <2> QED BY <1>1, <2>1
  <1>5. \A w \in wrapped : w.dek \in 1 .. MaxRuns => w.dek <= runs'
    BY <1>1 DEF Deks
  <1>6. \A q \in Procs \ {p} : run'[q].stage = "reading" =>
          /\ run'[q].id \in 1 .. runs /\ run'[q].id \in 1 .. runs' /\ run'[q].id # runs + 1
          /\ \A w \in wrapped : w.dek # run'[q].id
    BY <1>1, <1>2 DEF Deks
  <1>7. \A q \in Procs : run'[q].stage = "reading" =>
          run'[q].id \in 1 .. runs' /\ \A w \in wrapped : w.dek # run'[q].id
    BY <1>2, <1>3, <1>4, <1>6
  <1>8. \A q, s \in Procs :
          run'[q].stage = "reading" /\ run'[s].stage = "reading" /\ run'[q].id = run'[s].id => q = s
    <2> SUFFICES ASSUME NEW q \in Procs, NEW s \in Procs, run'[q].stage = "reading", run'[s].stage = "reading",
                        run'[q].id = run'[s].id, q # s
                 PROVE  FALSE
      OBVIOUS
    <2>1. CASE q = p
      BY <1>2, <1>6, <2>1
    <2>2. CASE s = p
      BY <1>2, <1>6, <2>2
    <2>3. CASE q # p /\ s # p
      BY <1>1, <1>2, <2>3 DEF Deks
    <2> QED BY <2>1, <2>2, <2>3
  <1>9. \A w, v \in wrapped' : w.dek = v.dek => w = v
    BY <1>1 DEF Deks
  <1> QED BY <1>3, <1>5, <1>7, <1>8, <1>9 DEF Deks

LEMMA StartStep ==
  ASSUME Inv, Left, NEW p \in Procs, NEW r, run' = [run EXCEPT ![p] = r], r.id = runs + 1,
         runs < MaxRuns, runs' = runs + 1, UNCHANGED <<dir, caps, told, order, edits, snapshots, wrapped, settled>>,
         RunOK(order, r), AloneOK(order, dir, r)
  PROVE  Left'
  <1>1. Others(p) /\ run'[p] = r /\ DiskOK'
    BY QuietStep
  <1>2. Deks'
    BY DeksStart
  <1>3. \A w \in wrapped' : Whole(w.files)
    BY DEF Left
  <1>4. \A q \in Procs : Opened(wrapped', told'[q])
    BY DEF Left
  <1> QED BY <1>1, <1>2, <1>3, <1>4, LeftStep

LEMMA StartOnDirectoryLeft ==
  ASSUME Inv, Left, NEW p \in Procs, NEW op, NEW k, NEW c, StartOnDirectory(p, op, k, c),
         op \notin {"extract", "encryptCap", "decrypt"}
  PROVE  Left'
  <1> DEFINE todo == {i \in DOMAIN order : order[i] \in DOMAIN dir}
             r == [Idle EXCEPT !.op = op, !.stage = "reading", !.key = k, !.cap = c, !.id = runs + 1,
                               !.todo = todo, !.alone = TRUE]
  <1>1. /\ run' = [run EXCEPT ![p] = r] /\ runs < MaxRuns /\ runs' = runs + 1
        /\ UNCHANGED <<dir, caps, told, order, edits, snapshots, wrapped, settled>>
    BY DEF StartOnDirectory
  <1>2. /\ r.op = op /\ r.stage = "reading" /\ r.id = runs + 1 /\ r.todo = todo /\ r.got = NoFiles /\ r.queue = NoFiles
    BY DEF Idle
  <1>3. DOMAIN NoFiles = {}
    BY DEF NoFiles
  <1>4. \A n \in DOMAIN dir : \E i \in todo : n = order[i]
    BY OrderFacts DEF Left, DiskOK
  <1>5. todo \subseteq DOMAIN order
    OBVIOUS
  <1> HIDE DEF r, todo
  <1>6. RunOK(order, r)
    BY <1>2, <1>3, <1>5 DEF RunOK
  <1>7. AloneOK(order, dir, r)
    BY <1>2, <1>3, <1>4 DEF AloneOK
  <1> QED BY <1>1, <1>2, <1>6, <1>7, StartStep

LEMMA StartOnCapLeft ==
  ASSUME Inv, Left, NEW p \in Procs, NEW op, NEW k, NEW from \in Caps, NEW c,
         StartOnCap(p, op, k, from, c), op \notin {"seal", "sign"}
  PROVE  Left'
  <1> DEFINE r == [Idle EXCEPT !.op = op, !.stage = "reading", !.key = k, !.cap = c, !.id = runs + 1,
                               !.got = caps[from], !.alone = TRUE]
  <1>1. /\ run' = [run EXCEPT ![p] = r] /\ runs < MaxRuns /\ runs' = runs + 1
        /\ UNCHANGED <<dir, caps, told, order, edits, snapshots, wrapped, settled>>
    BY DEF StartOnCap
  <1>2. /\ r.op = op /\ r.stage = "reading" /\ r.id = runs + 1 /\ r.todo = {} /\ r.got = caps[from] /\ r.queue = NoFiles
    BY DEF Idle
  <1>3. DOMAIN NoFiles = {}
    BY DEF NoFiles
  <1>4. Whole(caps[from])
    BY DEF StartOnCap, Left, DiskOK, WholeBytes
  <1> HIDE DEF r
  <1>5. RunOK(order, r)
    BY <1>2, <1>3, <1>4 DEF RunOK
  <1>6. AloneOK(order, dir, r)
    BY <1>2 DEF AloneOK
  <1> QED BY <1>1, <1>2, <1>5, <1>6, StartStep

LEMMA ReadNextLeft == ASSUME Inv, Left, NEW p \in Procs, ReadNext(p) PROVE Left'
  <1>1. PICK i \in First(run[p].todo) :
          run' = [run EXCEPT ![p] =
            IF order[i] \in DOMAIN dir
            THEN [run[p] EXCEPT !.todo = run[p].todo \ {i}, !.got = With(run[p].got, order[i], dir[order[i]])]
            ELSE Idle]
    BY DEF ReadNext
  <1> DEFINE n == order[i]
             s == run[p]
             r == [s EXCEPT !.todo = s.todo \ {i}, !.got = With(s.got, n, dir[n])]
  <1>2. run[p].stage = "reading" /\ UNCHANGED <<dir, caps, told, order, edits, runs, wrapped, settled>>
    BY DEF ReadNext
  <1>3. CASE n \notin DOMAIN dir
    <2>1. Fails(p)
      BY <1>1, <1>3 DEF Fails
    <2> QED BY <1>2, <2>1, EndStep
  <1>4. CASE n \in DOMAIN dir
    <2>1. run' = [run EXCEPT ![p] = r]
      BY <1>1, <1>4
    <2>2. Fields \subseteq DOMAIN s /\ RunOK(order, s) /\ AloneOK(order, dir, s) /\ order \in ReadOrders
      BY DEF Inv, Left, KnownRun
    <2>3. /\ r.op = s.op /\ r.key = s.key /\ r.id = s.id /\ r.stage = s.stage /\ r.alone = s.alone /\ r.queue = s.queue
          /\ r.todo = s.todo \ {i} /\ r.got = With(s.got, n, dir[n])
      BY <2>2 DEF Fields
    <2>4. i \in s.todo /\ i \in DOMAIN order
      BY <2>2 DEF First, RunOK
    <2>5. DOMAIN r.got = DOMAIN s.got \cup {n} /\ r.got[n] = dir[n] /\ \A x \in DOMAIN s.got \ {n} : r.got[x] = s.got[x]
      BY <2>3 DEF With
    <2>6. s.stage = "reading"
      BY <1>2
    <2> HIDE DEF r, s
    <2>7. {order[j] : j \in r.todo} \cap DOMAIN r.got = {}
      <3>1. \A j \in r.todo : j \in s.todo /\ j \in DOMAIN order /\ order[j] # n
        BY <2>2, <2>3, <2>4, OrderFacts DEF RunOK
      <3>2. \A j \in r.todo : order[j] \notin DOMAIN s.got
        BY <2>2, <3>1 DEF RunOK
      <3> HIDE DEF n
      <3> QED BY <2>5, <3>1, <3>2
    <2>8. RunOK(order, r)
      <3>1. r.todo \subseteq DOMAIN order
        BY <2>2, <2>3 DEF RunOK
      <3>2. ~(s.op \in {"extract", "encryptCap", "decrypt"})
        BY <2>2, <2>4, <2>6 DEF RunOK
      <3> QED BY <2>2, <2>3, <2>6, <2>7, <3>1, <3>2 DEF RunOK
    <2>9. AloneOK(order, dir, r)
      <3> SUFFICES ASSUME s.alone, s.op \in {"seal", "sign"} PROVE AloneOK(order, dir, r)
        BY <2>3 DEF AloneOK
      <3>1. /\ \A x \in DOMAIN s.got : x \in DOMAIN dir /\ dir[x] = s.got[x]
            /\ \A x \in DOMAIN dir \ DOMAIN s.got : \E j \in s.todo : x = order[j]
        BY <2>2, <2>6 DEF AloneOK
      <3>2. \A x \in DOMAIN r.got : x \in DOMAIN dir /\ dir[x] = r.got[x]
        BY <1>4, <2>5, <3>1
      <3>3. \A x \in DOMAIN dir \ DOMAIN r.got : \E j \in r.todo : x = order[j]
        BY <2>3, <2>5, <3>1
      <3> QED BY <2>3, <2>6, <3>2, <3>3 DEF AloneOK
    <2> QED BY <1>2, <2>1, <2>3, <2>6, <2>8, <2>9, ComputeStep DEF s
  <1> QED BY <1>3, <1>4

\* A run that has computed its writes.
LEMMA WillWriteOK ==
  ASSUME Inv, Left, NEW p \in Procs, NEW queue, WillWrite(p, queue), run[p].stage = "reading",
         DOMAIN queue # {}, DOMAIN queue \subseteq Nat,
         \A i \in DOMAIN queue : IF queue[i].in = None THEN queue[i].name \in Names ELSE WholeBytes(queue[i].bytes)
  PROVE  \E r : /\ run' = [run EXCEPT ![p] = r]
                /\ r.op = run[p].op /\ r.key = run[p].key /\ r.got = run[p].got /\ r.alone = run[p].alone
                /\ r.stage = "writing" /\ r.queue = queue
                /\ RunOK(order, r)
  <1> DEFINE s == run[p]
             r == [s EXCEPT !.stage = "writing", !.queue = queue]
  <1>1. run' = [run EXCEPT ![p] = r]
    BY DEF WillWrite, Inv
  <1>2. Fields \subseteq DOMAIN s /\ RunOK(order, s)
    BY DEF Inv, Left, KnownRun
  <1>3. /\ r.op = s.op /\ r.key = s.key /\ r.got = s.got /\ r.alone = s.alone /\ r.todo = s.todo
        /\ r.stage = "writing" /\ r.queue = queue
    BY <1>2 DEF Fields
  <1> HIDE DEF r, s
  <1>4. RunOK(order, r)
    BY <1>2, <1>3 DEF RunOK
  <1>5. /\ r.op = run[p].op /\ r.key = run[p].key /\ r.got = run[p].got /\ r.alone = run[p].alone
    BY <1>3 DEF s
  <1> QED BY <1>1, <1>3, <1>4, <1>5

\* ... into an archive.
LEMMA ToCapStep ==
  ASSUME Inv, Left, NEW p \in Procs, NEW out, WillWrite(p, ToCap(p, out)), run[p].stage = "reading",
         run[p].cap # None, run[p].op \notin {"seal", "sign"}, Whole(out),
         UNCHANGED <<dir, caps, order, edits, settled>>
  PROVE  /\ Others(p) /\ DiskOK' /\ RunOK(order, run'[p]) /\ AloneOK(order, dir', run'[p])
         /\ run'[p].stage = "writing"
  <1> DEFINE queue == ToCap(p, out)
  <1>1. DOMAIN queue = {1} /\ queue[1].in = run[p].cap /\ queue[1].bytes = out
    BY DEF ToCap
  <1> HIDE DEF queue
  <1>2. /\ DOMAIN queue # {} /\ DOMAIN queue \subseteq Nat
        /\ \A i \in DOMAIN queue : IF queue[i].in = None THEN queue[i].name \in Names ELSE WholeBytes(queue[i].bytes)
    BY <1>1 DEF WholeBytes
  <1>3. WillWrite(p, queue)
    BY DEF queue
  <1>4. PICK r : /\ run' = [run EXCEPT ![p] = r]
                 /\ r.op = run[p].op /\ r.stage = "writing" /\ RunOK(order, r)
    BY <1>2, <1>3, WillWriteOK
  <1>5. AloneOK(order, dir, r)
    BY <1>4 DEF AloneOK
  <1> QED BY <1>4, <1>5, QuietStep

LEMMA CapLeft ==
  ASSUME Inv, Left, NEW p \in Procs, NEW out, WillWrite(p, ToCap(p, out)), run[p].stage = "reading",
         run[p].cap # None, run[p].op \notin {"seal", "sign"}, Whole(out),
         UNCHANGED <<dir, caps, told, order, edits, runs, wrapped, settled>>
  PROVE  Left'
  <1>1. /\ Others(p) /\ DiskOK' /\ RunOK(order, run'[p]) /\ AloneOK(order, dir', run'[p])
        /\ run'[p].stage = "writing"
    BY ToCapStep
  <1>2. Deks'
    BY <1>1, DeksKept
  <1>3. \A w \in wrapped' : Whole(w.files)
    BY DEF Left
  <1>4. \A q \in Procs : Opened(wrapped', told'[q])
    BY DEF Left
  <1> QED BY <1>1, <1>2, <1>3, <1>4, LeftStep

LEMMA DeksWrap ==
  ASSUME Inv, Left, NEW p \in Procs, Others(p), NEW files, NEW k, runs' = runs,
         wrapped' = wrapped \cup {[files |-> files, key |-> k, dek |-> run[p].id]},
         run[p].stage = "reading", run'[p].stage # "reading"
  PROVE  Deks'
  <1> DEFINE e == [files |-> files, key |-> k, dek |-> run[p].id]
  <1>1. e.dek = run[p].id /\ wrapped' = wrapped \cup {e}
    OBVIOUS
  <1> HIDE DEF e
  <1>2. Deks /\ run[p].id \in 1 .. runs /\ \A w \in wrapped : w.dek # run[p].id
    BY DEF Left, Deks
  <1>3. \A q \in Procs : run'[q].stage = "reading" => /\ run[q].stage = "reading" /\ run'[q].id = run[q].id
                                                      /\ run[q].id # run[p].id
    BY <1>2, OthersKept DEF Deks
  <1>4. \A w, v \in wrapped' : w.dek = v.dek => w = v
    BY <1>1, <1>2 DEF Deks
  <1>5. \A w \in wrapped' : w.dek \in 1 .. MaxRuns => w.dek <= runs
    BY <1>1, <1>2 DEF Deks
  <1>6. \A q \in Procs : run'[q].stage = "reading" =>
          run'[q].id \in 1 .. runs /\ \A w \in wrapped' : w.dek # run'[q].id
    BY <1>1, <1>2, <1>3 DEF Deks
  <1>7. \A q, s \in Procs :
          run'[q].stage = "reading" /\ run'[s].stage = "reading" /\ run'[q].id = run'[s].id => q = s
    BY <1>2, <1>3 DEF Deks
  <1>8. runs' \in 0 .. MaxRuns
    BY <1>2 DEF Deks
  <1> QED BY <1>4, <1>5, <1>6, <1>7, <1>8 DEF Deks

LEMMA PackLeft == ASSUME Inv, Left, NEW p \in Procs, Pack(p) PROVE Left'
  <1> DEFINE out == PackFiles(run[p].got)
  <1>1. /\ run[p].stage = "reading" /\ run[p].op = "pack"
        /\ UNCHANGED <<dir, caps, told, order, edits, runs, wrapped, settled>>
    BY DEF Pack, Ready
  <1>2. CASE out = None
    BY <1>1, <1>2, EndStep DEF Pack
  <1>3. CASE out # None
    <2>1. WillWrite(p, ToCap(p, out))
      BY <1>3 DEF Pack
    <2>2. Whole(out) /\ run[p].cap # None
      BY <1>1, <1>3, PackWhole, Known
    <2> HIDE DEF out
    <2> QED BY <1>1, <2>1, <2>2, CapLeft
  <1> QED BY <1>2, <1>3

LEMMA DecryptLeft == ASSUME Inv, Left, NEW p \in Procs, Decrypt(p) PROVE Left'
  <1> DEFINE out == DecryptFiles(run[p].got, run[p].key)
  <1>1. /\ run[p].stage = "reading" /\ run[p].op = "decrypt"
        /\ UNCHANGED <<dir, caps, told, order, edits, runs, wrapped, settled>>
    BY DEF Decrypt, Ready
  <1>2. CASE out = None
    BY <1>1, <1>2, EndStep DEF Decrypt
  <1>3. CASE out # None
    <2>1. WillWrite(p, ToCap(p, out))
      BY <1>3 DEF Decrypt
    <2>2. GenuineFiles(snapshots, wrapped, run[p].got) /\ run[p].cap # None
      BY <1>1, Known
    <2>3. \A w, v \in wrapped : w.dek = v.dek => w = v
      BY DEF Left, Deks
    <2>4. Whole(out)
      BY <1>3, <2>2, <2>3, DecryptWrapped DEF Left
    <2> HIDE DEF out
    <2> QED BY <1>1, <2>1, <2>2, <2>4, CapLeft
  <1> QED BY <1>2, <1>3

LEMMA WrapLeft ==
  ASSUME Inv, Left, NEW p \in Procs, NEW inner, Wrap(p, inner), run[p].stage = "reading", run[p].cap # None,
         run[p].op \notin {"seal", "sign"}, inner # None => Whole(inner),
         UNCHANGED <<dir, caps, told, order, edits, runs, settled>>
  PROVE  Left'
  <1> DEFINE out == EncryptBytes(inner, run[p].key, run[p].id)
  <1>1. CASE out = None
    BY <1>1, EndStep DEF Wrap
  <1>2. CASE out # None
    <2>1. /\ WillWrite(p, ToCap(p, out))
          /\ wrapped' = wrapped \cup {[files |-> inner, key |-> run[p].key, dek |-> run[p].id]}
      BY <1>2 DEF Wrap
    <2>2. Whole(inner) /\ Whole(out)
      BY <1>2, EncryptWhole
    <2> HIDE DEF out
    <2>3. /\ Others(p) /\ DiskOK' /\ RunOK(order, run'[p]) /\ AloneOK(order, dir', run'[p])
          /\ run'[p].stage = "writing"
      BY <2>1, <2>2, ToCapStep
    <2>4. Deks'
      BY <2>1, <2>3, DeksWrap
    <2>5. \A w \in wrapped' : Whole(w.files)
      BY <2>1, <2>2 DEF Left
    <2>6. \A q \in Procs : Opened(wrapped', told'[q])
      BY <2>1 DEF Left, Opened
    <2> QED BY <2>3, <2>4, <2>5, <2>6, LeftStep
  <1> QED BY <1>1, <1>2

LEMMA EncryptDirectoryLeft == ASSUME Inv, Left, NEW p \in Procs, EncryptDirectory(p) PROVE Left'
  <1>1. /\ run[p].stage = "reading" /\ run[p].op = "encryptDirectory" /\ Wrap(p, PackFiles(run[p].got))
        /\ UNCHANGED <<dir, caps, told, order, edits, runs, settled>>
    BY DEF EncryptDirectory, Ready
  <1> QED BY <1>1, PackWhole, WrapLeft, Known

LEMMA EncryptCapLeft == ASSUME Inv, Left, NEW p \in Procs, EncryptCap(p) PROVE Left'
  <1>1. /\ run[p].stage = "reading" /\ run[p].op = "encryptCap" /\ Wrap(p, run[p].got)
        /\ UNCHANGED <<dir, caps, told, order, edits, runs, settled>>
    BY DEF EncryptCap, Ready
  <1>2. Whole(run[p].got)
    BY <1>1 DEF Left, RunOK
  <1> QED BY <1>1, <1>2, WrapLeft, Known

LEMMA ExtractLeft == ASSUME Inv, Left, NEW p \in Procs, Extract(p) PROVE Left'
  <1> DEFINE got == run[p].got
             names == ByPath(got)
             queue == InDir(got, names)
  <1>1. /\ run[p].stage = "reading" /\ run[p].op = "extract" /\ WillWrite(p, queue)
        /\ UNCHANGED <<dir, caps, told, order, edits, runs, wrapped, settled>>
    BY DEF Extract, Ready
  <1>2. Whole(got)
    BY <1>1 DEF Left, RunOK
  <1>3. Meta \in DOMAIN got \/ Enc \in DOMAIN got
    BY <1>2 DEF Whole, IsEncryptedPackage, Parses
  <1> HIDE DEF got
  <1>4. DOMAIN names = {i \in DOMAIN Order : Order[i] \in DOMAIN got} /\ \A i \in DOMAIN names : names[i] = Order[i]
    BY DEF ByPath
  <1> HIDE DEF names
  <1>5. DOMAIN names # {} /\ DOMAIN names \subseteq Nat /\ \A i \in DOMAIN names : names[i] \in Names
    <2>1. Meta \in Names /\ Enc \in Names
      BY DEF Names
    <2> QED BY <1>3, <1>4, <2>1, OrderFacts
  <1>6. DOMAIN queue = DOMAIN names /\ \A i \in DOMAIN queue : queue[i].in = None /\ queue[i].name = names[i]
    BY DEF InDir
  <1> HIDE DEF queue
  <1>7. \A i \in DOMAIN queue : IF queue[i].in = None THEN queue[i].name \in Names ELSE WholeBytes(queue[i].bytes)
    BY <1>5, <1>6
  <1>8. PICK r : /\ run' = [run EXCEPT ![p] = r] /\ r.op = run[p].op
                 /\ r.stage = "writing" /\ RunOK(order, r)
    BY <1>1, <1>5, <1>6, <1>7, WillWriteOK
  <1>9. AloneOK(order, dir, r)
    BY <1>1, <1>8 DEF AloneOK
  <1> QED BY <1>1, <1>8, <1>9, ComputeStep

\* ... into the directory: a seal or sign run that was alone has what is there, and the
\* files it will write are all that its target differs in.
LEMMA TargetStep ==
  ASSUME Inv, Left, NEW p \in Procs, NEW target, NEW names, WillWrite(p, InDir(target, names)),
         run[p].stage = "reading", run[p].todo = {}, target = Target(run[p]),
         DOMAIN names # {}, DOMAIN names \subseteq Nat, \A i \in DOMAIN names : names[i] \in Names \cap DOMAIN target,
         \A i, j \in DOMAIN names : names[i] = names[j] => i = j,
         \A n \in DOMAIN run[p].got : n \in DOMAIN target,
         \A n \in DOMAIN target : \/ \E i \in DOMAIN names : n = names[i]
                                  \/ n \in DOMAIN run[p].got /\ target[n] = run[p].got[n],
         UNCHANGED <<dir, caps, told, order, edits, runs, wrapped, settled>>
  PROVE  Left'
  <1> DEFINE got == run[p].got
             queue == InDir(target, names)
  <1>1. /\ DOMAIN queue = DOMAIN names
        /\ \A i \in DOMAIN queue : /\ queue[i].in = None /\ queue[i].name = names[i]
                                   /\ queue[i].bytes = target[names[i]]
    BY DEF InDir
  <1> HIDE DEF queue
  <1>2. \A i \in DOMAIN queue : IF queue[i].in = None THEN queue[i].name \in Names ELSE WholeBytes(queue[i].bytes)
    BY <1>1
  <1>3. WillWrite(p, queue)
    BY DEF queue
  <1>4. PICK r : /\ run' = [run EXCEPT ![p] = r]
                 /\ r.op = run[p].op /\ r.key = run[p].key /\ r.got = got /\ r.alone = run[p].alone
                 /\ r.stage = "writing" /\ r.queue = queue /\ RunOK(order, r)
    BY <1>1, <1>2, <1>3, WillWriteOK
  <1>5. Target(r) = target
    BY <1>4 DEF Target
  <1>6. AloneOK(order, dir, r)
    <2> SUFFICES ASSUME run[p].alone, run[p].op \in {"seal", "sign"} PROVE AloneOK(order, dir, r)
      BY <1>4 DEF AloneOK
    <2>1. AloneOK(order, dir, run[p])
      BY DEF Left
    <2>2. /\ \A n \in DOMAIN got : n \in DOMAIN dir /\ dir[n] = got[n]
          /\ DOMAIN dir \subseteq DOMAIN got
      BY <2>1 DEF AloneOK
    <2> HIDE DEF got
    <2>3. QueueOf(r)
      BY <1>1, <1>4, <1>5 DEF QueueOf
    <2>4. \A n : n \in Queued(r) <=> \E i \in DOMAIN names : n = names[i]
      BY <1>1, <1>4 DEF Queued
    <2>5. \A n \in DOMAIN target \ Queued(r) : n \in DOMAIN got /\ target[n] = got[n]
      BY <2>4 DEF got
    <2>6. DOMAIN got \subseteq DOMAIN target
      BY DEF got
    <2>7. DOMAIN dir \ Queued(r) = DOMAIN target \ Queued(r)
      BY <2>2, <2>5, <2>6
    <2>8. \A n \in DOMAIN dir \ Queued(r) : dir[n] = target[n]
      BY <2>2, <2>5, <2>7
    <2> QED BY <1>4, <1>5, <2>3, <2>7, <2>8 DEF AloneOK
  <1> QED BY <1>4, <1>6, ComputeStep

LEMMA SealLeft == ASSUME Inv, Left, NEW p \in Procs, Seal(p) PROVE Left'
  <1> DEFINE got == run[p].got
             target == With(got, Sec, BuildSecurity(got))
             names == <<Sec>>
  <1>1. /\ run[p].stage = "reading" /\ run[p].todo = {} /\ run[p].op = "seal" /\ WillWrite(p, InDir(target, names))
        /\ UNCHANGED <<dir, caps, told, order, edits, runs, wrapped, settled>>
    BY DEF Seal, Ready
  <1>2. target = Target(run[p])
    BY <1>1 DEF Target
  <1>3. DOMAIN names = {1} /\ names[1] = Sec /\ Sec \in Names
    BY DEF Names
  <1>4. DOMAIN target = DOMAIN got \cup {Sec} /\ \A n \in DOMAIN got \ {Sec} : target[n] = got[n]
    BY DEF With
  <1> HIDE DEF names, target
  <1> QED BY <1>1, <1>2, <1>3, <1>4, TargetStep

LEMMA SignLeft == ASSUME Inv, Left, NEW p \in Procs, Sign(p) PROVE Left'
  <1> DEFINE got == run[p].got
             target == SignFiles(got, run[p].key)
             names == <<Pub, Sec, Sig>>
  <1>1. /\ run[p].stage = "reading" /\ run[p].todo = {} /\ run[p].op = "sign" /\ WillWrite(p, InDir(target, names))
        /\ UNCHANGED <<dir, caps, told, order, edits, runs, wrapped, settled>>
    BY DEF Sign, Ready
  <1>2. target = Target(run[p])
    BY <1>1 DEF Target
  <1>3. DOMAIN names = 1 .. 3 /\ names[1] = Pub /\ names[2] = Sec /\ names[3] = Sig
    OBVIOUS
  <1>4. {Pub, Sec, Sig} \subseteq Names
    BY DEF Names
  <1>5. DOMAIN target = DOMAIN got \cup {Pub, Sec, Sig} /\ \A n \in DOMAIN got \ {Pub, Sec, Sig} : target[n] = got[n]
    BY DEF With, SignFiles
  <1> HIDE DEF names, target
  <1>6. \A i \in DOMAIN names : names[i] \in {Pub, Sec, Sig}
    BY <1>3
  <1>7. \A n \in {Pub, Sec, Sig} : \E i \in DOMAIN names : n = names[i]
    BY <1>3
  <1>8. \A i, j \in DOMAIN names : names[i] = names[j] => i = j
    BY <1>3 DEF Pub, Sec, Sig
  <1>9. DOMAIN names # {} /\ DOMAIN names \subseteq Nat
    BY <1>3
  <1>10. \A i \in DOMAIN names : names[i] \in Names \cap DOMAIN target
    BY <1>4, <1>5, <1>6
  <1>11. \A n \in DOMAIN got : n \in DOMAIN target
    BY <1>5
  <1>12. \A n \in DOMAIN target : \/ \E i \in DOMAIN names : n = names[i]
                                  \/ n \in DOMAIN got /\ target[n] = got[n]
    BY <1>5, <1>7
  <1> QED BY <1>1, <1>2, <1>8, <1>9, <1>10, <1>11, <1>12, TargetStep

\* A process reports and is idle again.
LEMMA SaysLeft ==
  ASSUME Inv, Left, NEW p \in Procs, NEW files, Says(p, files),
         files # None /\ run[p].op = "load" /\ IsEncryptedPackage(run[p].got) =>
           \E w \in wrapped : w.files = files /\ w.key = run[p].key
  PROVE  Left'
  <1> DEFINE a == [op |-> run[p].op, key |-> run[p].key, files |-> files,
                   encrypted |-> IsEncryptedPackage(run[p].got)]
  <1>1. /\ Fails(p) /\ told' = [told EXCEPT ![p] = IF files = None THEN None ELSE a]
        /\ UNCHANGED <<dir, caps, order, edits, runs, wrapped, settled>>
    BY DEF Says
  <1>2. a.op = run[p].op /\ a.key = run[p].key /\ a.files = files /\ a.encrypted = IsEncryptedPackage(run[p].got)
    OBVIOUS
  <1> HIDE DEF a
  <1>3. Opened(wrapped, IF files = None THEN None ELSE a)
    BY <1>2 DEF Opened
  <1>4. \A q \in Procs : Opened(wrapped', told'[q])
    BY <1>1, <1>3 DEF Left, Inv
  <1>5. Others(p) /\ run'[p] = Idle /\ DiskOK'
    BY <1>1, QuietStep DEF Fails
  <1>6. Deks'
    <2>1. Idle.stage = "idle"
      BY DEF Idle
    <2> QED BY <1>1, <1>5, <2>1, DeksKept
  <1>7. \A w \in wrapped' : Whole(w.files)
    BY <1>1 DEF Left
  <1> QED BY <1>1, <1>4, <1>5, <1>6, <1>7, IdleOK, LeftStep

LEMMA LoadLeft == ASSUME Inv, Left, NEW p \in Procs, Load(p) PROVE Left'
  <1> DEFINE files == ReadFiles(run[p].got, run[p].key)
             said  == IF files # None /\ (files # None => VerifyModel(files)) THEN files ELSE None
  <1>1. Says(p, said)
    BY DEF Load
  <1>2. ASSUME said # None, IsEncryptedPackage(run[p].got)
        PROVE  \E w \in wrapped : w.files = said /\ w.key = run[p].key
    <2>1. said = DecryptFiles(run[p].got, run[p].key)
      BY <1>2 DEF ReadFiles
    <2>2. GenuineFiles(snapshots, wrapped, run[p].got) /\ \A w, v \in wrapped : w.dek = v.dek => w = v
      BY Known DEF Left, Deks
    <2> HIDE DEF said
    <2> QED BY <1>2, <2>1, <2>2, DecryptWrapped
  <1> HIDE DEF said
  <1> QED BY <1>1, <1>2, SaysLeft

LEMMA VerifyLeft == ASSUME Inv, Left, NEW p \in Procs, Verify(p) \/ VerifySignature(p) PROVE Left'
  <1>1. PICK files : Says(p, files)
    BY DEF Verify, VerifySignature
  <1>2. run[p].op # "load"
    BY DEF Verify, VerifySignature, Ready
  <1> QED BY <1>1, <1>2, SaysLeft

LEMMA StopLeft == ASSUME Inv, Left, NEW p \in Procs, Stop(p) PROVE Left'
  BY EndStep DEF Stop, Fails

LEMMA AfterOthers ==
  ASSUME Inv, NEW p \in Procs, NEW w, NEW r, run' = [After(p, w) EXCEPT ![p] = r], w.in # None => dir' = dir
  PROVE  Others(p) /\ run'[p] = r
  <1>1. DOMAIN After(p, w) = Procs /\ run'[p] = r
    BY AfterSelf
  <1>2. \A q \in Procs \ {p} : run'[q] = After(p, w)[q]
    BY <1>1
  <1>3. \A q \in Procs \ {p} : After(p, w)[q] = IF w.in = None THEN [run[q] EXCEPT !.alone = FALSE] ELSE run[q]
    BY DEF After, Disturbed
  <1> QED BY <1>1, <1>2, <1>3 DEF Others

\* A write into the directory or an archive.
LEMMA PutOK ==
  ASSUME Inv, Left, NEW w, NEW bytes, Put(w, bytes),
         IF w.in = None THEN w.name \in Names ELSE WholeBytes(bytes)
  PROVE  /\ w.in # None => dir' = dir
         /\ w.in = None => dir' = With(dir, w.name, bytes)
         /\ DOMAIN dir' \subseteq Names /\ \A c \in Caps : WholeBytes(caps'[c])
  <1>1. DOMAIN dir \subseteq Names /\ DOMAIN caps = Caps /\ \A c \in Caps : WholeBytes(caps[c])
    BY DEF Inv, Disk, Left, DiskOK
  <1>2. CASE w.in = None
    <2>1. dir' = With(dir, w.name, bytes) /\ caps' = caps
      BY <1>2 DEF Put
    <2>2. DOMAIN dir' = DOMAIN dir \cup {w.name}
      BY <2>1 DEF With
    <2> QED BY <1>1, <1>2, <2>1, <2>2
  <1>3. CASE w.in # None
    <2>1. caps' = [caps EXCEPT ![w.in] = bytes] /\ dir' = dir
      BY <1>3 DEF Put
    <2> QED BY <1>1, <1>3, <2>1
  <1> QED BY <1>2, <1>3

\* What a write in its turn leaves: one due position, taken from the queue.
LEMMA OneDue ==
  ASSUME NEW D, D \subseteq Nat, NEW i \in First(D), NEW j \in First(D)
  PROVE  i = j
  BY DEF First

LEMMA OpenLeft == ASSUME Inv, Left, NEW p \in Procs, Open(p) PROVE Left'
  <1>1. PICK i \in Due(p) :
          /\ Put(run[p].queue[i], Torn)
          /\ run' = [After(p, run[p].queue[i]) EXCEPT ![p].stage = "open"]
          /\ settled' = (settled /\ run[p].queue[i].in # None)
    BY DEF Open
  <1> DEFINE s == run[p]
             w == s.queue[i]
             r == [s EXCEPT !.stage = "open"]
  <1>2. s.stage = "writing" /\ UNCHANGED <<told, order, edits, runs, wrapped>>
    BY DEF Open
  <1>3. run' = [After(p, w) EXCEPT ![p] = r]
    BY <1>1, AfterSelf
  <1>4. /\ Fields \subseteq DOMAIN s /\ RunOK(order, s) /\ AloneOK(order, dir, s)
        /\ i \in DOMAIN s.queue /\ i \in First(DOMAIN s.queue)
    BY <1>1 DEF Inv, Left, KnownRun, Due, First
  <1>5. /\ r.op = s.op /\ r.key = s.key /\ r.id = s.id /\ r.stage = "open" /\ r.alone = s.alone /\ r.queue = s.queue
        /\ r.todo = s.todo /\ r.got = s.got
    BY <1>4 DEF Fields
  <1>6. Put(w, Torn) /\ settled' = (settled /\ w.in # None)
    BY <1>1
  <1>7. IF w.in = None THEN w.name \in Names ELSE WholeBytes(Torn)
    BY <1>4 DEF RunOK, WholeBytes
  <1>8. w = s.queue[i]
    OBVIOUS
  <1> HIDE DEF r, w
  <1>9. /\ w.in # None => dir' = dir
        /\ w.in = None => dir' = With(dir, w.name, Torn)
        /\ DOMAIN dir' \subseteq Names /\ \A c \in Caps : WholeBytes(caps'[c])
    BY <1>6, <1>7, PutOK
  <1>10. Others(p) /\ run'[p] = r
    BY <1>3, <1>9, AfterOthers
  <1>11. DiskOK'
    BY <1>2, <1>6, <1>9 DEF DiskOK, Left
  <1>12. RunOK(order, r)
    <2> HIDE DEF s
    <2> QED BY <1>2, <1>4, <1>5 DEF RunOK
  <1>13. AloneOK(order, dir', r)
    <2> SUFFICES ASSUME s.alone, s.op \in {"seal", "sign"} PROVE AloneOK(order, dir', r)
      BY <1>5 DEF AloneOK
    <2> HIDE DEF s
    <2>1. /\ QueueOf(s)
          /\ DOMAIN dir \ Queued(s) = DOMAIN Target(s) \ Queued(s)
          /\ \A n \in DOMAIN dir \ Queued(s) : dir[n] = Target(s)[n]
      BY <1>2, <1>4 DEF AloneOK
    <2>2. Target(r) = Target(s) /\ Queued(r) = Queued(s) /\ QueueOf(r)
      BY <1>5, <2>1 DEF Target, Queued, QueueOf
    <2>3. w.in = None /\ w.name \in Queued(s)
      BY <1>4, <1>8, <2>1 DEF QueueOf, Queued
    <2>4. /\ DOMAIN dir' = DOMAIN dir \cup {w.name} /\ dir'[w.name] = Torn
          /\ \A n \in DOMAIN dir \ {w.name} : dir'[n] = dir[n]
      BY <1>9, <2>3 DEF With
    <2>5. DOMAIN dir' \ Queued(r) = DOMAIN Target(r) \ Queued(r)
      BY <2>1, <2>2, <2>3, <2>4
    <2>6. \A n \in DOMAIN dir' \ Queued(r) : dir'[n] = Target(r)[n]
      BY <2>1, <2>2, <2>3, <2>4
    <2>7. \A j \in First(DOMAIN r.queue) : r.queue[j] = w
      BY <1>4, <1>5, <1>8, OneDue DEF RunOK
    <2> QED BY <1>5, <2>2, <2>4, <2>5, <2>6, <2>7 DEF AloneOK
  <1>14. Deks'
    BY <1>2, <1>5, <1>10, DeksKept
  <1>15. \A x \in wrapped' : Whole(x.files)
    BY <1>2 DEF Left
  <1>16. \A q \in Procs : Opened(wrapped', told'[q])
    BY <1>2 DEF Left
  <1> QED BY <1>2, <1>10, <1>11, <1>12, <1>13, <1>14, <1>15, <1>16, LeftStep

\* An undisturbed seal or sign run writes the file of its target that is due.
LEMMA AloneWrites ==
  ASSUME Inv, Left, NEW p \in Procs, run[p].stage = "open", NEW i \in Due(p), Finish(run[p].queue[i]),
         run[p].alone, run[p].op \in {"seal", "sign"}
  PROVE  LET s == run[p]
             n == s.queue[i].name
         IN /\ QueueOf(s) /\ s.queue[i].in = None /\ n \in DOMAIN Target(s)
            /\ DOMAIN dir' = DOMAIN dir \cup {n} /\ dir' = [x \in DOMAIN dir' |-> dir'[x]]
            /\ dir'[n] = Target(s)[n] /\ \A x \in DOMAIN dir \ {n} : dir'[x] = dir[x]
  <1> DEFINE s == run[p]
             w == s.queue[i]
  <1>1. AloneOK(order, dir, s) /\ i \in First(DOMAIN s.queue) /\ i \in DOMAIN s.queue
    BY DEF Left, Due, First
  <1>2. QueueOf(s) /\ w.name \in DOMAIN dir /\ dir[w.name] = Torn
    BY <1>1 DEF AloneOK
  <1>3. w.in = None /\ w.name \in DOMAIN Target(s) /\ w.bytes = Target(s)[w.name]
    BY <1>1, <1>2 DEF QueueOf
  <1>4. Finish(w)
    OBVIOUS
  <1> HIDE DEF w
  <1>5. Put(w, w.bytes)
    BY <1>2, <1>3, <1>4 DEF Finish, Gone, There
  <1>6. dir' = With(dir, w.name, w.bytes)
    BY <1>3, <1>5 DEF Put
  <1>7. /\ DOMAIN dir' = DOMAIN dir \cup {w.name} /\ dir' = [x \in DOMAIN dir' |-> dir'[x]]
        /\ dir'[w.name] = w.bytes /\ \A x \in DOMAIN dir \ {w.name} : dir'[x] = dir[x]
    BY <1>6 DEF With
  <1> QED BY <1>2, <1>3, <1>7 DEF w

\* The target passes the gates.
LEMMA TargetVerifies ==
  ASSUME NEW r, r.op \in {"seal", "sign"}, r.op = "sign" => r.key \in Keys
  PROVE  VerifyModel(Target(r)) /\ Target(r) = [n \in DOMAIN Target(r) |-> Target(r)[n]]
  <1>1. CASE r.op = "seal"
    <2>1. Target(r) = With(r.got, Sec, BuildSecurity(r.got))
      BY <1>1 DEF Target
    <2>2. \A f, n, b : With(f, n, b) = [x \in DOMAIN With(f, n, b) |-> With(f, n, b)[x]]
      BY DEF With
    <2> QED BY <2>1, <2>2, SealVerifies
  <1>2. CASE r.op = "sign"
    <2>1. Target(r) = SignFiles(r.got, r.key)
      BY <1>2 DEF Target
    <2>2. \A f, n, b : With(f, n, b) = [x \in DOMAIN With(f, n, b) |-> With(f, n, b)[x]]
      BY DEF With
    <2>3. \E f, b : SignFiles(r.got, r.key) = With(f, Sig, b)
      BY DEF SignFiles
    <2> QED BY <1>2, <2>1, <2>2, <2>3, SignVerifies
  <1> QED BY <1>1, <1>2

LEMMA WriteLeft == ASSUME Inv, Left, NEW p \in Procs, Write(p) PROVE Left'
  <1>1. PICK i \in Due(p) :
          /\ Finish(run[p].queue[i])
          /\ run' = [After(p, run[p].queue[i]) EXCEPT ![p] =
                       IF DOMAIN run[p].queue \ {i} = {} THEN Idle
                       ELSE [run[p] EXCEPT !.stage = "writing",
                                           !.queue = [j \in DOMAIN run[p].queue \ {i} |-> run[p].queue[j]]]]
          /\ settled' = SettledBy(p, run[p].queue[i], DOMAIN run[p].queue \ {i} = {})
    BY DEF Write
  <1> DEFINE s    == run[p]
             w    == s.queue[i]
             left == DOMAIN s.queue \ {i}
             rest == [j \in left |-> s.queue[j]]
             on   == [s EXCEPT !.stage = "writing", !.queue = rest]
             r    == IF left = {} THEN Idle ELSE on
  <1>2. s.stage = "open" /\ UNCHANGED <<told, order, edits, runs, wrapped>>
    BY DEF Write
  <1>3. /\ KnownRun(snapshots, wrapped, s) /\ RunOK(order, s) /\ AloneOK(order, dir, s)
        /\ i \in DOMAIN s.queue /\ i \in First(DOMAIN s.queue)
    BY <1>1 DEF Inv, Left, Due, First
  <1>4. /\ on.op = s.op /\ on.key = s.key /\ on.id = s.id /\ on.stage = "writing" /\ on.alone = s.alone
        /\ on.queue = rest /\ on.todo = s.todo /\ on.got = s.got
    BY <1>3 DEF Fields, KnownRun
  <1>5. /\ Finish(w) /\ run' = [After(p, w) EXCEPT ![p] = r] /\ settled' = SettledBy(p, w, left = {})
    BY <1>1
  <1>6. IF w.in = None THEN w.name \in Names ELSE WholeBytes(w.bytes)
    BY <1>3 DEF RunOK
  <1>7. w = s.queue[i] /\ DOMAIN rest = left /\ \A j \in left : rest[j] = s.queue[j]
    OBVIOUS
  <1> HIDE DEF r, on, rest, w
  <1>8. /\ w.in # None => dir' = dir
        /\ DOMAIN dir' \subseteq Names /\ \A c \in Caps : WholeBytes(caps'[c])
    <2>1. CASE UNCHANGED <<dir, caps>>
      BY <2>1 DEF Left, DiskOK
    <2>2. CASE Put(w, Torn)
      <3>1. IF w.in = None THEN w.name \in Names ELSE WholeBytes(Torn)
        BY <1>6 DEF WholeBytes
      <3> QED BY <2>2, <3>1, PutOK
    <2>3. CASE Put(w, w.bytes)
      BY <1>6, <2>3, PutOK
    <2> QED BY <1>5, <2>1, <2>2, <2>3 DEF Finish
  <1>9. Others(p) /\ run'[p] = r
    BY <1>5, <1>8, AfterOthers
  <1>10. settled' => VerifyModel(dir')
    <2>1. CASE w.in # None
      BY <1>5, <1>8, <2>1 DEF SettledBy, Left, DiskOK
    <2>2. CASE w.in = None
      <3> SUFFICES ASSUME left = {}, s.alone, s.op \in {"seal", "sign"} PROVE VerifyModel(dir')
        BY <1>5, <2>2 DEF SettledBy
      <3>1. /\ QueueOf(s) /\ w.name \in DOMAIN Target(s)
            /\ DOMAIN dir' = DOMAIN dir \cup {w.name} /\ dir' = [x \in DOMAIN dir' |-> dir'[x]]
            /\ dir'[w.name] = Target(s)[w.name] /\ \A x \in DOMAIN dir \ {w.name} : dir'[x] = dir[x]
        BY <1>1, <1>2, AloneWrites DEF w
      <3> HIDE DEF s
      <3>2. /\ DOMAIN dir \ Queued(s) = DOMAIN Target(s) \ Queued(s)
            /\ \A n \in DOMAIN dir \ Queued(s) : dir[n] = Target(s)[n]
        BY <1>2, <1>3 DEF AloneOK
      <3>3. Queued(s) = {w.name}
        BY <1>3, <1>7 DEF Queued
      <3>4. DOMAIN dir' = DOMAIN Target(s)
        BY <3>1, <3>2, <3>3
      <3>5. \A n \in DOMAIN dir' : dir'[n] = Target(s)[n]
        BY <3>1, <3>2, <3>3
      <3>6. VerifyModel(Target(s)) /\ Target(s) = [n \in DOMAIN Target(s) |-> Target(s)[n]]
        BY <1>2, <1>3, TargetVerifies DEF KnownRun
      <3>7. dir' = Target(s)
        BY <3>1, <3>4, <3>5, <3>6
      <3> QED BY <3>6, <3>7
    <2> QED BY <2>1, <2>2
  <1>11. DiskOK'
    BY <1>2, <1>8, <1>10 DEF DiskOK, Left
  <1>12. RunOK(order, r)
    <2>1. CASE left = {}
      BY <2>1, IdleOK DEF r
    <2>2. CASE left # {}
      <3>1. RunOK(order, on)
        <4> HIDE DEF s
        <4> QED BY <1>2, <1>3, <1>4, <1>7, <2>2 DEF RunOK
      <3> QED BY <2>2, <3>1 DEF r
    <2> QED BY <2>1, <2>2
  <1>13. AloneOK(order, dir', r)
    <2>1. CASE left = {}
      BY <2>1, IdleOK DEF r
    <2>2. CASE left # {}
      <3> SUFFICES ASSUME s.alone, s.op \in {"seal", "sign"} PROVE AloneOK(order, dir', on)
        BY <1>4, <2>2 DEF AloneOK, r
      <3>1. /\ QueueOf(s) /\ w.name \in DOMAIN Target(s)
            /\ DOMAIN dir' = DOMAIN dir \cup {w.name}
            /\ dir'[w.name] = Target(s)[w.name] /\ \A x \in DOMAIN dir \ {w.name} : dir'[x] = dir[x]
        BY <1>1, <1>2, AloneWrites DEF w
      <3> HIDE DEF s
      <3>2. /\ DOMAIN dir \ Queued(s) = DOMAIN Target(s) \ Queued(s)
            /\ \A n \in DOMAIN dir \ Queued(s) : dir[n] = Target(s)[n]
        BY <1>2, <1>3 DEF AloneOK
      <3>3. Queued(s) = Queued(on) \cup {w.name} /\ w.name \notin Queued(on)
        <4>1. \A j \in left : s.queue[j].name # w.name
          BY <1>3, <1>7, <3>1 DEF QueueOf
        <4> QED BY <1>3, <1>4, <1>7, <4>1 DEF Queued
      <3>4. Target(on) = Target(s)
        BY <1>4 DEF Target
      <3>5. QueueOf(on)
        BY <1>4, <1>7, <3>1, <3>4 DEF QueueOf
      <3>6. DOMAIN dir' \ Queued(on) = DOMAIN Target(on) \ Queued(on)
        BY <3>1, <3>2, <3>3, <3>4
      <3>7. \A n \in DOMAIN dir' \ Queued(on) : dir'[n] = Target(on)[n]
        BY <3>1, <3>2, <3>3, <3>4
      <3> QED BY <1>4, <3>5, <3>6, <3>7 DEF AloneOK
    <2> QED BY <2>1, <2>2
  <1>14. Deks'
    <2>1. r.stage # "reading"
      BY <1>4 DEF r, Idle
    <2> QED BY <1>2, <1>9, <2>1, DeksKept
  <1>15. \A x \in wrapped' : Whole(x.files)
    BY <1>2 DEF Left
  <1>16. \A q \in Procs : Opened(wrapped', told'[q])
    BY <1>2 DEF Left
  <1> QED BY <1>2, <1>9, <1>11, <1>12, <1>13, <1>14, <1>15, <1>16, LeftStep

(***************************************************************************)
(* The theorems                                                             *)
(***************************************************************************)
LEMMA StartLeft ==
  ASSUME Inv, Left, NEW p \in Procs, NEW k \in Keys, NEW c \in Caps,
         \/ \E op \in {"seal", "verify", "verifySignature"} : StartOnDirectory(p, op, None, None)
         \/ StartOnDirectory(p, "sign", k, None)
         \/ \E given \in {None, k} : StartOnDirectory(p, "load", given, None)
         \/ StartOnDirectory(p, "pack", None, c) \/ StartOnDirectory(p, "encryptDirectory", k, c)
         \/ \E from \in Caps :
              \/ \E op \in {"extract", "verify", "verifySignature"} : StartOnCap(p, op, None, from, None)
              \/ \E given \in {None, k} : StartOnCap(p, "load", given, from, None)
              \/ \E op \in {"encryptCap", "decrypt"} : StartOnCap(p, op, k, from, c)
  PROVE  Left'
  <1>1. ASSUME NEW op \in {"seal", "verify", "verifySignature", "sign", "load", "pack", "encryptDirectory"},
               NEW key, NEW cap, StartOnDirectory(p, op, key, cap)
        PROVE  Left'
    <2>1. op \notin {"extract", "encryptCap", "decrypt"}
      OBVIOUS
    <2> QED BY <1>1, <2>1, StartOnDirectoryLeft
  <1>2. ASSUME NEW op \in {"extract", "verify", "verifySignature", "load", "encryptCap", "decrypt"},
               NEW key, NEW from \in Caps, NEW cap, StartOnCap(p, op, key, from, cap)
        PROVE  Left'
    <2>1. op \notin {"seal", "sign"}
      OBVIOUS
    <2> QED BY <1>2, <2>1, StartOnCapLeft
  <1> QED BY <1>1, <1>2, Zenon

LEMMA NextLeft == Inv /\ Left /\ [Next]_vars => Left'
  <1> SUFFICES ASSUME Inv, Left, [Next]_vars PROVE Left'
    OBVIOUS
  <1>1. CASE UNCHANGED vars
    BY <1>1 DEF vars, Left, DiskOK, Deks
  <1>2. ASSUME NEW p \in Procs, ReadNext(p) \/ Open(p) \/ Write(p) \/ Stop(p)
        PROVE  Left'
    BY <1>2, ReadNextLeft, OpenLeft, WriteLeft, StopLeft
  <1>3. ASSUME NEW p \in Procs,
               Seal(p) \/ Sign(p) \/ Pack(p) \/ EncryptDirectory(p) \/ EncryptCap(p) \/ Decrypt(p) \/ Extract(p)
        PROVE  Left'
    BY <1>3, SealLeft, SignLeft, PackLeft, EncryptDirectoryLeft, EncryptCapLeft, DecryptLeft, ExtractLeft
  <1>4. ASSUME NEW p \in Procs, Load(p) \/ Verify(p) \/ VerifySignature(p)
        PROVE  Left'
    BY <1>4, LoadLeft, VerifyLeft
  <1>5. ASSUME NEW e \in EditSet, Edit(e[1], e[2])
        PROVE  Left'
    BY <1>5, EditLeft
  <1> QED BY <1>1, <1>2, <1>3, <1>4, <1>5, StartLeft DEF Next

\* For any number of processes, edits, archives and stops: runs hold what they listed, an
\* archive is whole or torn, every envelope has a dek of its own, and an undisturbed seal
\* or sign run differs from its target only in what it has not written.
THEOREM WhatRunsLeave == Spec => []Left
  <1>1. Spec => []Inv
    BY Computed
  <1> QED BY <1>1, InitLeft, NextLeft, PTL DEF Spec

\* Every process holds what it listed, or an archive, and a writer has something to write.
THEOREM TypeCorrect == Spec => []TypeOK
  <1>1. Left => TypeOK
    <2> SUFFICES ASSUME Left PROVE TypeOK
      OBVIOUS
    <2>1. Idle.stage = "idle"
      BY DEF Idle
    <2>2. \A p \in Procs : /\ run[p].stage = "idle" <=> run[p] = Idle
                           /\ {order[i] : i \in run[p].todo} \cap DOMAIN run[p].got = {}
                           /\ run[p].stage \in {"writing", "open"} <=> DOMAIN run[p].queue # {}
      BY <2>1 DEF Left, RunOK
    <2>3. DOMAIN dir \subseteq Names /\ edits \in 0 .. MaxEdits /\ runs \in 0 .. MaxRuns
      BY DEF Left, DiskOK, Deks
    <2> QED BY <2>2, <2>3 DEF TypeOK
  <1> QED BY <1>1, WhatRunsLeave, PTL

\* An archive that was written to its end passes the checks it declares, or is an envelope,
\* whatever the directory it was packed from looked like meanwhile (packFiles, encryptCap,
\* decrypt).
THEOREM ArchivesHold == Spec => []ArchivesVerify
  <1>1. Left => ArchivesVerify
    BY DEF Left, DiskOK, WholeBytes, ArchivesVerify
  <1> QED BY <1>1, WhatRunsLeave, PTL

\* What a reactor opens with its key was put in an envelope for that key, also where
\* envelopes were extracted over each other (decryptFiles).
THEOREM EnvelopesOpen == Spec => []OpensWhatWasWrapped
  <1>1. Left => OpensWhatWasWrapped
    BY Zenon DEF Left, Opened, OpensWhatWasWrapped, Told
  <1> QED BY <1>1, WhatRunsLeave, PTL

\* A seal or sign run that nobody disturbed leaves a directory that passes the gates,
\* whatever stopped runs had left in it (writeSecurityFile, sign).
THEOREM RepairHolds == Spec => []RunAgainRepairs
  <1>1. Left => RunAgainRepairs
    BY DEF Left, DiskOK, RunAgainRepairs
  <1> QED BY <1>1, WhatRunsLeave, PTL
===============================================================================
