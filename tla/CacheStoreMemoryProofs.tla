------------------------ MODULE CacheStoreMemoryProofs ------------------------
(***************************************************************************)
(* What restore makes of the cache, for every set of packages and requests: *)
(* what it drops was damaged, what the isolate serves is what the next one  *)
(* restores, an isolate with a PACKAGE_URL never starts empty, and only a   *)
(* cache call rejected inside restore rejects initPromise.                  *)
(***************************************************************************)
EXTENDS CacheStoreProofs

\* One isolate at most: isolates share the cache and not their initPromise.
Solo == \A i, j \in Isolates : i = j

\* While initPromise runs, the requests of the isolate wait for it.
LEMMA InitAlone ==
  ASSUME Solo, TypeInv, PhaseInv, NEW t \in Tasks, IsInit(t), pc[t] # "idle",
         NEW u \in Tasks, u # t
  PROVE  pc[u] \in {"idle", "waiting"}
  <1>1. Iso(t) = Iso(u) /\ init[Iso(t)] = "running"
    BY TaskFields DEF Solo, PhaseInv, PhaseOK
  <1>2. ~IsInit(u)
    BY <1>1, TaskFields
  <1> QED BY <1>1, <1>2 DEF PhaseInv, PhaseOK

LEMMA KeyTypes == \A c \in Caps : c # NoCap /\ Files[c] \subseteq Paths /\ \A p \in Paths : Key(c, p) \in Keys
  BY ImageType, CapsAssumption DEF Blobs

(***************************************************************************)
(* restore drops only what is damaged                                       *)
(***************************************************************************)
\* What restore has read is what is stored, unless it was evicted since; and once it
\* has decided to drop an install, something of the install is missing or foreign.
DropOK(t) ==
  /\ pc[t] = "match" =>
       /\ listing[t] \in Caps /\ manifest \in {listing[t], NoCap}
       /\ todo[t] \subseteq Files[listing[t]]
       /\ \A p \in Files[listing[t]] \ todo[t] : stored[Key(listing[t], p)] \in {got[t][p], NoCap}
       /\ \A p \in Paths \ (Files[listing[t]] \ todo[t]) : got[t][p] = NoCap
  /\ pc[t] = "clear" /\ cap[t] = NoCap => manifest = NoCap \/ Damaged(manifest)
  /\ pc[t] = "delete" /\ cap[t] = NoCap => listing[t] = NoCap \/ Damaged(listing[t])
DropInv == \A t \in Tasks : DropOK(t)

Losing ==
  /\ manifest' \in {manifest, NoCap}
  /\ \A k \in Keys : stored'[k] \in {stored[k], NoCap}

\* A task that reads nothing while entries are lost.
LEMMA DropFrame ==
  ASSUME TypeInv, NEW t \in Tasks, DropOK(t), Losing,
         pc'[t] = "match" => /\ pc[t] = "match" /\ listing'[t] = listing[t]
                             /\ todo'[t] = todo[t] /\ got'[t] = got[t],
         pc'[t] = "clear" /\ cap'[t] = NoCap => pc[t] = "clear" /\ cap[t] = NoCap,
         pc'[t] = "delete" /\ cap'[t] = NoCap =>
           pc[t] = "delete" /\ cap[t] = NoCap /\ listing'[t] = listing[t]
  PROVE  DropOK(t)'
  <1>1. ASSUME NEW c \in Caps, Damaged(c) PROVE Damaged(c)'
    BY <1>1, KeyTypes DEF Damaged, Losing
  <1>2. CASE pc'[t] = "match"
    BY <1>2, KeyTypes DEF DropOK, Losing
  <1>3. CASE pc'[t] = "clear" /\ cap'[t] = NoCap
    <2>1. manifest \in Entry /\ manifest' \in {manifest, NoCap}
      BY DEF TypeInv, Types, Losing
    <2>2. manifest = NoCap \/ Damaged(manifest)
      BY <1>3 DEF DropOK
    <2>3. manifest' = NoCap \/ (manifest' = manifest /\ manifest \in Caps /\ Damaged(manifest))
      BY <2>1, <2>2 DEF Entry
    <2>4. manifest' = NoCap \/ (Damaged(manifest))'
      BY <1>1, <2>3 DEF Damaged
    <2> QED BY <1>3, <2>4 DEF DropOK
  <1>4. CASE pc'[t] = "delete" /\ cap'[t] = NoCap
    <2>1. listing[t] \in Entry /\ listing'[t] = listing[t]
      BY <1>4 DEF TypeInv, Types
    <2>2. listing[t] = NoCap \/ (listing[t] \in Caps /\ Damaged(listing[t]))
      BY <1>4, <2>1 DEF DropOK, Entry
    <2>3. listing'[t] = NoCap \/ (Damaged(listing[t]))'
      BY <1>1, <2>1, <2>2 DEF Damaged
    <2> QED BY <1>4, <2>3 DEF DropOK
  <1> QED BY <1>2, <1>3, <1>4 DEF DropOK

\* The verdict on the listed package itself is good: a bad one means a foreign file.
LEMMA BadVerdict ==
  ASSUME NEW c \in Caps, NEW files \in FileMap, FALSE \in Verdicts(files, c)
  PROVE  \E p \in Paths : files[p] # (IF p \in Files[c] THEN c ELSE NoCap)
  <1> SUFFICES ASSUME \A p \in Paths : files[p] = IF p \in Files[c] THEN c ELSE NoCap PROVE FALSE
    OBVIOUS
  <1>1. files = Image(c).files
    BY DEF Image, FileMap
  <1>2. files[SecurityJson] # NoCap => files[SecurityJson] = c
    BY PathsAssumption
  <1>3. files[SecurityJson] # NoCap => VerifyIntegrity(files)
    BY <1>2, PathsAssumption DEF VerifyIntegrity
  <1>4. CASE files[SecurityJson] # NoCap
    <2>1. Verdicts(files, c) = {VerifyIntegrity(files)}
      BY <1>4 DEF Verdicts
    <2>2. VerifyIntegrity(files) = FALSE
      BY <2>1, Zenon
    <2> QED BY <1>3, <1>4, <2>2
  <1>5. CASE files[SecurityJson] = NoCap
    <2>1. Verdicts(files, c) = {TRUE}
      BY <1>1, <1>5 DEF Verdicts
    <2> QED BY <2>1, Zenon
  <1> QED BY <1>4, <1>5

\* A task's row as far as restore and clearStored read it: unless it starts or goes on with
\* one of them, nothing is asked of it.
Steady(u) ==
  /\ pc'[u] = "match" => /\ pc[u] = "match" /\ listing'[u] = listing[u]
                         /\ todo'[u] = todo[u] /\ got'[u] = got[u]
  /\ pc'[u] = "clear" /\ cap'[u] = NoCap => pc[u] = "clear" /\ cap[u] = NoCap
  /\ pc'[u] = "delete" /\ cap'[u] = NoCap =>
       pc[u] = "delete" /\ cap[u] = NoCap /\ listing'[u] = listing[u]

\* The steps that only lose entries and after which every task goes on as it was.
LEMMA SteadySteps ==
  ASSUME TypeInv, NEW t \in Tasks,
         \/ \E b \in Blobs \cup {NoCap} : Arrive(t, b)
         \/ Resume(t) \/ ResumeRejected(t) \/ ClearFile(t) \/ ClearManifest(t) \/ Verify(t)
         \/ Adopt(t) \/ Startup(t) \/ CacheCallFails(t)
  PROVE  Losing /\ \A u \in Tasks : Steady(u)
  <1> USE TaskFields DEF TypeInv, Types, Losing, Steady
  <1>1. ASSUME NEW b \in Blobs \cup {NoCap}, Arrive(t, b) PROVE Losing /\ \A u \in Tasks : Steady(u)
    BY <1>1 DEF Arrive, Goto, At
  <1>2. CASE Resume(t)
    BY <1>2, FinishTasks DEF Resume, Goto, At
  <1>3. CASE ResumeRejected(t)
    BY <1>3, FinishTasks DEF ResumeRejected
  <1>4. CASE ClearFile(t)
    BY <1>4 DEF ClearFile, At
  <1>5. CASE ClearManifest(t)
    BY <1>5 DEF ClearManifest, Goto, At
  <1>6. CASE Verify(t)
    <2>1. Losing
      BY <1>6 DEF Verify
    <2>2. CASE cap[t] \in Caps
      BY <1>6, <2>1, <2>2, KeyTypes DEF Verify, Goto, At
    <2>3. CASE cap[t] \notin Caps
      BY <1>6, <2>1, <2>3, FinishTasks DEF Verify, GiveUp
    <2> QED BY <2>2, <2>3
  <1>7. CASE Adopt(t)
    BY <1>7, FinishTasks DEF Adopt
  <1>8. CASE Startup(t)
    BY <1>8, FinishTasks DEF Startup, GiveUp, Goto, At
  <1>9. CASE CacheCallFails(t)
    BY <1>9, FinishTasks DEF CacheCallFails, GiveUp
  <1> QED BY <1>1, <1>2, <1>3, <1>4, <1>5, <1>6, <1>7, <1>8, <1>9

LEMMA SteadyEvents ==
  ASSUME TypeInv,
         \/ EvictManifest \/ \E k \in Keys : EvictFile(k)
         \/ \E i \in Isolates : Restart(i)
         \/ UNCHANGED vars
  PROVE  Losing /\ \A u \in Tasks : Steady(u)
  <1> USE TaskFields DEF TypeInv, Types, Losing, Steady
  <1>1. CASE EvictManifest \/ \E k \in Keys : EvictFile(k)
    BY <1>1 DEF EvictManifest, EvictFile
  <1>2. ASSUME NEW i \in Isolates, Restart(i) PROVE Losing /\ \A u \in Tasks : Steady(u)
    BY <1>2, FinishTasks DEF Restart
  <1>3. CASE UNCHANGED vars
    BY <1>3 DEF vars
  <1> QED BY <1>1, <1>2, <1>3

LEMMA NextDropInv ==
  ASSUME Solo
  PROVE  TypeInv /\ PhaseInv /\ DropInv /\ [Next]_vars => DropInv'
  <1> SUFFICES ASSUME TypeInv, PhaseInv, DropInv, [Next]_vars PROVE DropInv'
    OBVIOUS
  <1> USE DEF TypeInv, Types
  <1>1. ASSUME Losing, NEW t \in Tasks, DropOK(t)', \A u \in Tasks \ {t} : Steady(u) PROVE DropInv'
    <2> SUFFICES ASSUME NEW u \in Tasks, u # t PROVE DropOK(u)'
      BY <1>1 DEF DropInv
    <2> QED BY <1>1, DropFrame DEF Steady, DropInv
  <1>2. ASSUME Losing, \A u \in Tasks : Steady(u) PROVE DropInv'
    BY <1>2, DropFrame DEF Steady, DropInv
  <1>3. ASSUME NEW t \in Tasks, RestoreManifest(t) PROVE DropInv'
    <2>1. /\ Losing /\ pc[t] = "restore" /\ UNCHANGED <<manifest, stored, cap>>
          /\ pc'[t] = IF manifest = NoCap THEN "startup" ELSE "match"
          /\ listing'[t] = manifest /\ todo'[t] = Listed(manifest) /\ got'[t] = got[t]
          /\ \A u \in Tasks \ {t} : pc'[u] = pc[u] /\ listing'[u] = listing[u] /\ todo'[u] = todo[u] /\ got'[u] = got[u]
      BY <1>3 DEF RestoreManifest, At, Goto, Losing
    <2>2. got[t] = NoFiles
      BY <2>1 DEF PhaseInv, PhaseOK
    <2>3. CASE manifest = NoCap
      <3>1. DropOK(t)'
        BY <2>1, <2>3 DEF DropOK
      <3> QED BY <1>1, <2>1, <3>1 DEF Steady
    <2>4. CASE manifest # NoCap
      <3>1. manifest \in Caps /\ Listed(manifest) = Files[manifest]
        BY <2>4 DEF Entry, Listed
      <3>2. DropOK(t)'
        BY <2>1, <2>2, <2>4, <3>1 DEF DropOK, NoFiles
      <3> QED BY <1>1, <2>1, <3>2 DEF Steady
    <2> QED BY <2>3, <2>4
  <1>4. ASSUME NEW t \in Tasks, RestoreFile(t) PROVE DropInv'
    <2>1. /\ pc[t] = "match" /\ UNCHANGED <<manifest, stored, installed, init, cap, listing>> /\ Losing /\ DropOK(t)
      BY <1>4 DEF RestoreFile, At, Losing, DropInv
    <2>2. PICK p \in todo[t] :
            LET entry == stored[Key(listing[t], p)] IN
            IF entry = NoCap
              THEN Goto(t, "clear") /\ UNCHANGED <<todo, got>>
              ELSE /\ Goto(t, "match")
                   /\ todo' = [todo EXCEPT ![t] = @ \ {p}]
                   /\ got' = [got EXCEPT ![t][p] = entry]
      BY <1>4 DEF RestoreFile
    <2> DEFINE c == listing[t]
    <2>3. c \in Caps /\ p \in Files[c] /\ p \in Paths /\ Key(c, p) \in Keys
      BY <2>1, <2>2, KeyTypes DEF DropOK
    <2>4. CASE stored[Key(c, p)] = NoCap
      <3>1. Goto(t, "clear") /\ UNCHANGED <<todo, got>>
        BY <2>2, <2>4
      <3>2. Damaged(c)
        BY <2>3, <2>4, KeyTypes DEF Damaged
      <3>3. manifest = NoCap \/ Damaged(manifest)
        BY <2>1, <3>2 DEF DropOK
      <3>4. pc'[t] = "clear" /\ \A u \in Tasks \ {t} : pc'[u] = pc[u]
        BY <3>1 DEF Goto
      <3>5. DropOK(t)'
        BY <2>1, <3>3, <3>4 DEF DropOK, Damaged
      <3> QED BY <1>1, <2>1, <3>1, <3>4, <3>5 DEF Steady
    <2>5. CASE stored[Key(c, p)] # NoCap
      <3>1. /\ pc'[t] = "match" /\ todo'[t] = todo[t] \ {p} /\ got'[t] = [got[t] EXCEPT ![p] = stored[Key(c, p)]]
            /\ \A u \in Tasks \ {t} : pc'[u] = pc[u] /\ todo'[u] = todo[u] /\ got'[u] = got[u]
        BY <2>1, <2>2, <2>5 DEF Goto
      <3>2. got[t] \in FileMap /\ stored[Key(c, p)] \in Entry
        BY <2>3
      <3>3. DropOK(t)'
        BY <2>1, <2>3, <3>1, <3>2 DEF DropOK, FileMap
      <3> QED BY <1>1, <2>1, <3>1, <3>3 DEF Steady
    <2> QED BY <2>4, <2>5
  <1>5. ASSUME NEW t \in Tasks, RestoreCheck(t) PROVE DropInv'
    <2>1. pc[t] = "match" /\ todo[t] = {} /\ UNCHANGED <<manifest, stored>> /\ Losing /\ DropOK(t)
      BY <1>5 DEF RestoreCheck, At, Losing, DropInv
    <2>2. PICK valid \in Verdicts(got[t], listing[t]) :
            IF valid
              THEN Finish({t})
              ELSE /\ Goto(t, "clear")
                   /\ UNCHANGED <<installed, init, cap, listing, todo, got>>
      BY <1>5 DEF RestoreCheck
    <2>3. CASE valid
      <3>1. Finish({t})
        BY <2>2, <2>3
      <3> QED BY <1>2, <2>1, <3>1, FinishTasks DEF Steady
    <2>4. CASE ~valid
      <3>1. Goto(t, "clear") /\ UNCHANGED <<cap, listing, todo, got>>
        BY <2>2, <2>4
      <3>2. listing[t] \in Caps /\ got[t] \in FileMap
        BY <2>1 DEF DropOK
      <3>3. FALSE \in Verdicts(got[t], listing[t])
        <4>1. valid \in BOOLEAN
          BY <2>2 DEF Verdicts, VerifyIntegrity
        <4>2. valid = FALSE
          BY <2>4, <4>1
        <4> QED BY <2>2, <4>2, Zenon
      <3>4. PICK p \in Paths : got[t][p] # (IF p \in Files[listing[t]] THEN listing[t] ELSE NoCap)
        BY <3>2, <3>3, BadVerdict
      <3>5. p \in Files[listing[t]] /\ stored[Key(listing[t], p)] # listing[t]
        BY <2>1, <3>2, <3>4, KeyTypes DEF DropOK
      <3>6. manifest = NoCap \/ Damaged(manifest)
        BY <2>1, <3>5 DEF DropOK, Damaged
      <3>7. pc'[t] = "clear" /\ \A u \in Tasks \ {t} : pc'[u] = pc[u]
        BY <3>1 DEF Goto
      <3>8. DropOK(t)'
        BY <2>1, <3>6, <3>7 DEF DropOK, Damaged
      <3> QED BY <1>1, <2>1, <3>1, <3>7, <3>8 DEF Steady
    <2> QED BY <2>3, <2>4
  <1>6. ASSUME NEW t \in Tasks, ClearManifestRead(t) PROVE DropInv'
    <2>1. /\ Losing /\ pc[t] = "clear" /\ UNCHANGED <<manifest, stored, cap, got>> /\ DropOK(t)
          /\ pc'[t] = "delete" /\ listing'[t] = manifest
          /\ \A u \in Tasks \ {t} : pc'[u] = pc[u] /\ listing'[u] = listing[u] /\ todo'[u] = todo[u]
      BY <1>6 DEF ClearManifestRead, At, Goto, Losing, DropInv
    <2>2. DropOK(t)'
      BY <2>1 DEF DropOK, Damaged
    <2> QED BY <1>1, <2>1, <2>2 DEF Steady
  <1>7. ASSUME NEW t \in Tasks, PutFile(t) \/ PutManifest(t) PROVE DropInv'
    <2>1. pc[t] = "put" /\ cap[t] # NoCap /\ UNCHANGED <<cap, listing, got>>
      BY <1>7, KeyTypes DEF PutFile, PutManifest, At, TaskInv, TaskOK
    <2>2. pc'[t] \in {"put", "adopt"} /\ \A u \in Tasks \ {t} : pc'[u] = pc[u]
      BY <1>7, <2>1 DEF PutFile, PutManifest, Goto
    <2>3. ASSUME NEW u \in Tasks PROVE DropOK(u)'
      <3>1. CASE u = t
        BY <2>2, <3>1 DEF DropOK
      <3>2. CASE u # t
        <4>1. ~(IsInit(u) /\ pc[u] # "idle")
          BY <2>1, <3>2, InitAlone
        <4>2. PhaseOK(u)
          BY DEF PhaseInv
        <4> QED BY <2>1, <2>2, <3>2, <4>1, <4>2 DEF PhaseOK, DropOK
      <3> QED BY <3>1, <3>2
    <2> QED BY <2>3 DEF DropInv
  <1> QED BY <1>2, <1>3, <1>4, <1>5, <1>6, <1>7, SteadySteps, SteadyEvents DEF Next, TaskStep, Environment

LEMMA InitPhase == Init => PhaseInv
  BY TaskFields DEF Init, PhaseInv, PhaseOK

\* One isolate: whatever is evicted, refused or cut short and however its installs overlap,
\* restore drops only an install of which a file is missing or foreign (store.ts:129-133).
THEOREM DropsAreDue == ASSUME Solo PROVE Spec => []DropsOnlyDamaged
  <1>1. Init => TypeInv /\ PhaseInv /\ DropInv
    BY InitTypeInv, InitPhase DEF Init, DropInv, DropOK
  <1>2. TypeInv /\ PhaseInv /\ DropInv /\ [Next]_vars => (TypeInv /\ PhaseInv /\ DropInv)'
    BY NextTypeInv, NextPhaseInv, NextDropInv
  <1>3. DropInv => DropsOnlyDamaged
    BY DEF DropInv, DropOK, DropsOnlyDamaged, At
  <1> QED BY <1>1, <1>2, <1>3, PTL DEF Spec

(***************************************************************************)
(* A rejected initPromise                                                   *)
(***************************************************************************)
\* Who settles initPromise, and who finds it rejected.
EmptyInv == \A i \in Isolates : init[i] # "done" => installed[i] = NoInstall

\* Every step that changes initPromise or what an isolate serves.
LEMMA InitMoves ==
  ASSUME TypeInv, PhaseInv, [Next]_vars, NEW i \in Isolates,
         init'[i] # init[i] \/ installed'[i] # installed[i]
  PROVE  \/ init[i] = "none" /\ init'[i] = "running" /\ installed'[i] = installed[i]
         \/ init[i] = "running" /\ init'[i] = "done"
         \/ /\ init[i] = "running" /\ init'[i] = "rejected" /\ installed'[i] = installed[i]
            /\ cap[InitTask(i)] = NoCap
            /\ pc[InitTask(i)] \in {"restore", "match", "clear", "delete"}
         \/ init[i] = "done" /\ init'[i] = "done"
         \/ init'[i] = "none" /\ installed'[i] = NoInstall
  <1> USE TaskFields DEF TypeInv, Types
  <1>1. \A t \in Tasks : PhaseOK(t) /\ TaskOK(t)
    BY DEF PhaseInv, TaskInv
  <1>2. ASSUME NEW t \in Tasks, GiveUp(t), pc[t] # "idle", UNCHANGED installed
        PROVE  init[i] = "running" /\ init'[i] = "done"
    BY <1>1, <1>2 DEF GiveUp, Settle, PhaseOK
  <1>3. ASSUME NEW t \in Tasks, NEW b \in Blobs \cup {NoCap}, Arrive(t, b)
        PROVE  init[i] = "none" /\ init'[i] = "running" /\ installed'[i] = installed[i]
    BY <1>3 DEF Arrive, Settle
  <1>4. ASSUME NEW t \in Tasks, RestoreCheck(t) PROVE init[i] = "running" /\ init'[i] = "done"
    BY <1>1, <1>4 DEF RestoreCheck, At, Settle, PhaseOK
  <1>5. ASSUME NEW t \in Tasks, Adopt(t)
        PROVE  init'[i] = "done" /\ init[i] \in {"running", "done"}
    BY <1>1, <1>5 DEF Adopt, At, Settle, PhaseOK
  <1>6. ASSUME NEW t \in Tasks, Verify(t) PROVE init[i] = "running" /\ init'[i] = "done"
    BY <1>2, <1>6 DEF Verify, At
  <1>7. ASSUME NEW t \in Tasks, Startup(t) PROVE init[i] = "running" /\ init'[i] = "done"
    BY <1>2, <1>7 DEF Startup, At
  <1>8. ASSUME NEW t \in Tasks, CacheCallFails(t)
        PROVE  \/ init[i] = "running" /\ init'[i] = "done"
               \/ /\ init[i] = "running" /\ init'[i] = "rejected" /\ installed'[i] = installed[i]
                  /\ cap[InitTask(i)] = NoCap
                  /\ pc[InitTask(i)] \in {"restore", "match", "clear", "delete"}
    <2>1. pc[t] \in {"restore", "match", "clear", "delete", "put"} /\ UNCHANGED installed
      BY <1>8 DEF CacheCallFails
    <2>2. CASE cap[t] = NoCap
      <3>1. pc[t] # "put" /\ IsInit(t)
        BY <1>1, <2>1, <2>2, CapsAssumption DEF PhaseOK, TaskOK, Blobs
      <3>2. Iso(t) = i /\ init'[i] = "rejected"
        BY <1>8, <2>1, <2>2 DEF CacheCallFails, Settle
      <3>3. t = InitTask(i)
        BY <3>1, <3>2
      <3> QED BY <1>1, <2>1, <2>2, <3>1, <3>2, <3>3 DEF PhaseOK
    <2>3. CASE cap[t] # NoCap
      BY <1>2, <1>8, <2>1, <2>3 DEF CacheCallFails
    <2> QED BY <2>2, <2>3
  <1>9. ASSUME NEW j \in Isolates, Restart(j) PROVE init'[i] = "none" /\ installed'[i] = NoInstall
    BY <1>9 DEF Restart
  <1> QED BY <1>3, <1>4, <1>5, <1>6, <1>7, <1>8, <1>9
          DEF Next, TaskStep, Environment, vars, Resume, ResumeRejected, RestoreManifest, RestoreFile,
              ClearManifestRead, ClearFile, ClearManifest, PutFile, PutManifest, EvictManifest, EvictFile

\* For any isolates, packages and faults, however installs overlap: only a cache call
\* rejected inside restore rejects initPromise, and an isolate with a rejected initPromise
\* installs and serves nothing until it is discarded (create-worker.ts:116-136, 187-188).
THEOREM RejectionContained == Spec => OnlyRestoreRejects
  <1> DEFINE Inv == TypeInv /\ PhaseInv /\ EmptyInv
             Rejects_ == \A i \in Isolates :
               /\ init[i] # "rejected" /\ init'[i] = "rejected" =>
                    /\ cap[InitTask(i)] = NoCap
                    /\ pc[InitTask(i)] \in {"restore", "match", "clear", "delete"}
               /\ init[i] = "rejected" =>
                    init'[i] \in {"rejected", "none"} /\ installed'[i] = NoInstall
  <1>1. Init => Inv
    BY InitTypeInv, InitPhase DEF Init, EmptyInv
  <1>2. Inv /\ [Next]_vars => EmptyInv' /\ [Rejects_]_vars
    <2> SUFFICES ASSUME Inv, [Next]_vars PROVE EmptyInv' /\ Rejects_
      OBVIOUS
    <2>1. ASSUME NEW i \in Isolates PROVE init'[i] # "done" => installed'[i] = NoInstall
      BY <2>1, InitMoves DEF EmptyInv
    <2>2. ASSUME NEW i \in Isolates, init[i] = "rejected"
          PROVE  init'[i] \in {"rejected", "none"} /\ installed'[i] = NoInstall
      BY <2>1, <2>2, InitMoves
    <2>3. ASSUME NEW i \in Isolates, init[i] # "rejected", init'[i] = "rejected"
          PROVE  cap[InitTask(i)] = NoCap /\ pc[InitTask(i)] \in {"restore", "match", "clear", "delete"}
      BY <2>3, InitMoves
    <2> QED BY <2>1, <2>2, <2>3 DEF EmptyInv
  <1>3. Inv /\ [Next]_vars => Inv'
    BY <1>2, NextTypeInv, NextPhaseInv
  <1> QED BY <1>1, <1>2, <1>3, PTL DEF Spec, OnlyRestoreRejects

(***************************************************************************)
(* A PACKAGE_URL that answers                                               *)
(***************************************************************************)
\* initialize installs nothing but the package of PACKAGE_URL, and restore serves only
\* what a manifest listed.
StartOK(t) ==
  /\ pc[t] = "match" => listing[t] # NoCap
  /\ IsInit(t) /\ cap[t] # NoCap => cap[t] = PackageUrl
  /\ IsInit(t) /\ pc[t] = "verify" => cap[t] = PackageUrl
StartInv ==
  /\ \A t \in Tasks : StartOK(t)
  /\ \A i \in Isolates : init[i] = "done" => installed[i] # NoInstall

LEMMA Something ==
  /\ \A c \in Caps : Image(c) # NoInstall
  /\ \A c \in Caps : \A files : [hash |-> c, files |-> files] # NoInstall
  BY KeyTypes DEF Image, NoInstall

LEMMA NextStartInv ==
  ASSUME PackageUrl \in Caps, Faults \cap {"cache", "fetch"} = {}
  PROVE  TypeInv /\ StartInv /\ [Next]_vars => StartInv'
  <1> SUFFICES ASSUME TypeInv, StartInv, [Next]_vars PROVE StartInv'
    OBVIOUS
  <1> DEFINE Served(i) == init[i] = "done" => installed[i] # NoInstall
  <1> USE TaskFields DEF TypeInv, Types
  <1>1. /\ \A t \in Tasks : StartOK(t) /\ TaskOK(t)
        /\ \A i \in Isolates : Served(i)
    BY DEF StartInv, TaskInv
  <1>2. ASSUME \A u \in Tasks : StartOK(u)', \A i \in Isolates : Served(i)' PROVE StartInv'
    BY <1>2 DEF StartInv
  <1>3. ASSUME NEW t \in Tasks, NEW b \in Blobs \cup {NoCap}, Arrive(t, b) PROVE StartInv'
    <2>1. \A u \in Tasks : StartOK(u)'
      BY <1>1, <1>3 DEF Arrive, Goto, At, StartOK
    <2>2. \A i \in Isolates : Served(i)'
      BY <1>1, <1>3 DEF Arrive, Settle
    <2> QED BY <1>2, <2>1, <2>2
  <1>4. ASSUME NEW t \in Tasks, Resume(t) \/ ResumeRejected(t) PROVE StartInv'
    <2>1. \A u \in Tasks : StartOK(u)'
      BY <1>1, <1>4, FinishTasks DEF Resume, ResumeRejected, Goto, At, StartOK
    <2> QED BY <1>1, <1>2, <1>4, <2>1 DEF Resume, ResumeRejected
  <1>5. ASSUME NEW t \in Tasks, RestoreManifest(t) PROVE StartInv'
    <2>1. \A u \in Tasks : StartOK(u)'
      BY <1>1, <1>5 DEF RestoreManifest, Goto, At, StartOK
    <2> QED BY <1>1, <1>2, <1>5, <2>1 DEF RestoreManifest
  <1>6. ASSUME NEW t \in Tasks, RestoreFile(t) PROVE StartInv'
    <2>1. \A u \in Tasks : StartOK(u)'
      BY <1>1, <1>6 DEF RestoreFile, Goto, At, StartOK
    <2> QED BY <1>1, <1>2, <1>6, <2>1 DEF RestoreFile
  <1>7. ASSUME NEW t \in Tasks, RestoreCheck(t) PROVE StartInv'
    <2>1. \A u \in Tasks : StartOK(u)'
      BY <1>1, <1>7, FinishTasks DEF RestoreCheck, Goto, At, StartOK
    <2>2. listing[t] \in Caps
      BY <1>1, <1>7 DEF RestoreCheck, At, StartOK, Entry
    <2>3. \A i \in Isolates : Served(i)'
      BY <1>1, <1>7, <2>2, Something DEF RestoreCheck, Settle
    <2> QED BY <1>2, <2>1, <2>3
  <1>8. ASSUME NEW t \in Tasks, ClearManifestRead(t) PROVE StartInv'
    <2>1. \A u \in Tasks : StartOK(u)'
      BY <1>1, <1>8 DEF ClearManifestRead, Goto, At, StartOK
    <2> QED BY <1>1, <1>2, <1>8, <2>1 DEF ClearManifestRead
  <1>9. ASSUME NEW t \in Tasks, ClearFile(t) \/ ClearManifest(t) PROVE StartInv'
    <2>1. \A u \in Tasks : StartOK(u)'
      BY <1>1, <1>9 DEF ClearFile, ClearManifest, Goto, At, StartOK
    <2> QED BY <1>1, <1>2, <1>9, <2>1 DEF ClearFile, ClearManifest
  <1>10. ASSUME NEW t \in Tasks, Verify(t) PROVE StartInv'
    <2>1. IsInit(t) => cap[t] \in Caps
      BY <1>1, <1>10 DEF Verify, At, StartOK
    <2>2. CASE cap[t] \in Caps
      <3>1. Goto(t, "clear") /\ UNCHANGED <<init, cap, listing, installed>>
        BY <1>10, <2>2 DEF Verify
      <3>2. \A u \in Tasks : StartOK(u)'
        BY <1>1, <3>1 DEF Goto, StartOK
      <3> QED BY <1>1, <1>2, <3>1, <3>2
    <2>3. CASE cap[t] \notin Caps
      <3>1. Finish({t}) /\ UNCHANGED <<init, installed>>
        BY <1>10, <2>1, <2>3 DEF Verify, GiveUp
      <3>2. \A u \in Tasks : StartOK(u)'
        BY <1>1, <3>1, FinishTasks DEF StartOK
      <3> QED BY <1>1, <1>2, <3>1, <3>2
    <2> QED BY <2>2, <2>3
  <1>11. ASSUME NEW t \in Tasks, PutFile(t) \/ PutManifest(t) PROVE StartInv'
    <2>1. \A u \in Tasks : StartOK(u)'
      BY <1>1, <1>11 DEF PutFile, PutManifest, Goto, At, StartOK
    <2> QED BY <1>1, <1>2, <1>11, <2>1 DEF PutFile, PutManifest
  <1>12. ASSUME NEW t \in Tasks, Adopt(t) PROVE StartInv'
    <2>1. \A u \in Tasks : StartOK(u)'
      BY <1>1, <1>12, FinishTasks DEF Adopt, StartOK
    <2>2. cap[t] \in Caps
      BY <1>1, <1>12 DEF Adopt, At, TaskOK
    <2>3. \A i \in Isolates : Served(i)'
      BY <1>1, <1>12, <2>2, Something DEF Adopt, Settle
    <2> QED BY <1>2, <2>1, <2>3
  <1>13. ASSUME NEW t \in Tasks, Startup(t) PROVE StartInv'
    <2>1. Goto(t, "verify") /\ cap' = [cap EXCEPT ![t] = PackageUrl] /\ UNCHANGED <<init, listing, installed>>
      BY <1>13, CapsAssumption DEF Startup, Blobs
    <2>2. \A u \in Tasks : StartOK(u)'
      BY <1>1, <2>1 DEF Goto, StartOK
    <2> QED BY <1>1, <1>2, <2>1, <2>2
  <1>14. ASSUME EvictManifest \/ (\E k \in Keys : EvictFile(k)) \/ UNCHANGED vars PROVE StartInv'
    <2>1. UNCHANGED <<installed, init, pc, cap, listing>>
      BY <1>14 DEF EvictManifest, EvictFile, vars
    <2> QED BY <1>1, <1>2, <2>1 DEF StartOK
  <1>15. ASSUME NEW i \in Isolates, Restart(i) PROVE StartInv'
    <2>1. \A u \in Tasks : StartOK(u)'
      BY <1>1, <1>15, FinishTasks DEF Restart, StartOK
    <2>2. \A j \in Isolates : Served(j)'
      BY <1>1, <1>15 DEF Restart
    <2> QED BY <1>2, <2>1, <2>2
  <1>16. \A t \in Tasks : ~CacheCallFails(t)
    BY DEF CacheCallFails
  <1> QED BY <1>3, <1>4, <1>5, <1>6, <1>7, <1>8, <1>9, <1>10, <1>11, <1>12, <1>13, <1>14, <1>15, <1>16
          DEF Next, TaskStep, Environment

\* However many isolates evict, restart and install over each other: with a PACKAGE_URL that
\* answers a good package and a cache whose calls do not reject, no isolate starts empty.
THEOREM StartsServing ==
  ASSUME PackageUrl \in Caps, Faults \cap {"cache", "fetch"} = {}
  PROVE  Spec => []StartupServes
  <1>1. Init => TypeInv /\ StartInv
    BY InitTypeInv, TaskFields DEF Init, StartInv, StartOK
  <1>2. TypeInv /\ StartInv /\ [Next]_vars => (TypeInv /\ StartInv)'
    BY NextTypeInv, NextStartInv
  <1>3. StartInv => StartupServes
    BY DEF StartInv, StartupServes
  <1> QED BY <1>1, <1>2, <1>3, PTL DEF Spec

(***************************************************************************)
(* One isolate, one installer, a cache that keeps what it was given: how far *)
(* each task has got, and what it leaves behind.                             *)
(***************************************************************************)
StageOK(t) ==
  /\ pc[t] = "match" =>
       /\ listing[t] \in Caps /\ manifest = listing[t]
       /\ \A p \in Files[listing[t]] \ todo[t] : stored[Key(listing[t], p)] = listing[t]
  /\ pc[t] = "startup" => manifest = NoCap
  /\ IsInit(t) /\ pc[t] = "verify" => manifest = NoCap
  /\ pc[t] = "put" => \A p \in Files[cap[t]] \ todo[t] : stored[Key(cap[t], p)] = cap[t]
  /\ pc[t] = "adopt" => manifest = cap[t] /\ ~Damaged(cap[t])
StageInv ==
  /\ \A t \in Tasks : StageOK(t)
  /\ \A i \in Isolates : init[i] # "done" => installed[i] = NoInstall

\* A task whose entries nobody touches.
LEMMA StageFrame ==
  ASSUME NEW t \in Tasks, StageOK(t), UNCHANGED <<manifest, stored>>, pc'[t] = pc[t],
         pc[t] \in {"match", "put", "adopt"} =>
           cap'[t] = cap[t] /\ listing'[t] = listing[t] /\ todo'[t] = todo[t]
  PROVE  StageOK(t)'
  BY DEF StageOK, Damaged

\* Who writes entries writes alone.
LEMMA WriterAlone ==
  ASSUME Solo, TypeInv, PhaseInv, OneInstaller,
         NEW t \in Tasks, pc[t] \in {"delete", "put"}, NEW u \in Tasks, u # t
  PROVE  /\ pc[u] \notin {"match", "startup", "put", "adopt"}
         /\ ~(IsInit(u) /\ pc[u] = "verify")
  <1>1. ~(IsInit(u) /\ pc[u] # "idle")
    BY InitAlone
  <1>2. pc[u] \notin {"match", "startup"}
    BY <1>1 DEF PhaseInv, PhaseOK
  <1>3. ASSUME pc[u] \in {"put", "adopt"} PROVE FALSE
    <2>1. Installing(u) /\ ~IsInit(u)
      BY <1>1, <1>3 DEF TypeInv, TaskInv, TaskOK, Installing
    <2>2. CASE cap[t] = NoCap
      <3>1. IsInit(t)
        BY <2>2, KeyTypes DEF TypeInv, TaskInv, TaskOK, PhaseInv, PhaseOK
      <3> QED BY <1>3, <3>1, InitAlone
    <2>3. CASE cap[t] # NoCap
      <3>1. Installing(t)
        BY <2>3 DEF TypeInv, TaskInv, TaskOK, Entry, Installing
      <3> QED BY <2>1, <3>1 DEF OneInstaller
    <2> QED BY <2>2, <2>3
  <1> QED BY <1>1, <1>2, <1>3

LEMMA RestoreStage ==
  ASSUME SoloInv, StageInv, NEW t \in Tasks,
         RestoreManifest(t) \/ RestoreFile(t) \/ RestoreCheck(t) \/ ClearManifestRead(t)
  PROVE  StageInv'
  <1> USE TaskFields DEF TypeInv, Types
  <1>1. TypeInv /\ PhaseInv /\ (\A u \in Tasks : StageOK(u))
        /\ UNCHANGED <<manifest, stored>>
    BY DEF SoloInv, SerialInv, StageInv, RestoreManifest, RestoreFile, RestoreCheck, ClearManifestRead
  <1>2. ASSUME UNCHANGED <<installed, init, cap>>, StageOK(t)',
               \A u \in Tasks \ {t} : pc'[u] = pc[u] /\ listing'[u] = listing[u] /\ todo'[u] = todo[u]
        PROVE  StageInv'
    BY <1>1, <1>2, StageFrame DEF StageInv
  <1>3. CASE RestoreManifest(t)
    <2>1. /\ pc[t] = "restore" /\ pc'[t] = IF manifest = NoCap THEN "startup" ELSE "match"
          /\ listing'[t] = manifest /\ todo'[t] = Listed(manifest) /\ UNCHANGED <<installed, init, cap>>
          /\ \A u \in Tasks \ {t} : pc'[u] = pc[u] /\ listing'[u] = listing[u] /\ todo'[u] = todo[u]
      BY <1>1, <1>3 DEF RestoreManifest, At, Goto
    <2>2. StageOK(t)'
      BY <1>1, <2>1 DEF StageOK, Listed, Entry
    <2> QED BY <1>2, <2>1, <2>2
  <1>4. CASE RestoreFile(t)
    <2>1. pc[t] = "match" /\ UNCHANGED <<installed, init, cap, listing>> /\ ReadOK(t)
      BY <1>4 DEF RestoreFile, At, SoloInv
    <2>2. PICK p \in todo[t] :
            LET entry == stored[Key(listing[t], p)] IN
            IF entry = NoCap
              THEN Goto(t, "clear") /\ UNCHANGED <<todo, got>>
              ELSE /\ Goto(t, "match")
                   /\ todo' = [todo EXCEPT ![t] = @ \ {p}]
                   /\ got' = [got EXCEPT ![t][p] = entry]
      BY <1>4 DEF RestoreFile
    <2>3. CASE stored[Key(listing[t], p)] = NoCap
      <3>1. pc'[t] = "clear" /\ UNCHANGED todo /\ \A u \in Tasks \ {t} : pc'[u] = pc[u]
        BY <1>1, <2>2, <2>3 DEF Goto
      <3>2. StageOK(t)'
        BY <3>1 DEF StageOK
      <3> QED BY <1>2, <2>1, <3>1, <3>2
    <2>4. CASE stored[Key(listing[t], p)] # NoCap
      <3>1. /\ pc'[t] = "match" /\ todo'[t] = todo[t] \ {p}
            /\ \A u \in Tasks \ {t} : pc'[u] = pc[u] /\ todo'[u] = todo[u]
        BY <1>1, <2>1, <2>2, <2>4 DEF Goto
      <3>2. stored[Key(listing[t], p)] = listing[t]
        BY <2>1, <2>2, <2>4 DEF ReadOK
      <3>3. StageOK(t)'
        BY <1>1, <2>1, <3>1, <3>2 DEF StageOK
      <3> QED BY <1>2, <2>1, <3>1, <3>3
    <2> QED BY <2>3, <2>4
  <1>5. CASE RestoreCheck(t)
    <2>1. CASE UNCHANGED <<installed, init, cap, listing, todo>> /\ Goto(t, "clear")
      <3>1. pc'[t] = "clear" /\ \A u \in Tasks \ {t} : pc'[u] = pc[u]
        BY <1>1, <2>1 DEF Goto
      <3>2. StageOK(t)'
        BY <3>1 DEF StageOK
      <3> QED BY <1>2, <2>1, <3>1, <3>2
    <2>2. CASE /\ installed' = [installed EXCEPT ![Iso(t)] = [hash |-> listing[t], files |-> got[t]]]
               /\ Settle(t, "done") /\ Finish({t})
      <3>1. pc'[t] = "idle" /\ \A u \in Tasks \ {t} : pc'[u] = pc[u] /\ cap'[u] = cap[u] /\ listing'[u] = listing[u] /\ todo'[u] = todo[u]
        BY <1>1, <2>2, FinishTasks
      <3>2. \A u \in Tasks : StageOK(u)'
        <4>1. StageOK(t)'
          BY <3>1 DEF StageOK
        <4> QED BY <1>1, <3>1, <4>1, StageFrame
      <3>3. \A i \in Isolates : init'[i] # "done" => installed'[i] = NoInstall
        BY <1>1, <2>2 DEF Settle, StageInv
      <3> QED BY <3>2, <3>3 DEF StageInv
    <2> QED BY <1>5, <2>1, <2>2 DEF RestoreCheck
  <1>6. CASE ClearManifestRead(t)
    <2>1. /\ pc'[t] = "delete" /\ UNCHANGED <<installed, init, cap>>
          /\ \A u \in Tasks \ {t} : pc'[u] = pc[u] /\ listing'[u] = listing[u] /\ todo'[u] = todo[u]
      BY <1>1, <1>6 DEF ClearManifestRead, Goto
    <2>2. StageOK(t)'
      BY <2>1 DEF StageOK
    <2> QED BY <1>2, <2>1, <2>2
  <1> QED BY <1>3, <1>4, <1>5, <1>6

\* The steps that write: what they leave is nobody else's business.
LEMMA WriteStage ==
  ASSUME Solo, SoloInv, StageInv, NEW t \in Tasks,
         ClearFile(t) \/ ClearManifest(t) \/ PutFile(t) \/ PutManifest(t)
  PROVE  StageInv'
  <1> USE TaskFields DEF TypeInv, Types
  <1>1. TypeInv /\ PhaseInv /\ OneInstaller /\ StageOK(t) /\ pc[t] \in {"delete", "put"}
        /\ UNCHANGED <<installed, init, cap, listing>>
    BY DEF SoloInv, SerialInv, StageInv, ClearFile, ClearManifest, PutFile, PutManifest, At
  <1>2. \A u \in Tasks \ {t} : pc'[u] = pc[u]
    BY <1>1 DEF ClearFile, ClearManifest, PutFile, PutManifest, Goto
  <1>3. ASSUME NEW u \in Tasks, u # t PROVE StageOK(u)'
    <2>1. pc[u] \notin {"match", "startup", "put", "adopt"} /\ ~(IsInit(u) /\ pc[u] = "verify")
      BY <1>1, <1>3, WriterAlone
    <2> QED BY <1>2, <1>3, <2>1 DEF StageOK
  <1>4. ASSUME StageOK(t)' PROVE StageInv'
    BY <1>1, <1>3, <1>4 DEF StageInv
  <1>5. CASE ClearFile(t)
    <2>1. pc'[t] = "delete"
      BY <1>5 DEF ClearFile, At
    <2> QED BY <1>4, <2>1 DEF StageOK
  <1>6. CASE ClearManifest(t)
    <2>1. manifest' = NoCap /\ pc'[t] \in {"startup", "put"}
          /\ (pc'[t] = "put" => todo'[t] = Files[cap[t]])
      BY <1>1, <1>6 DEF ClearManifest, Goto
    <2> QED BY <1>1, <1>4, <2>1 DEF StageOK
  <1>7. CASE PutFile(t)
    <2>1. pc[t] = "put" /\ pc'[t] = "put" /\ cap[t] \in Caps /\ UNCHANGED cap
      BY <1>1, <1>7 DEF PutFile, At, TaskInv, TaskOK
    <2>2. PICK p \in todo[t] :
            /\ stored' = [stored EXCEPT ![Key(cap[t], p)] = cap[t]]
            /\ todo' = [todo EXCEPT ![t] = @ \ {p}]
      BY <1>7 DEF PutFile
    <2>3. ASSUME NEW q \in Files[cap[t]] \ todo'[t] PROVE stored'[Key(cap[t], q)] = cap[t]
      <3>1. Key(cap[t], q) \in Keys /\ (q = p \/ q \in Files[cap[t]] \ todo[t])
        BY <1>1, <2>1, <2>2, KeyTypes
      <3>2. CASE q = p
        BY <1>1, <2>2, <3>1, <3>2
      <3>3. CASE q \in Files[cap[t]] \ todo[t]
        BY <1>1, <2>1, <2>2, <3>1, <3>3 DEF StageOK
      <3> QED BY <3>1, <3>2, <3>3
    <2> QED BY <1>4, <2>1, <2>3 DEF StageOK
  <1>8. CASE PutManifest(t)
    <2>1. pc[t] = "put" /\ pc'[t] = "adopt" /\ manifest' = cap[t] /\ todo[t] = {}
          /\ UNCHANGED <<stored, cap>>
      BY <1>1, <1>8 DEF PutManifest, At, Goto
    <2>2. ~Damaged(cap[t])
      BY <1>1, <2>1 DEF StageOK, Damaged
    <2>3. (~Damaged(cap[t]))'
      BY <2>1, <2>2 DEF Damaged
    <2> QED BY <1>4, <2>1, <2>3 DEF StageOK
  <1> QED BY <1>5, <1>6, <1>7, <1>8

\* The other steps of requests and of initialize, failures and restarts.
LEMMA RestStage ==
  ASSUME SoloInv, StageInv, "evict" \notin Faults, NEW t \in Tasks,
         \/ \E b \in Blobs \cup {NoCap} : Arrive(t, b)
         \/ Resume(t) \/ ResumeRejected(t) \/ Verify(t) \/ Adopt(t) \/ Startup(t) \/ CacheCallFails(t)
  PROVE  StageInv'
  <1> USE TaskFields DEF TypeInv, Types
  <1>1. TypeInv /\ PhaseInv /\ (\A u \in Tasks : StageOK(u) /\ PhaseOK(u))
        /\ (\A i \in Isolates : init[i] # "done" => installed[i] = NoInstall)
    BY DEF SoloInv, SerialInv, StageInv, PhaseInv
  <1>2. UNCHANGED <<manifest, stored>>
    BY DEF Arrive, Resume, ResumeRejected, Verify, Adopt, Startup, CacheCallFails
  <1> DEFINE Kept(u) == pc'[u] = pc[u] /\ cap'[u] = cap[u] /\ listing'[u] = listing[u] /\ todo'[u] = todo[u]
             Memory == \A i \in Isolates : init'[i] # "done" => installed'[i] = NoInstall
  <1>3. ASSUME StageOK(t)', \A u \in Tasks \ {t} : Kept(u), Memory PROVE StageInv'
    BY <1>1, <1>2, <1>3, StageFrame DEF StageInv
  <1>4. ASSUME Finish({t}), Memory PROVE StageInv'
    <2>1. pc'[t] = "idle" /\ \A u \in Tasks \ {t} : Kept(u)
      BY <1>1, <1>4, FinishTasks
    <2> QED BY <1>3, <1>4, <2>1 DEF StageOK
  <1>5. ASSUME NEW b \in Blobs \cup {NoCap}, Arrive(t, b) PROVE StageInv'
    <2>1. t \in Requests /\ UNCHANGED <<installed, listing, todo>> /\ cap' = [cap EXCEPT ![t] = b]
      BY <1>5 DEF Arrive
    <2>2. CASE init[Iso(t)] = "none"
      <3>1. /\ pc' = [pc EXCEPT ![t] = "waiting", ![InitTask(Iso(t))] = "restore"]
            /\ init' = [init EXCEPT ![Iso(t)] = "running"]
        BY <1>5, <2>2 DEF Arrive, Settle
      <3>2. \A u \in Tasks : pc'[u] \in {"waiting", "restore"} \/ Kept(u)
        BY <1>1, <2>1, <3>1
      <3>3. \A u \in Tasks : StageOK(u)'
        BY <1>1, <1>2, <3>2, StageFrame DEF StageOK
      <3> QED BY <1>1, <2>1, <2>2, <3>1, <3>3 DEF StageInv
    <2>3. CASE init[Iso(t)] # "none"
      <3>1. Goto(t, "waiting") /\ UNCHANGED init
        BY <1>5, <2>3 DEF Arrive
      <3>2. pc'[t] = "waiting" /\ \A u \in Tasks \ {t} : Kept(u)
        BY <1>1, <2>1, <3>1 DEF Goto
      <3> QED BY <1>1, <1>3, <2>1, <3>1, <3>2 DEF StageOK
    <2> QED BY <2>2, <2>3
  <1>6. CASE Resume(t)
    <2>1. t \in Requests /\ UNCHANGED <<installed, init>>
      BY <1>6 DEF Resume
    <2>2. CASE Goto(t, "verify") /\ UNCHANGED <<cap, listing, todo, got>>
      <3>1. pc'[t] = "verify" /\ \A u \in Tasks \ {t} : Kept(u)
        BY <1>1, <2>2 DEF Goto
      <3> QED BY <1>1, <1>3, <2>1, <3>1 DEF StageOK
    <2> QED BY <1>1, <1>4, <1>6, <2>1, <2>2 DEF Resume
  <1>7. CASE ResumeRejected(t)
    BY <1>1, <1>4, <1>7 DEF ResumeRejected
  <1>8. CASE Verify(t)
    <2>1. UNCHANGED installed /\ pc[t] = "verify"
      BY <1>8 DEF Verify, At
    <2>2. CASE Goto(t, "clear") /\ UNCHANGED <<init, cap, listing, todo, got>>
      <3>1. pc'[t] = "clear" /\ \A u \in Tasks \ {t} : Kept(u)
        BY <1>1, <2>2 DEF Goto
      <3> QED BY <1>1, <1>3, <2>1, <2>2, <3>1 DEF StageOK
    <2>3. CASE GiveUp(t)
      BY <1>1, <1>4, <2>1, <2>3 DEF GiveUp, Settle
    <2> QED BY <1>8, <2>2, <2>3 DEF Verify
  <1>9. CASE Adopt(t)
    <2>1. /\ Finish({t}) /\ pc[t] = "adopt"
          /\ installed' = [installed EXCEPT ![Iso(t)] = Image(cap[t])]
          /\ IF IsInit(t) THEN init' = [init EXCEPT ![Iso(t)] = "done"] ELSE UNCHANGED init
      BY <1>9 DEF Adopt, At, Settle
    <2>2. init'[Iso(t)] = "done" /\ \A i \in Isolates : i # Iso(t) => init'[i] = init[i] /\ installed'[i] = installed[i]
      BY <1>1, <2>1 DEF PhaseOK
    <2> QED BY <1>1, <1>4, <2>1, <2>2
  <1>10. CASE Startup(t)
    <2>1. UNCHANGED installed /\ pc[t] = "startup"
      BY <1>10 DEF Startup, At
    <2>2. CASE Goto(t, "verify") /\ cap' = [cap EXCEPT ![t] = PackageUrl] /\ UNCHANGED <<init, listing, todo, got>>
      <3>1. pc'[t] = "verify" /\ \A u \in Tasks \ {t} : Kept(u)
        BY <1>1, <2>2 DEF Goto
      <3>2. manifest' = NoCap
        BY <1>1, <1>2, <2>1 DEF StageOK
      <3> QED BY <1>1, <1>3, <2>1, <2>2, <3>1, <3>2 DEF StageOK
    <2>3. CASE GiveUp(t)
      BY <1>1, <1>4, <2>1, <2>3 DEF GiveUp, Settle
    <2> QED BY <1>10, <2>2, <2>3 DEF Startup
  <1>11. CASE CacheCallFails(t)
    <2>1. UNCHANGED installed /\ Finish({t}) /\ pc[t] \in {"restore", "match", "clear", "delete", "put"}
      BY <1>11 DEF CacheCallFails, GiveUp
    <2>2. CASE cap[t] = NoCap
      <3>1. init' = [init EXCEPT ![Iso(t)] = "rejected"] /\ IsInit(t) /\ init[Iso(t)] = "running"
        BY <1>1, <1>11, <2>1, <2>2, KeyTypes DEF CacheCallFails, Settle, PhaseOK, TaskInv, TaskOK
      <3> QED BY <1>1, <1>4, <2>1, <3>1
    <2>3. CASE cap[t] # NoCap
      BY <1>1, <1>4, <1>11, <2>1, <2>3 DEF CacheCallFails, GiveUp, Settle
    <2> QED BY <2>2, <2>3
  <1> QED BY <1>5, <1>6, <1>7, <1>8, <1>9, <1>10, <1>11

LEMMA NextStageInv ==
  ASSUME Solo, "evict" \notin Faults
  PROVE  SoloInv /\ StageInv /\ [Next]_vars => StageInv'
  <1> SUFFICES ASSUME SoloInv, StageInv, [Next]_vars PROVE StageInv'
    OBVIOUS
  <1>1. ASSUME NEW i \in Isolates, Restart(i) PROVE StageInv'
    <2>1. TypeInv /\ (\A u \in Tasks : StageOK(u)) /\ UNCHANGED <<manifest, stored>>
      BY <1>1 DEF SoloInv, SerialInv, StageInv, Restart
    <2>2. ASSUME NEW u \in Tasks PROVE StageOK(u)'
      <3>1. pc'[u] = "idle" \/ (pc'[u] = pc[u] /\ cap'[u] = cap[u] /\ listing'[u] = listing[u] /\ todo'[u] = todo[u])
        BY <1>1, <2>1, FinishTasks DEF Restart, TypeInv
      <3> QED BY <2>1, <3>1, StageFrame DEF StageOK
    <2> QED BY <1>1, <2>1, <2>2 DEF Restart, StageInv, TypeInv, Types
  <1>2. CASE UNCHANGED vars
    BY <1>2 DEF vars, StageInv, StageOK, Damaged
  <1>3. ~EvictManifest /\ \A k \in Keys : ~EvictFile(k)
    BY DEF EvictManifest, EvictFile
  <1> QED BY <1>1, <1>2, <1>3, RestoreStage, WriteStage, RestStage DEF Next, TaskStep, Environment

LEMMA InitSolo == Init => SoloInv /\ StageInv
  <1> SUFFICES ASSUME Init PROVE SoloInv /\ StageInv
    OBVIOUS
  <1>1. OneInstaller
    BY DEF Init, OneInstaller, Installing
  <1>2. SerialInv
    BY <1>1, InitTypeInv DEF Init, SerialInv, ManifestNeverLies, PutOK
  <1> QED BY <1>2, InitPhase DEF Init, SoloInv, ReadOK, ServedIsOneCap, StageInv, StageOK

LEMMA NextMemory ==
  ASSUME Solo, Faults \cap {"evict", "cache"} = {}
  PROVE  SoloInv /\ StageInv /\ MemoryMatchesStore /\ [Next]_vars => MemoryMatchesStore'
  <1> SUFFICES ASSUME SoloInv, StageInv, MemoryMatchesStore, [Next]_vars,
                      NEW i \in Isolates, init'[i] = "done", Quiet'
               PROVE  (installed[i].hash = manifest /\ (manifest # NoCap => ~Damaged(manifest)))'
    BY DEF MemoryMatchesStore, Damaged
  <1> DEFINE Same == installed[i].hash = manifest /\ (manifest # NoCap => ~Damaged(manifest))
  <1> USE TaskFields DEF TypeInv, Types
  <1>1. /\ TypeInv /\ PhaseInv
        /\ \A t \in Tasks : StageOK(t) /\ PhaseOK(t) /\ TaskOK(t) /\ Iso(t) = i
    BY DEF SoloInv, SerialInv, StageInv, PhaseInv, TaskInv, Solo
  <1>2. ASSUME UNCHANGED <<manifest, stored, installed>>, init[i] = "done",
               \A t \in Tasks : Installing(t) => Installing(t)'
        PROVE  Same'
    <2>1. Quiet
      BY <1>2 DEF Quiet
    <2>2. Same
      BY <1>2, <2>1 DEF MemoryMatchesStore
    <2> QED BY <1>2, <2>2 DEF Damaged
  <1>3. ASSUME NEW t \in Tasks, Installing(t)' PROVE FALSE
    BY <1>3 DEF Quiet
  <1>4. ASSUME NEW t \in Tasks, NEW b \in Blobs \cup {NoCap}, Arrive(t, b) PROVE Same'
    <2>1. UNCHANGED <<manifest, stored, installed>> /\ init[i] = "done"
      BY <1>1, <1>4 DEF Arrive, Settle
    <2>2. pc' = [pc EXCEPT ![t] = "waiting"] /\ cap' = [cap EXCEPT ![t] = b] /\ pc[t] = "idle"
      BY <1>1, <1>4, <2>1 DEF Arrive, Goto, At
    <2> QED BY <1>1, <1>2, <2>1, <2>2 DEF Installing
  <1>5. ASSUME NEW t \in Tasks, Resume(t) \/ ResumeRejected(t) PROVE Same'
    <2>1. UNCHANGED <<manifest, stored, installed, init>> /\ pc[t] = "waiting"
      BY <1>5 DEF Resume, ResumeRejected, At
    <2>2. \A u \in Tasks \ {t} : pc'[u] = pc[u] /\ cap'[u] = cap[u]
      BY <1>1, <1>5, FinishTasks DEF Resume, ResumeRejected, Goto
    <2> QED BY <1>1, <1>2, <2>1, <2>2 DEF Installing
  <1>6. ASSUME NEW t \in Tasks, RestoreManifest(t) \/ RestoreFile(t) PROVE Same'
    <2>1. IsInit(t) /\ pc[t] # "idle" /\ init' = init
      BY <1>1, <1>6 DEF RestoreManifest, RestoreFile, At, PhaseOK
    <2> QED BY <1>1, <2>1 DEF PhaseOK
  <1>7. ASSUME NEW t \in Tasks, RestoreCheck(t) PROVE Same'
    <2>1. /\ pc[t] = "match" /\ todo[t] = {} /\ UNCHANGED <<manifest, stored>>
          /\ IsInit(t) /\ init[i] = "running"
      BY <1>1, <1>7 DEF RestoreCheck, At, PhaseOK
    <2>2. installed' = [installed EXCEPT ![i] = [hash |-> listing[t], files |-> got[t]]]
      BY <1>1, <1>7, <2>1 DEF RestoreCheck
    <2>3. listing[t] = manifest /\ ~Damaged(manifest)
      BY <1>1, <2>1 DEF StageOK, Damaged
    <2>4. (~Damaged(manifest))'
      BY <2>1, <2>3 DEF Damaged
    <2> QED BY <1>1, <2>1, <2>2, <2>3, <2>4
  <1>8. ASSUME NEW t \in Tasks, ClearManifestRead(t) PROVE Same'
    <2>1. UNCHANGED <<manifest, stored, installed, init, cap>> /\ pc[t] = "clear" /\ pc'[t] = "delete"
          /\ \A u \in Tasks \ {t} : pc'[u] = pc[u]
      BY <1>1, <1>8 DEF ClearManifestRead, At, Goto
    <2> QED BY <1>2, <2>1 DEF Installing
  <1>9. ASSUME NEW t \in Tasks, ClearFile(t) \/ ClearManifest(t) PROVE Same'
    <2>1. pc[t] = "delete" /\ UNCHANGED <<init, cap>>
      BY <1>9 DEF ClearFile, ClearManifest, At
    <2>2. cap[t] # NoCap
      BY <1>1, <2>1 DEF PhaseOK
    <2>3. cap[t] \in Caps /\ pc'[t] \in {"delete", "put"}
      BY <1>1, <1>9, <2>1, <2>2 DEF TaskOK, Entry, ClearFile, ClearManifest, Goto
    <2> QED BY <1>3, <2>1, <2>3 DEF Installing
  <1>10. ASSUME NEW t \in Tasks, PutFile(t) \/ PutManifest(t) PROVE Same'
    <2>1. pc[t] = "put" /\ cap' = cap /\ pc'[t] \in {"put", "adopt"} /\ cap[t] \in Caps
      BY <1>1, <1>10 DEF PutFile, PutManifest, At, Goto, TaskOK
    <2> QED BY <1>3, <2>1 DEF Installing
  <1>11. ASSUME NEW t \in Tasks, GiveUp(t), UNCHANGED <<manifest, stored, installed>>, ~Installing(t),
                IsInit(t) => manifest = NoCap /\ pc[t] # "idle"
         PROVE  Same'
    <2>1. CASE IsInit(t)
      <3>1. installed[i] = NoInstall /\ manifest = NoCap
        BY <1>1, <1>11, <2>1 DEF PhaseOK, StageInv
      <3> QED BY <1>11, <3>1 DEF NoInstall
    <2>2. CASE ~IsInit(t)
      <3>1. init' = init /\ \A u \in Tasks \ {t} : pc'[u] = pc[u] /\ cap'[u] = cap[u]
        BY <1>1, <1>11, <2>2, FinishTasks DEF GiveUp
      <3> QED BY <1>2, <1>11, <3>1 DEF Installing
    <2> QED BY <2>1, <2>2
  <1>12. ASSUME NEW t \in Tasks, Verify(t) PROVE Same'
    <2>1. pc[t] = "verify" /\ UNCHANGED <<manifest, stored, installed>>
      BY <1>12 DEF Verify, At
    <2>2. CASE cap[t] \in Caps
      <3>1. Goto(t, "clear") /\ UNCHANGED <<init, cap>>
        BY <1>12, <2>2 DEF Verify
      <3> QED BY <1>1, <1>3, <2>2, <3>1 DEF Installing, Goto
    <2>3. CASE cap[t] \notin Caps
      BY <1>1, <1>11, <1>12, <2>1, <2>3 DEF Verify, Installing, StageOK
    <2> QED BY <2>2, <2>3
  <1>13. ASSUME NEW t \in Tasks, Adopt(t) PROVE Same'
    <2>1. /\ pc[t] = "adopt" /\ installed' = [installed EXCEPT ![i] = Image(cap[t])]
          /\ UNCHANGED <<manifest, stored>>
      BY <1>1, <1>13 DEF Adopt, At
    <2>2. manifest = cap[t] /\ ~Damaged(manifest)
      BY <1>1, <2>1 DEF StageOK
    <2>3. (~Damaged(manifest))'
      BY <2>1, <2>2 DEF Damaged
    <2> QED BY <1>1, <2>1, <2>2, <2>3 DEF Image
  <1>14. ASSUME NEW t \in Tasks, Startup(t) PROVE Same'
    <2>1. /\ pc[t] = "startup" /\ UNCHANGED <<manifest, stored, installed>> /\ manifest = NoCap
          /\ IsInit(t) /\ init[i] = "running"
      BY <1>1, <1>14 DEF Startup, At, StageOK, PhaseOK
    <2> QED BY <1>11, <1>14, <2>1 DEF Startup, Installing
  <1>15. ASSUME NEW j \in Isolates, Restart(j) PROVE Same'
    BY <1>1, <1>15 DEF Restart, Solo
  <1>16. CASE UNCHANGED vars
    BY <1>2, <1>16 DEF vars, Installing
  <1>17. ~EvictManifest /\ (\A k \in Keys : ~EvictFile(k)) /\ \A t \in Tasks : ~CacheCallFails(t)
    BY DEF EvictManifest, EvictFile, CacheCallFails
  <1> QED BY <1>4, <1>5, <1>6, <1>7, <1>8, <1>9, <1>10, <1>12, <1>13, <1>14, <1>15, <1>16, <1>17
          DEF Next, TaskStep, Environment

LEMMA SoloHolds ==
  ASSUME Solo, "evict" \notin Faults
  PROVE  SerialSpec => [](SoloInv /\ StageInv)
  <1>1. SoloInv /\ StageInv /\ [Next /\ OneInstaller']_vars => (SoloInv /\ StageInv)'
    BY NextSoloInv, NextStageInv DEF Solo
  <1> QED BY <1>1, InitSolo, PTL DEF SerialSpec

\* One isolate, one installer and a cache that loses and refuses nothing: wherever a restart
\* cuts an install or a restore short, between installs the isolate serves what the next one
\* will restore, complete (store.ts:107-124, 129-167).
THEOREM MemoryHolds ==
  ASSUME Solo, Faults \cap {"evict", "cache"} = {}
  PROVE  SerialSpec => []MemoryMatchesStore
  <1>1. Init => MemoryMatchesStore
    BY DEF Init, MemoryMatchesStore
  <1>2. SoloInv /\ StageInv /\ MemoryMatchesStore /\ [Next /\ OneInstaller']_vars => MemoryMatchesStore'
    BY NextMemory
  <1>3. "evict" \notin Faults
    OBVIOUS
  <1> QED BY <1>1, <1>2, <1>3, SoloHolds, PTL DEF SerialSpec

(***************************************************************************)
(* The cache is one durable slot                                            *)
(***************************************************************************)
LEMMA ServedValue ==
  /\ \A i : installed[i] = NoInstall => ServedAs(i) = NoCap
  /\ \A i : \A c \in Caps : installed[i] = Image(c) => ServedAs(i) = c
  BY Something DEF ServedAs, Image

LEMMA ServedChange ==
  ASSUME NEW i \in Isolates, NEW c \in Caps, installed'[i] = Image(c)
  PROVE  ServedAs(i)' = c
  <1>1. installed'[i] # NoInstall /\ installed'[i].hash = c
    BY Something DEF Image
  <1> QED BY <1>1 DEF ServedAs

LEMMA SlotMoves ==
  ASSUME Solo, Isolates # {}, "evict" \notin Faults, SoloInv, StageInv, [Next]_vars
  PROVE  [Slot!SlotNext]_<<manifest, ServedAs(Viewer)>>
  <1> DEFINE i == Viewer
  <1> USE TaskFields DEF TypeInv, Types
  <1>1. i \in Isolates
    BY DEF Viewer
  <1>2. /\ TypeInv /\ \A t \in Tasks : StageOK(t) /\ TaskOK(t) /\ Iso(t) = i
    BY <1>1 DEF SoloInv, SerialInv, StageInv, TaskInv, Solo
  <1> HIDE DEF i
  <1>3. ASSUME UNCHANGED <<manifest, installed>> PROVE UNCHANGED <<manifest, ServedAs(i)>>
    BY <1>3 DEF ServedAs
  <1>4. ASSUME NEW c \in Caps, installed'[i] = Image(c), manifest = c, manifest' = manifest
        PROVE  Slot!Serve
    BY <1>1, <1>4, KeyTypes, ServedChange DEF Slot!Serve, i
  <1>5. ASSUME NEW t \in Tasks, RestoreCheck(t) PROVE Slot!Serve \/ UNCHANGED <<manifest, ServedAs(i)>>
    <2>1. pc[t] = "match" /\ todo[t] = {} /\ manifest' = manifest
      BY <1>5 DEF RestoreCheck, At
    <2>2. listing[t] \in Caps /\ manifest = listing[t]
          /\ [hash |-> listing[t], files |-> got[t]] = Image(listing[t])
      BY <1>2, <2>1, ReadComplete DEF StageOK, SoloInv
    <2>3. installed' = installed \/ installed'[i] = Image(listing[t])
      BY <1>1, <1>2, <1>5, <2>2 DEF RestoreCheck
    <2> QED BY <1>3, <1>4, <2>1, <2>2, <2>3
  <1>6. ASSUME NEW t \in Tasks, Adopt(t) PROVE Slot!Serve
    <2>1. pc[t] = "adopt" /\ manifest' = manifest /\ installed'[i] = Image(cap[t])
      BY <1>1, <1>2, <1>6 DEF Adopt, At
    <2>2. cap[t] \in Caps /\ manifest = cap[t]
      BY <1>2, <2>1 DEF StageOK, TaskOK
    <2> QED BY <1>4, <2>1, <2>2
  <1>7. ASSUME NEW t \in Tasks, PutManifest(t) PROVE Slot!Publish
    <2>1. manifest' \in Caps /\ installed' = installed
      BY <1>2, <1>7 DEF PutManifest, At, TaskOK
    <2> QED BY <2>1 DEF Slot!Publish, ServedAs
  <1>8. ASSUME NEW t \in Tasks, ClearManifest(t) PROVE Slot!Lose \/ UNCHANGED <<manifest, ServedAs(i)>>
    <2>1. manifest' = NoCap /\ installed' = installed
      BY <1>8 DEF ClearManifest
    <2> QED BY <1>3, <2>1 DEF Slot!Lose, ServedAs
  <1>9. ASSUME NEW j \in Isolates, Restart(j) PROVE Slot!Forget
    <2>1. installed'[i] = NoInstall /\ manifest' = manifest
      BY <1>1, <1>2, <1>9 DEF Restart, Solo
    <2>2. ServedAs(i)' = NoCap
      BY <2>1 DEF ServedAs
    <2> QED BY <2>1, <2>2 DEF Slot!Forget, i
  <1>10. ~EvictManifest
    BY DEF EvictManifest
  <1>11. \/ \E t \in Tasks : RestoreCheck(t) \/ Adopt(t) \/ PutManifest(t) \/ ClearManifest(t)
         \/ \E j \in Isolates : Restart(j)
         \/ UNCHANGED <<manifest, installed>>
    BY <1>10 DEF Next, TaskStep, Environment, vars, Arrive, Resume, ResumeRejected, RestoreManifest, RestoreFile,
                 ClearManifestRead, ClearFile, Verify, PutFile, Startup, EvictFile, CacheCallFails
  <1> QED BY <1>3, <1>5, <1>6, <1>7, <1>8, <1>9, <1>11 DEF Slot!SlotNext, i

\* One isolate and one installer: crashes, failed cache calls and a PACKAGE_URL that does not
\* answer included, the cache is one durable slot that is only ever served as a whole
\* (store.ts:8-10).
THEOREM SlotImplemented ==
  ASSUME Solo, Isolates # {}, "evict" \notin Faults
  PROVE  SerialSpec => ImplementsSlot
  <1>1. Init => Slot!SlotInit
    <2>1. Viewer \in Isolates
      BY DEF Viewer
    <2> QED BY <2>1 DEF Init, Slot!SlotInit, ServedAs
  <1>2. SoloInv /\ StageInv /\ [Next /\ OneInstaller']_vars => [Slot!SlotNext]_<<manifest, ServedAs(Viewer)>>
    BY SlotMoves
  <1> QED BY <1>1, <1>2, SoloHolds, PTL DEF SerialSpec, ImplementsSlot, Slot!SlotSpec, Slot!slotVars

===============================================================================
