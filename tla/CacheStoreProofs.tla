--------------------------- MODULE CacheStoreProofs ---------------------------
(***************************************************************************)
(* What holds of CacheStore for every set of packages, isolates and         *)
(* requests and every fault.                                                *)
(***************************************************************************)
EXTENDS CacheStore, TLAPS

(***************************************************************************)
(* Type correctness.  A task carries a blob only between Verify and its end,*)
(* and that blob is a verified one from the moment it writes to the cache.  *)
(***************************************************************************)
TaskOK(t) ==
  /\ pc[t] \in {"idle", "restore", "match", "startup"} => cap[t] = NoCap
  /\ pc[t] \in {"clear", "delete"} => cap[t] \in Entry
  /\ pc[t] \in {"put", "adopt"} => cap[t] \in Caps
  /\ pc[t] \in {"match", "delete"} /\ todo[t] # {} => listing[t] \in Caps
  /\ init[Iso(t)] = "none" => pc[t] = "idle"
TaskInv == \A t \in Tasks : TaskOK(t)

TypeInv == Types /\ TaskInv

\* Tasks are pairs; an isolate has one initialisation task and it is no request.
LEMMA TaskFields ==
  /\ \A t \in Tasks : Iso(t) \in Isolates
  /\ \A i \in Isolates : InitTask(i) \in Tasks /\ Iso(InitTask(i)) = i /\ IsInit(InitTask(i))
  /\ \A t, u \in Tasks : IsInit(t) /\ IsInit(u) /\ Iso(t) = Iso(u) => t = u
  /\ Requests \subseteq Tasks
  /\ \A t \in Requests : ~IsInit(t)
<1>1. Slots \in Nat
  BY WorkerAssumption
<1> QED
  BY <1>1 DEF Tasks, Requests, Iso, InitTask, IsInit

\* The values written to installed, got and the file keys have their types.
LEMMA ImageType ==
  /\ NoFiles \in FileMap
  /\ NoInstall \in Installs
  /\ \A c \in Caps : Image(c) \in Installs /\ \A p \in Paths : Key(c, p) \in Keys
  /\ \A m \in Entry, f \in FileMap : [hash |-> m, files |-> f] \in Installs
  /\ \A f \in FileMap, p \in Paths, m \in Entry : [f EXCEPT ![p] = m] \in FileMap
BY CapsAssumption DEF NoFiles, NoInstall, Image, Entry, FileMap, Installs, Key, Keys

\* The empty cache satisfies the type invariant.
LEMMA InitTypeInv == Init => TypeInv
<1> SUFFICES ASSUME Init PROVE TypeInv
  OBVIOUS
<1>1. NoFiles \in FileMap /\ NoInstall \in Installs
  BY ImageType
<1>2. Types
  BY <1>1 DEF Init, Types, Entry, Labels
<1>3. TaskInv
  BY TaskFields DEF Init, TaskInv, TaskOK
<1> QED
  BY <1>2, <1>3 DEF TypeInv

\* Finish empties the locals of the tasks it ends and leaves the others alone.
LEMMA FinishTasks ==
  ASSUME Types, NEW ts \in SUBSET Tasks, Finish(ts)
  PROVE  /\ pc' \in [Tasks -> Labels]
         /\ cap' \in [Tasks -> Blobs \cup {NoCap}]
         /\ listing' \in [Tasks -> Entry]
         /\ todo' \in [Tasks -> SUBSET Paths]
         /\ got' \in [Tasks -> FileMap]
         /\ \A u \in ts : pc'[u] = "idle" /\ cap'[u] = NoCap /\ got'[u] = NoFiles
         /\ \A u \in Tasks \ ts :
              /\ pc'[u] = pc[u] /\ cap'[u] = cap[u] /\ listing'[u] = listing[u]
              /\ todo'[u] = todo[u] /\ got'[u] = got[u]
<1>1. NoFiles \in FileMap
  BY ImageType
<1>2. pc' \in [Tasks -> Labels] /\ cap' \in [Tasks -> Blobs \cup {NoCap}]
  BY DEF Finish, Types, Labels
<1>3. listing' \in [Tasks -> Entry] /\ todo' \in [Tasks -> SUBSET Paths]
  BY DEF Finish, Types, Entry
<1>4. got' \in [Tasks -> FileMap]
  BY <1>1 DEF Finish, Types
<1> QED
  BY <1>2, <1>3, <1>4 DEF Finish

\* Every action preserves the type invariant.
LEMMA NextTypeInv == TypeInv /\ [Next]_vars => TypeInv'
<1> SUFFICES ASSUME TypeInv, [Next]_vars PROVE TypeInv'
  OBVIOUS
<1> USE CapsAssumption, WorkerAssumption, TaskFields DEF TypeInv
<1>1. NoFiles \in FileMap /\ NoInstall \in Installs
  BY ImageType
<1>2. ASSUME NEW t \in Tasks, NEW b \in Blobs \cup {NoCap}, Arrive(t, b) PROVE TypeInv'
  <2>1. Types'
    <3>1. pc' \in [Tasks -> Labels]
      BY <1>2 DEF Arrive, Goto, Settle, At, Types, Labels
    <3>2. cap' \in [Tasks -> Blobs \cup {NoCap}]
      BY <1>2 DEF Arrive, Goto, Settle, At, Types, Entry, Blobs
    <3>3. init' \in [Isolates -> {"none", "running", "done", "rejected"}]
      BY <1>2 DEF Arrive, Goto, Settle, At, Types
    <3> QED
      BY <3>1, <3>2, <3>3, <1>2 DEF Arrive, Types
  <2>2. ASSUME NEW u \in Tasks PROVE TaskOK(u)'
    <3>1. CASE u = t
      BY <1>2, <3>1 DEF Arrive, Goto, Settle, At, Types, TaskInv, TaskOK, Entry, Blobs
    <3>2. CASE u # t
      BY <1>2, <3>2 DEF Arrive, Goto, Settle, At, Types, TaskInv, TaskOK, Entry, Blobs
    <3> QED
      BY <3>1, <3>2
  <2> QED
    BY <2>1, <2>2 DEF TaskInv
<1>3. ASSUME NEW t \in Tasks, Resume(t) PROVE TypeInv'
  <2>1. Types'
    <3> USE FinishTasks
    <3>1. pc' \in [Tasks -> Labels]
      BY <1>3 DEF Resume, Goto, At, Types, Labels
    <3>2. cap' \in [Tasks -> Blobs \cup {NoCap}]
      BY <1>3 DEF Resume, Goto, At, Types, Entry, Blobs
    <3>3. listing' \in [Tasks -> Entry]
      BY <1>3 DEF Resume, Goto, At, Types, Entry
    <3>4. todo' \in [Tasks -> SUBSET Paths]
      BY <1>3 DEF Resume, Goto, At, Types
    <3>5. got' \in [Tasks -> FileMap]
      BY <1>3 DEF Resume, Goto, At, Types
    <3> QED
      BY <3>1, <3>2, <3>3, <3>4, <3>5, <1>3 DEF Resume, Types
  <2>2. ASSUME NEW u \in Tasks PROVE TaskOK(u)'
    <3>1. CASE u = t
      BY <1>3, <3>1, FinishTasks DEF Resume, Goto, At, Types, TaskInv, TaskOK, Entry, Blobs
    <3>2. CASE u # t
      BY <1>3, <3>2, FinishTasks DEF Resume, Goto, At, Types, TaskInv, TaskOK, Entry, Blobs
    <3> QED
      BY <3>1, <3>2
  <2> QED
    BY <2>1, <2>2 DEF TaskInv
<1>4. ASSUME NEW t \in Tasks, ResumeRejected(t) PROVE TypeInv'
  <2>1. Types'
    BY <1>1, <1>4, FinishTasks DEF ResumeRejected, At, Types, Entry, Labels, Blobs
  <2>2. ASSUME NEW u \in Tasks PROVE TaskOK(u)'
    <3>1. CASE u = t
      BY <1>4, <3>1, FinishTasks DEF ResumeRejected, At, Types, TaskInv, TaskOK, Entry, Blobs
    <3>2. CASE u # t
      BY <1>4, <3>2, FinishTasks DEF ResumeRejected, At, Types, TaskInv, TaskOK, Entry, Blobs
    <3> QED
      BY <3>1, <3>2
  <2> QED
    BY <2>1, <2>2 DEF TaskInv
<1>5. ASSUME NEW t \in Tasks, RestoreManifest(t) PROVE TypeInv'
  <2>1. Types'
    BY <1>1, <1>5 DEF RestoreManifest, Goto, At, Listed, Types, Entry, Labels, Blobs
  <2>2. ASSUME NEW u \in Tasks PROVE TaskOK(u)'
    <3>1. CASE u = t
      BY <1>5, <3>1 DEF RestoreManifest, Goto, At, Listed, Types, TaskInv, TaskOK, Entry, Blobs
    <3>2. CASE u # t
      BY <1>5, <3>2 DEF RestoreManifest, Goto, At, Listed, Types, TaskInv, TaskOK, Entry, Blobs
    <3> QED
      BY <3>1, <3>2
  <2> QED
    BY <2>1, <2>2 DEF TaskInv
<1>6. ASSUME NEW t \in Tasks, RestoreFile(t) PROVE TypeInv'
  <2>1. Types'
    <3> TaskOK(t)
      BY DEF TaskInv
    <3>1. pc' \in [Tasks -> Labels]
      BY <1>6 DEF RestoreFile, Goto, At, Types, Labels
    <3>2. PICK p \in todo[t] :
            IF stored[Key(listing[t], p)] = NoCap
              THEN UNCHANGED <<todo, got>>
              ELSE /\ todo' = [todo EXCEPT ![t] = @ \ {p}]
                   /\ got' = [got EXCEPT ![t][p] = stored[Key(listing[t], p)]]
      BY <1>6 DEF RestoreFile
    <3>3. p \in Paths /\ stored[Key(listing[t], p)] \in Entry
      BY <1>6, <3>2, ImageType DEF RestoreFile, At, TaskOK, Types
    <3>4. todo' \in [Tasks -> SUBSET Paths]
      BY <3>2 DEF Types
    <3>5. [got[t] EXCEPT ![p] = stored[Key(listing[t], p)]] \in FileMap
      BY <3>3, ImageType DEF Types
    <3>6. got' \in [Tasks -> FileMap]
      BY <3>2, <3>5 DEF Types
    <3> QED
      BY <3>1, <3>4, <3>6, <1>6 DEF RestoreFile, Types
  <2>2. ASSUME NEW u \in Tasks PROVE TaskOK(u)'
    <3>1. CASE u = t
      BY <1>6, <3>1 DEF RestoreFile, Goto, At, Types, TaskInv, TaskOK, Entry, Blobs
    <3>2. CASE u # t
      BY <1>6, <3>2 DEF RestoreFile, Goto, At, Types, TaskInv, TaskOK, Entry, Blobs
    <3> QED
      BY <3>1, <3>2
  <2> QED
    BY <2>1, <2>2 DEF TaskInv
<1>7. ASSUME NEW t \in Tasks, RestoreCheck(t) PROVE TypeInv'
  <2>1. Types'
    <3> TaskOK(t)
      BY DEF TaskInv
    <3> USE FinishTasks
    <3>1. installed' \in [Isolates -> Installs]
      BY <1>7, ImageType DEF RestoreCheck, Settle, Goto, At, Types, TaskOK
    <3>2. init' \in [Isolates -> {"none", "running", "done", "rejected"}]
      BY <1>7 DEF RestoreCheck, Settle, Goto, At, Types
    <3>3. pc' \in [Tasks -> Labels]
      BY <1>7 DEF RestoreCheck, Settle, Goto, At, Types, Labels
    <3>4. cap' \in [Tasks -> Blobs \cup {NoCap}]
      BY <1>7 DEF RestoreCheck, Settle, Goto, At, Types, Entry, Blobs, TaskOK
    <3>5. listing' \in [Tasks -> Entry]
      BY <1>7 DEF RestoreCheck, Settle, Goto, At, Types, Entry
    <3>6. todo' \in [Tasks -> SUBSET Paths]
      BY <1>7 DEF RestoreCheck, Settle, Goto, At, Types, TaskOK
    <3>7. got' \in [Tasks -> FileMap]
      BY <1>7 DEF RestoreCheck, Settle, Goto, At, Types, TaskOK
    <3> QED
      BY <3>1, <3>2, <3>3, <3>4, <3>5, <3>6, <3>7, <1>7 DEF RestoreCheck, Types
  <2>2. ASSUME NEW u \in Tasks PROVE TaskOK(u)'
    <3>1. CASE u = t
      BY <1>7, <3>1, FinishTasks DEF RestoreCheck, Settle, Goto, At, Types, TaskInv, TaskOK, Entry, Blobs
    <3>2. CASE u # t
      BY <1>7, <3>2, FinishTasks DEF RestoreCheck, Settle, Goto, At, Types, TaskInv, TaskOK, Entry, Blobs
    <3> QED
      BY <3>1, <3>2
  <2> QED
    BY <2>1, <2>2 DEF TaskInv
<1>8. ASSUME NEW t \in Tasks, ClearManifestRead(t) PROVE TypeInv'
  <2>1. Types'
    BY <1>1, <1>8 DEF ClearManifestRead, Goto, At, Listed, Types, Entry, Labels, Blobs
  <2>2. ASSUME NEW u \in Tasks PROVE TaskOK(u)'
    <3>1. CASE u = t
      BY <1>8, <3>1 DEF ClearManifestRead, Goto, At, Listed, Types, TaskInv, TaskOK, Entry, Blobs
    <3>2. CASE u # t
      BY <1>8, <3>2 DEF ClearManifestRead, Goto, At, Listed, Types, TaskInv, TaskOK, Entry, Blobs
    <3> QED
      BY <3>1, <3>2
  <2> QED
    BY <2>1, <2>2 DEF TaskInv
<1>9. ASSUME NEW t \in Tasks, ClearFile(t) PROVE TypeInv'
  <2>1. Types'
    <3>1. stored' \in [Keys -> Entry]
      BY <1>9, ImageType DEF ClearFile, At, Types, Entry, TaskOK
    <3>2. todo' \in [Tasks -> SUBSET Paths]
      BY <1>9 DEF ClearFile, At, Types, TaskOK
    <3> QED
      BY <3>1, <3>2, <1>9 DEF ClearFile, Types
  <2>2. ASSUME NEW u \in Tasks PROVE TaskOK(u)'
    <3>1. CASE u = t
      BY <1>9, <3>1 DEF ClearFile, At, Types, TaskInv, TaskOK, Entry, Blobs
    <3>2. CASE u # t
      BY <1>9, <3>2 DEF ClearFile, At, Types, TaskInv, TaskOK, Entry, Blobs
    <3> QED
      BY <3>1, <3>2
  <2> QED
    BY <2>1, <2>2 DEF TaskInv
<1>10. ASSUME NEW t \in Tasks, ClearManifest(t) PROVE TypeInv'
  <2>1. Types'
    <3> TaskOK(t)
      BY DEF TaskInv
    <3>1. manifest' \in Entry
      BY <1>10 DEF ClearManifest, Goto, At, Types, Entry, TaskOK
    <3>2. pc' \in [Tasks -> Labels]
      BY <1>10 DEF ClearManifest, Goto, At, Types, Labels
    <3>3. todo' \in [Tasks -> SUBSET Paths]
      BY <1>10 DEF ClearManifest, Goto, At, Types, TaskOK, Entry
    <3> QED
      BY <3>1, <3>2, <3>3, <1>10 DEF ClearManifest, Types
  <2>2. ASSUME NEW u \in Tasks PROVE TaskOK(u)'
    <3>1. CASE u = t
      BY <1>10, <3>1 DEF ClearManifest, Goto, At, Types, TaskInv, TaskOK, Entry, Blobs
    <3>2. CASE u # t
      BY <1>10, <3>2 DEF ClearManifest, Goto, At, Types, TaskInv, TaskOK, Entry, Blobs
    <3> QED
      BY <3>1, <3>2
  <2> QED
    BY <2>1, <2>2 DEF TaskInv
<1>11. ASSUME NEW t \in Tasks, Verify(t) PROVE TypeInv'
  <2>1. Types'
    <3> USE FinishTasks
    <3>1. pc' \in [Tasks -> Labels]
      BY <1>11 DEF Verify, GiveUp, Settle, Goto, At, Types, Labels
    <3>2. cap' \in [Tasks -> Blobs \cup {NoCap}]
      BY <1>11 DEF Verify, GiveUp, Settle, Goto, At, Types, Entry, Blobs
    <3>3. listing' \in [Tasks -> Entry]
      BY <1>11 DEF Verify, GiveUp, Settle, Goto, At, Types, Entry
    <3>4. todo' \in [Tasks -> SUBSET Paths]
      BY <1>11 DEF Verify, GiveUp, Settle, Goto, At, Types
    <3>5. got' \in [Tasks -> FileMap]
      BY <1>11 DEF Verify, GiveUp, Settle, Goto, At, Types
    <3>6. init' \in [Isolates -> {"none", "running", "done", "rejected"}]
      BY <1>11 DEF Verify, GiveUp, Settle, Goto, At, Types
    <3> QED
      BY <3>1, <3>2, <3>3, <3>4, <3>5, <3>6, <1>11 DEF Verify, Types
  <2>2. ASSUME NEW u \in Tasks PROVE TaskOK(u)'
    <3>1. CASE u = t
      BY <1>11, <3>1, FinishTasks DEF Verify, GiveUp, Settle, Goto, At, Types, TaskInv, TaskOK, Entry, Blobs
    <3>2. CASE u # t
      BY <1>11, <3>2, FinishTasks DEF Verify, GiveUp, Settle, Goto, At, Types, TaskInv, TaskOK, Entry, Blobs
    <3> QED
      BY <3>1, <3>2
  <2> QED
    BY <2>1, <2>2 DEF TaskInv
<1>12. ASSUME NEW t \in Tasks, PutFile(t) PROVE TypeInv'
  <2>1. Types'
    <3> TaskOK(t)
      BY DEF TaskInv
    <3>1. stored' \in [Keys -> Entry]
      BY <1>12, ImageType DEF PutFile, At, Types, Entry, TaskOK
    <3>2. todo' \in [Tasks -> SUBSET Paths]
      BY <1>12 DEF PutFile, At, Types, TaskOK
    <3> QED
      BY <3>1, <3>2, <1>12 DEF PutFile, Types
  <2>2. ASSUME NEW u \in Tasks PROVE TaskOK(u)'
    <3>1. CASE u = t
      BY <1>12, <3>1 DEF PutFile, At, Types, TaskInv, TaskOK, Entry, Blobs
    <3>2. CASE u # t
      BY <1>12, <3>2 DEF PutFile, At, Types, TaskInv, TaskOK, Entry, Blobs
    <3> QED
      BY <3>1, <3>2
  <2> QED
    BY <2>1, <2>2 DEF TaskInv
<1>13. ASSUME NEW t \in Tasks, PutManifest(t) PROVE TypeInv'
  <2>1. Types'
    <3> TaskOK(t)
      BY DEF TaskInv
    <3> QED
      BY <1>13 DEF PutManifest, Goto, At, TaskOK, Types, Entry, Labels
  <2>2. ASSUME NEW u \in Tasks PROVE TaskOK(u)'
    <3>1. CASE u = t
      BY <1>13, <3>1 DEF PutManifest, Goto, At, Types, TaskInv, TaskOK, Entry, Blobs
    <3>2. CASE u # t
      BY <1>13, <3>2 DEF PutManifest, Goto, At, Types, TaskInv, TaskOK, Entry, Blobs
    <3> QED
      BY <3>1, <3>2
  <2> QED
    BY <2>1, <2>2 DEF TaskInv
<1>14. ASSUME NEW t \in Tasks, Adopt(t) PROVE TypeInv'
  <2>1. Types'
    <3> TaskOK(t)
      BY DEF TaskInv
    <3> USE FinishTasks
    <3>1. installed' \in [Isolates -> Installs]
      BY <1>14, ImageType DEF Adopt, Settle, At, Types, TaskOK
    <3>2. init' \in [Isolates -> {"none", "running", "done", "rejected"}]
      <4>1. init' = init \/ init' = [init EXCEPT ![Iso(t)] = "done"]
        BY <1>14 DEF Adopt, Settle
      <4> QED
        BY <4>1 DEF Types
    <3>3. pc' \in [Tasks -> Labels]
      BY <1>14 DEF Adopt, Settle, At, Types, Labels
    <3>4. cap' \in [Tasks -> Blobs \cup {NoCap}]
      BY <1>14 DEF Adopt, Settle, At, Types, Entry, Blobs, TaskOK
    <3>5. listing' \in [Tasks -> Entry]
      BY <1>14 DEF Adopt, Settle, At, Types, Entry
    <3>6. todo' \in [Tasks -> SUBSET Paths]
      BY <1>14 DEF Adopt, Settle, At, Types, TaskOK
    <3>7. got' \in [Tasks -> FileMap]
      BY <1>14 DEF Adopt, Settle, At, Types, TaskOK
    <3> QED
      BY <3>1, <3>2, <3>3, <3>4, <3>5, <3>6, <3>7, <1>14 DEF Adopt, Types
  <2>2. ASSUME NEW u \in Tasks PROVE TaskOK(u)'
    <3>1. CASE u = t
      BY <1>14, <3>1, FinishTasks DEF Adopt, Settle, At, Types, TaskInv, TaskOK, Entry, Blobs
    <3>2. CASE u # t
      BY <1>14, <3>2, FinishTasks DEF Adopt, Settle, At, Types, TaskInv, TaskOK, Entry, Blobs
    <3> QED
      BY <3>1, <3>2
  <2> QED
    BY <2>1, <2>2 DEF TaskInv
<1>15. ASSUME NEW t \in Tasks, Startup(t) PROVE TypeInv'
  <2>1. Types'
    <3> USE FinishTasks
    <3>1. pc' \in [Tasks -> Labels]
      BY <1>15 DEF Startup, GiveUp, Settle, Goto, At, Types, Labels
    <3>2. cap' \in [Tasks -> Blobs \cup {NoCap}]
      BY <1>15 DEF Startup, GiveUp, Settle, Goto, At, Types, Entry, Blobs
    <3>3. listing' \in [Tasks -> Entry]
      BY <1>15 DEF Startup, GiveUp, Settle, Goto, At, Types, Entry
    <3>4. todo' \in [Tasks -> SUBSET Paths]
      BY <1>15 DEF Startup, GiveUp, Settle, Goto, At, Types
    <3>5. got' \in [Tasks -> FileMap]
      BY <1>15 DEF Startup, GiveUp, Settle, Goto, At, Types
    <3>6. init' \in [Isolates -> {"none", "running", "done", "rejected"}]
      BY <1>15 DEF Startup, GiveUp, Settle, Goto, At, Types
    <3> QED
      BY <3>1, <3>2, <3>3, <3>4, <3>5, <3>6, <1>15 DEF Startup, Types
  <2>2. ASSUME NEW u \in Tasks PROVE TaskOK(u)'
    <3>1. CASE u = t
      BY <1>15, <3>1, FinishTasks DEF Startup, GiveUp, Settle, Goto, At, Types, TaskInv, TaskOK, Entry, Blobs
    <3>2. CASE u # t
      BY <1>15, <3>2, FinishTasks DEF Startup, GiveUp, Settle, Goto, At, Types, TaskInv, TaskOK, Entry, Blobs
    <3> QED
      BY <3>1, <3>2
  <2> QED
    BY <2>1, <2>2 DEF TaskInv
<1>16. ASSUME NEW t \in Tasks, CacheCallFails(t) PROVE TypeInv'
  <2>1. Types'
    <3> USE FinishTasks
    <3>1. pc' \in [Tasks -> Labels]
      BY <1>16 DEF CacheCallFails, GiveUp, Settle, At, Types, Labels
    <3>2. cap' \in [Tasks -> Blobs \cup {NoCap}]
      BY <1>16 DEF CacheCallFails, GiveUp, Settle, At, Types, Entry, Blobs
    <3>3. listing' \in [Tasks -> Entry]
      BY <1>16 DEF CacheCallFails, GiveUp, Settle, At, Types, Entry
    <3>4. todo' \in [Tasks -> SUBSET Paths]
      BY <1>16 DEF CacheCallFails, GiveUp, Settle, At, Types
    <3>5. got' \in [Tasks -> FileMap]
      BY <1>16 DEF CacheCallFails, GiveUp, Settle, At, Types
    <3>6. init' \in [Isolates -> {"none", "running", "done", "rejected"}]
      <4>1. \E o \in {"done", "rejected"} : init' = init \/ init' = [init EXCEPT ![Iso(t)] = o]
        BY <1>16 DEF CacheCallFails, GiveUp, Settle
      <4> QED
        BY <4>1 DEF Types
    <3> QED
      BY <3>1, <3>2, <3>3, <3>4, <3>5, <3>6, <1>16 DEF CacheCallFails, Types
  <2>2. ASSUME NEW u \in Tasks PROVE TaskOK(u)'
    <3>1. CASE u = t
      BY <1>16, <3>1, FinishTasks DEF CacheCallFails, GiveUp, Settle, At, Types, TaskInv, TaskOK, Entry, Blobs
    <3>2. CASE u # t
      BY <1>16, <3>2, FinishTasks DEF CacheCallFails, GiveUp, Settle, At, Types, TaskInv, TaskOK, Entry, Blobs
    <3> QED
      BY <3>1, <3>2
  <2> QED
    BY <2>1, <2>2 DEF TaskInv
<1>17. ASSUME EvictManifest PROVE TypeInv'
  <2>1. Types'
    BY <1>1, <1>17 DEF EvictManifest, Types, Entry, Labels, Blobs
  <2>2. ASSUME NEW u \in Tasks PROVE TaskOK(u)'
    BY <1>17 DEF EvictManifest, Types, TaskInv, TaskOK, Entry, Blobs
  <2> QED
    BY <2>1, <2>2 DEF TaskInv
<1>18. ASSUME NEW k \in Keys, EvictFile(k) PROVE TypeInv'
  <2>1. Types'
    BY <1>1, <1>18 DEF EvictFile, Types, Entry, Labels, Blobs
  <2>2. ASSUME NEW u \in Tasks PROVE TaskOK(u)'
    BY <1>18 DEF EvictFile, Types, TaskInv, TaskOK, Entry, Blobs
  <2> QED
    BY <2>1, <2>2 DEF TaskInv
<1>19. ASSUME NEW i \in Isolates, Restart(i) PROVE TypeInv'
  <2>1. Types'
    BY <1>1, <1>19, FinishTasks DEF Restart, Types, Entry, Labels, Blobs
  <2>2. ASSUME NEW u \in Tasks PROVE TaskOK(u)'
    BY <1>19, FinishTasks DEF Restart, Types, TaskInv, TaskOK, Entry, Blobs
  <2> QED
    BY <2>1, <2>2 DEF TaskInv
<1>20. ASSUME UNCHANGED vars PROVE TypeInv'
  <2>1. Types'
    BY <1>1, <1>20 DEF vars, Types, Entry, Labels, Blobs
  <2>2. ASSUME NEW u \in Tasks PROVE TaskOK(u)'
    BY <1>20 DEF vars, Types, TaskInv, TaskOK, Entry, Blobs
  <2> QED
    BY <2>1, <2>2 DEF TaskInv
<1> QED
  BY <1>2, <1>3, <1>4, <1>5, <1>6, <1>7, <1>8, <1>9, <1>10, <1>11, <1>12, <1>13, <1>14, <1>15, <1>16, <1>17, <1>18, <1>19, <1>20 DEF Next, TaskStep, Environment

\* Type correctness of the store, the isolates and the tasks, for any packages,
\* isolates and faults.
THEOREM TypeCorrect == Spec => []TypeOK
<1>1. Init => TypeInv
  BY InitTypeInv
<1>2. TypeInv /\ [Next]_vars => TypeInv'
  BY NextTypeInv
<1>3. TypeInv => TypeOK
  BY DEF TypeInv, TypeOK, TaskInv, TaskOK, Entry
<1> QED
  BY <1>1, <1>2, <1>3, PTL DEF Spec

(***************************************************************************)
(* One installer at a time.  Between the deletion of the manifest and its   *)
(* rewriting nobody else publishes one, so the files already written stay   *)
(* the installer's own or are evicted.                                      *)
(***************************************************************************)
PutOK(t) ==
  pc[t] = "put" =>
    /\ manifest = NoCap
    /\ \A p \in Files[cap[t]] \ todo[t] : stored[Key(cap[t], p)] \in {cap[t], NoCap}

SerialInv ==
  /\ TypeInv
  /\ OneInstaller
  /\ ManifestNeverLies
  /\ \A t \in Tasks : PutOK(t)

\* A step that only loses cache entries and starts no write keeps the invariant.
LEMMA LosingStep ==
  ASSUME SerialInv, TypeInv', OneInstaller',
         manifest' \in {manifest, NoCap},
         \A k \in Keys : stored'[k] \in {stored[k], NoCap},
         \A u \in Tasks : pc'[u] = "put" =>
           pc[u] = "put" /\ cap'[u] = cap[u] /\ todo'[u] = todo[u]
  PROVE  SerialInv'
<1>1. ManifestNeverLies'
  BY ImageType, CapsAssumption DEF SerialInv, ManifestNeverLies, TypeInv, Types, Entry, Key
<1>2. ASSUME NEW u \in Tasks, pc'[u] = "put"
      PROVE  PutOK(u)'
  <2>1. pc[u] = "put" /\ cap'[u] = cap[u] /\ todo'[u] = todo[u] /\ cap[u] \in Caps /\ PutOK(u)
    BY <1>2 DEF SerialInv, TypeInv, TaskInv, TaskOK
  <2> QED
    BY <2>1, ImageType, CapsAssumption DEF PutOK, Key
<1> QED
  BY <1>1, <1>2 DEF SerialInv, PutOK

\* Every step of the serial specification preserves SerialInv.  Only the end of
\* clearStored, a file put and the manifest put need an argument of their own.
LEMMA NextSerialInv == SerialInv /\ [Next /\ OneInstaller']_vars => SerialInv'
<1> SUFFICES ASSUME SerialInv, [Next /\ OneInstaller']_vars PROVE SerialInv'
  OBVIOUS
<1>1. TypeInv /\ TypeInv' /\ OneInstaller /\ OneInstaller'
  <2>1. TypeInv'
    BY NextTypeInv DEF SerialInv
  <2>2. OneInstaller'
    BY DEF SerialInv, OneInstaller, Installing, vars
  <2> QED
    BY <2>1, <2>2 DEF SerialInv
<1> DEFINE Losing ==
      /\ manifest' \in {manifest, NoCap}
      /\ \A k \in Keys : stored'[k] \in {stored[k], NoCap}
      /\ \A u \in Tasks : pc'[u] = "put" =>
           pc[u] = "put" /\ cap'[u] = cap[u] /\ todo'[u] = todo[u]
<1>2. ASSUME Losing PROVE SerialInv'
  BY <1>1, <1>2, LosingStep
<1> USE TaskFields DEF TypeInv, Types
<1> HIDE DEF Losing
<1>3. ASSUME NEW t \in Tasks, NEW b \in Blobs \cup {NoCap}, Arrive(t, b) PROVE SerialInv'
  <2>1. Losing
    BY <1>1, <1>3 DEF Arrive, Goto, At, Losing
  <2> QED
    BY <2>1, <1>2
<1>4. ASSUME NEW t \in Tasks, Resume(t) PROVE SerialInv'
  <2>1. Losing
    BY <1>1, <1>4, FinishTasks DEF Resume, Goto, At, Losing
  <2> QED
    BY <2>1, <1>2
<1>5. ASSUME NEW t \in Tasks, ResumeRejected(t) PROVE SerialInv'
  <2>1. Losing
    BY <1>1, <1>5, FinishTasks DEF ResumeRejected, Losing
  <2> QED
    BY <2>1, <1>2
<1>6. ASSUME NEW t \in Tasks, RestoreManifest(t) PROVE SerialInv'
  <2>1. Losing
    BY <1>1, <1>6 DEF RestoreManifest, Goto, Losing
  <2> QED
    BY <2>1, <1>2
<1>7. ASSUME NEW t \in Tasks, RestoreFile(t) PROVE SerialInv'
  <2>1. Losing
    BY <1>1, <1>7 DEF RestoreFile, Goto, At, Losing
  <2> QED
    BY <2>1, <1>2
<1>8. ASSUME NEW t \in Tasks, RestoreCheck(t) PROVE SerialInv'
  <2>1. Losing
    BY <1>1, <1>8, FinishTasks DEF RestoreCheck, Goto, Losing
  <2> QED
    BY <2>1, <1>2
<1>9. ASSUME NEW t \in Tasks, ClearManifestRead(t) PROVE SerialInv'
  <2>1. Losing
    BY <1>1, <1>9 DEF ClearManifestRead, Goto, Losing
  <2> QED
    BY <2>1, <1>2
<1>10. ASSUME NEW t \in Tasks, ClearFile(t) PROVE SerialInv'
  <2>1. Losing
    BY <1>1, <1>10 DEF ClearFile, At, Losing
  <2> QED
    BY <2>1, <1>2
<1>11. ASSUME NEW t \in Tasks, Verify(t) PROVE SerialInv'
  <2>1. Losing
    BY <1>1, <1>11, FinishTasks DEF Verify, GiveUp, Goto, Losing
  <2> QED
    BY <2>1, <1>2
<1>12. ASSUME NEW t \in Tasks, Adopt(t) PROVE SerialInv'
  <2>1. Losing
    BY <1>1, <1>12, FinishTasks DEF Adopt, Losing
  <2> QED
    BY <2>1, <1>2
<1>13. ASSUME NEW t \in Tasks, Startup(t) PROVE SerialInv'
  <2>1. Losing
    BY <1>1, <1>13, FinishTasks DEF Startup, GiveUp, Goto, Losing
  <2> QED
    BY <2>1, <1>2
<1>14. ASSUME EvictManifest PROVE SerialInv'
  <2>1. Losing
    BY <1>1, <1>14 DEF EvictManifest, Losing
  <2> QED
    BY <2>1, <1>2
<1>15. ASSUME NEW k \in Keys, EvictFile(k) PROVE SerialInv'
  <2>1. Losing
    BY <1>1, <1>15 DEF EvictFile, Losing
  <2> QED
    BY <2>1, <1>2
<1>16. ASSUME NEW t \in Tasks, CacheCallFails(t) PROVE SerialInv'
  <2>1. Losing
    BY <1>1, <1>16, FinishTasks DEF CacheCallFails, GiveUp, Losing
  <2> QED
    BY <2>1, <1>2
<1>17. ASSUME NEW i \in Isolates, Restart(i) PROVE SerialInv'
  <2>1. Losing
    BY <1>1, <1>17, FinishTasks DEF Restart, Losing
  <2> QED
    BY <2>1, <1>2
<1>18. ASSUME UNCHANGED vars PROVE SerialInv'
  <2>1. Losing
    BY <1>1, <1>18 DEF vars, Losing
  <2> QED
    BY <2>1, <1>2
<1>19. ASSUME NEW t \in Tasks, ClearManifest(t) PROVE SerialInv'
  <2>1. ManifestNeverLies'
    BY <1>19 DEF ClearManifest, ManifestNeverLies
  <2>2. ASSUME NEW u \in Tasks PROVE PutOK(u)'
    <3>1. CASE u = t
      BY <1>1, <1>19, <3>1 DEF ClearManifest, PutOK, Goto
    <3>2. CASE u # t
      BY <1>1, <1>19, <3>2 DEF ClearManifest, PutOK, Goto, SerialInv
    <3> QED
      BY <3>1, <3>2
  <2> QED
    BY <1>1, <2>1, <2>2 DEF SerialInv
<1>20. ASSUME NEW t \in Tasks, PutFile(t) PROVE SerialInv'
  <2>1. PutOK(t) /\ pc[t] = "put" /\ cap[t] \in Caps /\ Installing(t)
    BY <1>1, <1>20 DEF PutFile, At, SerialInv, TaskInv, TaskOK, Installing
  <2>2. PICK p \in todo[t] :
          /\ stored' = [stored EXCEPT ![Key(cap[t], p)] = cap[t]]
          /\ todo' = [todo EXCEPT ![t] = @ \ {p}]
    BY <1>20 DEF PutFile
  <2>3. UNCHANGED <<manifest, pc, cap>> /\ manifest = NoCap
    BY <1>20, <2>1 DEF PutFile, PutOK
  <2>4. ManifestNeverLies'
    BY <2>3 DEF ManifestNeverLies
  <2>5. PutOK(t)'
    <3> SUFFICES ASSUME NEW q \in Files[cap[t]] \ todo'[t]
                 PROVE  stored'[Key(cap[t], q)] \in {cap[t], NoCap}
      BY <2>3 DEF PutOK
    <3>1. q \in Paths /\ Key(cap[t], q) \in Keys
      BY <2>1, CapsAssumption, ImageType
    <3>2. q = p \/ q \in Files[cap[t]] \ todo[t]
      BY <1>1, <2>2
    <3>3. CASE q = p
      BY <1>1, <2>2, <3>1, <3>3
    <3>4. CASE q \in Files[cap[t]] \ todo[t]
      BY <1>1, <2>1, <2>2, <3>1, <3>4 DEF PutOK
    <3> QED
      BY <3>2, <3>3, <3>4
  <2>6. ASSUME NEW u \in Tasks, u # t PROVE PutOK(u)'
    <3>1. pc[u] # "put"
      BY <1>1, <2>1, <2>6 DEF OneInstaller, Installing, TaskInv, TaskOK
    <3> QED
      BY <2>3, <3>1 DEF PutOK
  <2> QED
    BY <1>1, <2>4, <2>5, <2>6 DEF SerialInv
<1>21. ASSUME NEW t \in Tasks, PutManifest(t) PROVE SerialInv'
  <2>1. PutOK(t) /\ pc[t] = "put" /\ cap[t] \in Caps /\ Installing(t)
    BY <1>1, <1>21 DEF PutManifest, At, SerialInv, TaskInv, TaskOK, Installing
  <2>2. ManifestNeverLies'
    BY <1>21, <2>1 DEF PutManifest, PutOK, ManifestNeverLies
  <2>3. ASSUME NEW u \in Tasks PROVE PutOK(u)'
    <3>1. pc'[u] # "put"
      <4>1. u # t => pc[u] # "put"
        BY <1>1, <2>1 DEF OneInstaller, Installing, TaskInv, TaskOK
      <4> QED
        BY <1>1, <1>21, <4>1 DEF PutManifest, Goto
    <3> QED
      BY <3>1 DEF PutOK
  <2> QED
    BY <1>1, <2>2, <2>3 DEF SerialInv
<1> QED
  BY <1>3, <1>4, <1>5, <1>6, <1>7, <1>8, <1>9, <1>10, <1>11, <1>12, <1>13, <1>14, <1>15, <1>16, <1>17, <1>18, <1>19, <1>20, <1>21 DEF Next, TaskStep, Environment

\* One installer at a time is enough for an honest manifest: for any number of
\* isolates restoring, clearing, crashing and any eviction, a stored manifest
\* never lists another package's bytes.
THEOREM ManifestHonest == SerialSpec => []ManifestNeverLies
<1>1. Init => SerialInv
  <2> SUFFICES ASSUME Init PROVE SerialInv
    OBVIOUS
  <2>1. OneInstaller
    BY DEF Init, OneInstaller, Installing
  <2> QED
    BY <2>1, InitTypeInv DEF Init, SerialInv, ManifestNeverLies, PutOK
<1>2. SerialInv /\ [Next /\ OneInstaller']_vars => SerialInv'
  BY NextSerialInv
<1>3. SerialInv => ManifestNeverLies
  BY DEF SerialInv
<1> QED
  BY <1>1, <1>2, <1>3, PTL DEF SerialSpec
(***************************************************************************)
(* One isolate.  fetch awaits initPromise before it installs, so restore    *)
(* never runs beside an install of the same isolate, and every byte it reads*)
(* under a manifest is that manifest's package's.                           *)
(***************************************************************************)
PhaseOK(t) ==
  /\ IsInit(t) /\ pc[t] # "idle" => init[Iso(t)] = "running"
  /\ ~IsInit(t) /\ pc[t] \notin {"idle", "waiting"} => init[Iso(t)] = "done"
  /\ pc[t] \in {"restore", "match", "startup"} => IsInit(t)
  /\ pc[t] \in {"clear", "delete"} /\ cap[t] = NoCap => IsInit(t)
  /\ pc[t] \in {"idle", "restore"} => got[t] = NoFiles
  /\ ~IsInit(t) => got[t] = NoFiles
PhaseInv == \A t \in Tasks : PhaseOK(t)

\* initPromise runs exactly while its task does, and requests work only after it.
LEMMA NextPhaseInv == TypeInv /\ PhaseInv /\ [Next]_vars => PhaseInv'
<1> SUFFICES ASSUME TypeInv, PhaseInv, [Next]_vars, NEW u \in Tasks PROVE PhaseOK(u)'
  BY DEF PhaseInv
<1> USE TaskFields DEF TypeInv, Types
<1>1. PhaseOK(u) /\ TaskOK(u) /\ Iso(u) \in Isolates
  BY DEF PhaseInv, TaskInv
<1>2. ASSUME NEW t \in Tasks, NEW b \in Blobs \cup {NoCap}, Arrive(t, b) PROVE PhaseOK(u)'
  BY <1>1, <1>2 DEF Arrive, Goto, At, Settle, PhaseOK, PhaseInv, TaskOK
<1>3. ASSUME NEW t \in Tasks, Resume(t) PROVE PhaseOK(u)'
  BY <1>1, <1>3, FinishTasks DEF Resume, Goto, At, PhaseOK, PhaseInv, TaskOK
<1>4. ASSUME NEW t \in Tasks, ResumeRejected(t) PROVE PhaseOK(u)'
  BY <1>1, <1>4, FinishTasks DEF ResumeRejected, PhaseOK, PhaseInv, TaskOK
<1>5. ASSUME NEW t \in Tasks, RestoreManifest(t) PROVE PhaseOK(u)'
  BY <1>1, <1>5 DEF RestoreManifest, Goto, At, PhaseOK, PhaseInv, TaskOK
<1>6. ASSUME NEW t \in Tasks, RestoreFile(t) PROVE PhaseOK(u)'
  BY <1>1, <1>6 DEF RestoreFile, Goto, At, PhaseOK, PhaseInv, TaskOK
<1>7. ASSUME NEW t \in Tasks, RestoreCheck(t) PROVE PhaseOK(u)'
  BY <1>1, <1>7, FinishTasks DEF RestoreCheck, Goto, At, Settle, PhaseOK, PhaseInv, TaskOK
<1>8. ASSUME NEW t \in Tasks, ClearManifestRead(t) PROVE PhaseOK(u)'
  BY <1>1, <1>8 DEF ClearManifestRead, Goto, At, PhaseOK, PhaseInv, TaskOK
<1>9. ASSUME NEW t \in Tasks, ClearFile(t) PROVE PhaseOK(u)'
  BY <1>1, <1>9 DEF ClearFile, At, PhaseOK, PhaseInv, TaskOK
<1>10. ASSUME NEW t \in Tasks, ClearManifest(t) PROVE PhaseOK(u)'
  BY <1>1, <1>10 DEF ClearManifest, Goto, At, PhaseOK, PhaseInv, TaskOK
<1>11. ASSUME NEW t \in Tasks, Verify(t) PROVE PhaseOK(u)'
  <2>1. CASE u = t
    BY <1>1, <1>11, <2>1, CapsAssumption, FinishTasks DEF Verify, GiveUp, Goto, Settle, At, PhaseOK, PhaseInv, TaskOK, Blobs
  <2>2. CASE u # t
    BY <1>1, <1>11, <2>2, CapsAssumption, FinishTasks DEF Verify, GiveUp, Goto, Settle, At, PhaseOK, PhaseInv, TaskOK, Blobs
  <2> QED
    BY <2>1, <2>2
<1>12. ASSUME NEW t \in Tasks, PutFile(t) PROVE PhaseOK(u)'
  BY <1>1, <1>12 DEF PutFile, At, PhaseOK, PhaseInv, TaskOK
<1>13. ASSUME NEW t \in Tasks, PutManifest(t) PROVE PhaseOK(u)'
  BY <1>1, <1>13 DEF PutManifest, Goto, At, PhaseOK, PhaseInv, TaskOK
<1>14. ASSUME NEW t \in Tasks, Adopt(t) PROVE PhaseOK(u)'
  BY <1>1, <1>14, FinishTasks DEF Adopt, Settle, At, PhaseOK, PhaseInv, TaskOK
<1>15. ASSUME NEW t \in Tasks, Startup(t) PROVE PhaseOK(u)'
  BY <1>1, <1>15, FinishTasks DEF Startup, GiveUp, Goto, Settle, At, PhaseOK, PhaseInv, TaskOK
<1>16. ASSUME EvictManifest PROVE PhaseOK(u)'
  BY <1>1, <1>16 DEF EvictManifest, PhaseOK, PhaseInv, TaskOK
<1>17. ASSUME NEW k \in Keys, EvictFile(k) PROVE PhaseOK(u)'
  BY <1>1, <1>17 DEF EvictFile, PhaseOK, PhaseInv, TaskOK
<1>18. ASSUME NEW t \in Tasks, CacheCallFails(t) PROVE PhaseOK(u)'
  <2>1. CASE u = t
    BY <1>1, <1>18, <2>1, CapsAssumption, FinishTasks DEF CacheCallFails, GiveUp, Settle, PhaseOK, PhaseInv, TaskOK, Blobs
  <2>2. CASE u # t
    <3>1. /\ pc'[u] = pc[u] /\ cap'[u] = cap[u] /\ got'[u] = got[u]
      BY <1>18, <2>2, FinishTasks DEF CacheCallFails, GiveUp
    <3>2. PhaseOK(t) /\ pc[t] # "idle" /\ (cap[t] = NoCap => IsInit(t))
      BY <1>18, CapsAssumption DEF CacheCallFails, PhaseInv, PhaseOK, TaskInv, TaskOK, Blobs
    <3>3. CASE IsInit(t)
      <4>1. init[Iso(t)] = "running" /\ \A i \in Isolates : i # Iso(t) => init'[i] = init[i]
        BY <1>18, <3>2, <3>3 DEF CacheCallFails, GiveUp, Settle, PhaseOK
      <4> QED
        BY <1>1, <2>2, <3>1, <3>3, <4>1 DEF PhaseOK
    <3>4. CASE ~IsInit(t)
      BY <1>1, <1>18, <3>1, <3>2, <3>4 DEF CacheCallFails, GiveUp, PhaseOK
    <3> QED
      BY <3>3, <3>4
  <2> QED
    BY <2>1, <2>2
<1>19. ASSUME NEW i \in Isolates, Restart(i) PROVE PhaseOK(u)'
  BY <1>1, <1>19, FinishTasks DEF Restart, PhaseOK, PhaseInv, TaskOK
<1>20. ASSUME UNCHANGED vars PROVE PhaseOK(u)'
  BY <1>1, <1>20 DEF vars, PhaseOK, PhaseInv, TaskOK
<1> QED
  BY <1>2, <1>3, <1>4, <1>5, <1>6, <1>7, <1>8, <1>9, <1>10, <1>11, <1>12, <1>13, <1>14, <1>15, <1>16, <1>17, <1>18, <1>19, <1>20 DEF Next, TaskStep, Environment

ReadOK(t) ==
  pc[t] = "match" =>
    LET c == listing[t] IN
    /\ c \in Caps
    /\ todo[t] \subseteq Files[c]
    /\ got[t] = [p \in Paths |-> IF p \in Files[c] \ todo[t] THEN c ELSE NoCap]
    /\ \A p \in Files[c] : stored[Key(c, p)] \in {c, NoCap}

SoloInv ==
  /\ SerialInv
  /\ PhaseInv
  /\ \A t \in Tasks : ReadOK(t)
  /\ ServedIsOneCap

\* No file is written while the only isolate's restore reads.
LEMMA ReadersExcludeWriters ==
  ASSUME \A i, j \in Isolates : i = j, TypeInv, PhaseInv,
         NEW t \in Tasks, pc[t] = "match", NEW u \in Tasks, pc[u] = "put"
  PROVE  FALSE
<1>1. Iso(t) = Iso(u) /\ IsInit(t) /\ init[Iso(t)] = "running"
  BY TaskFields DEF PhaseInv, PhaseOK
<1>2. CASE IsInit(u)
  BY <1>1, <1>2, TaskFields
<1>3. CASE ~IsInit(u)
  BY <1>1, <1>3 DEF PhaseInv, PhaseOK
<1> QED
  BY <1>2, <1>3

\* A step that writes no other package's bytes and moves no reader keeps ReadOK.
LEMMA ReadFrame ==
  ASSUME TypeInv, NEW t \in Tasks, ReadOK(t),
         \A k \in Keys : stored'[k] \in {stored[k], NoCap},
         pc'[t] = "match" => /\ pc[t] = "match" /\ listing'[t] = listing[t]
                             /\ todo'[t] = todo[t] /\ got'[t] = got[t]
  PROVE  ReadOK(t)'
BY ImageType, CapsAssumption DEF ReadOK

\* What was read in full is the listed package.
LEMMA ReadComplete ==
  ASSUME NEW t \in Tasks, ReadOK(t), pc[t] = "match", todo[t] = {}
  PROVE  listing[t] \in Caps /\ [hash |-> listing[t], files |-> got[t]] = Image(listing[t])
BY DEF ReadOK, Image
\* Every step of a lone isolate with one installer preserves SoloInv.
LEMMA NextSoloInv ==
  ASSUME \A i, j \in Isolates : i = j
  PROVE  SoloInv /\ [Next /\ OneInstaller']_vars => SoloInv'
<1> SUFFICES ASSUME SoloInv, [Next /\ OneInstaller']_vars PROVE SoloInv'
  OBVIOUS
<1>1. TypeInv /\ PhaseInv /\ SerialInv' /\ PhaseInv' /\ TypeInv'
  BY NextSerialInv, NextPhaseInv DEF SoloInv, SerialInv
<1> DEFINE Reading ==
      /\ \A k \in Keys : stored'[k] \in {stored[k], NoCap}
      /\ \A u \in Tasks : pc'[u] = "match" =>
           /\ pc[u] = "match" /\ listing'[u] = listing[u]
           /\ todo'[u] = todo[u] /\ got'[u] = got[u]
<1> DEFINE Reads == \A u \in Tasks : ReadOK(u)'
<1>2. ASSUME Reading PROVE Reads
  BY <1>1, <1>2, ReadFrame DEF SoloInv
<1>3. ASSUME Reads, ServedIsOneCap' PROVE SoloInv'
  BY <1>1, <1>3 DEF SoloInv
<1>4. ASSUME Reads, installed' = installed PROVE SoloInv'
  BY <1>3, <1>4 DEF SoloInv, ServedIsOneCap
<1> USE TaskFields DEF TypeInv, Types
<1> HIDE DEF Reading, Reads
<1>5. ASSUME NEW t \in Tasks, NEW b \in Blobs \cup {NoCap}, Arrive(t, b) PROVE SoloInv'
  <2>1. Reading
    BY <1>1, <1>5 DEF Arrive, Goto, At, Reading
  <2>2. installed' = installed
    BY <1>5 DEF Arrive
  <2> QED
    BY <2>1, <2>2, <1>2, <1>4
<1>6. ASSUME NEW t \in Tasks, Resume(t) PROVE SoloInv'
  <2>1. Reading
    BY <1>1, <1>6, FinishTasks DEF Resume, Goto, At, Reading
  <2>2. installed' = installed
    BY <1>6 DEF Resume
  <2> QED
    BY <2>1, <2>2, <1>2, <1>4
<1>7. ASSUME NEW t \in Tasks, ResumeRejected(t) PROVE SoloInv'
  <2>1. Reading
    BY <1>1, <1>7, FinishTasks DEF ResumeRejected, Reading
  <2>2. installed' = installed
    BY <1>7 DEF ResumeRejected
  <2> QED
    BY <2>1, <2>2, <1>2, <1>4
<1>8. ASSUME NEW t \in Tasks, ClearManifestRead(t) PROVE SoloInv'
  <2>1. Reading
    BY <1>1, <1>8 DEF ClearManifestRead, Goto, Reading
  <2>2. installed' = installed
    BY <1>8 DEF ClearManifestRead
  <2> QED
    BY <2>1, <2>2, <1>2, <1>4
<1>9. ASSUME NEW t \in Tasks, ClearFile(t) PROVE SoloInv'
  <2>1. Reading
    BY <1>1, <1>9 DEF ClearFile, At, Reading
  <2>2. installed' = installed
    BY <1>9 DEF ClearFile
  <2> QED
    BY <2>1, <2>2, <1>2, <1>4
<1>10. ASSUME NEW t \in Tasks, ClearManifest(t) PROVE SoloInv'
  <2>1. Reading
    BY <1>1, <1>10 DEF ClearManifest, Goto, Reading
  <2>2. installed' = installed
    BY <1>10 DEF ClearManifest
  <2> QED
    BY <2>1, <2>2, <1>2, <1>4
<1>11. ASSUME NEW t \in Tasks, Verify(t) PROVE SoloInv'
  <2>1. Reading
    BY <1>1, <1>11, FinishTasks DEF Verify, GiveUp, Goto, Reading
  <2>2. installed' = installed
    BY <1>11 DEF Verify
  <2> QED
    BY <2>1, <2>2, <1>2, <1>4
<1>12. ASSUME NEW t \in Tasks, PutManifest(t) PROVE SoloInv'
  <2>1. Reading
    BY <1>1, <1>12 DEF PutManifest, Goto, At, Reading
  <2>2. installed' = installed
    BY <1>12 DEF PutManifest
  <2> QED
    BY <2>1, <2>2, <1>2, <1>4
<1>13. ASSUME NEW t \in Tasks, Startup(t) PROVE SoloInv'
  <2>1. Reading
    BY <1>1, <1>13, FinishTasks DEF Startup, GiveUp, Goto, Reading
  <2>2. installed' = installed
    BY <1>13 DEF Startup
  <2> QED
    BY <2>1, <2>2, <1>2, <1>4
<1>14. ASSUME EvictManifest PROVE SoloInv'
  <2>1. Reading
    BY <1>1, <1>14 DEF EvictManifest, Reading
  <2>2. installed' = installed
    BY <1>14 DEF EvictManifest
  <2> QED
    BY <2>1, <2>2, <1>2, <1>4
<1>15. ASSUME NEW k \in Keys, EvictFile(k) PROVE SoloInv'
  <2>1. Reading
    BY <1>1, <1>15 DEF EvictFile, Reading
  <2>2. installed' = installed
    BY <1>15 DEF EvictFile
  <2> QED
    BY <2>1, <2>2, <1>2, <1>4
<1>16. ASSUME NEW t \in Tasks, CacheCallFails(t) PROVE SoloInv'
  <2>1. Reading
    BY <1>1, <1>16, FinishTasks DEF CacheCallFails, GiveUp, Reading
  <2>2. installed' = installed
    BY <1>16 DEF CacheCallFails
  <2> QED
    BY <2>1, <2>2, <1>2, <1>4
<1>17. ASSUME UNCHANGED vars PROVE SoloInv'
  <2>1. Reading
    BY <1>1, <1>17 DEF vars, Reading
  <2>2. installed' = installed
    BY <1>17 DEF vars
  <2> QED
    BY <2>1, <2>2, <1>2, <1>4
<1>18. ASSUME NEW t \in Tasks, RestoreManifest(t) PROVE SoloInv'
  <2>1. ASSUME NEW u \in Tasks PROVE ReadOK(u)'
    <3>1. CASE u = t /\ manifest # NoCap
      <4>1. manifest \in Caps /\ got[t] = NoFiles /\ ManifestNeverLies
        BY <1>1, <1>18, <3>1 DEF RestoreManifest, At, PhaseInv, PhaseOK, SoloInv, SerialInv, Entry
      <4>2. listing'[t] = manifest /\ todo'[t] = Files[manifest] /\ got'[t] = NoFiles /\ stored' = stored
        BY <1>1, <1>18, <3>1, <4>1 DEF RestoreManifest, Listed
      <4> QED
        BY <3>1, <4>1, <4>2 DEF ReadOK, NoFiles, ManifestNeverLies
    <3>2. CASE u = t /\ manifest = NoCap
      BY <1>1, <1>18, <3>2 DEF RestoreManifest, Goto, ReadOK
    <3>3. CASE u # t
      BY <1>1, <1>18, <3>3, ReadFrame DEF RestoreManifest, Goto, SoloInv
    <3> QED
      BY <3>1, <3>2, <3>3
  <2> QED
    BY <1>4, <1>18, <2>1 DEF RestoreManifest, Reads
<1>19. ASSUME NEW t \in Tasks, RestoreFile(t) PROVE SoloInv'
  <2>1. ReadOK(t) /\ pc[t] = "match"
    BY <1>19 DEF RestoreFile, At, SoloInv
  <2>2. PICK p \in todo[t] :
          LET entry == stored[Key(listing[t], p)] IN
          IF entry = NoCap
            THEN Goto(t, "clear") /\ UNCHANGED <<todo, got>>
            ELSE /\ Goto(t, "match")
                 /\ todo' = [todo EXCEPT ![t] = @ \ {p}]
                 /\ got' = [got EXCEPT ![t][p] = entry]
    BY <1>19 DEF RestoreFile
  <2>3. UNCHANGED <<manifest, stored, installed, listing>>
    BY <1>19 DEF RestoreFile
  <2>4. ASSUME NEW u \in Tasks PROVE ReadOK(u)'
    <3>1. CASE u = t /\ stored[Key(listing[t], p)] # NoCap
      <4> DEFINE c == listing[t]
      <4>1. c \in Caps /\ p \in Files[c] /\ p \in Paths /\ stored[Key(c, p)] = c
        BY <2>1, <2>2, <3>1, CapsAssumption DEF ReadOK
      <4>2. todo'[t] = todo[t] \ {p} /\ got'[t] = [got[t] EXCEPT ![p] = c]
        BY <1>1, <2>2, <3>1, <4>1
      <4>3. got'[t] = [q \in Paths |-> IF q \in Files[c] \ todo'[t] THEN c ELSE NoCap]
        BY <2>1, <4>1, <4>2 DEF ReadOK
      <4>4. listing'[t] = c /\ stored' = stored
        BY <2>3
      <4> QED
        BY <2>1, <3>1, <4>1, <4>2, <4>3, <4>4 DEF ReadOK
    <3>2. CASE u = t /\ stored[Key(listing[t], p)] = NoCap
      BY <1>1, <2>2, <3>2 DEF Goto, ReadOK
    <3>3. CASE u # t
      <4>1. /\ pc'[u] = pc[u] /\ todo'[u] = todo[u] /\ got'[u] = got[u]
        BY <1>1, <2>2, <3>3 DEF Goto
      <4> QED
        BY <1>1, <2>3, <4>1, ReadFrame DEF SoloInv
    <3> QED
      BY <3>1, <3>2, <3>3
  <2> QED
    BY <1>4, <2>3, <2>4 DEF Reads
<1>20. ASSUME NEW t \in Tasks, RestoreCheck(t) PROVE SoloInv'
  <2>1. Reads
    <3>1. Reading
      BY <1>1, <1>20, FinishTasks DEF RestoreCheck, Goto, Reading
    <3> QED
      BY <3>1, <1>2
  <2>2. listing[t] \in Caps /\ [hash |-> listing[t], files |-> got[t]] = Image(listing[t])
    BY <1>20, ReadComplete DEF RestoreCheck, At, SoloInv
  <2>3. installed' = installed \/ installed' = [installed EXCEPT ![Iso(t)] = Image(listing[t])]
    BY <1>20, <2>2 DEF RestoreCheck
  <2>4. ServedIsOneCap'
    BY <1>1, <2>2, <2>3 DEF ServedIsOneCap, SoloInv
  <2> QED
    BY <1>3, <2>1, <2>4
<1>21. ASSUME NEW t \in Tasks, PutFile(t) PROVE SoloInv'
  <2>1. \A u \in Tasks : pc[u] # "match"
    BY <1>1, <1>21, ReadersExcludeWriters DEF PutFile, At
  <2>2. Reads
    BY <1>21, <2>1 DEF PutFile, ReadOK, Reads
  <2> QED
    BY <1>4, <1>21, <2>2 DEF PutFile
<1>22. ASSUME NEW t \in Tasks, Adopt(t) PROVE SoloInv'
  <2>1. Reads
    <3>1. Reading
      BY <1>1, <1>22, FinishTasks DEF Adopt, Reading
    <3> QED
      BY <3>1, <1>2
  <2>2. cap[t] \in Caps /\ installed' = [installed EXCEPT ![Iso(t)] = Image(cap[t])]
    BY <1>1, <1>22 DEF Adopt, At, TaskInv, TaskOK
  <2>3. ServedIsOneCap'
    BY <1>1, <2>2 DEF ServedIsOneCap, SoloInv
  <2> QED
    BY <1>3, <2>1, <2>3
<1>23. ASSUME NEW i \in Isolates, Restart(i) PROVE SoloInv'
  <2>1. Reads
    <3>1. Reading
      BY <1>1, <1>23, FinishTasks DEF Restart, Reading
    <3> QED
      BY <3>1, <1>2
  <2>2. ServedIsOneCap'
    BY <1>1, <1>23 DEF Restart, ServedIsOneCap, SoloInv
  <2> QED
    BY <1>3, <2>1, <2>2
<1> QED
  BY <1>5, <1>6, <1>7, <1>8, <1>9, <1>10, <1>11, <1>12, <1>13, <1>14, <1>15, <1>16, <1>17, <1>18, <1>19, <1>20, <1>21, <1>22, <1>23 DEF Next, TaskStep, Environment

\* One isolate, one installer: whatever is evicted, refused or cut short, what
\* the isolate serves is one submitted .cap under its own hash, or nothing.
THEOREM SoloServesOneCap ==
  ASSUME \A i, j \in Isolates : i = j
  PROVE  SerialSpec => []ServedIsOneCap
<1>1. Init => SoloInv
  <2> SUFFICES ASSUME Init PROVE SoloInv
    OBVIOUS
  <2>1. SerialInv
    <3>1. OneInstaller
      BY DEF Init, OneInstaller, Installing
    <3> QED
      BY <3>1, InitTypeInv DEF Init, SerialInv, ManifestNeverLies, PutOK
  <2>2. PhaseInv
    BY TaskFields DEF Init, PhaseInv, PhaseOK
  <2> QED
    BY <2>1, <2>2 DEF Init, SoloInv, ReadOK, ServedIsOneCap
<1>2. SoloInv /\ [Next /\ OneInstaller']_vars => SoloInv'
  BY NextSoloInv
<1>3. SoloInv => ServedIsOneCap
  BY DEF SoloInv
<1> QED
  BY <1>1, <1>2, <1>3, PTL DEF SerialSpec
===============================================================================
