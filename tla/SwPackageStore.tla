---------------------------- MODULE SwPackageStore ----------------------------
(***************************************************************************)
(* The service worker's package store (swsws/src/package-store.ts) behind   *)
(* getStore and the message handler (sw.ts).                                *)
(*                                                                          *)
(* A composite package is stored under one key for the main .cap, one for   *)
(* the list of dependency guids and one per POSITION in that list.  Each    *)
(* put, get and delete is awaited, and the browser may stop the worker at   *)
(* any of them.                                                             *)
(***************************************************************************)
EXTENDS Integers, Sequences, FiniteSets

CONSTANTS
  Caps,       \* blobs that verify
  Tampered,   \* blobs whose checksums do not match security.json
  Broken,     \* blobs that make verify throw: no zip, no package, bad signature
  NoCap,      \* an absent entry
  Guids,      \* dependency guids
  NoIndex,    \* an absent DEPS_KEY entry
  Bundles,    \* what callers pass to install: [main, deps]
  MaxDeps,    \* the longest dependency list among Bundles
  Slots,      \* install-package messages being handled at once
  Faults      \* which of FaultKinds may happen

Blobs == Caps \cup Tampered \cup Broken
Entry == Blobs \cup {NoCap}
Positions == 1 .. MaxDeps
FaultKinds == {"stop", "corrupt", "open", "cache"}

\* One entry of the Map<guid, bytes> an install is given, in insertion order.
Dependency == [guid : Guids, cap : Blobs]
DistinctGuids(deps) ==
  \A m, n \in DOMAIN deps : deps[m].guid = deps[n].guid => m = n

ASSUME StoreAssumption ==
  /\ NoCap \notin Blobs
  /\ Caps \cap (Tampered \cup Broken) = {}
  /\ MaxDeps \in Nat /\ Slots \in Nat
  /\ NoIndex \notin Seq(Guids)
  /\ \A b \in Bundles :
       /\ b \in [main : Blobs, deps : Seq(Dependency)]
       /\ Len(b.deps) <= MaxDeps
       /\ DistinctGuids(b.deps)
  /\ Faults \subseteq FaultKinds

\* Task 0 is storePromise; the others handle messages.
Restorer == 0
Handlers == 1 .. Slots
Tasks    == 0 .. Slots

VARIABLES
  capEntry,    \* CAP_KEY
  indexEntry,  \* DEPS_KEY
  depEntry,    \* depKey(n)
  installed,   \* this.installed: the main blob and the blob of each guid
  store,       \* storePromise
  pc,          \* per task: the await it stands at
  req,         \* per task: the bundle being installed, or read back
  names,       \* per task: the guids restore has still to read
  at,          \* per task: the position it is at
  answer,      \* per task: the install-result posted for its last message
  behind       \* history: a cache call of this worker was rejected since an
               \* install or a clear last ran to its end

disk == <<capEntry, indexEntry, depEntry>>
memory == <<installed, store, pc, req, names, at, answer, behind>>
vars == <<disk, memory>>

NoBundle == [main |-> NoCap, deps |-> <<>>]
NoView   == [main |-> NoCap, deps |-> [g \in Guids |-> NoCap]]

\* The Map a dependency list makes: a later entry of a guid would win.
ViewOf(b) ==
  [main |-> b.main,
   deps |-> [g \in Guids |->
     IF \E n \in DOMAIN b.deps : b.deps[n].guid = g
       THEN b.deps[CHOOSE n \in DOMAIN b.deps :
                     b.deps[n].guid = g /\ \A m \in DOMAIN b.deps : b.deps[m].guid = g => m <= n].cap
       ELSE NoCap]]

GuidsOf(b) == [n \in DOMAIN b.deps |-> b.deps[n].guid]

TypeOK ==
  /\ capEntry \in Entry
  /\ indexEntry \in Seq(Guids) \cup {NoIndex}
  /\ depEntry \in [Positions -> Entry]
  /\ installed \in [main : Caps \cup {NoCap}, deps : [Guids -> Caps \cup {NoCap}]]
  /\ store \in {"none", "opening", "ready", "rejected"}
  /\ pc \in [Tasks -> {"idle", "waiting", "verify", "putCap", "putIndex", "putDep", "adopt",
                       "reply", "getCap", "getIndex", "getDep", "drop", "clearCap", "clearIndex"}]
  /\ \A t \in Tasks : at[t] \in 1 .. MaxDeps + 1
  /\ answer \in [Tasks -> {"none", "ok", "refused"}]
  /\ behind \in BOOLEAN

Init ==
  /\ capEntry = NoCap
  /\ indexEntry = NoIndex
  /\ depEntry = [n \in Positions |-> NoCap]
  /\ installed = NoView
  /\ store = "none"
  /\ pc = [t \in Tasks |-> "idle"]
  /\ req = [t \in Tasks |-> NoBundle]
  /\ names = [t \in Tasks |-> <<>>]
  /\ at = [t \in Tasks |-> 1]
  /\ answer = [t \in Tasks |-> "none"]
  /\ behind = FALSE

At(t, label) == pc[t] = label
Goto(t, label) == pc' = [pc EXCEPT ![t] = label]
Finish(t) ==
  /\ Goto(t, "idle")
  /\ req' = [req EXCEPT ![t] = NoBundle]
  /\ names' = [names EXCEPT ![t] = <<>>]
  /\ at' = [at EXCEPT ![t] = 1]
Post(t, result) == answer' = [answer EXCEPT ![t] = result]

(***************************************************************************)
(* The message handler and getStore                                         *)
(***************************************************************************)
\* A call of install.  The message handler reads the main .cap alone (sw.ts:93),
\* so dependencies come only with calls of the class itself.
Arrive(t, b) ==
  /\ t \in Handlers
  /\ At(t, "idle")
  /\ req' = [req EXCEPT ![t] = b]
  /\ IF store = "none"
       THEN /\ store' = "opening"
            /\ pc' = [pc EXCEPT ![t] = "waiting", ![Restorer] = "getCap"]
       ELSE /\ Goto(t, "waiting")
            /\ UNCHANGED store
  /\ Post(t, "none")
  /\ UNCHANGED <<disk, installed, names, at, behind>>

StoreReadyUncaught(t) ==
  /\ t \in Handlers
  /\ At(t, "waiting")
  /\ \/ /\ store = "ready"
        /\ Goto(t, "verify")
        /\ UNCHANGED <<req, names, at>>
     \/ /\ store = "rejected"
        /\ Finish(t)
  /\ UNCHANGED <<disk, installed, store, answer, behind>>

\* await getStore() returns, or throws and the page is told ok: false.
StoreReady(t) ==
  /\ t \in Handlers
  /\ At(t, "waiting")
  /\ \/ /\ store = "ready"
        /\ Goto(t, "verify")
        /\ UNCHANGED <<req, names, at, answer>>
     \/ /\ store = "rejected"
        /\ Finish(t)
        /\ Post(t, "refused")
  /\ UNCHANGED <<disk, installed, store, behind>>

\* caches.open rejects: storePromise stays rejected until the worker restarts.
OpenFails(t) ==
  /\ "open" \in Faults
  /\ At(t, "getCap")
  /\ store' = "rejected"
  /\ Finish(t)
  /\ UNCHANGED <<disk, installed, answer, behind>>

(***************************************************************************)
(* install                                                                  *)
(***************************************************************************)
DepCaps(b) == {b.deps[n].cap : n \in DOMAIN b.deps}

VerifyMainOnly(b) == b.main \in Caps
VerifyThrowsOnly(b) == b.main \notin Broken /\ DepCaps(b) \subseteq Caps

\* verifyComposite: every dependency must verify; then the main blob's own report
\* is looked at.
VerifyComposite(b) == b.main \in Caps /\ DepCaps(b) \subseteq Caps

VerifyAndAdopt(t) ==
  /\ At(t, "verify")
  /\ IF VerifyComposite(req[t])
       THEN /\ Goto(t, "putCap")
            /\ installed' = ViewOf(req[t])
            /\ UNCHANGED <<req, names, at, answer>>
       ELSE Finish(t) /\ Post(t, "refused") /\ UNCHANGED installed
  /\ UNCHANGED <<disk, store, behind>>

\* A rejected bundle is answered ok: false and nothing is written.
Verify(t) ==
  /\ At(t, "verify")
  /\ IF VerifyComposite(req[t])
       THEN Goto(t, "putCap") /\ UNCHANGED <<req, names, at, answer>>
       ELSE Finish(t) /\ Post(t, "refused")
  /\ UNCHANGED <<disk, installed, store, behind>>

PutCap(t) ==
  /\ At(t, "putCap")
  /\ capEntry' = req[t].main
  /\ Goto(t, "putIndex")
  /\ UNCHANGED <<indexEntry, depEntry, installed, store, req, names, at, answer, behind>>

PutIndexIfAny(t) ==
  /\ At(t, "putIndex")
  /\ indexEntry' = IF req[t].deps = <<>> THEN indexEntry ELSE GuidsOf(req[t])
  /\ Goto(t, "putDep")
  /\ UNCHANGED <<capEntry, depEntry, installed, store, req, names, at, answer, behind>>

PutIndex(t) ==
  /\ At(t, "putIndex")
  /\ indexEntry' = GuidsOf(req[t])
  /\ Goto(t, "putDep")
  /\ UNCHANGED <<capEntry, depEntry, installed, store, req, names, at, answer, behind>>

PutDep(t) ==
  /\ At(t, "putDep")
  /\ IF at[t] <= Len(req[t].deps)
       THEN /\ depEntry' = [depEntry EXCEPT ![at[t]] = req[t].deps[at[t]].cap]
            /\ at' = [at EXCEPT ![t] = @ + 1]
            /\ UNCHANGED pc
       ELSE /\ Goto(t, "adopt")
            /\ UNCHANGED <<depEntry, at>>
  /\ UNCHANGED <<capEntry, indexEntry, installed, store, req, names, answer, behind>>

\* this.installed = installed, then the reply to the page.
Adopt(t) ==
  /\ At(t, "adopt")
  /\ installed' = ViewOf(req[t])
  /\ behind' = FALSE
  /\ Goto(t, "reply")
  /\ UNCHANGED <<disk, store, req, names, at, answer>>

Reply(t) ==
  /\ At(t, "reply")
  /\ Finish(t)
  /\ Post(t, "ok")
  /\ UNCHANGED <<disk, installed, store, behind>>

(***************************************************************************)
(* clear: forget, then delete the two keys restore starts from              *)
(***************************************************************************)
Clear(t) ==
  /\ t \in Handlers
  /\ At(t, "idle") /\ store = "ready"
  /\ installed' = NoView
  /\ Goto(t, "clearCap")
  /\ UNCHANGED <<disk, store, req, names, at, answer, behind>>
ClearCap(t) ==
  /\ At(t, "clearCap")
  /\ capEntry' = NoCap
  /\ Goto(t, "clearIndex")
  /\ UNCHANGED <<indexEntry, depEntry, installed, store, req, names, at, answer, behind>>
ClearIndex(t) ==
  /\ At(t, "clearIndex")
  /\ indexEntry' = NoIndex
  /\ behind' = FALSE
  /\ Finish(t)
  /\ UNCHANGED <<capEntry, depEntry, installed, store, answer>>

(***************************************************************************)
(* restore, run once by storePromise                                        *)
(***************************************************************************)
Ready(t) == store' = "ready" /\ Finish(t)

GetCap(t) ==
  /\ At(t, "getCap")
  /\ IF capEntry = NoCap
       THEN Ready(t)
       ELSE /\ Goto(t, "getIndex")
            /\ req' = [req EXCEPT ![t].main = capEntry]
            /\ UNCHANGED <<store, names, at>>
  /\ UNCHANGED <<disk, installed, answer, behind>>

GetIndex(t) ==
  /\ At(t, "getIndex")
  /\ names' = [names EXCEPT ![t] = IF indexEntry = NoIndex THEN <<>> ELSE indexEntry]
  /\ Goto(t, "getDep")
  /\ UNCHANGED <<disk, installed, store, req, at, answer, behind>>

\* A dependency blob that is not there is skipped.
GetDep(t) ==
  /\ At(t, "getDep")
  /\ at[t] <= Len(names[t])
  /\ LET blob == depEntry[at[t]] IN
     req' = IF blob = NoCap THEN req
            ELSE [req EXCEPT ![t].deps = Append(@, [guid |-> names[t][at[t]], cap |-> blob])]
  /\ at' = [at EXCEPT ![t] = @ + 1]
  /\ UNCHANGED <<disk, installed, store, pc, names, answer, behind>>

\* verifyComposite throws for a broken main blob or any bad dependency, and getStore
\* goes on with nothing installed; only a tampered main blob is deleted.
RestoreCheck(t) ==
  /\ At(t, "getDep")
  /\ at[t] > Len(names[t])
  /\ \/ /\ VerifyComposite(req[t])
        /\ installed' = ViewOf(req[t])
        /\ Ready(t)
     \/ /\ req[t].main \in Tampered
        /\ DepCaps(req[t]) \subseteq Caps
        /\ Goto(t, "drop")
        /\ UNCHANGED <<installed, store, req, names, at>>
     \/ /\ req[t].main \in Broken \/ ~(DepCaps(req[t]) \subseteq Caps)
        /\ Ready(t)
        /\ UNCHANGED installed
  /\ UNCHANGED <<disk, answer, behind>>

DropCap(t) ==
  /\ At(t, "drop")
  /\ capEntry' = NoCap
  /\ Ready(t)
  /\ UNCHANGED <<indexEntry, depEntry, installed, answer, behind>>

(***************************************************************************)
(* A cache call that rejects, by a full quota or a browser error: the entry *)
(* it was to write or delete stays as it was                                *)
(***************************************************************************)
\* install throws half way: the page is told ok: false, what was put before stays
\* put, and this.installed stays the package from before.
PutFails(t) ==
  /\ "cache" \in Faults
  /\ At(t, "putCap") \/ At(t, "putIndex") \/ (At(t, "putDep") /\ at[t] <= Len(req[t].deps))
  /\ Finish(t)
  /\ Post(t, "refused")
  /\ behind' = TRUE
  /\ UNCHANGED <<disk, installed, store>>

\* clear has already forgotten this.installed when its delete throws.
ClearFails(t) ==
  /\ "cache" \in Faults
  /\ At(t, "clearCap") \/ At(t, "clearIndex")
  /\ Finish(t)
  /\ behind' = TRUE
  /\ UNCHANGED <<disk, installed, store, answer>>

\* restore throws and getStore goes on with nothing installed.
RestoreFails(t) ==
  /\ "cache" \in Faults
  /\ \/ At(t, "getCap") \/ At(t, "getIndex") \/ At(t, "drop")
     \/ At(t, "getDep") /\ at[t] <= Len(names[t])
  /\ Ready(t)
  /\ behind' = TRUE
  /\ UNCHANGED <<disk, installed, answer>>

(***************************************************************************)
(* The browser                                                              *)
(***************************************************************************)
\* t is between its first write and its answer.
Writing(t) == pc[t] \in {"putCap", "putIndex", "putDep", "adopt", "reply",
                        "clearCap", "clearIndex"}
Quiet == \A t \in Tasks : ~Writing(t)

\* The worker is stopped and its memory lost; event.waitUntil asks the browser to
\* spare it during an install, and promises nothing.
Stop ==
  /\ "stop" \in Faults
  /\ store # "none"
  /\ installed' = NoView
  /\ store' = "none"
  /\ pc' = [t \in Tasks |-> "idle"]
  /\ req' = [t \in Tasks |-> NoBundle]
  /\ names' = [t \in Tasks |-> <<>>]
  /\ at' = [t \in Tasks |-> 1]
  /\ answer' = [t \in Tasks |-> "none"]
  /\ behind' = FALSE
  /\ UNCHANGED disk

\* A stored blob is damaged on disk.  Only restore reads the entries, so damage done
\* while a worker runs is damage done just before the next one starts.
CorruptCap ==
  /\ "corrupt" \in Faults /\ store = "none"
  /\ capEntry \in Caps
  /\ capEntry' \in Tampered \cup Broken
  /\ UNCHANGED <<indexEntry, depEntry, memory>>
CorruptDep(n) ==
  /\ "corrupt" \in Faults /\ store = "none"
  /\ depEntry[n] \in Caps
  /\ \E blob \in Tampered \cup Broken : depEntry' = [depEntry EXCEPT ![n] = blob]
  /\ UNCHANGED <<capEntry, indexEntry, memory>>

TaskStep(t) ==
  \/ StoreReady(t) \/ Verify(t) \/ PutCap(t) \/ PutIndex(t) \/ PutDep(t) \/ Adopt(t) \/ Reply(t)
  \/ GetCap(t) \/ GetIndex(t) \/ GetDep(t) \/ RestoreCheck(t) \/ DropCap(t)
  \/ ClearCap(t) \/ ClearIndex(t)

CallFails(t) == OpenFails(t) \/ PutFails(t) \/ ClearFails(t) \/ RestoreFails(t)

Next ==
  \/ \E t \in Tasks, b \in Bundles : Arrive(t, b)
  \/ \E t \in Tasks : TaskStep(t) \/ CallFails(t) \/ Clear(t)
  \/ Stop
  \/ CorruptCap
  \/ \E n \in Positions : CorruptDep(n)

Spec == Init /\ [][Next]_vars

\* One writer at a time: an assumption on the pages that post packages.
OneWriter == \A t, u \in Tasks : Writing(t) /\ Writing(u) => t = u
SerialSpec == Init /\ [][Next /\ OneWriter']_vars

\* The event loop runs every continuation that is ready.  Nothing forces a cache call
\* to fail, a page to post or the browser to stop the worker.
Fairness == \A t \in Tasks : WF_vars(TaskStep(t))
FairSpec == Spec /\ Fairness
\* The behaviours of FairSpec in which no two writers overlap.
FairSerialSpec == SerialSpec /\ Fairness

(***************************************************************************)
(* Properties                                                               *)
(***************************************************************************)
\* Nothing unverified is ever written: install verifies the main blob and every
\* dependency before its first put (package-store.ts:114-118, 162-179).  A step
\* that leaves the worker's memory alone is damage on disk, not a write.
OnlyVerifiedStored ==
  [][memory' # memory =>
       /\ capEntry' \in {capEntry, NoCap} \cup Caps
       /\ \A n \in Positions : depEntry'[n] \in {depEntry[n]} \cup Caps]_vars

\* The composite view the next worker would restore.
StoredGuids == IF indexEntry = NoIndex THEN <<>> ELSE indexEntry
StoredView ==
  IF capEntry = NoCap THEN NoView
  ELSE [main |-> capEntry,
        deps |-> [g \in Guids |->
          IF \E n \in DOMAIN StoredGuids : StoredGuids[n] = g
            THEN depEntry[CHOOSE n \in DOMAIN StoredGuids : StoredGuids[n] = g]
            ELSE NoCap]]

\* What restore would make of the entries: a main blob or a listed dependency that does
\* not verify costs the whole composite.
Restorable == capEntry \in Caps /\ \A n \in DOMAIN StoredGuids : depEntry[n] \in Caps \cup {NoCap}
NextWorkerView == IF Restorable THEN StoredView ELSE NoView

\* Between operations the package in memory is the one a restarted worker restores,
\* dependencies included, whatever shorter or longer lists were installed before, and
\* a damaged entry is served as nothing, never as a part of the composite
\* (package-store.ts:118-154), unless a cache call of this worker was rejected and no
\* install or clear has run to its end since.
MemoryMatchesStore == store = "ready" /\ Quiet /\ ~behind => installed = NextWorkerView

\* Every install-package message is answered, ok or not (sw.ts:91-109), also when the
\* store cannot be opened or a cache call is rejected, unless the worker is stopped.
InstallAnswered ==
  \A t \in Handlers : At(t, "waiting") ~> answer[t] # "none" \/ store = "none"

\* A damaged blob is an empty slot: no worker will adopt it.
Slotted == IF capEntry \in Caps THEN capEntry ELSE NoCap

Slot == INSTANCE PackageSlot WITH
  Packages <- Caps, Empty <- NoCap, slot <- Slotted, serving <- installed.main

\* Seen through its main blob the store is one durable slot: stopping the worker
\* anywhere leaves the old package or the new one (package-store.ts:118-127).
ImplementsSlot == Slot!SlotSpec
===============================================================================
