------------------------- MODULE SwPackageStoreProofs -------------------------
(***************************************************************************)
(* The service worker's store, for any bundles, dependency lists, handlers, *)
(* stops and damage: what is stored was verified, and what is in memory is  *)
(* what the next worker restores.                                           *)
(***************************************************************************)
EXTENDS SwPackageStore, TLAPS

Bundle == [main : Entry, deps : Seq(Dependency)]
View   == [main : Caps \cup {NoCap}, deps : [Guids -> Caps \cup {NoCap}]]

\* A list of guids that GuidsOf can have written.
Indexed(guids) ==
  /\ guids \in Seq(Guids) /\ Len(guids) <= MaxDeps
  /\ \A m, n \in 1 .. Len(guids) : guids[m] = guids[n] => m = n

Puts == {"putCap", "putIndex", "putDep", "adopt", "reply"}
HandlerStages == {"idle", "waiting", "verify", "clearCap", "clearIndex"} \cup Puts
RestoreStages == {"idle", "getCap", "getIndex", "getDep", "drop"}

\* What restore has read of the first k - 1 positions: each blob that was there, under
\* the guid of its position, once (package-store.ts:136-146).
Restored(deps, guids, entries, k) ==
  /\ DistinctGuids(deps)
  /\ \A j \in 1 .. Len(deps) : \E n \in 1 .. k - 1 :
       entries[n] # NoCap /\ deps[j].guid = guids[n] /\ deps[j].cap = entries[n]
  /\ \A n \in 1 .. k - 1 : entries[n] # NoCap =>
       \E j \in 1 .. Len(deps) : deps[j].guid = guids[n] /\ deps[j].cap = entries[n]

Entries ==
  /\ capEntry \in Entry
  /\ indexEntry = NoIndex \/ Indexed(indexEntry)
  /\ depEntry \in [Positions -> Entry]

Tables ==
  /\ pc \in [Tasks -> HandlerStages \cup RestoreStages]
  /\ req \in [Tasks -> Bundle]
  /\ names \in [Tasks -> Seq(Guids)]
  /\ at \in [Tasks -> 1 .. MaxDeps + 1]

\* A worker that is not running does nothing, and one whose store is not open has
\* installed nothing and lets every handler wait.
Life ==
  /\ store \in {"none", "opening", "ready", "rejected"}
  /\ installed \in View
  /\ store = "none" => \A t \in Tasks : pc[t] = "idle"
  /\ store # "ready" =>
       installed = NoView /\ \A t \in Handlers : pc[t] \in {"idle", "waiting"}
  /\ pc[Restorer] # "idle" => store = "opening"

\* A handler past verify holds a bundle of which everything verified.
HandlerAt(t) ==
  /\ pc[t] \in HandlerStages
  /\ pc[t] \in {"waiting", "verify"} \cup Puts => req[t] \in Bundles
  /\ pc[t] \in Puts => VerifyComposite(req[t])
  /\ pc[t] \notin {"putDep", "adopt", "reply"} => at[t] = 1
  /\ at[t] <= Len(req[t].deps) + 1
  /\ pc[t] \in {"adopt", "reply"} => at[t] = Len(req[t].deps) + 1

\* restore holds what is stored, as far as it has read.
RestorerAt ==
  /\ pc[Restorer] \in RestoreStages
  /\ pc[Restorer] # "getDep" =>
       (pc[Restorer] # "drop" => at[Restorer] = 1 /\ req[Restorer].deps = <<>>)
  /\ pc[Restorer] \in {"getIndex", "getDep"} => capEntry # NoCap /\ req[Restorer].main = capEntry
  /\ pc[Restorer] = "getDep" =>
       /\ names[Restorer] = StoredGuids
       /\ at[Restorer] <= Len(StoredGuids) + 1
       /\ Restored(req[Restorer].deps, StoredGuids, depEntry, at[Restorer])

Inv ==
  /\ Entries
  /\ Tables
  /\ Life
  /\ \A t \in Handlers : HandlerAt(t)
  /\ RestorerAt

USE StoreAssumption DEF disk

LEMMA Constants ==
  /\ Restorer \in Tasks /\ Restorer \notin Handlers
  /\ Handlers \subseteq Tasks /\ \A t \in Tasks : t = Restorer \/ t \in Handlers
  /\ NoBundle \in Bundle /\ NoBundle.deps = <<>> /\ Len(NoBundle.deps) = 0
  /\ NoView \in View
  /\ 1 \in 1 .. MaxDeps + 1
  /\ NoCap \notin Caps
  BY DEF Restorer, Tasks, Handlers, NoBundle, Bundle, Entry, NoView, View, Blobs

LEMMA BundleFacts ==
  ASSUME NEW b \in Bundles
  PROVE  b \in Bundle /\ Len(b.deps) <= MaxDeps /\ DistinctGuids(b.deps)
  BY DEF Bundle, Entry


LEMMA InitInv == Init => Inv
  <1> SUFFICES ASSUME Init PROVE Inv
    OBVIOUS
  <1>1. Entries
    BY DEF Init, Entries, Entry
  <1>2. Tables
    BY Constants DEF Init, Tables, HandlerStages
  <1>3. Life
    BY Constants DEF Init, Life
  <1>4. \A t \in Handlers : HandlerAt(t)
    BY Constants DEF Init, HandlerAt, HandlerStages, Puts
  <1>5. RestorerAt
    BY Constants DEF Init, RestorerAt, RestoreStages
  <1> QED BY <1>1, <1>2, <1>3, <1>4, <1>5 DEF Inv

(***************************************************************************)
(* Steps of a handler                                                       *)
(***************************************************************************)
\* The rows of the other tasks stay.
Alone(t) ==
  /\ \A u \in Tasks \ {t} : pc'[u] = pc[u] /\ req'[u] = req[u] /\ names'[u] = names[u] /\ at'[u] = at[u]
  /\ Tables'

LEMMA HandlerMoves ==
  ASSUME Inv, NEW t \in Handlers, Alone(t), HandlerAt(t)', store' = store,
         pc[t] # "idle" \/ pc'[t] = "idle" \/ store # "none",
         store # "ready" => pc'[t] \in {"idle", "waiting"}
                            /\ UNCHANGED <<capEntry, indexEntry, depEntry, installed>>,
         Entries', installed' \in View
  PROVE  Inv'
  <1>1. t \in Tasks /\ Restorer \in Tasks \ {t}
    BY Constants
  <1>2. \A u \in Handlers : HandlerAt(u)'
    <2> SUFFICES ASSUME NEW u \in Handlers, u # t PROVE HandlerAt(u)'
      OBVIOUS
    <2>1. pc'[u] = pc[u] /\ req'[u] = req[u] /\ at'[u] = at[u] /\ HandlerAt(u)
      BY Constants DEF Alone, Inv
    <2> QED BY <2>1 DEF HandlerAt
  <1>3. Life'
    <2>1. store = "none" => pc'[t] = "idle"
      BY <1>1 DEF Inv, Life
    <2> QED BY <1>1, <2>1, Constants DEF Inv, Life, Alone
  <1>4. RestorerAt'
    <2>1. /\ pc'[Restorer] = pc[Restorer] /\ req'[Restorer] = req[Restorer]
          /\ names'[Restorer] = names[Restorer] /\ at'[Restorer] = at[Restorer]
      BY <1>1 DEF Alone
    <2>2. CASE store = "ready"
      BY <2>1, <2>2 DEF Inv, Life, RestorerAt
    <2>3. CASE store # "ready"
      BY <2>1, <2>3 DEF Inv, RestorerAt, StoredGuids
    <2> QED BY <2>2, <2>3
  <1> QED BY <1>2, <1>3, <1>4 DEF Inv, Alone

\* A task that is over.
LEMMA Finished ==
  ASSUME Inv, NEW t \in Tasks, Finish(t)
  PROVE  /\ Alone(t)
         /\ pc'[t] = "idle" /\ req'[t] = NoBundle /\ at'[t] = 1
         /\ t \in Handlers => HandlerAt(t)'
  <1>1. Alone(t) /\ pc'[t] = "idle" /\ req'[t] = NoBundle /\ at'[t] = 1
    BY Constants DEF Inv, Tables, Finish, Goto, Alone, HandlerStages
  <1> QED BY <1>1, Constants DEF HandlerAt, HandlerStages, Puts

\* A task that goes on with the same rows, or at the next position.
LEMMA WentOn ==
  ASSUME Inv, NEW t \in Tasks, NEW label \in HandlerStages \cup RestoreStages, Goto(t, label),
         UNCHANGED <<req, names, at>>
  PROVE  Alone(t) /\ pc'[t] = label /\ req'[t] = req[t] /\ at'[t] = at[t]
  BY DEF Inv, Tables, Goto, Alone

\* A handler past waiting runs with an open store.
LEMMA OpenStore ==
  ASSUME Inv, NEW t \in Tasks, pc[t] \in HandlerStages \ {"idle", "waiting"}
  PROVE  t \in Handlers /\ store = "ready"
  BY Constants DEF Inv, Life, RestorerAt, HandlerStages, RestoreStages, Puts

\* The view of a bundle that verified.
LEMMA ViewOfVerified ==
  ASSUME NEW b \in Bundle, DistinctGuids(b.deps), VerifyComposite(b)
  PROVE  /\ ViewOf(b) \in View /\ ViewOf(b).main = b.main
         /\ \A n \in 1 .. Len(b.deps) : ViewOf(b).deps[b.deps[n].guid] = b.deps[n].cap
         /\ \A g \in Guids : (\A n \in 1 .. Len(b.deps) : b.deps[n].guid # g) => ViewOf(b).deps[g] = NoCap
  <1>1. b.deps \in Seq(Dependency) /\ DOMAIN b.deps = 1 .. Len(b.deps) /\ b.main \in Caps
    BY DEF Bundle, VerifyComposite
  <1>2. ASSUME NEW n \in 1 .. Len(b.deps)
        PROVE  /\ b.deps[n].guid \in Guids /\ b.deps[n].cap \in Caps
               /\ ViewOf(b).deps[b.deps[n].guid] = b.deps[n].cap
    <2> DEFINE g == b.deps[n].guid
               P(m) == b.deps[m].guid = g /\ \A k \in DOMAIN b.deps : b.deps[k].guid = g => k <= m
    <2>1. g \in Guids /\ b.deps[n].cap \in Caps
      <3>1. b.deps[n] \in Dependency
        BY <1>1
      <3>2. b.deps[n].cap \in DepCaps(b)
        BY <1>1 DEF DepCaps
      <3>3. DepCaps(b) \subseteq Caps
        BY DEF VerifyComposite
      <3> QED BY <3>1, <3>2, <3>3 DEF Dependency
    <2>2. P(n) /\ n \in DOMAIN b.deps
      BY <1>1 DEF DistinctGuids
    <2>3. \A m \in DOMAIN b.deps : P(m) => m = n
      BY <1>1 DEF DistinctGuids
    <2>4. (CHOOSE m \in DOMAIN b.deps : P(m)) = n
      BY <2>2, <2>3
    <2>5. ViewOf(b).deps[g] = b.deps[CHOOSE m \in DOMAIN b.deps : P(m)].cap
      BY <2>1, <2>2 DEF ViewOf
    <2> QED BY <2>1, <2>4, <2>5
  <1>3. ASSUME NEW g \in Guids, \A n \in 1 .. Len(b.deps) : b.deps[n].guid # g
        PROVE  ViewOf(b).deps[g] = NoCap
    BY <1>1, <1>3 DEF ViewOf
  <1>4. DOMAIN ViewOf(b).deps = Guids
    BY DEF ViewOf
  <1>5. ASSUME NEW g \in Guids PROVE ViewOf(b).deps[g] \in Caps \cup {NoCap}
    BY <1>2, <1>3
  <1>6. ViewOf(b) = [main |-> b.main, deps |-> ViewOf(b).deps]
    BY DEF ViewOf
  <1>7. ViewOf(b).deps = [g \in Guids |-> ViewOf(b).deps[g]]
    BY DEF ViewOf
  <1>8. ViewOf(b).deps \in [Guids -> Caps \cup {NoCap}]
    BY <1>5, <1>7
  <1>9. ViewOf(b).main = b.main
    BY DEF ViewOf
  <1> HIDE DEF ViewOf
  <1>10. ViewOf(b) \in View
    BY <1>1, <1>6, <1>8 DEF View
  <1> QED BY <1>2, <1>3, <1>9, <1>10


LEMMA ArriveWaitInv ==
  ASSUME Inv, NEW t \in Tasks, NEW b \in Bundles, Arrive(t, b), store # "none" PROVE Inv'
  <1>1. /\ t \in Handlers /\ pc[t] = "idle" /\ req' = [req EXCEPT ![t] = b] /\ Goto(t, "waiting")
        /\ UNCHANGED <<capEntry, indexEntry, depEntry, installed, names, at, store>>
    BY DEF Arrive, At
  <1>2. b \in Bundle /\ HandlerAt(t)
    BY <1>1, BundleFacts DEF Inv
  <1>3. Alone(t)
    BY <1>1, <1>2 DEF Inv, Tables, Goto, Alone, HandlerStages
  <1>4. pc'[t] = "waiting" /\ req'[t] = b /\ at'[t] = at[t]
    BY <1>1 DEF Inv, Tables, Goto
  <1>5. HandlerAt(t)'
    <2>1. Len(b.deps) \in Nat
      BY <1>2 DEF Bundle
    <2> QED BY <1>1, <1>2, <1>4, <2>1 DEF HandlerAt, HandlerStages, Puts
  <1>6. Entries' /\ installed' \in View
    BY <1>1 DEF Inv, Entries, Life
  <1> QED BY <1>1, <1>3, <1>4, <1>5, <1>6, HandlerMoves

\* The first event of a worker opens the store: restore starts.
LEMMA ArriveOpenInv ==
  ASSUME Inv, NEW t \in Tasks, NEW b \in Bundles, Arrive(t, b), store = "none" PROVE Inv'
  <1>1. /\ t \in Handlers /\ pc[t] = "idle" /\ req' = [req EXCEPT ![t] = b]
        /\ pc' = [pc EXCEPT ![t] = "waiting", ![Restorer] = "getCap"] /\ store' = "opening"
        /\ UNCHANGED <<capEntry, indexEntry, depEntry, installed, names, at>>
    BY DEF Arrive, At
  <1>2. b \in Bundle /\ HandlerAt(t) /\ Len(b.deps) \in Nat
    BY <1>1, BundleFacts DEF Inv, Bundle
  <1>3. Tables'
    BY <1>1, <1>2 DEF Inv, Tables, HandlerStages, RestoreStages
  <1>4. /\ pc'[t] = "waiting" /\ req'[t] = b /\ pc'[Restorer] = "getCap" /\ req'[Restorer] = req[Restorer]
        /\ \A u \in Handlers \ {t} : pc'[u] = pc[u] /\ req'[u] = req[u]
    BY <1>1, Constants DEF Inv, Tables
  <1>5. ASSUME NEW u \in Handlers PROVE HandlerAt(u)'
    <2>1. CASE u = t
      BY <1>1, <1>2, <1>4, <2>1 DEF HandlerAt, HandlerStages, Puts
    <2>2. CASE u # t
      BY <1>1, <1>4, <2>2 DEF Inv, HandlerAt
    <2> QED BY <2>1, <2>2
  <1>6. Life'
    BY <1>1, <1>4, Constants DEF Inv, Life
  <1>7. RestorerAt'
    BY <1>1, <1>4, Constants DEF Inv, Life, RestorerAt, RestoreStages
  <1> QED BY <1>1, <1>3, <1>5, <1>6, <1>7 DEF Inv, Entries

LEMMA StoreReadyInv == ASSUME Inv, NEW t \in Tasks, StoreReady(t) PROVE Inv'
  <1>1. /\ t \in Handlers /\ pc[t] = "waiting" /\ HandlerAt(t)
        /\ UNCHANGED <<capEntry, indexEntry, depEntry, installed, store>>
    BY DEF StoreReady, At, Inv
  <1>2. Entries' /\ installed' \in View
    BY <1>1 DEF Inv, Entries, Life
  <1>3. CASE store = "ready" /\ Goto(t, "verify") /\ UNCHANGED <<req, names, at>>
    <2>1. Alone(t) /\ pc'[t] = "verify" /\ req'[t] = req[t] /\ at'[t] = at[t]
      BY <1>3, WentOn DEF HandlerStages
    <2>2. HandlerAt(t)'
      BY <1>1, <2>1 DEF HandlerAt, HandlerStages, Puts
    <2> QED BY <1>1, <1>2, <1>3, <2>1, <2>2, HandlerMoves
  <1>4. CASE Finish(t)
    BY <1>1, <1>2, <1>4, Finished, HandlerMoves
  <1> QED BY <1>3, <1>4 DEF StoreReady

\* A step of an install: the handler goes on with its bundle, and the entries it writes
\* are of their type.
LEMMA InstallMoves ==
  ASSUME Inv, NEW t \in Tasks, pc[t] \in {"verify"} \cup Puts, NEW label \in Puts,
         VerifyComposite(req[t]), Goto(t, label), UNCHANGED <<req, names, at, store>>,
         label \notin {"putDep", "adopt", "reply"} => pc[t] \in {"verify", "putCap"},
         label \in {"adopt", "reply"} => at[t] = Len(req[t].deps) + 1,
         Entries', installed' \in View
  PROVE  Inv'
  <1>1. t \in Handlers /\ store = "ready" /\ HandlerAt(t)
    BY OpenStore DEF HandlerStages, Puts, Inv
  <1>2. Alone(t) /\ pc'[t] = label /\ req'[t] = req[t] /\ at'[t] = at[t]
    BY WentOn DEF HandlerStages
  <1>3. HandlerAt(t)'
    BY <1>1, <1>2 DEF HandlerAt, HandlerStages, Puts
  <1> QED BY <1>1, <1>2, <1>3, HandlerMoves DEF Puts

\* The answer, or a refusal.
LEMMA FinishInv ==
  ASSUME Inv, NEW t \in Handlers, pc[t] # "idle", Finish(t), store' = store,
         Entries', store # "ready" => UNCHANGED <<capEntry, indexEntry, depEntry>>, UNCHANGED installed
  PROVE  Inv'
  <1>1. installed' \in View
    BY DEF Inv, Life
  <1>2. t \in Tasks
    BY Constants
  <1> QED BY <1>1, <1>2, Finished, HandlerMoves


LEMMA VerifyInv == ASSUME Inv, NEW t \in Tasks, Verify(t) PROVE Inv'
  <1>1. pc[t] = "verify" /\ UNCHANGED <<capEntry, indexEntry, depEntry, installed, store>>
    BY DEF Verify, At
  <1>2. t \in Handlers /\ store = "ready" /\ Entries' /\ installed' \in View
    BY <1>1, OpenStore DEF HandlerStages, Inv, Entries, Life
  <1>3. CASE VerifyComposite(req[t]) /\ Goto(t, "putCap") /\ UNCHANGED <<req, names, at>>
    BY <1>1, <1>2, <1>3, InstallMoves DEF Puts
  <1>4. CASE Finish(t)
    BY <1>1, <1>2, <1>4, FinishInv
  <1> QED BY <1>3, <1>4 DEF Verify

\* What a handler past verify holds.
LEMMA Holds ==
  ASSUME Inv, NEW t \in Tasks, pc[t] \in Puts
  PROVE  /\ t \in Handlers /\ store = "ready" /\ HandlerAt(t)
         /\ req[t] \in Bundles /\ req[t] \in Bundle /\ VerifyComposite(req[t])
         /\ Len(req[t].deps) \in 0 .. MaxDeps /\ DOMAIN req[t].deps = 1 .. Len(req[t].deps)
         /\ DistinctGuids(req[t].deps) /\ req[t].main \in Caps
         /\ \A n \in 1 .. Len(req[t].deps) : req[t].deps[n].cap \in Caps /\ req[t].deps[n].guid \in Guids
  <1>1. t \in Handlers /\ store = "ready" /\ HandlerAt(t)
    BY OpenStore DEF HandlerStages, Puts, Inv
  <1>2. req[t] \in Bundles /\ VerifyComposite(req[t])
    BY <1>1 DEF HandlerAt
  <1>3. req[t] \in Bundle /\ Len(req[t].deps) <= MaxDeps /\ DistinctGuids(req[t].deps)
    BY <1>2, BundleFacts
  <1>4. req[t].deps \in Seq(Dependency)
    BY <1>3 DEF Bundle
  <1>5. ASSUME NEW n \in 1 .. Len(req[t].deps)
        PROVE  req[t].deps[n].cap \in Caps /\ req[t].deps[n].guid \in Guids
    <2>1. req[t].deps[n] \in Dependency
      BY <1>4
    <2>2. req[t].deps[n].cap \in DepCaps(req[t])
      BY <1>4 DEF DepCaps
    <2> QED BY <1>2, <2>1, <2>2 DEF Dependency, VerifyComposite
  <1>6. req[t].main \in Caps
    BY <1>2 DEF VerifyComposite
  <1> QED BY <1>1, <1>2, <1>3, <1>4, <1>5, <1>6

LEMMA PutCapInv == ASSUME Inv, NEW t \in Tasks, PutCap(t) PROVE Inv'
  <1>1. /\ pc[t] = "putCap" /\ capEntry' = req[t].main /\ Goto(t, "putIndex")
        /\ UNCHANGED <<indexEntry, depEntry, installed, store, req, names, at>>
    BY DEF PutCap, At
  <1>2. pc[t] \in Puts /\ "putIndex" \in Puts
    BY <1>1 DEF Puts
  <1>3. Entries' /\ installed' \in View
    BY <1>1, <1>2, Holds DEF Inv, Entries, Life, Entry, Blobs
  <1> QED BY <1>1, <1>2, <1>3, Holds, InstallMoves

LEMMA PutIndexInv == ASSUME Inv, NEW t \in Tasks, PutIndex(t) PROVE Inv'
  <1>1. /\ pc[t] = "putIndex" /\ indexEntry' = GuidsOf(req[t]) /\ Goto(t, "putDep")
        /\ UNCHANGED <<capEntry, depEntry, installed, store, req, names, at>>
    BY DEF PutIndex, At
  <1>2. pc[t] \in Puts /\ "putDep" \in Puts
    BY <1>1 DEF Puts
  <1>3. Indexed(GuidsOf(req[t]))
    BY <1>2, Holds DEF GuidsOf, Indexed, DistinctGuids
  <1>4. Entries' /\ installed' \in View
    BY <1>1, <1>3 DEF Inv, Entries, Life
  <1> QED BY <1>1, <1>2, <1>4, Holds, InstallMoves

LEMMA PutDepInv == ASSUME Inv, NEW t \in Tasks, PutDep(t) PROVE Inv'
  <1>1. pc[t] = "putDep" /\ pc[t] \in Puts /\ "adopt" \in Puts
        /\ UNCHANGED <<capEntry, indexEntry, installed, store, req, names>>
    BY DEF PutDep, At, Puts
  <1>2. CASE at[t] <= Len(req[t].deps)
    <2>1. /\ depEntry' = [depEntry EXCEPT ![at[t]] = req[t].deps[at[t]].cap]
          /\ at' = [at EXCEPT ![t] = at[t] + 1] /\ UNCHANGED pc
      BY <1>2 DEF PutDep
    <2>2. at[t] \in 1 .. Len(req[t].deps) /\ at[t] + 1 \in 1 .. MaxDeps + 1
      BY <1>1, <1>2, Holds DEF Inv, Tables
    <2>3. Entries'
      BY <1>1, <2>1, <2>2, Holds DEF Inv, Entries, Entry, Blobs, Positions
    <2>4. Tables'
      BY <1>1, <2>1, <2>2 DEF Inv, Tables
    <2>5. Alone(t) /\ pc'[t] = pc[t] /\ req'[t] = req[t] /\ at'[t] = at[t] + 1
      BY <1>1, <2>1, <2>4 DEF Inv, Tables, Alone
    <2>6. HandlerAt(t)'
      BY <1>1, <2>2, <2>5, Holds DEF HandlerAt
    <2>7. installed' \in View
      BY <1>1 DEF Inv, Life
    <2> QED BY <1>1, <2>3, <2>5, <2>6, <2>7, Holds, HandlerMoves
  <1>3. CASE ~(at[t] <= Len(req[t].deps))
    <2>1. Goto(t, "adopt") /\ UNCHANGED <<depEntry, at>>
      BY <1>3 DEF PutDep
    <2>2. at[t] = Len(req[t].deps) + 1
      BY <1>1, <1>3, Holds DEF HandlerAt, Inv, Tables
    <2>3. Entries' /\ installed' \in View
      BY <1>1, <2>1 DEF Inv, Entries, Life
    <2> QED BY <1>1, <2>1, <2>2, <2>3, Holds, InstallMoves
  <1> QED BY <1>2, <1>3

LEMMA AdoptInv == ASSUME Inv, NEW t \in Tasks, Adopt(t) PROVE Inv'
  <1>1. /\ pc[t] = "adopt" /\ installed' = ViewOf(req[t]) /\ Goto(t, "reply")
        /\ UNCHANGED <<capEntry, indexEntry, depEntry, store, req, names, at>>
    BY DEF Adopt, At
  <1>2. pc[t] \in Puts /\ "reply" \in Puts
    BY <1>1 DEF Puts
  <1>3. Entries' /\ installed' \in View
    BY <1>1, <1>2, Holds, ViewOfVerified DEF Inv, Entries
  <1>4. at[t] = Len(req[t].deps) + 1
    BY <1>1, <1>2, Holds DEF HandlerAt
  <1> QED BY <1>1, <1>2, <1>3, <1>4, Holds, InstallMoves

LEMMA ReplyInv == ASSUME Inv, NEW t \in Tasks, Reply(t) PROVE Inv'
  <1>1. pc[t] = "reply" /\ Finish(t) /\ UNCHANGED <<capEntry, indexEntry, depEntry, installed, store>>
    BY DEF Reply, At
  <1>2. Entries' /\ t \in Handlers
    BY <1>1, Holds DEF Inv, Entries, Puts
  <1> QED BY <1>1, <1>2, FinishInv

LEMMA ClearInv == ASSUME Inv, NEW t \in Tasks, Clear(t) \/ ClearCap(t) \/ ClearIndex(t) PROVE Inv'
  <1>1. Entries'
    BY DEF Clear, ClearCap, ClearIndex, Inv, Entries, Entry
  <1>2. installed' \in View
    BY Constants DEF Clear, ClearCap, ClearIndex, Inv, Life
  <1>3. t \in Handlers /\ store = "ready" /\ store' = store /\ HandlerAt(t)
    BY OpenStore DEF Clear, ClearCap, ClearIndex, At, HandlerStages, Inv
  <1>4. ASSUME NEW label \in {"clearCap", "clearIndex"}, Goto(t, label), UNCHANGED <<req, names, at>>,
               pc[t] \in {"idle", "clearCap"}
        PROVE  Inv'
    <2>1. Alone(t) /\ pc'[t] = label /\ req'[t] = req[t] /\ at'[t] = at[t]
      BY <1>4, WentOn DEF HandlerStages
    <2>2. HandlerAt(t)'
      BY <1>3, <1>4, <2>1 DEF HandlerAt, HandlerStages, Puts
    <2> QED BY <1>1, <1>2, <1>3, <2>1, <2>2, HandlerMoves
  <1>5. CASE ClearIndex(t)
    BY <1>1, <1>3, <1>5, FinishInv DEF ClearIndex, At
  <1> QED BY <1>4, <1>5 DEF Clear, ClearCap, At


(***************************************************************************)
(* Steps of restore                                                         *)
(***************************************************************************)
LEMMA RestorerMoves ==
  ASSUME Inv, pc[Restorer] # "idle", Alone(Restorer), RestorerAt', Entries',
         store' \in {"opening", "ready", "rejected"}, installed' \in View,
         store' # "ready" => installed' = NoView,
         pc'[Restorer] # "idle" => store' = "opening"
  PROVE  Inv'
  <1>1. \A u \in Handlers :
          /\ pc'[u] = pc[u] /\ req'[u] = req[u] /\ at'[u] = at[u]
          /\ pc[u] \in {"idle", "waiting"} /\ HandlerAt(u)
    BY Constants DEF Inv, Life, Alone
  <1>2. \A u \in Handlers : HandlerAt(u)'
    BY <1>1 DEF HandlerAt
  <1>3. Life'
    BY <1>1 DEF Inv, Life
  <1> QED BY <1>2, <1>3 DEF Inv, Alone

LEMMA IsRestorer ==
  ASSUME Inv, NEW t \in Tasks, pc[t] \in RestoreStages \ {"idle"}
  PROVE  t = Restorer /\ store = "opening" /\ installed = NoView
  BY Constants DEF Inv, Life, HandlerAt, HandlerStages, RestoreStages, Puts

\* restore is over, whatever it installed.
LEMMA RestoreEnds ==
  ASSUME Inv, NEW t \in Tasks, pc[t] \in RestoreStages \ {"idle"}, Finish(t),
         store' \in {"ready", "rejected"}, Entries', installed' \in View,
         store' = "rejected" => installed' = installed
  PROVE  Inv'
  <1>1. t = Restorer /\ installed = NoView /\ pc[Restorer] # "idle"
    BY IsRestorer
  <1>2. Alone(Restorer) /\ pc'[Restorer] = "idle" /\ req'[Restorer] = NoBundle /\ at'[Restorer] = 1
    BY <1>1, Finished
  <1>3. RestorerAt'
    BY <1>2, Constants DEF RestorerAt, RestoreStages
  <1> QED BY <1>1, <1>2, <1>3, RestorerMoves

LEMMA GetCapInv == ASSUME Inv, NEW t \in Tasks, GetCap(t) \/ OpenFails(t) PROVE Inv'
  <1>1. /\ pc[t] = "getCap" /\ pc[t] \in RestoreStages \ {"idle"}
        /\ UNCHANGED <<capEntry, indexEntry, depEntry, installed>>
    BY DEF GetCap, OpenFails, At, RestoreStages
  <1>2. Entries' /\ installed' \in View /\ t = Restorer /\ installed' = NoView
    BY <1>1, IsRestorer DEF Inv, Entries, Life
  <1>3. CASE Finish(t) /\ store' \in {"ready", "rejected"}
    BY <1>1, <1>2, <1>3, RestoreEnds
  <1>4. CASE capEntry # NoCap /\ GetCap(t)
    <2>1. /\ Goto(t, "getIndex") /\ req' = [req EXCEPT ![t].main = capEntry]
          /\ UNCHANGED <<store, names, at>>
      BY <1>4 DEF GetCap
    <2>2. req[t] \in Bundle /\ req[t].deps = <<>> /\ at[t] = 1
      BY <1>1, <1>2 DEF Inv, Tables, RestorerAt
    <2>3. [req[t] EXCEPT !.main = capEntry] \in Bundle
      BY <2>2 DEF Bundle, Inv, Entries
    <2>4. Tables'
      BY <2>1, <2>3 DEF Inv, Tables, Goto, RestoreStages
    <2>5. /\ pc'[t] = "getIndex" /\ at'[t] = 1
          /\ req'[t].main = capEntry /\ req'[t].deps = <<>>
      BY <2>1, <2>2 DEF Inv, Tables, Goto, Bundle
    <2>6. Alone(Restorer)
      BY <1>2, <2>1, <2>4 DEF Inv, Tables, Alone, Goto
    <2>7. RestorerAt'
      BY <1>1, <1>2, <1>4, <2>5 DEF RestorerAt, RestoreStages
    <2>8. store' = "opening"
      BY <1>1, <2>1, IsRestorer
    <2> QED BY <1>1, <1>2, <2>6, <2>7, <2>8, RestorerMoves
  <1> QED BY <1>3, <1>4 DEF GetCap, OpenFails, Ready

LEMMA IndexFacts == ASSUME Inv PROVE Indexed(StoredGuids)
  BY DEF Inv, Entries, StoredGuids, Indexed

LEMMA GetIndexInv == ASSUME Inv, NEW t \in Tasks, GetIndex(t) PROVE Inv'
  <1>1. /\ pc[t] = "getIndex" /\ pc[t] \in RestoreStages \ {"idle"}
        /\ UNCHANGED <<capEntry, indexEntry, depEntry, installed, store, req, at>>
        /\ names' = [names EXCEPT ![t] = StoredGuids] /\ Goto(t, "getDep")
    BY DEF GetIndex, At, RestoreStages, StoredGuids
  <1>2. Entries' /\ installed' \in View /\ t = Restorer /\ installed' = NoView /\ store' = "opening"
    BY <1>1, IsRestorer DEF Inv, Entries, Life
  <1>3. Tables' /\ pc'[t] = "getDep" /\ names'[t] = StoredGuids
    BY <1>1, IndexFacts DEF Inv, Tables, Goto, RestoreStages, Indexed
  <1>4. Alone(Restorer)
    BY <1>1, <1>2, <1>3 DEF Inv, Tables, Alone, Goto
  <1>5. at[t] = 1 /\ req[t].deps = <<>> /\ capEntry # NoCap /\ req[t].main = capEntry
    BY <1>1, <1>2 DEF Inv, RestorerAt
  <1>6. Restored(<<>>, StoredGuids, depEntry, 1)
    BY DEF Restored, DistinctGuids
  <1>7. StoredGuids' = StoredGuids /\ Len(StoredGuids) \in Nat
    BY <1>1, IndexFacts DEF StoredGuids, Indexed
  <1>8. RestorerAt'
    BY <1>1, <1>2, <1>3, <1>5, <1>6, <1>7 DEF RestorerAt, RestoreStages
  <1> QED BY <1>1, <1>2, <1>4, <1>8, RestorerMoves

\* The next position: its blob, if it is there, under its guid.
LEMMA RestoredNext ==
  ASSUME NEW guids, Indexed(guids), NEW entries \in [Positions -> Entry],
         NEW k \in 1 .. Len(guids), NEW deps \in Seq(Dependency), Restored(deps, guids, entries, k)
  PROVE  /\ entries[k] = NoCap => Restored(deps, guids, entries, k + 1)
         /\ entries[k] # NoCap =>
              LET longer == Append(deps, [guid |-> guids[k], cap |-> entries[k]])
              IN  longer \in Seq(Dependency) /\ Restored(longer, guids, entries, k + 1)
  <1> DEFINE d == [guid |-> guids[k], cap |-> entries[k]]
             longer == Append(deps, d)
  <1>1. k \in Positions /\ guids[k] \in Guids /\ Len(guids) \in Nat /\ k \in Nat
    BY DEF Indexed, Positions
  <1>2. CASE entries[k] = NoCap
    <2>1. \A n \in 1 .. (k + 1) - 1 : n = k \/ n \in 1 .. k - 1
      BY <1>1
    <2> QED BY <1>1, <1>2, <2>1 DEF Restored
  <1>3. CASE entries[k] # NoCap
    <2>1. d \in Dependency
      BY <1>1, <1>3 DEF Dependency, Entry
    <2>2. longer \in Seq(Dependency) /\ Len(longer) = Len(deps) + 1 /\ Len(deps) \in Nat
      BY <2>1
    <2>3. \A j \in 1 .. Len(deps) : longer[j] = deps[j]
      BY <2>1
    <2>4. longer[Len(deps) + 1] = d
      BY <2>1
    <2>5. \A j \in 1 .. Len(longer) : j = Len(deps) + 1 \/ j \in 1 .. Len(deps)
      BY <2>2
    <2>6. \A n \in 1 .. (k + 1) - 1 : n = k \/ n \in 1 .. k - 1
      BY <1>1
    <2>7. d.guid = guids[k] /\ d.cap = entries[k]
      OBVIOUS
    <2> HIDE DEF longer, d
    <2>8. \A j \in 1 .. Len(deps) : deps[j].guid # guids[k]
      BY <1>1 DEF Restored, Indexed
    <2>9. DistinctGuids(longer)
      <3>1. DOMAIN longer = 1 .. Len(longer) /\ DOMAIN deps = 1 .. Len(deps)
        BY <2>2
      <3>2. \A m, n \in 1 .. Len(deps) : longer[m].guid = longer[n].guid => m = n
        BY <2>3, <3>1 DEF DistinctGuids, Restored
      <3>3. \A m \in 1 .. Len(deps) : longer[m].guid # longer[Len(deps) + 1].guid
        BY <2>3, <2>4, <2>7, <2>8
      <3>4. \A m, n \in 1 .. Len(longer) : longer[m].guid = longer[n].guid => m = n
        BY <2>5, <3>2, <3>3
      <3> QED BY <3>1, <3>4 DEF DistinctGuids
    <2>10. \A j \in 1 .. Len(longer) : \E n \in 1 .. (k + 1) - 1 :
             entries[n] # NoCap /\ longer[j].guid = guids[n] /\ longer[j].cap = entries[n]
      <3>1. \A j \in 1 .. Len(deps) : \E n \in 1 .. k - 1 :
              entries[n] # NoCap /\ deps[j].guid = guids[n] /\ deps[j].cap = entries[n]
        BY DEF Restored
      <3>2. k \in 1 .. (k + 1) - 1 /\ 1 .. k - 1 \subseteq 1 .. (k + 1) - 1
        BY <1>1
      <3> QED BY <1>3, <2>3, <2>4, <2>5, <2>7, <3>1, <3>2
    <2>11. \A n \in 1 .. (k + 1) - 1 : entries[n] # NoCap =>
             \E j \in 1 .. Len(longer) : longer[j].guid = guids[n] /\ longer[j].cap = entries[n]
      <3>1. \A n \in 1 .. k - 1 : entries[n] # NoCap =>
              \E j \in 1 .. Len(deps) : deps[j].guid = guids[n] /\ deps[j].cap = entries[n]
        BY DEF Restored
      <3>2. Len(deps) + 1 \in 1 .. Len(longer) /\ 1 .. Len(deps) \subseteq 1 .. Len(longer)
        BY <2>2
      <3> QED BY <2>3, <2>4, <2>6, <2>7, <3>1, <3>2
    <2> QED BY <1>3, <2>2, <2>9, <2>10, <2>11 DEF Restored, longer, d
  <1> QED BY <1>2, <1>3


LEMMA GetDepInv == ASSUME Inv, NEW t \in Tasks, GetDep(t) PROVE Inv'
  <1>1. /\ pc[t] = "getDep" /\ pc[t] \in RestoreStages \ {"idle"}
        /\ UNCHANGED <<capEntry, indexEntry, depEntry, installed, store, pc, names>>
        /\ at' = [at EXCEPT ![t] = at[t] + 1] /\ at[t] <= Len(names[t])
    BY DEF GetDep, At, RestoreStages
  <1>2. Entries' /\ installed' \in View /\ t = Restorer /\ installed' = NoView /\ store' = "opening"
    BY <1>1, IsRestorer DEF Inv, Entries, Life
  <1>3. /\ names[t] = StoredGuids /\ at[t] \in 1 .. Len(StoredGuids) /\ Restored(req[t].deps, StoredGuids, depEntry, at[t])
        /\ capEntry # NoCap /\ req[t].main = capEntry /\ req[t] \in Bundle
        /\ at[t] + 1 \in 1 .. MaxDeps + 1 /\ at[t] + 1 <= Len(StoredGuids) + 1
    BY <1>1, <1>2, IndexFacts DEF Inv, RestorerAt, Tables, Indexed
  <1> DEFINE d == [guid |-> StoredGuids[at[t]], cap |-> depEntry[at[t]]]
             deps == IF depEntry[at[t]] = NoCap THEN req[t].deps ELSE Append(req[t].deps, d)
             r == [req[t] EXCEPT !.deps = deps]
  <1>4. deps \in Seq(Dependency) /\ Restored(deps, StoredGuids, depEntry, at[t] + 1)
    <2>1. req[t].deps \in Seq(Dependency) /\ depEntry \in [Positions -> Entry]
      BY <1>3 DEF Bundle, Inv, Entries
    <2> QED BY <1>3, <2>1, IndexFacts, RestoredNext
  <1>5. req' = [req EXCEPT ![t] = r]
    <2>1. CASE depEntry[at[t]] = NoCap
      <3>1. req' = req
        BY <2>1 DEF GetDep
      <3>2. r = req[t]
        BY <1>3, <2>1 DEF Bundle
      <3> QED BY <3>1, <3>2 DEF Inv, Tables
    <2>2. CASE depEntry[at[t]] # NoCap
      <3>1. req' = [req EXCEPT ![t].deps = Append(req[t].deps, [guid |-> names[t][at[t]], cap |-> depEntry[at[t]]])]
        BY <2>2 DEF GetDep
      <3> QED BY <1>3, <2>2, <3>1 DEF Inv, Tables
    <2> QED BY <2>1, <2>2
  <1> HIDE DEF deps
  <1>6. r \in Bundle /\ r.main = req[t].main /\ r.deps = deps
    BY <1>3, <1>4 DEF Bundle
  <1> HIDE DEF r
  <1>7. Tables'
    BY <1>1, <1>3, <1>5, <1>6 DEF Inv, Tables
  <1>8. req'[t] = r /\ at'[t] = at[t] + 1 /\ pc'[t] = "getDep" /\ names'[t] = StoredGuids
    BY <1>1, <1>3, <1>5 DEF Inv, Tables
  <1>9. Alone(Restorer)
    BY <1>1, <1>2, <1>5, <1>7 DEF Inv, Tables, Alone
  <1>10. StoredGuids' = StoredGuids
    BY <1>1 DEF StoredGuids
  <1>11. RestorerAt'
    BY <1>1, <1>2, <1>3, <1>4, <1>6, <1>8, <1>10 DEF RestorerAt, RestoreStages
  <1> QED BY <1>1, <1>2, <1>9, <1>11, RestorerMoves

\* What restore holds once it has read every position.
LEMMA ReadAll ==
  ASSUME Inv, NEW t \in Tasks, pc[t] = "getDep", at[t] > Len(names[t])
  PROVE  /\ t = Restorer /\ capEntry # NoCap /\ req[t].main = capEntry /\ req[t] \in Bundle
         /\ names[t] = StoredGuids /\ Restored(req[t].deps, StoredGuids, depEntry, Len(StoredGuids) + 1)
         /\ DistinctGuids(req[t].deps)
  <1>1. t = Restorer
    BY IsRestorer DEF RestoreStages
  <1>2. names[t] = StoredGuids /\ at[t] = Len(StoredGuids) + 1
    BY <1>1, IndexFacts DEF Inv, RestorerAt, Tables, Indexed
  <1>3. /\ capEntry # NoCap /\ req[t].main = capEntry /\ req[t] \in Bundle
        /\ Restored(req[t].deps, StoredGuids, depEntry, Len(StoredGuids) + 1)
    BY <1>1, <1>2 DEF Inv, RestorerAt, Tables
  <1> QED BY <1>1, <1>2, <1>3 DEF Restored

LEMMA RestoreCheckInv == ASSUME Inv, NEW t \in Tasks, RestoreCheck(t) PROVE Inv'
  <1>1. /\ pc[t] = "getDep" /\ pc[t] \in RestoreStages \ {"idle"} /\ at[t] > Len(names[t])
        /\ UNCHANGED <<capEntry, indexEntry, depEntry>>
    BY DEF RestoreCheck, At, RestoreStages
  <1>2. Entries' /\ t = Restorer /\ installed = NoView /\ store = "opening" /\ NoView \in View
    BY <1>1, IsRestorer, Constants DEF Inv, Entries
  <1>3. CASE VerifyComposite(req[t]) /\ installed' = ViewOf(req[t]) /\ Ready(t)
    <2>1. installed' \in View
      BY <1>1, <1>3, ReadAll, ViewOfVerified
    <2> QED BY <1>1, <1>2, <1>3, <2>1, RestoreEnds DEF Ready
  <1>4. CASE Goto(t, "drop") /\ UNCHANGED <<installed, store, req, names, at>>
    <2>1. "drop" \in HandlerStages \cup RestoreStages
      BY DEF RestoreStages
    <2>2. Alone(t) /\ pc'[t] = "drop"
      BY <1>4, <2>1, WentOn
    <2>3. RestorerAt'
      BY <1>2, <2>2 DEF RestorerAt, RestoreStages
    <2> QED BY <1>1, <1>2, <1>4, <2>2, <2>3, RestorerMoves
  <1>5. CASE Ready(t) /\ UNCHANGED installed
    BY <1>1, <1>2, <1>5, RestoreEnds DEF Ready
  <1> QED BY <1>3, <1>4, <1>5 DEF RestoreCheck

LEMMA DropCapInv == ASSUME Inv, NEW t \in Tasks, DropCap(t) PROVE Inv'
  <1>1. pc[t] = "drop" /\ pc[t] \in RestoreStages \ {"idle"} /\ Finish(t) /\ store' = "ready"
    BY DEF DropCap, At, RestoreStages, Ready
  <1>2. Entries' /\ installed' \in View
    BY DEF DropCap, Inv, Entries, Entry, Life
  <1> QED BY <1>1, <1>2, RestoreEnds

(***************************************************************************)
(* A rejected cache call ends its task and leaves the entries               *)
(***************************************************************************)
LEMMA PutFailsInv == ASSUME Inv, NEW t \in Tasks, PutFails(t) PROVE Inv'
  <1>1. pc[t] \in Puts /\ pc[t] # "idle" /\ Finish(t) /\ UNCHANGED <<disk, installed, store>>
    BY DEF PutFails, At, Puts
  <1>2. Entries' /\ t \in Handlers
    BY <1>1, Holds DEF Inv, Entries
  <1> QED BY <1>1, <1>2, FinishInv

LEMMA ClearFailsInv == ASSUME Inv, NEW t \in Tasks, ClearFails(t) PROVE Inv'
  <1>1. /\ pc[t] \in {"clearCap", "clearIndex"} /\ pc[t] # "idle"
        /\ Finish(t) /\ UNCHANGED <<disk, installed, store>>
    BY DEF ClearFails, At
  <1>2. Entries' /\ t \in Handlers
    BY <1>1, OpenStore DEF HandlerStages, Inv, Entries
  <1> QED BY <1>1, <1>2, FinishInv

LEMMA RestoreFailsInv == ASSUME Inv, NEW t \in Tasks, RestoreFails(t) PROVE Inv'
  <1>1. /\ pc[t] \in RestoreStages \ {"idle"} /\ Finish(t) /\ store' = "ready"
        /\ UNCHANGED <<disk, installed>>
    BY DEF RestoreFails, At, RestoreStages, Ready
  <1>2. Entries' /\ installed' \in View
    BY <1>1 DEF Inv, Entries, Life
  <1> QED BY <1>1, <1>2, RestoreEnds

(***************************************************************************)
(* The browser                                                              *)
(***************************************************************************)
LEMMA StopInv == ASSUME Inv, Stop PROVE Inv'
  <1>1. /\ \A t \in Tasks : pc'[t] = "idle" /\ req'[t] = NoBundle /\ names'[t] = <<>> /\ at'[t] = 1
        /\ installed' = NoView /\ store' = "none" /\ UNCHANGED <<capEntry, indexEntry, depEntry>>
    BY DEF Stop
  <1>2. Tables'
    BY Constants DEF Stop, Tables, HandlerStages
  <1>3. Entries' /\ Life'
    BY <1>1, Constants DEF Inv, Entries, Life
  <1>4. ASSUME NEW t \in Handlers PROVE HandlerAt(t)'
    BY <1>1, Constants DEF HandlerAt, HandlerStages, Puts
  <1>5. RestorerAt'
    BY <1>1, Constants DEF RestorerAt, RestoreStages
  <1> QED BY <1>2, <1>3, <1>4, <1>5 DEF Inv

\* Damage on disk, between two workers.
LEMMA CorruptInv ==
  ASSUME Inv, CorruptCap \/ \E n \in Positions : CorruptDep(n)
  PROVE  Inv'
  <1>1. store = "none" /\ UNCHANGED memory /\ UNCHANGED indexEntry
    BY DEF CorruptCap, CorruptDep
  <1>2. Entries'
    BY DEF CorruptCap, CorruptDep, Inv, Entries, Entry, Blobs
  <1>3. \A t \in Tasks : pc[t] = "idle"
    BY <1>1 DEF Inv, Life
  <1>4. Tables' /\ Life'
    BY <1>1 DEF memory, Inv, Tables, Life
  <1>5. \A t \in Handlers : HandlerAt(t)'
    BY <1>1 DEF memory, Inv, HandlerAt
  <1>6. RestorerAt'
    BY <1>1, <1>3, Constants DEF memory, Inv, RestorerAt
  <1> QED BY <1>2, <1>4, <1>5, <1>6 DEF Inv

LEMMA UnchangedInv == ASSUME Inv, UNCHANGED vars PROVE Inv'
  BY DEF vars, memory, Inv, Entries, Tables, Life, HandlerAt, RestorerAt, StoredGuids

LEMMA NextInv == Inv /\ [Next]_vars => Inv'
  <1> SUFFICES ASSUME Inv, [Next]_vars PROVE Inv'
    OBVIOUS
  <1>1. ASSUME NEW t \in Tasks, NEW b \in Bundles, Arrive(t, b) PROVE Inv'
    BY <1>1, ArriveWaitInv, ArriveOpenInv
  <1>2. ASSUME NEW t \in Tasks, TaskStep(t) PROVE Inv'
    BY <1>2, StoreReadyInv, VerifyInv, PutCapInv, PutIndexInv, PutDepInv, AdoptInv, ReplyInv,
       GetCapInv, GetIndexInv, GetDepInv, RestoreCheckInv, DropCapInv, ClearInv DEF TaskStep
  <1>3. ASSUME NEW t \in Tasks, CallFails(t) \/ Clear(t) PROVE Inv'
    BY <1>3, GetCapInv, PutFailsInv, ClearFailsInv, RestoreFailsInv, ClearInv DEF CallFails
  <1> QED BY <1>1, <1>2, <1>3, StopInv, CorruptInv, UnchangedInv DEF Next

\* For any bundles, any number of handlers at once, stops and damage: a handler past
\* verify holds a bundle of which everything verified, and restore holds each stored blob
\* under its own guid (package-store.ts:110-128, 131-146).
THEOREM Grounded == Spec => []Inv
  <1> QED BY InitInv, NextInv, PTL DEF Spec

\* In particular what is in memory was verified, whatever writes overlap.
THEOREM TypeCorrect == Spec => []TypeOK
  <1> DEFINE Flags == answer \in [Tasks -> {"none", "ok", "refused"}] /\ behind \in BOOLEAN
  <1>1. Inv /\ Flags => TypeOK
    <2>1. Entries => capEntry \in Entry /\ indexEntry \in Seq(Guids) \cup {NoIndex} /\ depEntry \in [Positions -> Entry]
      BY DEF Entries, Indexed
    <2>2. Tables => (\A t \in Tasks : at[t] \in 1 .. MaxDeps + 1)
                    /\ pc \in [Tasks -> HandlerStages \cup RestoreStages]
      BY DEF Tables
    <2>3. HandlerStages \cup RestoreStages =
            {"idle", "waiting", "verify", "putCap", "putIndex", "putDep", "adopt",
             "reply", "getCap", "getIndex", "getDep", "drop", "clearCap", "clearIndex"}
      BY DEF HandlerStages, RestoreStages, Puts
    <2> QED BY <2>1, <2>2, <2>3 DEF Inv, Life, View, TypeOK
  <1>2. Init => Flags
    BY DEF Init
  <1>3. Flags /\ [Next]_vars => Flags'
    <2> SUFFICES ASSUME Flags, [Next]_vars PROVE Flags'
      OBVIOUS
    <2>1. ASSUME NEW t \in Tasks, NEW r \in {"none", "ok", "refused"}, Post(t, r), behind' \in BOOLEAN
          PROVE  Flags'
      BY <2>1 DEF Post
    <2>2. CASE UNCHANGED answer /\ behind' \in BOOLEAN
      BY <2>2
    <2>3. ASSUME NEW t \in Tasks, TaskStep(t) PROVE Flags'
      BY <2>1, <2>2, <2>3
         DEF TaskStep, StoreReady, Verify, PutCap, PutIndex, PutDep, Adopt, Reply, GetCap, GetIndex,
             GetDep, RestoreCheck, DropCap, ClearCap, ClearIndex
    <2>4. ASSUME NEW t \in Tasks, CallFails(t) \/ Clear(t) PROVE Flags'
      BY <2>1, <2>2, <2>4 DEF CallFails, OpenFails, PutFails, ClearFails, RestoreFails, Clear
    <2>5. ASSUME NEW t \in Tasks, NEW b \in Bundles, Arrive(t, b) PROVE Flags'
      BY <2>1, <2>5 DEF Arrive
    <2>6. CASE Stop
      BY <2>6 DEF Stop
    <2>7. CASE CorruptCap \/ (\E n \in Positions : CorruptDep(n)) \/ UNCHANGED vars
      BY <2>7 DEF CorruptCap, CorruptDep, memory, vars
    <2> QED BY <2>3, <2>4, <2>5, <2>6, <2>7 DEF Next
  <1> QED BY <1>1, <1>2, <1>3, Grounded, PTL DEF Spec


\* For any writers, overlapping or not: a step of the worker writes only blobs that were
\* verified, or deletes (package-store.ts:114-118, 162-179).
THEOREM VerifiedBeforeStored == Spec => OnlyVerifiedStored
  <1> DEFINE Written == /\ capEntry' \in {capEntry, NoCap} \cup Caps
                        /\ \A n \in Positions : depEntry'[n] \in {depEntry[n]} \cup Caps
  <1>1. Inv /\ [Next]_vars => [memory' # memory => Written]_vars
    <2> SUFFICES ASSUME Inv, [Next]_vars, memory' # memory PROVE Written
      OBVIOUS
    <2>1. CASE UNCHANGED <<capEntry, depEntry>>
      BY <2>1
    <2>2. ASSUME NEW t \in Tasks, PutCap(t) PROVE Written
      <3>1. pc[t] \in Puts
        BY <2>2 DEF PutCap, At, Puts
      <3> QED BY <2>2, <3>1, Holds DEF PutCap
    <2>3. ASSUME NEW t \in Tasks, PutDep(t) PROVE Written
      <3>1. pc[t] \in Puts
        BY <2>3 DEF PutDep, At, Puts
      <3>2. CASE UNCHANGED depEntry
        BY <2>3, <3>2 DEF PutDep
      <3>3. CASE /\ at[t] <= Len(req[t].deps)
                 /\ depEntry' = [depEntry EXCEPT ![at[t]] = req[t].deps[at[t]].cap]
        <4>1. at[t] \in 1 .. Len(req[t].deps)
          BY <3>1, <3>3, Holds DEF Inv, Tables
        <4>2. req[t].deps[at[t]].cap \in Caps
          BY <3>1, <4>1, Holds
        <4> QED BY <2>3, <3>3, <4>2 DEF PutDep, Inv, Entries
      <3> QED BY <2>3, <3>2, <3>3 DEF PutDep
    <2>4. ASSUME NEW t \in Tasks, DropCap(t) \/ ClearCap(t) PROVE Written
      BY <2>4 DEF DropCap, ClearCap
    <2>5. CASE CorruptCap \/ \E n \in Positions : CorruptDep(n)
      BY <2>5 DEF CorruptCap, CorruptDep
    <2> QED BY <2>1, <2>2, <2>3, <2>4, <2>5
            DEF Next, vars, TaskStep, Arrive, StoreReady, Verify, PutIndex, Adopt, Reply, GetCap,
                GetIndex, GetDep, RestoreCheck, ClearIndex, CallFails, OpenFails, PutFails,
                ClearFails, RestoreFails, Clear, Stop
  <1> QED BY <1>1, Grounded, PTL DEF Spec, OnlyVerifiedStored

(***************************************************************************)
(* Writers that take turns                                                  *)
(***************************************************************************)
\* What a writer has stored so far, and holds in memory once it has adopted.
Progress(t) ==
  /\ pc[t] \in {"putIndex", "putDep", "adopt", "reply"} => capEntry = req[t].main
  /\ pc[t] \in {"putDep", "adopt", "reply"} =>
       /\ indexEntry = GuidsOf(req[t])
       /\ \A n \in 1 .. Len(req[t].deps) : n < at[t] => depEntry[n] = req[t].deps[n].cap
  /\ pc[t] = "reply" => installed = NextWorkerView
  /\ pc[t] \in {"clearCap", "clearIndex"} => installed = NoView
  /\ pc[t] = "clearIndex" => capEntry = NoCap

SerialInv ==
  /\ OneWriter
  /\ \A t \in Handlers : Progress(t)
  /\ MemoryMatchesStore

\* A verified bundle that is what the positions hold is the view a restart makes.
LEMMA ViewStored ==
  ASSUME Inv, NEW b \in Bundle, VerifyComposite(b), capEntry = b.main,
         Restored(b.deps, StoredGuids, depEntry, Len(StoredGuids) + 1)
  PROVE  NextWorkerView = ViewOf(b)
  <1> DEFINE held(g) == IF \E n \in DOMAIN StoredGuids : StoredGuids[n] = g
                          THEN depEntry[CHOOSE n \in DOMAIN StoredGuids : StoredGuids[n] = g] ELSE NoCap
  <1>1. DistinctGuids(b.deps) /\ b.main # NoCap
    BY Constants DEF Restored, VerifyComposite
  <1>2. StoredView = [main |-> b.main, deps |-> [g \in Guids |-> held(g)]]
    BY <1>1 DEF StoredView
  <1>3. Indexed(StoredGuids) /\ DOMAIN StoredGuids = 1 .. Len(StoredGuids) /\ Len(StoredGuids) \in Nat
    BY IndexFacts DEF Indexed
  <1>4. (Len(StoredGuids) + 1) - 1 = Len(StoredGuids)
    BY <1>3
  <1>5. /\ \A j \in 1 .. Len(b.deps) : \E n \in 1 .. Len(StoredGuids) :
             depEntry[n] # NoCap /\ b.deps[j].guid = StoredGuids[n] /\ b.deps[j].cap = depEntry[n]
        /\ \A n \in 1 .. Len(StoredGuids) : depEntry[n] # NoCap =>
             \E j \in 1 .. Len(b.deps) : b.deps[j].guid = StoredGuids[n] /\ b.deps[j].cap = depEntry[n]
    BY <1>4 DEF Restored
  <1>6. ASSUME NEW g \in Guids PROVE held(g) = ViewOf(b).deps[g]
    <2>1. CASE \E n \in 1 .. Len(StoredGuids) : StoredGuids[n] = g
      <3>1. PICK n \in 1 .. Len(StoredGuids) : StoredGuids[n] = g
        BY <2>1
      <3>2. \A m \in DOMAIN StoredGuids : StoredGuids[m] = g => m = n
        BY <1>3, <3>1 DEF Indexed
      <3>3. (CHOOSE m \in DOMAIN StoredGuids : StoredGuids[m] = g) = n
        BY <1>3, <3>1, <3>2
      <3>4. held(g) = depEntry[n]
        BY <1>3, <3>1, <3>3
      <3>5. CASE depEntry[n] # NoCap
        <4>1. PICK j \in 1 .. Len(b.deps) : b.deps[j].guid = g /\ b.deps[j].cap = depEntry[n]
          BY <1>5, <3>1, <3>5
        <4> QED BY <1>1, <3>4, <4>1, ViewOfVerified
      <3>6. CASE depEntry[n] = NoCap
        <4>1. \A j \in 1 .. Len(b.deps) : b.deps[j].guid # g
          BY <1>3, <1>5, <3>1, <3>2, <3>6
        <4> QED BY <1>1, <3>4, <3>6, <4>1, ViewOfVerified
      <3> QED BY <3>5, <3>6
    <2>2. CASE \A n \in 1 .. Len(StoredGuids) : StoredGuids[n] # g
      <3>1. held(g) = NoCap
        BY <1>3, <2>2
      <3>2. \A j \in 1 .. Len(b.deps) : b.deps[j].guid # g
        BY <1>5, <2>2
      <3> QED BY <1>1, <3>1, <3>2, ViewOfVerified
    <2> QED BY <2>1, <2>2
  <1>7. ViewOf(b) = [main |-> b.main, deps |-> [g \in Guids |-> ViewOf(b).deps[g]]]
    <2>1. ViewOf(b).deps = [g \in Guids |-> ViewOf(b).deps[g]]
      BY DEF ViewOf
    <2>2. ViewOf(b) = [main |-> b.main, deps |-> ViewOf(b).deps]
      BY DEF ViewOf
    <2> QED BY <2>1, <2>2
  <1> HIDE DEF held
  <1>8. [g \in Guids |-> held(g)] = [g \in Guids |-> ViewOf(b).deps[g]]
    BY <1>6
  <1>9. Restorable
    <2> SUFFICES ASSUME NEW n \in 1 .. Len(StoredGuids), depEntry[n] # NoCap PROVE depEntry[n] \in Caps
      BY <1>3 DEF Restorable, VerifyComposite
    <2>1. PICK j \in 1 .. Len(b.deps) : b.deps[j].cap = depEntry[n]
      BY <1>5
    <2>2. DOMAIN b.deps = 1 .. Len(b.deps)
      BY DEF Bundle
    <2> QED BY <2>1, <2>2 DEF VerifyComposite, DepCaps
  <1> QED BY <1>2, <1>7, <1>8, <1>9 DEF NextWorkerView

\* An install that has put everything has stored its bundle.
LEMMA InstallStored ==
  ASSUME Inv, NEW t \in Tasks, pc[t] = "adopt", Progress(t)
  PROVE  NextWorkerView = ViewOf(req[t])
  <1>1. pc[t] \in Puts
    BY DEF Puts
  <1>2. /\ capEntry = req[t].main /\ indexEntry = GuidsOf(req[t])
        /\ at[t] = Len(req[t].deps) + 1
        /\ \A n \in 1 .. Len(req[t].deps) : depEntry[n] = req[t].deps[n].cap
    BY <1>1, Holds DEF Progress, HandlerAt
  <1>3. Indexed(GuidsOf(req[t]))
    BY <1>1, Holds DEF GuidsOf, Indexed, DistinctGuids
  <1>4. StoredGuids = GuidsOf(req[t])
    BY <1>2, <1>3 DEF StoredGuids, Indexed
  <1>5. /\ Len(StoredGuids) = Len(req[t].deps) /\ Len(StoredGuids) \in Nat
        /\ \A n \in 1 .. Len(req[t].deps) : StoredGuids[n] = req[t].deps[n].guid
    BY <1>1, <1>4, Holds DEF GuidsOf
  <1>6. \A n \in 1 .. Len(req[t].deps) : req[t].deps[n].cap # NoCap
    BY <1>1, Holds, Constants
  <1>7. (Len(StoredGuids) + 1) - 1 = Len(req[t].deps)
    BY <1>5
  <1>8. Restored(req[t].deps, StoredGuids, depEntry, Len(StoredGuids) + 1)
    BY <1>1, <1>2, <1>5, <1>6, <1>7, Holds DEF Restored
  <1> QED BY <1>1, <1>2, <1>8, Holds, ViewStored


(***************************************************************************)
(* Each step, taken in turn                                                 *)
(***************************************************************************)
StoreKept == UNCHANGED <<capEntry, indexEntry, depEntry, installed>>

LEMMA ViewKept == ASSUME UNCHANGED disk PROVE NextWorkerView' = NextWorkerView
  BY DEF NextWorkerView, Restorable, StoredView, StoredGuids

\* A task that moves without touching entries or memory, and does not end a write.
LEMMA Idles ==
  ASSUME Inv, SerialInv, OneWriter', NEW t \in Tasks, StoreKept, store' = store, behind' = behind,
         \A u \in Tasks \ {t} : pc'[u] = pc[u] /\ req'[u] = req[u] /\ at'[u] = at[u],
         t \in Handlers => Progress(t)', Writing(t) => Writing(t)'
  PROVE  SerialInv'
  <1>1. NextWorkerView' = NextWorkerView
    BY ViewKept DEF StoreKept
  <1>2. ASSUME NEW u \in Handlers, u # t PROVE Progress(u)'
    <2>1. Progress(u) /\ pc'[u] = pc[u] /\ req'[u] = req[u] /\ at'[u] = at[u]
      BY <1>2, Constants DEF SerialInv
    <2> QED BY <1>1, <2>1 DEF Progress, StoreKept
  <1>3. Quiet' => Quiet
    BY DEF Quiet, Writing
  <1>4. MemoryMatchesStore'
    BY <1>1, <1>3 DEF MemoryMatchesStore, SerialInv, StoreKept
  <1> QED BY <1>2, <1>4 DEF SerialInv

\* A step of the one writer: the others write nothing, and the memory may lag.
LEMMA Writes ==
  ASSUME Inv, SerialInv, OneWriter', NEW t \in Handlers, Writing(t)',
         \A u \in Tasks \ {t} : pc'[u] = pc[u], Progress(t)'
  PROVE  SerialInv'
  <1>1. t \in Tasks
    BY Constants
  <1>2. ASSUME NEW u \in Handlers, u # t PROVE Progress(u)'
    <2>1. ~Writing(u)'
      BY <1>1, <1>2, Constants DEF OneWriter
    <2> QED BY <2>1 DEF Progress, Writing
  <1>3. MemoryMatchesStore'
    BY <1>1 DEF MemoryMatchesStore, Quiet
  <1> QED BY <1>2, <1>3 DEF SerialInv

\* The writer is done: what it leaves is what the next worker restores.
LEMMA Settles ==
  ASSUME Inv, SerialInv, OneWriter', NEW t \in Tasks, ~Writing(t)',
         \A u \in Tasks \ {t} : pc'[u] = pc[u],
         \A u \in Handlers \ {t} : ~Writing(u),
         store' = "ready" /\ ~behind' => installed' = NextWorkerView'
  PROVE  SerialInv'
  <1>1. ASSUME NEW u \in Handlers PROVE Progress(u)'
    <2>1. ~Writing(u)'
      BY Constants DEF Writing
    <2> QED BY <2>1 DEF Progress, Writing
  <1> QED BY <1>1 DEF SerialInv, MemoryMatchesStore

LEMMA WriterAlone ==
  ASSUME SerialInv, NEW t \in Handlers, Writing(t)
  PROVE  \A u \in Handlers \ {t} : ~Writing(u)
  BY Constants DEF SerialInv, OneWriter

LEMMA InstallSerial ==
  ASSUME Inv, SerialInv, OneWriter', NEW t \in Tasks,
         Verify(t) \/ PutCap(t) \/ PutIndex(t) \/ PutDep(t) \/ Adopt(t) \/ Reply(t)
  PROVE  SerialInv'
  <1>1. t \in Handlers
    BY OpenStore DEF Verify, PutCap, PutIndex, PutDep, Adopt, Reply, At, HandlerStages, Puts
  <1>2. Progress(t)
    BY <1>1 DEF SerialInv
  <1>3. CASE Verify(t)
    <2>1. StoreKept /\ store' = store /\ behind' = behind /\ ~Writing(t)
      BY <1>3 DEF Verify, StoreKept, At, Writing
    <2>2. \A u \in Tasks \ {t} : pc'[u] = pc[u] /\ req'[u] = req[u] /\ at'[u] = at[u]
      BY <1>3 DEF Verify, Finish, Goto, Inv, Tables
    <2>3. pc'[t] \in {"putCap", "idle"}
      BY <1>3 DEF Verify, Finish, Goto, Inv, Tables
    <2>4. Progress(t)'
      BY <2>3 DEF Progress
    <2> QED BY <2>1, <2>2, <2>4, Idles
  <1>4. CASE PutCap(t)
    <2>1. pc'[t] = "putIndex" /\ \A u \in Tasks \ {t} : pc'[u] = pc[u]
      BY <1>4 DEF PutCap, Goto, Inv, Tables
    <2>2. Progress(t)' /\ Writing(t)'
      BY <1>4, <2>1 DEF PutCap, Progress, Writing
    <2> QED BY <1>1, <2>1, <2>2, Writes
  <1>5. CASE PutIndex(t)
    <2>1. pc'[t] = "putDep" /\ \A u \in Tasks \ {t} : pc'[u] = pc[u]
      BY <1>5 DEF PutIndex, Goto, Inv, Tables
    <2>2. at[t] = 1 /\ pc[t] = "putIndex"
      BY <1>1, <1>5 DEF PutIndex, At, Inv, HandlerAt
    <2>3. GuidsOf(req[t])' = GuidsOf(req[t])
      BY <1>5 DEF PutIndex, GuidsOf
    <2>4. Progress(t)' /\ Writing(t)'
      BY <1>2, <1>5, <2>1, <2>2 DEF PutIndex, Progress, Writing
    <2> QED BY <1>1, <2>1, <2>4, Writes
  <1>6. CASE PutDep(t)
    <2>1. /\ pc[t] = "putDep" /\ UNCHANGED <<capEntry, indexEntry, installed, req>>
          /\ capEntry = req[t].main /\ indexEntry = GuidsOf(req[t])
      BY <1>2, <1>6 DEF PutDep, At, Progress
    <2>2. CASE at[t] <= Len(req[t].deps)
      <3>1. /\ depEntry' = [depEntry EXCEPT ![at[t]] = req[t].deps[at[t]].cap]
            /\ at' = [at EXCEPT ![t] = at[t] + 1] /\ UNCHANGED pc
        BY <1>6, <2>2 DEF PutDep
      <3>2. /\ Len(req[t].deps) \in 0 .. MaxDeps /\ at[t] \in 1 .. Len(req[t].deps) /\ at[t] \in Positions
            /\ depEntry \in [Positions -> Entry] /\ at'[t] = at[t] + 1
        BY <2>1, <2>2, <3>1, Holds DEF Puts, Inv, Tables, Entries, Positions
      <3>3. \A n \in 1 .. Len(req[t].deps) : n < at'[t] => depEntry'[n] = req[t].deps[n].cap
        <4> SUFFICES ASSUME NEW n \in 1 .. Len(req[t].deps), n < at[t] + 1
                     PROVE  depEntry'[n] = req[t].deps[n].cap
          BY <3>2
        <4>1. CASE n = at[t]
          BY <3>1, <3>2, <4>1
        <4>2. CASE n # at[t]
          <5>1. n < at[t] /\ depEntry'[n] = depEntry[n]
            BY <3>1, <3>2, <4>2 DEF Positions
          <5> QED BY <1>2, <2>1, <5>1 DEF Progress
        <4> QED BY <4>1, <4>2
      <3>4. Progress(t)' /\ Writing(t)'
        BY <2>1, <3>1, <3>3 DEF Progress, Writing
      <3> QED BY <1>1, <3>1, <3>4, Writes
    <2>3. CASE ~(at[t] <= Len(req[t].deps))
      <3>1. Goto(t, "adopt") /\ UNCHANGED <<depEntry, at>>
        BY <1>6, <2>3 DEF PutDep
      <3>2. pc'[t] = "adopt" /\ \A u \in Tasks \ {t} : pc'[u] = pc[u]
        BY <3>1 DEF Goto, Inv, Tables
      <3>3. Progress(t)' /\ Writing(t)'
        BY <1>2, <2>1, <3>1, <3>2 DEF Progress, Writing
      <3> QED BY <1>1, <3>2, <3>3, Writes
    <2> QED BY <2>2, <2>3
  <1>7. CASE Adopt(t)
    <2>1. /\ pc[t] = "adopt" /\ installed' = ViewOf(req[t])
          /\ UNCHANGED <<capEntry, indexEntry, depEntry, req, at>>
          /\ pc'[t] = "reply" /\ \A u \in Tasks \ {t} : pc'[u] = pc[u]
      BY <1>7 DEF Adopt, At, Goto, Inv, Tables
    <2>2. installed' = NextWorkerView'
      BY <1>2, <2>1, InstallStored, ViewKept
    <2>3. Progress(t)' /\ Writing(t)'
      BY <1>2, <2>1, <2>2 DEF Progress, Writing
    <2> QED BY <1>1, <2>1, <2>3, Writes
  <1>8. CASE Reply(t)
    <2>1. /\ pc[t] = "reply" /\ UNCHANGED <<capEntry, indexEntry, depEntry, installed>>
          /\ pc'[t] = "idle" /\ \A u \in Tasks \ {t} : pc'[u] = pc[u]
      BY <1>8 DEF Reply, Finish, At, Goto, Inv, Tables
    <2>2. Writing(t) /\ ~Writing(t)' /\ installed' = NextWorkerView'
      BY <1>2, <2>1, ViewKept DEF Progress, Writing
    <2> QED BY <1>1, <2>1, <2>2, WriterAlone, Settles
  <1> QED BY <1>3, <1>4, <1>5, <1>6, <1>7, <1>8

\* A worker whose store is not open, with nobody writing.
LEMMA NotOpen ==
  ASSUME OneWriter', \A u \in Tasks : ~Writing(u)', store' # "ready"
  PROVE  SerialInv'
  <1>1. ASSUME NEW u \in Handlers PROVE Progress(u)'
    <2>1. ~Writing(u)'
      BY Constants
    <2> QED BY <2>1 DEF Progress, Writing
  <1> QED BY <1>1 DEF SerialInv, MemoryMatchesStore

LEMMA NotRestorable == ASSUME capEntry \notin Caps PROVE NextWorkerView = NoView
  BY DEF NextWorkerView, Restorable

LEMMA ClearSerial ==
  ASSUME Inv, SerialInv, OneWriter', NEW t \in Tasks, Clear(t) \/ ClearCap(t) \/ ClearIndex(t)
  PROVE  SerialInv'
  <1>1. t \in Handlers
    BY OpenStore DEF Clear, ClearCap, ClearIndex, At, HandlerStages
  <1>2. Progress(t)
    BY <1>1 DEF SerialInv
  <1>3. CASE Clear(t)
    <2>1. /\ pc'[t] = "clearCap" /\ installed' = NoView
          /\ \A u \in Tasks \ {t} : pc'[u] = pc[u]
      BY <1>3 DEF Clear, Goto, Inv, Tables, HandlerStages
    <2>2. Progress(t)' /\ Writing(t)'
      BY <2>1 DEF Progress, Writing
    <2> QED BY <1>1, <2>1, <2>2, Writes
  <1>4. CASE ClearCap(t)
    <2>1. /\ pc[t] = "clearCap" /\ pc'[t] = "clearIndex" /\ capEntry' = NoCap /\ installed' = installed
          /\ \A u \in Tasks \ {t} : pc'[u] = pc[u]
      BY <1>4 DEF ClearCap, At, Goto, Inv, Tables, HandlerStages
    <2>2. Progress(t)' /\ Writing(t)'
      BY <1>2, <2>1 DEF Progress, Writing
    <2> QED BY <1>1, <2>1, <2>2, Writes
  <1>5. CASE ClearIndex(t)
    <2>1. /\ pc[t] = "clearIndex" /\ pc'[t] = "idle" /\ UNCHANGED <<capEntry, installed>>
          /\ \A u \in Tasks \ {t} : pc'[u] = pc[u]
      BY <1>5 DEF ClearIndex, Finish, At, Goto, Inv, Tables, HandlerStages
    <2>2. capEntry = NoCap /\ installed = NoView
      BY <1>2, <2>1 DEF Progress
    <2>3. NextWorkerView' = NoView
      BY <2>1, <2>2, Constants DEF NextWorkerView, Restorable
    <2>4. Writing(t) /\ ~Writing(t)'
      BY <2>1 DEF Writing
    <2> QED BY <1>1, <2>1, <2>2, <2>3, <2>4, WriterAlone, Settles
  <1> QED BY <1>3, <1>4, <1>5

\* While restore runs no handler writes.
LEMMA RestoreSerial ==
  ASSUME Inv, SerialInv, OneWriter', NEW t \in Tasks,
         GetCap(t) \/ GetIndex(t) \/ GetDep(t) \/ RestoreCheck(t) \/ DropCap(t)
  PROVE  SerialInv'
  <1>1. pc[t] \in {"getCap", "getIndex", "getDep", "drop"}
    BY DEF GetCap, GetIndex, GetDep, RestoreCheck, DropCap, At
  <1>2. t = Restorer /\ store = "opening" /\ installed = NoView /\ t \notin Handlers
    BY <1>1, IsRestorer, Constants DEF RestoreStages
  <1>3. ~Writing(t) /\ \A u \in Handlers \ {t} : ~Writing(u)
    BY <1>1, <1>2 DEF Inv, Life, Writing
  <1>4. ASSUME StoreKept, store' = store, behind' = behind,
               \A u \in Tasks \ {t} : pc'[u] = pc[u] /\ req'[u] = req[u] /\ at'[u] = at[u]
        PROVE  SerialInv'
    BY <1>2, <1>3, <1>4, Idles
  <1>5. ASSUME Finish(t), ~behind' => installed' = NextWorkerView'
        PROVE  SerialInv'
    <2>1. pc'[t] = "idle" /\ \A u \in Tasks \ {t} : pc'[u] = pc[u]
      BY <1>5, Finished DEF Alone
    <2>2. ~Writing(t)'
      BY <2>1 DEF Writing
    <2> QED BY <1>3, <1>5, <2>1, <2>2, Settles
  <1>6. CASE GetCap(t)
    <2>1. CASE capEntry = NoCap
      BY <1>2, <1>5, <1>6, <2>1, NotRestorable, Constants, ViewKept DEF GetCap, Ready
    <2>2. CASE capEntry # NoCap
      BY <1>4, <1>6, <2>2 DEF GetCap, Goto, StoreKept, Inv, Tables
    <2> QED BY <2>1, <2>2
  <1>7. CASE GetIndex(t)
    BY <1>4, <1>7 DEF GetIndex, Goto, StoreKept, Inv, Tables
  <1>8. CASE GetDep(t)
    <2>1. \A u \in Tasks \ {t} : req'[u] = req[u]
      BY <1>8 DEF GetDep, Inv, Tables
    <2>2. UNCHANGED <<disk, installed, store, pc, behind>>
          /\ at' = [at EXCEPT ![t] = at[t] + 1]
      BY <1>8 DEF GetDep
    <2> QED BY <1>4, <2>1, <2>2 DEF StoreKept, Inv, Tables
  <1>9. CASE RestoreCheck(t)
    <2>1. /\ pc[t] = "getDep" /\ at[t] > Len(names[t])
          /\ UNCHANGED <<disk, behind>> /\ NextWorkerView' = NextWorkerView
      BY <1>9, ViewKept DEF RestoreCheck, At
    <2>2. CASE VerifyComposite(req[t]) /\ installed' = ViewOf(req[t]) /\ Ready(t)
      BY <1>5, <2>1, <2>2, ReadAll, ViewStored DEF Ready
    <2>3. CASE Goto(t, "drop") /\ UNCHANGED <<installed, store, req, names, at>>
      BY <1>4, <2>1, <2>3 DEF Goto, StoreKept, Inv, Tables
    <2>4. CASE /\ req[t].main \in Broken \/ ~(DepCaps(req[t]) \subseteq Caps)
               /\ Ready(t) /\ UNCHANGED installed
      <3>1. ~Restorable
        <4>1. CASE req[t].main \in Broken
          BY <2>1, <4>1, ReadAll DEF Restorable
        <4>2. CASE ~(DepCaps(req[t]) \subseteq Caps)
          <5>1. req[t].deps \in Seq(Dependency) /\ DOMAIN req[t].deps = 1 .. Len(req[t].deps)
            BY <2>1, ReadAll DEF Bundle
          <5>2. PICK j \in 1 .. Len(req[t].deps) : req[t].deps[j].cap \notin Caps
            BY <4>2, <5>1 DEF DepCaps
          <5>3. PICK n \in 1 .. (Len(StoredGuids) + 1) - 1 :
                  depEntry[n] # NoCap /\ req[t].deps[j].cap = depEntry[n]
            BY <2>1, ReadAll DEF Restored
          <5>4. n \in DOMAIN StoredGuids
            BY IndexFacts DEF Indexed
          <5> QED BY <5>2, <5>3, <5>4 DEF Restorable
        <4> QED BY <2>4, <4>1, <4>2
      <3>2. NextWorkerView' = NoView
        BY <2>1, <3>1 DEF NextWorkerView
      <3> QED BY <1>2, <1>5, <2>4, <3>2 DEF Ready
    <2> QED BY <1>9, <2>2, <2>3, <2>4 DEF RestoreCheck
  <1>10. CASE DropCap(t)
    <2>1. NextWorkerView' = NoView
      BY <1>10, Constants DEF DropCap, NextWorkerView, Restorable
    <2> QED BY <1>2, <1>5, <1>10, <2>1 DEF DropCap, Ready
  <1> QED BY <1>6, <1>7, <1>8, <1>9, <1>10

LEMMA EventSerial ==
  ASSUME Inv, SerialInv, OneWriter',
         \/ \E t \in Tasks, b \in Bundles : Arrive(t, b)
         \/ \E t \in Tasks : StoreReady(t) \/ CallFails(t)
         \/ Stop \/ CorruptCap \/ \E n \in Positions : CorruptDep(n)
  PROVE  SerialInv'
  <1>1. ASSUME NEW t \in Tasks, NEW b \in Bundles, Arrive(t, b) PROVE SerialInv'
    <2>1. t \in Handlers /\ pc[t] = "idle" /\ StoreKept /\ UNCHANGED <<at, behind>>
      BY <1>1 DEF Arrive, At, StoreKept
    <2>2. CASE store = "none"
      <3>1. pc' = [pc EXCEPT ![t] = "waiting", ![Restorer] = "getCap"] /\ store' = "opening"
        BY <1>1, <2>2 DEF Arrive
      <3>2. \A u \in Tasks : pc[u] = "idle"
        BY <2>2 DEF Inv, Life
      <3>3. \A u \in Tasks : ~Writing(u)'
        BY <3>1, <3>2 DEF Inv, Tables, Writing
      <3> QED BY <3>1, <3>3, NotOpen
    <2>3. CASE store # "none"
      <3>1. pc' = [pc EXCEPT ![t] = "waiting"] /\ req' = [req EXCEPT ![t] = b] /\ store' = store
        BY <1>1, <2>3 DEF Arrive, Goto
      <3>2. pc'[t] = "waiting" /\ \A u \in Tasks \ {t} : pc'[u] = pc[u] /\ req'[u] = req[u] /\ at'[u] = at[u]
        BY <2>1, <3>1 DEF Inv, Tables
      <3>3. Progress(t)' /\ ~Writing(t)
        BY <2>1, <3>2 DEF Progress, Writing
      <3> QED BY <2>1, <3>1, <3>2, <3>3, Idles
    <2> QED BY <2>2, <2>3
  <1>2. ASSUME NEW t \in Tasks, StoreReady(t) PROVE SerialInv'
    <2>1. t \in Handlers /\ pc[t] = "waiting" /\ StoreKept /\ store' = store /\ behind' = behind
      BY <1>2 DEF StoreReady, At, StoreKept
    <2>2. pc'[t] \in {"verify", "idle"}
          /\ \A u \in Tasks \ {t} : pc'[u] = pc[u] /\ req'[u] = req[u] /\ at'[u] = at[u]
      BY <1>2 DEF StoreReady, Goto, Finish, Inv, Tables
    <2>3. Progress(t)' /\ ~Writing(t)
      BY <2>1, <2>2 DEF Progress, Writing
    <2> QED BY <2>1, <2>2, <2>3, Idles
  <1>3. ASSUME NEW t \in Tasks, OpenFails(t) PROVE SerialInv'
    <2>1. pc[t] = "getCap" /\ store' = "rejected" /\ Finish(t)
      BY <1>3 DEF OpenFails, At
    <2>2. t = Restorer /\ \A u \in Handlers : ~Writing(u)
      BY <2>1, IsRestorer DEF RestoreStages, Inv, Life, Writing
    <2>3. pc'[t] = "idle" /\ \A u \in Tasks \ {t} : pc'[u] = pc[u]
      BY <2>1, Finished DEF Alone
    <2>4. \A u \in Tasks : ~Writing(u)'
      BY <2>2, <2>3, Constants DEF Writing
    <2> QED BY <2>1, <2>4, NotOpen
  <1>4. CASE Stop
    <2>1. \A u \in Tasks : ~Writing(u)'
      BY <1>4 DEF Stop, Writing
    <2> QED BY <1>4, <2>1, NotOpen DEF Stop
  <1>5. CASE CorruptCap \/ \E n \in Positions : CorruptDep(n)
    <2>1. store = "none" /\ store' = store /\ pc' = pc
      BY <1>5 DEF CorruptCap, CorruptDep, memory
    <2>2. \A u \in Tasks : ~Writing(u)'
      BY <2>1 DEF Inv, Life, Writing
    <2> QED BY <2>1, <2>2, NotOpen
  <1>6. ASSUME NEW t \in Tasks, PutFails(t) \/ ClearFails(t) PROVE SerialInv'
    <2>1. Writing(t) /\ Finish(t) /\ behind' = TRUE
      BY <1>6 DEF PutFails, ClearFails, At, Writing
    <2>2. t \in Handlers
      BY <2>1, OpenStore DEF Writing, HandlerStages, Puts
    <2>3. ~Writing(t)' /\ \A u \in Tasks \ {t} : pc'[u] = pc[u]
      BY <2>1, Finished DEF Alone, Writing
    <2> QED BY <2>1, <2>2, <2>3, WriterAlone, Settles
  <1>7. ASSUME NEW t \in Tasks, RestoreFails(t) PROVE SerialInv'
    <2>1. pc[t] \in RestoreStages \ {"idle"} /\ Finish(t) /\ behind' = TRUE
      BY <1>7 DEF RestoreFails, At, RestoreStages, Ready
    <2>2. \A u \in Handlers : ~Writing(u)
      BY <2>1, IsRestorer DEF Inv, Life, Writing
    <2>3. ~Writing(t)' /\ \A u \in Tasks \ {t} : pc'[u] = pc[u]
      BY <2>1, Finished DEF Alone, Writing
    <2> QED BY <2>1, <2>2, <2>3, Settles
  <1> QED BY <1>1, <1>2, <1>3, <1>4, <1>5, <1>6, <1>7 DEF CallFails

LEMMA InitSerial == Init => SerialInv
  <1> SUFFICES ASSUME Init PROVE SerialInv
    OBVIOUS
  <1>1. \A u \in Tasks : ~Writing(u)
    BY DEF Init, Writing
  <1>2. \A u \in Handlers : Progress(u)
    BY <1>1, Constants DEF Progress, Writing
  <1>3. MemoryMatchesStore
    BY DEF Init, MemoryMatchesStore
  <1> QED BY <1>1, <1>2, <1>3 DEF SerialInv, OneWriter

LEMMA SerialStep == Inv /\ SerialInv /\ [Next /\ OneWriter']_vars => SerialInv'
  <1> SUFFICES ASSUME Inv, SerialInv, [Next /\ OneWriter']_vars PROVE SerialInv'
    OBVIOUS
  <1>1. CASE UNCHANGED vars
    <2>1. NextWorkerView' = NextWorkerView
      BY <1>1, ViewKept DEF vars
    <2> QED BY <1>1, <2>1 DEF vars, memory, SerialInv, OneWriter, Writing, Progress, MemoryMatchesStore, Quiet
  <1>2. CASE Next /\ OneWriter'
    BY <1>2, InstallSerial, ClearSerial, RestoreSerial, EventSerial DEF Next, TaskStep
  <1> QED BY <1>1, <1>2

\* For any bundles, with one writer at a time: whatever is installed, cleared, stopped half
\* way, damaged or restored, what the worker serves between writes is what the next worker
\* would restore, and nothing when that does not verify.  A rejected cache call suspends
\* this until the next install or clear that runs to its end, or the next worker
\* (package-store.ts:118-160).
THEOREM MemoryHolds == SerialSpec => []MemoryMatchesStore
  <1>1. SerialSpec => []Inv
    BY InitInv, NextInv, PTL DEF SerialSpec
  <1>2. SerialInv => MemoryMatchesStore
    BY DEF SerialInv
  <1> QED BY <1>1, <1>2, InitSerial, SerialStep, PTL DEF SerialSpec

(***************************************************************************)
(* The store is one durable slot                                            *)
(***************************************************************************)
LEMMA ViewMain == \A b : ViewOf(b).main = b.main
  BY DEF ViewOf

LEMMA SlotMoves ==
  ASSUME Inv, SerialInv, Next
  PROVE  [Slot!SlotNext]_<<Slotted, installed.main>>
  <1>1. CASE UNCHANGED <<capEntry, installed>>
    BY <1>1 DEF Slotted
  <1>2. ASSUME NEW t \in Tasks, PutCap(t) PROVE Slot!Publish
    <2>1. pc[t] \in Puts
      BY <1>2 DEF PutCap, At, Puts
    <2> QED BY <1>2, <2>1, Holds DEF PutCap, Slotted, Slot!Publish
  <1>3. ASSUME NEW t \in Tasks, NEW b \in {req[t]}, installed' = ViewOf(b),
               b.main = capEntry, capEntry \in Caps, UNCHANGED capEntry
        PROVE  Slot!Serve
    BY <1>3, ViewMain, Constants DEF Slotted, Slot!Serve
  <1>4. ASSUME NEW t \in Tasks, Adopt(t) PROVE Slot!Serve
    <2>1. pc[t] = "adopt" /\ pc[t] \in Puts
      BY <1>4 DEF Adopt, At, Puts
    <2>2. req[t].main = capEntry /\ capEntry \in Caps
      BY <2>1, Holds DEF SerialInv, Progress
    <2> QED BY <1>3, <1>4, <2>2 DEF Adopt
  <1>5. ASSUME NEW t \in Tasks, RestoreCheck(t), VerifyComposite(req[t]), installed' = ViewOf(req[t])
        PROVE  Slot!Serve
    <2>1. pc[t] = "getDep" /\ at[t] > Len(names[t]) /\ UNCHANGED capEntry
      BY <1>5 DEF RestoreCheck, At
    <2>2. req[t].main = capEntry /\ capEntry \in Caps
      BY <1>5, <2>1, ReadAll DEF VerifyComposite
    <2> QED BY <1>3, <1>5, <2>1, <2>2
  <1>6. ASSUME installed' = NoView, UNCHANGED capEntry PROVE Slot!Forget
    BY <1>6 DEF NoView, Slotted, Slot!Forget
  <1>7. ASSUME capEntry' \notin Caps, UNCHANGED installed
        PROVE  Slot!Lose \/ UNCHANGED <<Slotted, installed.main>>
    BY <1>7 DEF Slotted, Slot!Lose
  <1>8. CASE \E t \in Tasks : ClearCap(t) \/ DropCap(t)
    BY <1>7, <1>8, Constants DEF ClearCap, DropCap, Slot!SlotNext
  <1>9. CASE CorruptCap
    BY <1>7, <1>9 DEF CorruptCap, memory, Slot!SlotNext
  <1>10. CASE Stop \/ \E t \in Tasks : Clear(t)
    BY <1>6, <1>10 DEF Stop, Clear, Slot!SlotNext
  <1>11. ASSUME NEW t \in Tasks, RestoreCheck(t) PROVE [Slot!SlotNext]_<<Slotted, installed.main>>
    BY <1>1, <1>5, <1>11 DEF RestoreCheck, Slot!SlotNext
  <1>12. CASE \E n \in Positions : CorruptDep(n)
    BY <1>1, <1>12 DEF CorruptDep, memory
  <1>13. CASE \E t \in Tasks, b \in Bundles : Arrive(t, b)
    BY <1>1, <1>13 DEF Arrive
  <1>14. ASSUME NEW t \in Tasks, TaskStep(t) \/ CallFails(t) PROVE [Slot!SlotNext]_<<Slotted, installed.main>>
    <2>1. CASE PutCap(t) \/ Adopt(t)
      BY <1>2, <1>4, <2>1 DEF Slot!SlotNext
    <2>2. CASE \/ StoreReady(t) \/ Verify(t) \/ PutIndex(t) \/ PutDep(t) \/ Reply(t)
               \/ GetCap(t) \/ GetIndex(t) \/ GetDep(t) \/ ClearIndex(t) \/ CallFails(t)
      BY <1>1, <2>2 DEF StoreReady, Verify, PutIndex, PutDep, Reply, GetCap, GetIndex, GetDep,
                        ClearIndex, CallFails, OpenFails, PutFails, ClearFails, RestoreFails
    <2> QED BY <1>8, <1>11, <1>14, <2>1, <2>2 DEF TaskStep
  <1> QED BY <1>9, <1>10, <1>12, <1>13, <1>14 DEF Next

\* With one writer at a time the store is one durable slot: stopping the worker between any
\* two awaits leaves the old package or the new one, and only the slot's own package is
\* ever served (package-store.ts:118-127).
THEOREM SlotImplemented == SerialSpec => ImplementsSlot
  <1>1. Init => Slot!SlotInit
    BY Constants DEF Init, NoView, Slotted, Slot!SlotInit
  <1>2. Inv /\ SerialInv /\ [Next /\ OneWriter']_vars => [Slot!SlotNext]_<<Slotted, installed.main>>
    <2>1. UNCHANGED vars => UNCHANGED <<Slotted, installed.main>>
      BY DEF vars, memory, Slotted
    <2> QED BY <2>1, SlotMoves
  <1>3. SerialSpec => []Inv
    BY InitInv, NextInv, PTL DEF SerialSpec
  <1>4. SerialSpec => []SerialInv
    BY <1>3, InitSerial, SerialStep, PTL DEF SerialSpec
  <1> QED BY <1>1, <1>2, <1>3, <1>4, PTL DEF SerialSpec, ImplementsSlot, Slot!SlotSpec, Slot!slotVars

===============================================================================
