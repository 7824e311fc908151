------------------------------ MODULE CacheStore ------------------------------
(***************************************************************************)
(* The Cloudflare reactor's package store (reactor-cloudflare/src/store.ts) *)
(* and the two code paths that drive it (create-worker.ts): the memoised    *)
(* per-isolate initialisation and the install endpoint.                     *)
(*                                                                          *)
(* Several isolates of one data centre share one Cache.  Every cache call   *)
(* is awaited, so each one is a step of its own here and any other task, of *)
(* the same isolate or of another, may run between two of them.             *)
(*                                                                          *)
(* A .cap is a model value.  The bytes of a file are told apart only by the *)
(* cap they came from: "the bytes c put there" is the value c.              *)
(***************************************************************************)
EXTENDS Integers, FiniteSets

CONSTANTS
  Caps,         \* blobs that pass verification at install time
  Rejects,      \* blobs that verification refuses (malformed, tampered, badly signed)
  NoCap,        \* nothing: an absent cache entry, an empty slot
  Names,        \* package names (metadata.json name)
  Paths,        \* file paths inside packages
  SecurityJson, \* the path "security.json"
  Covered,      \* the paths coveredByChecksums holds for
  Name,         \* Caps -> Names
  Files,        \* Caps -> the set of paths in the archive
  Isolates,     \* worker isolates sharing the cache
  Slots,        \* how many requests one isolate may have in flight
  PackageUrl,   \* the blob PACKAGE_URL answers with, or NoCap when unset
  Faults        \* which of "restart", "evict", "cache", "fetch" may happen

Blobs == Caps \cup Rejects
FaultKinds == {"restart", "evict", "cache", "fetch"}

ASSUME CapsAssumption ==
  /\ NoCap \notin Blobs
  /\ Caps \cap Rejects = {}
  /\ Name \in [Caps -> Names]
  /\ Files \in [Caps -> SUBSET Paths]

ASSUME PathsAssumption ==
  /\ SecurityJson \in Paths
  /\ Covered \subseteq Paths \ {SecurityJson}

ASSUME WorkerAssumption ==
  /\ Slots \in Nat
  /\ PackageUrl \in Blobs \cup {NoCap}
  /\ Faults \subseteq FaultKinds

(***************************************************************************)
(* Task <<i, 0>> is isolate i's initPromise, <<i, k>> with k > 0 a request. *)
(***************************************************************************)
Tasks     == Isolates \X (0 .. Slots)
InitTask(i) == <<i, 0>>
Requests  == Isolates \X (1 .. Slots)
IsInit(t) == t[2] = 0
Iso(t)    == t[1]

VARIABLES
  manifest,   \* shared: the entry under MANIFEST_KEY; a StoredManifest is its cap
  stored,     \* shared: the entry under fileKey(name, path)
  installed,  \* per isolate: this.installed
  init,       \* per isolate: the state of initPromise
  pc,         \* per task: the await it stands at
  cap,        \* per task: the blob it installs, NoCap when it installs nothing
  listing,    \* per task: the StoredManifest it has read
  todo,       \* per task: the paths its current loop has still to visit
  got         \* per task: the files restore has read so far

taskVars == <<pc, cap, listing, todo, got>>
vars == <<manifest, stored, installed, init, pc, cap, listing, todo, got>>

Entry     == Caps \cup {NoCap}
FileMap   == [Paths -> Entry]
NoFiles   == [p \in Paths |-> NoCap]
Installs  == [hash : Entry, files : FileMap]
\* An InstalledPackage: the hash it reports and the bytes it serves.
NoInstall == [hash |-> NoCap, files |-> NoFiles]
Image(c)  == [hash |-> c, files |-> [p \in Paths |-> IF p \in Files[c] THEN c ELSE NoCap]]

\* The keys a StoredManifest lists; none for an absent one.
Listed(m) == IF m = NoCap THEN {} ELSE Files[m]

\* The synthetic request keys of package files.
Keys      == Names \X Paths
Key(c, p) == <<Name[c], p>>

Labels == {"idle", "waiting", "restore", "match", "clear", "delete",
           "startup", "verify", "put", "adopt"}

Types ==
  /\ manifest \in Entry
  /\ stored \in [Keys -> Entry]
  /\ installed \in [Isolates -> Installs]
  /\ init \in [Isolates -> {"none", "running", "done", "rejected"}]
  /\ pc \in [Tasks -> Labels]
  /\ cap \in [Tasks -> Blobs \cup {NoCap}]
  /\ listing \in [Tasks -> Entry]
  /\ todo \in [Tasks -> SUBSET Paths]
  /\ got \in [Tasks -> FileMap]

\* Everything has its type, and only a blob that passed Verify gets as far as
\* touching the cache (store.ts:103-107).
TypeOK ==
  /\ Types
  /\ \A t \in Tasks : pc[t] \in {"clear", "delete", "put", "adopt"} => cap[t] \in Entry

Init ==
  /\ manifest = NoCap
  /\ stored = [k \in Keys |-> NoCap]
  /\ installed = [i \in Isolates |-> NoInstall]
  /\ init = [i \in Isolates |-> "none"]
  /\ pc = [t \in Tasks |-> "idle"]
  /\ cap = [t \in Tasks |-> NoCap]
  /\ listing = [t \in Tasks |-> NoCap]
  /\ todo = [t \in Tasks |-> {}]
  /\ got = [t \in Tasks |-> NoFiles]

At(t, label) == pc[t] = label
Goto(t, label) == pc' = [pc EXCEPT ![t] = label]
\* A task ends and forgets its locals.
Finish(ts) ==
  /\ pc' = [t \in Tasks |-> IF t \in ts THEN "idle" ELSE pc[t]]
  /\ cap' = [t \in Tasks |-> IF t \in ts THEN NoCap ELSE cap[t]]
  /\ listing' = [t \in Tasks |-> IF t \in ts THEN NoCap ELSE listing[t]]
  /\ todo' = [t \in Tasks |-> IF t \in ts THEN {} ELSE todo[t]]
  /\ got' = [t \in Tasks |-> IF t \in ts THEN NoFiles ELSE got[t]]
Settle(t, outcome) == init' = [init EXCEPT ![Iso(t)] = outcome]
\* Variant: initialize does not catch the error of its startup install.
GiveUpUncaught(t) ==
  /\ Finish({t})
  /\ IF IsInit(t) THEN Settle(t, "rejected") ELSE UNCHANGED init
\* What an install that gives up does: a request is answered 400, 422 or 500;
\* initialize catches the error, logs it and resolves with nothing.
GiveUp(t) ==
  /\ Finish({t})
  /\ IF IsInit(t) THEN Settle(t, "done") ELSE UNCHANGED init

(***************************************************************************)
(* fetch: the first request of an isolate starts initialize.                *)
(* b = NoCap stands for every request that installs nothing: a GET, or an   *)
(* install refused with 405, 401, 403 or 400 before store.install is called.*)
(***************************************************************************)
Arrive(t, b) ==
  /\ t \in Requests
  /\ At(t, "idle")
  /\ cap' = [cap EXCEPT ![t] = b]
  /\ IF init[Iso(t)] = "none"
       THEN /\ Settle(t, "running")
            /\ pc' = [pc EXCEPT ![t] = "waiting", ![InitTask(Iso(t))] = "restore"]
       ELSE /\ Goto(t, "waiting")
            /\ UNCHANGED init
  /\ UNCHANGED <<manifest, stored, installed, listing, todo, got>>

\* Variant: fetch does not await initialize.
ResumeEarly(t) ==
  /\ t \in Requests
  /\ At(t, "waiting")
  /\ init[Iso(t)] # "rejected"
  /\ IF cap[t] = NoCap
       THEN Finish({t})
       ELSE Goto(t, "verify") /\ UNCHANGED <<cap, listing, todo, got>>
  /\ UNCHANGED <<manifest, stored, installed, init>>

\* await initialize(env) returns; a request that installs nothing is answered
\* from store.current and is over.
Resume(t) ==
  /\ t \in Requests
  /\ At(t, "waiting")
  /\ init[Iso(t)] = "done"
  /\ IF cap[t] = NoCap
       THEN Finish({t})
       ELSE Goto(t, "verify") /\ UNCHANGED <<cap, listing, todo, got>>
  /\ UNCHANGED <<manifest, stored, installed, init>>

\* initPromise was rejected: every request of the isolate throws there.
ResumeRejected(t) ==
  /\ t \in Requests
  /\ At(t, "waiting")
  /\ init[Iso(t)] = "rejected"
  /\ Finish({t})
  /\ UNCHANGED <<manifest, stored, installed, init>>

(***************************************************************************)
(* restore                                                                  *)
(***************************************************************************)
\* cache.match(MANIFEST_KEY): nothing stored ends restore empty-handed.
RestoreManifest(t) ==
  /\ At(t, "restore")
  /\ Goto(t, IF manifest = NoCap THEN "startup" ELSE "match")
  /\ listing' = [listing EXCEPT ![t] = manifest]
  /\ todo' = [todo EXCEPT ![t] = Listed(manifest)]
  /\ UNCHANGED <<manifest, stored, installed, init, cap, got>>

\* Variant: restore skips a missing file.
RestoreFileLenient(t) ==
  /\ At(t, "match")
  /\ \E p \in todo[t] :
       /\ todo' = [todo EXCEPT ![t] = @ \ {p}]
       /\ got' = [got EXCEPT ![t][p] = stored[Key(listing[t], p)]]
  /\ UNCHANGED <<manifest, stored, installed, init, pc, cap, listing>>

\* cache.match(fileKey): a missing file drops the install.
RestoreFile(t) ==
  /\ At(t, "match")
  /\ \E p \in todo[t] :
       LET entry == stored[Key(listing[t], p)] IN
       IF entry = NoCap
         THEN /\ Goto(t, "clear")
              /\ UNCHANGED <<todo, got>>
         ELSE /\ Goto(t, "match")
              /\ todo' = [todo EXCEPT ![t] = @ \ {p}]
              /\ got' = [got EXCEPT ![t][p] = entry]
  /\ UNCHANGED <<manifest, stored, installed, init, cap, listing>>

\* verifyIntegrity under the security.json that was read: every covered file
\* has the listed checksum, and no covered file is extra.
VerifyIntegrity(files) ==
  \A p \in Covered :
    files[p] = IF p \in Files[files[SecurityJson]] THEN files[SecurityJson] ELSE NoCap

\* What parsePackage and verifyModel may conclude of the files read.  Without
\* security.json nothing is compared; a mixture of two packages may or may not
\* parse.
Verdicts(files, m) ==
  IF files[SecurityJson] # NoCap THEN {VerifyIntegrity(files)}
  ELSE IF files = Image(m).files THEN {TRUE}
  ELSE BOOLEAN

\* All files read: parse, verify, and serve them or drop the install.
RestoreCheck(t) ==
  /\ At(t, "match")
  /\ todo[t] = {}
  /\ \E valid \in Verdicts(got[t], listing[t]) :
       IF valid
         THEN /\ installed' = [installed EXCEPT ![Iso(t)] =
                                 [hash |-> listing[t], files |-> got[t]]]
              /\ Settle(t, "done")
              /\ Finish({t})
         ELSE /\ Goto(t, "clear")
              /\ UNCHANGED <<installed, init, cap, listing, todo, got>>
  /\ UNCHANGED <<manifest, stored>>

(***************************************************************************)
(* clearStored, called by restore (cap[t] = NoCap) and by install           *)
(***************************************************************************)
\* cache.match(MANIFEST_KEY), again: the listing to delete is the one stored now.
ClearManifestRead(t) ==
  /\ At(t, "clear")
  /\ Goto(t, "delete")
  /\ listing' = [listing EXCEPT ![t] = manifest]
  /\ todo' = [todo EXCEPT ![t] = Listed(manifest)]
  /\ UNCHANGED <<manifest, stored, installed, init, cap, got>>

ClearFile(t) ==
  /\ At(t, "delete")
  /\ \E p \in todo[t] :
       /\ stored' = [stored EXCEPT ![Key(listing[t], p)] = NoCap]
       /\ todo' = [todo EXCEPT ![t] = @ \ {p}]
  /\ UNCHANGED <<manifest, installed, init, pc, cap, listing, got>>

\* Variant: clearStored leaves the manifest to be overwritten.
ClearManifestKept(t) ==
  /\ At(t, "delete")
  /\ todo[t] = {}
  /\ IF cap[t] = NoCap
       THEN Goto(t, "startup") /\ UNCHANGED todo
       ELSE Goto(t, "put") /\ todo' = [todo EXCEPT ![t] = Files[cap[t]]]
  /\ UNCHANGED <<manifest, stored, installed, init, cap, listing, got>>

\* Variant: a dropped install ends initialize without the startup install.
ClearManifestFinal(t) ==
  /\ At(t, "delete")
  /\ todo[t] = {}
  /\ manifest' = NoCap
  /\ IF cap[t] = NoCap
       THEN GiveUp(t)
       ELSE /\ Goto(t, "put")
            /\ todo' = [todo EXCEPT ![t] = Files[cap[t]]]
            /\ UNCHANGED <<init, cap, listing, got>>
  /\ UNCHANGED <<stored, installed>>

\* The manifest goes last; then install writes its files, restore returns
\* undefined and initialize goes on to the startup install.
ClearManifest(t) ==
  /\ At(t, "delete")
  /\ todo[t] = {}
  /\ manifest' = NoCap
  /\ IF cap[t] = NoCap
       THEN /\ Goto(t, "startup")
            /\ UNCHANGED todo
       ELSE /\ Goto(t, "put")
            /\ todo' = [todo EXCEPT ![t] = Files[cap[t]]]
  /\ UNCHANGED <<stored, installed, init, cap, listing, got>>

(***************************************************************************)
(* install                                                                  *)
(***************************************************************************)
\* Variant: the validity report is not looked at.
VerifyNothing(t) ==
  /\ At(t, "verify")
  /\ Goto(t, "clear")
  /\ UNCHANGED <<manifest, stored, installed, init, cap, listing, todo, got>>

\* Unzip, parse and verify the captured bytes: nothing shared is touched.
\* install answers InstallRejection for a bad blob.
Verify(t) ==
  /\ At(t, "verify")
  /\ IF cap[t] \in Caps
       THEN Goto(t, "clear") /\ UNCHANGED <<init, cap, listing, todo, got>>
       ELSE GiveUp(t)
  /\ UNCHANGED <<manifest, stored, installed>>

PutFile(t) ==
  /\ At(t, "put")
  /\ \E p \in todo[t] :
       /\ stored' = [stored EXCEPT ![Key(cap[t], p)] = cap[t]]
       /\ todo' = [todo EXCEPT ![t] = @ \ {p}]
  /\ UNCHANGED <<manifest, installed, init, pc, cap, listing, got>>

\* The manifest is written last.
PutManifest(t) ==
  /\ At(t, "put")
  /\ todo[t] = {}
  /\ manifest' = cap[t]
  /\ Goto(t, "adopt")
  /\ UNCHANGED <<stored, installed, init, cap, listing, todo, got>>

\* The continuation of the last put: this.installed, then the 200 answer.
Adopt(t) ==
  /\ At(t, "adopt")
  /\ installed' = [installed EXCEPT ![Iso(t)] = Image(cap[t])]
  /\ Finish({t})
  /\ IF IsInit(t) THEN Settle(t, "done") ELSE UNCHANGED init
  /\ UNCHANGED <<manifest, stored>>

(***************************************************************************)
(* initialize, after restore found nothing to serve                         *)
(***************************************************************************)
Startup(t) ==
  /\ At(t, "startup")
  /\ \/ /\ PackageUrl # NoCap
        /\ Goto(t, "verify")
        /\ cap' = [cap EXCEPT ![t] = PackageUrl]
        /\ UNCHANGED <<init, listing, todo, got>>
     \/ /\ PackageUrl = NoCap \/ "fetch" \in Faults
        /\ GiveUp(t)
  /\ UNCHANGED <<manifest, stored, installed>>

(***************************************************************************)
(* The environment: the best-effort cache and the runtime                   *)
(***************************************************************************)
EvictManifest ==
  /\ "evict" \in Faults
  /\ manifest # NoCap
  /\ manifest' = NoCap
  /\ UNCHANGED <<stored, installed, init, pc, cap, listing, todo, got>>

EvictFile(k) ==
  /\ "evict" \in Faults
  /\ stored[k] # NoCap
  /\ stored' = [stored EXCEPT ![k] = NoCap]
  /\ UNCHANGED <<manifest, installed, init, pc, cap, listing, todo, got>>

\* A cache call rejects.  Inside install the error is answered 500 or logged;
\* inside restore nothing catches it and the memoised initPromise is rejected.
CacheCallFails(t) ==
  /\ "cache" \in Faults
  /\ pc[t] \in {"restore", "match", "clear", "delete", "put"}
  /\ At(t, "match") => todo[t] # {}
  /\ IF cap[t] = NoCap
       THEN Settle(t, "rejected") /\ Finish({t})
       ELSE GiveUp(t)
  /\ UNCHANGED <<manifest, stored, installed>>

\* The runtime discards the isolate with everything in flight on it.
Restart(i) ==
  /\ "restart" \in Faults
  /\ init[i] # "none"
  /\ installed' = [installed EXCEPT ![i] = NoInstall]
  /\ init' = [init EXCEPT ![i] = "none"]
  /\ Finish({t \in Tasks : Iso(t) = i})
  /\ UNCHANGED <<manifest, stored>>

TaskStep(t) ==
  \/ Resume(t) \/ ResumeRejected(t)
  \/ RestoreManifest(t) \/ RestoreFile(t) \/ RestoreCheck(t)
  \/ ClearManifestRead(t) \/ ClearFile(t) \/ ClearManifest(t)
  \/ Verify(t) \/ PutFile(t) \/ PutManifest(t) \/ Adopt(t)
  \/ Startup(t)

Environment ==
  \/ EvictManifest
  \/ \E k \in Keys : EvictFile(k)
  \/ \E t \in Tasks : CacheCallFails(t)
  \/ \E i \in Isolates : Restart(i)

Next ==
  \/ \E t \in Tasks, b \in Blobs \cup {NoCap} : Arrive(t, b)
  \/ \E t \in Tasks : TaskStep(t)
  \/ Environment

Spec == Init /\ [][Next]_vars

\* t is inside store.install, past the verification of its blob.
Installing(t) == cap[t] \in Caps /\ pc[t] \in {"clear", "delete", "put", "adopt"}
Quiet == \A t \in Tasks : ~Installing(t)

\* One deployment at a time: an assumption on the operator, not on the code.
OneInstaller == \A t, u \in Tasks : Installing(t) /\ Installing(u) => t = u
SerialSpec == Init /\ [][Next /\ OneInstaller']_vars

(***************************************************************************)
(* Properties                                                               *)
(***************************************************************************)
\* The manifest is written last and deleted last (store.ts:107-124, 178-188):
\* whatever was evicted or interrupted, a file a stored manifest lists is that
\* package's own or is absent, never another package's.
ManifestNeverLies ==
  manifest # NoCap =>
    \A p \in Files[manifest] : stored[Key(manifest, p)] \in {manifest, NoCap}

\* What an isolate serves is one submitted .cap, byte for byte, under its own
\* content hash, whether it was installed here or restored (store.ts:33-38).
ServedIsOneCap ==
  \A i \in Isolates : installed[i] = NoInstall \/ \E c \in Caps : installed[i] = Image(c)

\* The content hash reported is the hash of the .cap served (store.ts:36).
ReportedHashIsServed ==
  \A i \in Isolates :
    installed[i].hash # NoCap =>
      \A p \in Covered : installed[i].files[p] = Image(installed[i].hash).files[p]

\* restore drops an install only when something of it is missing or foreign
\* (store.ts:129-133): the listing clearStored re-reads is a damaged one.
Damaged(c) == \E p \in Files[c] : stored[Key(c, p)] # c
DropsOnlyDamaged ==
  \A t \in Tasks :
    At(t, "delete") /\ cap[t] = NoCap /\ listing[t] # NoCap
      /\ todo[t] = Files[listing[t]] => Damaged(listing[t])

\* With no install running, what an initialised isolate serves is what the next
\* isolate will restore, complete: a crash never leaves the two apart.
MemoryMatchesStore ==
  \A i \in Isolates :
    init[i] = "done" /\ Quiet =>
      /\ installed[i].hash = manifest
      /\ manifest # NoCap => ~Damaged(manifest)

\* With PACKAGE_URL answering, initialisation never ends empty: a damaged or
\* evicted install is replaced before the first request is served.
StartupServes ==
  PackageUrl \in Caps =>
    \A i \in Isolates : init[i] = "done" => installed[i] # NoInstall

\* Whatever the startup fetch, the startup install or an install request runs into, the
\* isolate goes on taking requests (create-worker.ts:123-134, 169-183): only a cache call
\* that is rejected inside restore rejects initPromise.  That rejection is memoised, so
\* from then on the isolate installs nothing and serves nothing until it is discarded.
OnlyRestoreRejects ==
  [][\A i \in Isolates :
       /\ init[i] # "rejected" /\ init'[i] = "rejected" =>
            /\ cap[InitTask(i)] = NoCap
            /\ pc[InitTask(i)] \in {"restore", "match", "clear", "delete"}
       /\ init[i] = "rejected" =>
            init'[i] \in {"rejected", "none"} /\ installed'[i] = NoInstall]_vars

(***************************************************************************)
(* The abstract store this one implements, seen through one isolate.  A     *)
(* package whose served bytes are not one .cap maps to a value no slot ever *)
(* holds.                                                                   *)
(***************************************************************************)
Viewer == CHOOSE i \in Isolates : TRUE
ServedAs(i) ==
  IF installed[i] = NoInstall THEN NoCap
  ELSE IF \E c \in Caps : installed[i] = Image(c) THEN installed[i].hash ELSE "mixed"

Slot == INSTANCE PackageSlot WITH
  Packages <- Caps, Empty <- NoCap, slot <- manifest, serving <- ServedAs(Viewer)

\* The cache, read through one isolate whose installs are serial, is that slot:
\* crashes and failed cache calls included (store.ts:8-10).
ImplementsSlot == Slot!SlotSpec
===============================================================================
