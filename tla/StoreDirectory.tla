----------------------------- MODULE StoreDirectory -----------------------------
(***************************************************************************)
(* The package store directory (packager/src/store-directory.ts): list,     *)
(* resolve and loadDependencies, with the choice of versions of             *)
(* core/src/composite.ts (planDependencies) and core/src/semver.ts, called  *)
(* and followed by the gates of reactor-node/src/loader.ts.  One behaviour  *)
(* is one call of the loader's loadDependencies, one action per await;      *)
(* another process may rewrite archives of the directory meanwhile.         *)
(***************************************************************************)
EXTENDS Integers, Sequences, FiniteSets

CONSTANTS
  Caps,       \* contents an archive of the directory can have
  Stores,     \* the directories the call may start from, sequences of Caps in readdir's order
  Indexes,    \* index.json: whether it is readable, and the guids it gives to positions
  Wants,      \* the dependencies of the loading package: functions from guids to ranges
  Rewrites,   \* bound: archives rewritten by others during the call
  None        \* no guid, no version, nothing

\* What an archive is to a reader: body "package" parses and verifies, "unsigned" fails
\* the signature gate, "damaged" only the checksums, "encrypted" has its metadata alone
\* in clear, "torn" is no archive (yet).  guid (optional) and version are metadata's,
\* which a torn archive has not; named is the version in the file's name.  A version is
\* [num, tag]: the triple, and the pre-release or build suffix that comparisons drop.  A
\* range is the set of its comparators [op, at]; op "x" is a wildcard whose minor is -1
\* when it is one too, and any op that is none of the code's is text that is no comparator.
IsVersion(v)    == v.num \in Nat \X Nat \X Nat
IsComparator(c) == c.at \in Nat \X (IF c.op = "x" THEN Nat \cup {-1} ELSE Nat) \X Nat
StoreAssumption ==
  /\ Rewrites \in Nat
  /\ \A c \in Caps :
       /\ c.body \in {"package", "unsigned", "damaged", "encrypted", "torn"}
       /\ c.version = None <=> c.body = "torn"
       /\ c.body = "torn" => c.guid = None
       /\ \A v \in {c.version, c.named} : v = None \/ IsVersion(v)
  /\ \A w \in Wants : \A u \in DOMAIN w : \A c \in w[u] : IsComparator(c)
  /\ \A s \in Stores : s \in Seq(Caps)
ASSUME StoreAssumption

(***************************************************************************)
(* Versions and ranges                                                      *)
(***************************************************************************)
\* compareParsed: -1, 0 or 1 on the triples.
Order(a, b) ==
  LET differs == {k \in 1 .. 3 : a[k] # b[k]}
  IN IF differs = {} THEN 0
     ELSE LET k == CHOOSE k \in differs : \A j \in differs : k <= j
          IN IF a[k] < b[k] THEN -1 ELSE 1

\* Variant: caret as if every zero were the leading number.
MatchesComparatorCaret(v, c) ==
  LET cmp == Order(v, c.at)
  IN CASE c.op = "x" -> v[1] = c.at[1] /\ (c.at[2] = -1 \/ v[2] = c.at[2])
       [] c.op = "="  -> cmp = 0
       [] c.op = ">"  -> cmp > 0
       [] c.op = ">=" -> cmp >= 0
       [] c.op = "<"  -> cmp < 0
       [] c.op = "<=" -> cmp <= 0
       [] c.op = "~"  -> v[1] = c.at[1] /\ v[2] = c.at[2] /\ cmp >= 0
       [] c.op = "^"  -> cmp >= 0 /\ v[1] = c.at[1]
       [] OTHER -> FALSE

MatchesComparator(v, c) ==
  LET cmp == Order(v, c.at)
  IN CASE c.op = "x" -> v[1] = c.at[1] /\ (c.at[2] = -1 \/ v[2] = c.at[2])
       [] c.op = "="  -> cmp = 0
       [] c.op = ">"  -> cmp > 0
       [] c.op = ">=" -> cmp >= 0
       [] c.op = "<"  -> cmp < 0
       [] c.op = "<=" -> cmp <= 0
       [] c.op = "~"  -> v[1] = c.at[1] /\ v[2] = c.at[2] /\ cmp >= 0
       [] c.op = "^"  -> /\ cmp >= 0
                         /\ v[1] = c.at[1]
                         /\ c.at[1] = 0 => v[2] = c.at[2]
                         /\ c.at[1] = 0 /\ c.at[2] = 0 => v[3] = c.at[3]
       [] OTHER -> FALSE

\* satisfiesRange: the empty range is satisfied by nothing.
Satisfies(version, range) ==
  range # {} /\ \A c \in range : MatchesComparator(version.num, c)

\* newestSatisfying, one candidate after another; versions are by position, up to last.
Newest(versions, last, range) ==
  LET best[n \in 0 .. last] ==
        IF n = 0 THEN None
        ELSE IF /\ n \in DOMAIN versions
                /\ Satisfies(versions[n], range)
                /\ best[n - 1] = None \/ Order(versions[n].num, best[n - 1].num) > 0
          THEN versions[n] ELSE best[n - 1]
  IN best[last]

VARIABLES
  caps,     \* the directory
  index,    \* index.json
  wanted,   \* metadata.dependencies of the loading package
  pc,       \* "index", "list", "read", "verify", "loaded" or "failed"
  entries,  \* what list has identified, in order
  plan,     \* resolve's result: guid -> entry
  loaded,   \* guid -> the archive read into a model
  verified, \* the guids whose models passed verifyModel
  rewritten \* history: positions rewritten since the call identified them

storeVars == <<caps, index, wanted, pc, entries, plan, loaded, verified, rewritten>>

StoreTypeOK ==
  /\ caps \in Seq(Caps)
  /\ index \in Indexes
  /\ wanted \in Wants
  /\ pc \in {"index", "list", "read", "verify", "loaded", "failed"}
  /\ \A i \in DOMAIN entries :
       entries[i].file = i /\ entries[i].guid # None /\ entries[i].version # None
  /\ DOMAIN plan \subseteq DOMAIN wanted
  /\ DOMAIN loaded \subseteq DOMAIN plan
  /\ \A g \in DOMAIN loaded : loaded[g] \in Caps
  /\ verified \subseteq DOMAIN loaded
  /\ rewritten \subseteq DOMAIN entries

Nothing == [g \in {} |-> None]

StoreInit ==
  /\ caps \in Stores
  /\ index \in Indexes
  /\ wanted \in Wants
  /\ pc = "index"
  /\ entries = <<>>
  /\ plan = Nothing
  /\ loaded = Nothing
  /\ verified = {}
  /\ rewritten = {}

\* loader.ts: a package without dependencies never looks at the store.
NothingWanted ==
  /\ pc = "index"
  /\ DOMAIN wanted = {}
  /\ pc' = "loaded"
  /\ UNCHANGED <<caps, index, wanted, entries, plan, loaded, verified, rewritten>>

\* readIndex: a missing file is the empty index, one that does not parse throws.
ReadIndex ==
  /\ pc = "index"
  /\ DOMAIN wanted # {}
  /\ pc' = IF index.readable THEN "list" ELSE "failed"
  /\ UNCHANGED <<caps, index, wanted, entries, plan, loaded, verified, rewritten>>

Indexed(f) == IF f \in DOMAIN index.guids THEN index.guids[f] ELSE None

\* The identity of the archive at position f; metadata before index and file name.
Identity(f) ==
  LET c == caps[f]
  IN [guid    |-> IF c.guid # None THEN c.guid ELSE Indexed(f),
      version |-> IF c.version # None THEN c.version ELSE c.named,
      file    |-> f]

\* Variant: an archive without any version is listed.
IdentifyLenient ==
  LET f == Len(entries) + 1
  IN /\ pc = "list"
     /\ f <= Len(caps)
     /\ IF Identity(f).guid = None
          THEN pc' = "failed" /\ UNCHANGED entries
          ELSE entries' = Append(entries, Identity(f)) /\ UNCHANGED pc
     /\ UNCHANGED <<caps, index, wanted, plan, loaded, verified, rewritten>>

\* list, one archive: a file nobody can identify ends the whole call.
Identify ==
  LET f == Len(entries) + 1
  IN /\ pc = "list"
     /\ f <= Len(caps)
     /\ IF Identity(f).guid = None \/ Identity(f).version = None
          THEN pc' = "failed" /\ UNCHANGED entries
          ELSE entries' = Append(entries, Identity(f)) /\ UNCHANGED pc
     /\ UNCHANGED <<caps, index, wanted, plan, loaded, verified, rewritten>>

\* planDependencies for one guid: its candidates in the order of the directory, the version
\* chosen, and resolve's way back from the version to the first entry that has it.
Candidates(guid) == {i \in DOMAIN entries : entries[i].guid = guid}
Best(guid) == Newest([i \in Candidates(guid) |-> entries[i].version], Len(entries), wanted[guid])
Chosen(guid) ==
  LET found == {i \in Candidates(guid) : entries[i].version = Best(guid)}
  IN entries[CHOOSE i \in found : \A j \in found : i <= j]

\* Variant: what is unsatisfiable is left out of the plan.
PlanAllPartial ==
  /\ pc = "list"
  /\ Len(entries) = Len(caps)
  /\ plan' = [g \in {g \in DOMAIN wanted : Best(g) # None} |-> Chosen(g)]
  /\ pc' = "read"
  /\ UNCHANGED <<caps, index, wanted, entries, loaded, verified, rewritten>>

\* resolve: all dependencies or none; no await.
PlanAll ==
  /\ pc = "list"
  /\ Len(entries) = Len(caps)
  /\ IF \E g \in DOMAIN wanted : Best(g) = None
       THEN pc' = "failed" /\ UNCHANGED plan
       ELSE pc' = "read" /\ plan' = [g \in DOMAIN wanted |-> Chosen(g)]
  /\ UNCHANGED <<caps, index, wanted, entries, loaded, verified, rewritten>>

Extend(f, k, v) == [x \in DOMAIN f \cup {k} |-> IF x = k THEN v ELSE f[x]]

\* loadDependencies, one readCap without a decryption key; the first failure ends it.
\* The file is read again: nothing compares it with what list saw.
ReadChosen(g) ==
  /\ pc = "read"
  /\ g \in DOMAIN plan \ DOMAIN loaded
  /\ IF caps[plan[g].file].body \in {"package", "damaged"}
       THEN /\ loaded' = Extend(loaded, g, caps[plan[g].file])
            /\ pc' = IF DOMAIN loaded' = DOMAIN plan THEN "verify" ELSE pc
       ELSE pc' = "failed" /\ UNCHANGED loaded
  /\ UNCHANGED <<caps, index, wanted, entries, plan, verified, rewritten>>

\* loader.ts: checksums and signature of each dependency, as for the package itself.
VerifyLoaded(g) ==
  /\ pc = "verify"
  /\ g \in DOMAIN loaded \ verified
  /\ IF loaded[g].body = "package"
       THEN /\ verified' = verified \cup {g}
            /\ pc' = IF verified' = DOMAIN loaded THEN "loaded" ELSE pc
       ELSE pc' = "failed" /\ UNCHANGED verified
  /\ UNCHANGED <<caps, index, wanted, entries, plan, loaded, rewritten>>

\* Another process replaces an archive, which may be seen half-written (writeCap).  One
\* not yet listed is as if it had been so from the start.
Rewrite(f) ==
  /\ pc \in {"list", "read"}
  /\ f \in DOMAIN entries
  /\ Cardinality(rewritten) < Rewrites
  /\ \E c \in Caps :
       c # caps[f] /\ c.named = caps[f].named /\ caps' = [caps EXCEPT ![f] = c]
  /\ rewritten' = rewritten \cup {f}
  /\ UNCHANGED <<index, wanted, pc, entries, plan, loaded, verified>>

StoreNext ==
  \/ ReadIndex \/ Identify \/ PlanAll \/ NothingWanted
  \/ \E g \in DOMAIN wanted : ReadChosen(g) \/ VerifyLoaded(g)
  \/ \E f \in DOMAIN caps : Rewrite(f)

StoreSpec == StoreInit /\ [][StoreNext]_storeVars

(***************************************************************************)
(* What a range means, as intervals of versions                             *)
(***************************************************************************)
Below(a, b) ==
  \/ a[1] < b[1]
  \/ a[1] = b[1] /\ a[2] < b[2]
  \/ a[1] = b[1] /\ a[2] = b[2] /\ a[3] < b[3]

Bump(t, k) == [j \in 1 .. 3 |-> IF j < k THEN t[j] ELSE IF j = k THEN t[k] + 1 ELSE 0]

\* The first version above those a caret range allows: its leftmost non-zero
\* number moves on, the last one if all are zero.
CaretEnd(t) == Bump(t, IF t[1] # 0 THEN 1 ELSE IF t[2] # 0 THEN 2 ELSE 3)

Zero == <<0, 0, 0>>
Within(v, lo, hi) == ~Below(v, lo) /\ Below(v, hi)

Inside(v, c) ==
  \/ c.op = "x" /\ c.at[2] = -1 /\ Within(v, <<c.at[1], 0, 0>>, <<c.at[1] + 1, 0, 0>>)
  \/ c.op = "x" /\ c.at[2] # -1 /\ Within(v, <<c.at[1], c.at[2], 0>>, Bump(c.at, 2))
  \/ c.op = "="  /\ Within(v, c.at, Bump(c.at, 3))
  \/ c.op = ">"  /\ ~Below(v, Bump(c.at, 3))
  \/ c.op = ">=" /\ ~Below(v, c.at)
  \/ c.op = "<"  /\ Within(v, Zero, c.at)
  \/ c.op = "<=" /\ Within(v, Zero, Bump(c.at, 3))
  \/ c.op = "~"  /\ Within(v, c.at, Bump(c.at, 2))
  \/ c.op = "^"  /\ Within(v, c.at, CaretEnd(c.at))

InRange(version, range) == range # {} /\ \A c \in range : Inside(version.num, c)

\* e may be used for guid g.
Fits(e, g) == e.guid = g /\ InRange(e.version, wanted[g])

\* resolve plans every dependency or fails; each planned entry is in range by the
\* intervals, none in range is newer, and among equals it is the first of the
\* directory; it never fails when every dependency has one that fits
\* (composite.ts:40-66, semver.ts:56-129, store-directory.ts:74-87).
PlanCorrect ==
  /\ pc \in {"read", "verify", "loaded"} =>
       /\ DOMAIN plan = DOMAIN wanted
       /\ \A g \in DOMAIN plan :
            /\ Fits(plan[g], g)
            /\ \A i \in DOMAIN entries : Fits(entries[i], g) =>
                 /\ ~Below(plan[g].version.num, entries[i].version.num)
                 /\ entries[i].version.num = plan[g].version.num => plan[g].file <= entries[i].file
  /\ pc = "failed" /\ plan = Nothing /\ Len(entries) = Len(caps) =>
       \E g \in DOMAIN wanted : \A i \in DOMAIN entries : ~Fits(entries[i], g)

\* A call that succeeds hands over every dependency, each one a package that passed its
\* gates; and as long as nobody rewrote its file after list identified it, it declares the
\* version chosen, in range, and the guid it is loaded for, unless the index supplied
\* the guid (store-directory.ts:93-102, loader.ts:94-115).
LoadedAsPlanned ==
  pc = "loaded" =>
    /\ DOMAIN loaded = DOMAIN wanted
    /\ \A g \in DOMAIN loaded :
         /\ loaded[g].body = "package"
         /\ plan[g].file \notin rewritten =>
              InRange(loaded[g].version, wanted[g]) /\ loaded[g].guid \in {g, None}
===============================================================================
