----------------------------- MODULE RequestsProofs -----------------------------
(***************************************************************************)
(* What requests may rely on, for any packages, paths, methods and number   *)
(* of requests: a handler answers from the package its request captured,    *)
(* and an answer is what that package and the question determine, so that   *)
(* what the three reactors send follows case by case from what the resolver *)
(* found.                                                                   *)
(***************************************************************************)
EXTENDS Requests, SequenceTheorems, WellFoundedInduction, TLAPS

\* The key of a module names its source: the model, and the file in it or in one of its
\* dependencies.
KeyNames(k) == modules[k].source = <<k[1], [dep |-> k[2], at |-> k[3], fails |-> 0]>>
SourcesNamed == \A k \in DOMAIN modules : KeyNames(k)

\* A request that runs a handler waits for the module of the file its route names.
Waits(s) ==
  /\ asked[s].model \in 1 .. Len(models)
  /\ asked[s].key \in DOMAIN modules
  /\ HandlerFile(Asked(s), RouteOf(s)).fails = 0
  /\ asked[s].key = Key(asked[s].model, HandlerFile(Asked(s), RouteOf(s)))

Stored ==
  /\ models \in Seq(Packages)
  /\ current \in 0 .. Len(models)
  /\ DOMAIN asked = Slots

Inv ==
  /\ Stored
  /\ SourcesNamed
  /\ \A s \in Slots : asked[s].key # NoKey => Waits(s)

\* What serveHandlerRoute runs is described by two fields (fetch-handler.ts:278-298).
LEMMA FileNamed ==
  ASSUME NEW p, NEW r, HandlerFile(p, r).fails = 0
  PROVE  HandlerFile(p, r) = [dep |-> HandlerFile(p, r).dep, at |-> HandlerFile(p, r).at, fails |-> 0]
  BY DEF HandlerFile

\* A key that names its source names the file it was made of.
LEMMA KeyOfFile ==
  ASSUME NEW m, NEW file, file = [dep |-> file.dep, at |-> file.at, fails |-> 0]
  PROVE  <<m, file>> = <<Key(m, file)[1], [dep |-> Key(m, file)[2], at |-> Key(m, file)[3], fails |-> 0]>>
  BY DEF Key

LEMMA InitInv == Init => Inv
  <1> SUFFICES ASSUME Init PROVE Inv OBVIOUS
  <1>1. PICK p \in Packages : models = <<p>>
    BY DEF Init
  <1>2. Stored
    BY <1>1 DEF Init, Stored
  <1>3. SourcesNamed
    BY DEF Init, SourcesNamed
  <1>4. \A s \in Slots : asked[s].key = NoKey
    BY DEF Init
  <1> QED BY <1>2, <1>3, <1>4 DEF Inv

\* Installing adds a model and moves none.
LEMMA ModelsGrow ==
  ASSUME Stored, NEW p \in Packages, Install(p)
  PROVE  /\ Stored'
         /\ Len(models') = Len(models) + 1
         /\ \A m \in 1 .. Len(models) : models'[m] = models[m]
  BY DEF Stored, Install

\* A step that leaves models and asked[s] alone, and keeps modules, keeps Waits(s).
LEMMA WaitsKept ==
  ASSUME NEW s \in Slots, Waits(s), asked'[s] = asked[s],
         Len(models') >= Len(models), Len(models) \in Nat, Len(models') \in Nat,
         \A m \in 1 .. Len(models) : models'[m] = models[m],
         DOMAIN modules \subseteq DOMAIN modules'
  PROVE  Waits(s)'
  <1>1. asked[s].model \in 1 .. Len(models)
    BY DEF Waits
  <1>2. models'[asked'[s].model] = models[asked[s].model]
    BY <1>1
  <1>3. Asked(s)' = Asked(s) /\ RouteOf(s)' = RouteOf(s)
    BY <1>2 DEF Asked, RouteOf
  <1>4. HandlerFile(Asked(s)', RouteOf(s)') = HandlerFile(Asked(s), RouteOf(s))
    BY <1>3
  <1>5. asked'[s].model \in 1 .. Len(models')
    BY <1>1
  <1>6. HandlerFile(Asked(s), RouteOf(s))' = HandlerFile(Asked(s), RouteOf(s))
    BY <1>3 DEF HandlerFile, Owner, Owners, Rest
  <1>7. asked'[s].key \in DOMAIN modules' /\ HandlerFile(Asked(s), RouteOf(s))'.fails = 0
    BY <1>6 DEF Waits
  <1>8. asked'[s].key = Key(asked'[s].model, HandlerFile(Asked(s), RouteOf(s))')
    BY <1>6 DEF Waits
  <1> QED BY <1>5, <1>7, <1>8 DEF Waits, Key

\* Remembering an import keeps what is there and adds the key, with its source.
LEMMA RememberAdds ==
  ASSUME NEW key, NEW source, modules' = Remember(key, source)
  PROVE  /\ DOMAIN modules' = DOMAIN modules \cup {key}
         /\ \A k \in DOMAIN modules : modules'[k] = modules[k]
         /\ key \notin DOMAIN modules => modules'[key].source = source
  BY DEF Remember

LEMMA ArriveInv ==
  ASSUME Inv, NEW s \in Slots, NEW raw, NEW method, Arrive(s, raw, method)
  PROVE  Inv'
  <1> DEFINE path == StripScope(raw)
             by   == Resolve(Routes(Package(current)), path, method).by
             file == HandlerFile(Package(current), Routes(Package(current))[by])
             key  == Key(current, file)
  <1>1. models' = models /\ current' = current
    BY DEF Arrive
  <1>2. \A t \in Slots : t # s => asked'[t] = asked[t]
    BY DEF Arrive, Inv, Stored
  <1>3. Stored'
    BY <1>1 DEF Arrive, Inv, Stored
  <1>4. CASE Runs(Package(current), path, method)
    <2>1. current \in 1 .. Len(models) /\ Package(current) = models[current]
      BY <1>4 DEF Runs, Inv, Stored, Package
    <2>2. file.fails = 0
      BY <1>4, <2>1 DEF Runs, Runnable
    <2>3. modules' = Remember(key, <<current, file>>)
      BY <1>4 DEF Arrive
    <2>4. asked'[s].model = current /\ asked'[s].by = by /\ asked'[s].key = key
      BY <1>4 DEF Arrive, Inv, Stored
    <2>5. <<current, file>> = <<key[1], [dep |-> key[2], at |-> key[3], fails |-> 0]>>
      BY <2>2, FileNamed, KeyOfFile
    <2> HIDE DEF file, key, by, path
    <2>6. SourcesNamed'
      <3> SUFFICES ASSUME NEW k \in DOMAIN modules' PROVE KeyNames(k)'
        BY DEF SourcesNamed
      <3>1. CASE k \in DOMAIN modules
        BY <3>1, <2>3, RememberAdds DEF Inv, SourcesNamed, KeyNames
      <3>2. CASE k \notin DOMAIN modules
        <4>1. k = key
          BY <3>2, <2>3, RememberAdds
        <4>2. modules'[k].source = <<current, file>>
          BY <4>1, <3>2, <2>3, RememberAdds
        <4> QED BY <4>1, <4>2, <2>5 DEF KeyNames
      <3> QED BY <3>1, <3>2
    <2>7. Waits(s)'
      <3>1. Asked(s)' = Package(current)
        BY <2>1, <2>4, <1>1 DEF Asked
      <3>2. RouteOf(s)' = Routes(Package(current))[by]
        BY <2>1, <2>4, <1>1 DEF RouteOf
      <3>3. HandlerFile(Asked(s), RouteOf(s))' = file
        BY <3>1, <3>2 DEF file, HandlerFile, Owner, Owners, Rest
      <3>4. asked'[s].key \in DOMAIN modules'
        BY <2>3, <2>4, RememberAdds
      <3>5. asked'[s].key = Key(asked'[s].model, file)
        BY <2>4 DEF key
      <3> QED BY <1>1, <2>1, <2>2, <2>4, <3>3, <3>4, <3>5 DEF Waits, Key
    <2>8. ASSUME NEW t \in Slots, t # s, asked'[t].key # NoKey PROVE Waits(t)'
      <3>1. Waits(t)
        BY <1>2, <2>8 DEF Inv
      <3>2. DOMAIN modules \subseteq DOMAIN modules'
        BY <2>3, RememberAdds
      <3>3. Len(models) \in Nat
        BY DEF Inv, Stored
      <3> QED BY <1>1, <1>2, <2>8, <3>1, <3>2, <3>3, WaitsKept
    <2> QED BY <1>3, <2>6, <2>7, <2>8 DEF Inv, NoKey
  <1>5. CASE ~Runs(Package(current), path, method)
    <2>1. modules' = modules /\ asked'[s].key = NoKey
      BY <1>5 DEF Arrive, Inv, Stored
    <2>2. SourcesNamed'
      BY <2>1 DEF Inv, SourcesNamed, KeyNames
    <2>3. ASSUME NEW t \in Slots, asked'[t].key # NoKey PROVE Waits(t)'
      <3>1. asked'[t] = asked[t] /\ Waits(t)
        BY <1>2, <2>1, <2>3 DEF Inv, NoKey
      <3> QED BY <1>1, <2>1, <3>1, WaitsKept DEF Inv, Stored
    <2> QED BY <1>3, <2>2, <2>3 DEF Inv, NoKey
  <1> QED BY <1>4, <1>5

\* Steps that leave what was asked alone and at most change a module's state.
LEMMA QuietInv ==
  ASSUME Inv, Stored', asked' = asked, Len(models') >= Len(models),
         \A m \in 1 .. Len(models) : models'[m] = models[m],
         DOMAIN modules' = DOMAIN modules,
         \A k \in DOMAIN modules : modules'[k].source = modules[k].source
  PROVE  Inv'
  <1>1. SourcesNamed'
    BY DEF Inv, SourcesNamed, KeyNames
  <1>2. ASSUME NEW s \in Slots, asked'[s].key # NoKey PROVE Waits(s)'
    <2>1. Waits(s)
      BY <1>2 DEF Inv
    <2>2. Len(models) \in Nat /\ Len(models') \in Nat
      BY DEF Inv, Stored
    <2> QED BY <2>1, <2>2, WaitsKept
  <1> QED BY <1>1, <1>2 DEF Inv, NoKey

LEMMA NextInv ==
  ASSUME Inv, [Next]_vars
  PROVE  Inv'
  <1>1. CASE \E s \in Slots, method \in Methods : \E raw : Arrive(s, raw, method)
    BY <1>1, ArriveInv
  <1>2. ASSUME NEW key \in DOMAIN modules, Settle(key) PROVE Inv'
    <2>1. PICK outcome \in {"loaded", "failed"} : modules' = [modules EXCEPT ![key].state = outcome]
      BY <1>2 DEF Settle
    <2>2. DOMAIN modules' = DOMAIN modules /\ \A k \in DOMAIN modules : modules'[k].source = modules[k].source
      BY <2>1
    <2>3. models' = models /\ asked' = asked /\ current' = current
      BY <1>2 DEF Settle
    <2> QED BY <2>2, <2>3, QuietInv DEF Inv, Stored
  <1>3. ASSUME NEW s \in Slots, Imported(s) \/ Called(s) PROVE Inv'
    <2>1. models' = models /\ asked' = asked /\ current' = current /\ modules' = modules
      BY <1>3 DEF Imported, Called
    <2> QED BY <2>1, QuietInv DEF Inv, Stored
  <1>4. ASSUME NEW p \in Packages, Install(p) PROVE Inv'
    <2>1. asked' = asked /\ modules' = modules
      BY <1>4 DEF Install
    <2>2. Len(models) \in Nat
      BY DEF Inv, Stored
    <2> QED BY <1>4, <2>1, <2>2, ModelsGrow, QuietInv DEF Inv
  <1>5. CASE UNCHANGED vars
    <2>1. models' = models /\ asked' = asked /\ current' = current /\ modules' = modules
      BY <1>5 DEF vars
    <2> QED BY <2>1, QuietInv DEF Inv, Stored
  <1> QED BY <1>1, <1>2, <1>3, <1>4, <1>5 DEF Next

LEMMA InvSuffices == Inv => HandlerOfItsPackage
  <1> SUFFICES ASSUME Inv, NEW s \in Slots, asked[s].key # NoKey
               PROVE  modules[asked[s].key].source = <<asked[s].model, HandlerFile(Asked(s), RouteOf(s))>>
    BY DEF HandlerOfItsPackage
  <1> DEFINE file == HandlerFile(Asked(s), RouteOf(s))
  <1>1. Waits(s)
    BY DEF Inv
  <1>2. file = [dep |-> file.dep, at |-> file.at, fails |-> 0]
    BY <1>1, FileNamed DEF Waits
  <1>3. asked[s].key = Key(asked[s].model, file) /\ asked[s].key \in DOMAIN modules
    BY <1>1 DEF Waits
  <1>4. KeyNames(asked[s].key)
    BY <1>3 DEF Inv, SourcesNamed
  <1> HIDE DEF file
  <1>5. modules[asked[s].key].source = <<asked[s].model, file>>
    BY <1>2, <1>3, <1>4, KeyOfFile DEF KeyNames
  <1> QED BY <1>5 DEF file

\* A handler's answer comes from the file its route names in the package the request
\* captured, whatever was installed while the request was suspended
\* (fetch-handler.ts:69-81,272-322, handler-executor.ts:117-133).
THEOREM HandlersOwn == Spec => []HandlerOfItsPackage
  <1>1. Inv /\ [Next]_vars => Inv'
    BY NextInv
  <1> QED BY InitInv, <1>1, InvSuffices, PTL DEF Spec

(***************************************************************************)
(* One import per handler and package                                       *)
(***************************************************************************)
\* What the module of a request's key makes of the request, once it has settled.
Verdict(s) ==
  IF modules[asked[s].key].state = "failed" \/ Does(s) = "no-entry"
    THEN Failure(502, asked[s].by) ELSE Outcome(s)

Judged(s) ==
  /\ pc[s] = "entry" => modules[asked[s].key].state = "loaded" /\ Does(s) # "no-entry"
  /\ pc[s] = "done" => /\ modules[asked[s].key].state # "loading"
                       /\ worker[s] = Process(Verdict(s), RouteOf(s))

HasState(k) == "state" \in DOMAIN modules[k] /\ modules[k].state \in {"loading", "loaded", "failed"}
Verdicts ==
  /\ DOMAIN pc = Slots /\ DOMAIN worker = Slots
  /\ \A k \in DOMAIN modules : HasState(k)
  /\ \A s \in Slots :
       /\ pc[s] \in {"import", "entry"} => asked[s].key # NoKey
       /\ asked[s].key # NoKey => Judged(s)

\* The parts of a step that can disturb a verdict: settled modules stay as they are, and
\* so do the request and the package it captured.
LEMMA VerdictKept ==
  ASSUME Inv, NEW s \in Slots, asked[s].key # NoKey, asked'[s] = asked[s],
         \A m \in 1 .. Len(models) : models'[m] = models[m],
         modules'[asked[s].key].source = modules[asked[s].key].source
  PROVE  /\ Does(s)' = Does(s)
         /\ Outcome(s)' = Outcome(s)
         /\ RouteOf(s)' = RouteOf(s)
  <1>1. Waits(s) /\ KeyNames(asked[s].key)
    BY DEF Inv, Waits, SourcesNamed
  <1>2. modules[asked[s].key].source[1] = asked[s].model
    BY <1>1 DEF Waits, KeyNames, Key
  <1>3. models'[asked[s].model] = models[asked[s].model]
    BY <1>1 DEF Waits
  <1>4. Does(s)' = Does(s)
    BY <1>2, <1>3 DEF Does, Script, Lookup
  <1>5. Outcome(s)' = Outcome(s)
    BY <1>4 DEF Outcome, Answer, Failure
  <1>6. RouteOf(s)' = RouteOf(s)
    BY <1>3 DEF RouteOf
  <1> QED BY <1>4, <1>5, <1>6

\* A request that a step does not touch stays judged.
LEMMA JudgedKept ==
  ASSUME Inv, NEW s \in Slots, asked[s].key # NoKey, Judged(s), asked'[s] = asked[s],
         \A m \in 1 .. Len(models) : models'[m] = models[m],
         modules'[asked[s].key].source = modules[asked[s].key].source,
         modules[asked[s].key].state # "loading" => modules'[asked[s].key] = modules[asked[s].key],
         pc'[s] = pc[s], worker'[s] = worker[s]
  PROVE  Judged(s)'
  <1>1. Does(s)' = Does(s) /\ Outcome(s)' = Outcome(s) /\ RouteOf(s)' = RouteOf(s)
    BY VerdictKept
  <1>2. CASE pc[s] = "entry"
    BY <1>1, <1>2 DEF Judged
  <1>3. CASE pc[s] = "done"
    <2>1. modules'[asked[s].key] = modules[asked[s].key]
      BY <1>3 DEF Judged
    <2>2. Verdict(s)' = Verdict(s)
      BY <1>1, <2>1 DEF Verdict, Failure, Answer
    <2>3. Process(Verdict(s), RouteOf(s))' = Process(Verdict(s), RouteOf(s))
      BY <1>1, <2>2 DEF Process, BodyOf, Overrides, Default
    <2> QED BY <1>3, <2>1, <2>3 DEF Judged
  <1>4. CASE pc[s] \notin {"entry", "done"}
    BY <1>4 DEF Judged
  <1> QED BY <1>2, <1>3, <1>4

LEMMA ArriveVerdicts ==
  ASSUME Inv, Verdicts, NEW s \in Slots, NEW raw, NEW method, Arrive(s, raw, method)
  PROVE  Verdicts'
  <1>1. models' = models /\ \A t \in Slots : t # s => asked'[t] = asked[t] /\ pc'[t] = pc[t] /\ worker'[t] = worker[t]
    BY DEF Arrive, Inv, Stored, Verdicts
  <1>2. DOMAIN pc' = Slots /\ DOMAIN worker' = Slots
    BY DEF Arrive, Verdicts
  <1>3. asked'[s].key # NoKey => pc'[s] = "import"
    BY DEF Arrive, Inv, Stored, Verdicts
  <1>4. \A k \in DOMAIN modules : modules'[k] = modules[k]
    BY DEF Arrive, Remember
  <1>5. ASSUME NEW t \in Slots, t # s, asked'[t].key # NoKey PROVE Judged(t)'
    <2>1. asked[t].key # NoKey /\ asked'[t] = asked[t]
      BY <1>1, <1>5 DEF NoKey
    <2>2. Judged(t) /\ asked[t].key \in DOMAIN modules
      BY <2>1 DEF Verdicts, Inv, Waits
    <2> QED BY <1>1, <1>4, <1>5, <2>1, <2>2, JudgedKept
  <1>6. asked'[s].key # NoKey => Judged(s)'
    BY <1>3 DEF Judged
  <1>7. pc'[s] \in {"import", "entry"} => asked'[s].key # NoKey
    <2>1. CASE Runs(Package(current), StripScope(raw), method)
      <3>1. PICK file : asked'[s].key = Key(current, file)
        BY <2>1 DEF Arrive, Inv, Stored
      <3> QED BY <3>1 DEF Key, NoKey
    <2>2. CASE ~Runs(Package(current), StripScope(raw), method)
      BY <2>2 DEF Arrive, Verdicts
    <2> QED BY <2>1, <2>2
  <1>8. \A k \in DOMAIN modules' : HasState(k)'
    BY DEF Arrive, Remember, Verdicts, HasState
  <1>9. \A t \in Slots : t # s /\ pc'[t] \in {"import", "entry"} => asked'[t].key # NoKey
    BY <1>1 DEF Verdicts, NoKey
  <1> QED BY <1>2, <1>5, <1>6, <1>7, <1>8, <1>9 DEF Verdicts, NoKey

\* A request is answered: it alone changes, to an answer that is its verdict.
LEMMA ReplyVerdicts ==
  ASSUME Inv, Verdicts, NEW s \in Slots, NEW answer, asked[s].key # NoKey,
         UNCHANGED <<models, modules, asked>>,
         modules[asked[s].key].state # "loading", answer = Verdict(s), Reply(s, answer)
  PROVE  Verdicts'
  <1>1. \A t \in Slots : t # s => pc'[t] = pc[t] /\ worker'[t] = worker[t]
    BY DEF Reply, Verdicts
  <1>2. pc'[s] = "done" /\ worker'[s] = Process(Verdict(s), RouteOf(s)) /\ DOMAIN pc' = Slots /\ DOMAIN worker' = Slots
    BY DEF Reply, Verdicts
  <1>3. Does(s)' = Does(s) /\ Outcome(s)' = Outcome(s) /\ RouteOf(s)' = RouteOf(s)
    BY VerdictKept
  <1>4. Verdict(s)' = Verdict(s)
    BY <1>3 DEF Verdict, Failure, Answer
  <1>5. Process(Verdict(s), RouteOf(s))' = Process(Verdict(s), RouteOf(s))
    BY <1>3, <1>4 DEF Process, BodyOf, Overrides, Default
  <1>6. Judged(s)'
    BY <1>2, <1>5 DEF Judged
  <1>7. ASSUME NEW t \in Slots, t # s, asked'[t].key # NoKey PROVE Judged(t)'
    <2>1. Judged(t) /\ asked[t].key # NoKey
      BY <1>7 DEF Verdicts, NoKey
    <2> QED BY <1>1, <1>7, <2>1, JudgedKept
  <1>8. \A t \in Slots : pc'[t] \in {"import", "entry"} => asked'[t].key # NoKey
    BY <1>1, <1>2 DEF Verdicts, NoKey
  <1> QED BY <1>2, <1>6, <1>7, <1>8 DEF Verdicts, NoKey, HasState

\* Steps that touch no request.
LEMMA QuietVerdicts ==
  ASSUME Inv, Verdicts, asked' = asked, pc' = pc, worker' = worker,
         \A m \in 1 .. Len(models) : models'[m] = models[m],
         DOMAIN modules' = DOMAIN modules,
         \A k \in DOMAIN modules :
           /\ modules'[k].source = modules[k].source
           /\ HasState(k)'
           /\ modules[k].state # "loading" => modules'[k] = modules[k]
  PROVE  Verdicts'
  <1>1. ASSUME NEW s \in Slots, asked'[s].key # NoKey PROVE Judged(s)'
    <2>1. Judged(s) /\ asked[s].key # NoKey /\ asked[s].key \in DOMAIN modules
      BY <1>1 DEF Verdicts, Inv, Waits, NoKey
    <2> QED BY <2>1, JudgedKept
  <1> QED BY <1>1 DEF Verdicts, NoKey

LEMMA NextVerdicts ==
  ASSUME Inv, Verdicts, [Next]_vars
  PROVE  Verdicts'
  <1>1. CASE \E s \in Slots, method \in Methods : \E raw : Arrive(s, raw, method)
    BY <1>1, ArriveVerdicts
  <1>2. ASSUME NEW s \in Slots, Imported(s) PROVE Verdicts'
    <2>1. /\ UNCHANGED <<models, modules, asked>>
          /\ asked[s].key # NoKey /\ asked[s].key \in DOMAIN modules
          /\ modules[asked[s].key].state # "loading"
      BY <1>2 DEF Imported, Verdicts, Inv, Waits
    <2>2. CASE modules[asked[s].key].state = "failed" \/ Does(s) = "no-entry"
      BY <1>2, <2>1, <2>2, ReplyVerdicts DEF Imported, Verdict
    <2>3. CASE ~(modules[asked[s].key].state = "failed" \/ Does(s) = "no-entry")
      <3>1. pc' = [pc EXCEPT ![s] = "entry"] /\ worker' = worker
        BY <1>2, <2>3 DEF Imported
      <3>2. Does(s)' = Does(s)
        BY <2>1, VerdictKept
      <3>3. modules[asked[s].key].state = "loaded"
        BY <2>1, <2>3 DEF Verdicts, HasState
      <3>4. Judged(s)'
        BY <2>1, <2>3, <3>1, <3>2, <3>3 DEF Judged, Verdicts
      <3>5. ASSUME NEW t \in Slots, t # s, asked'[t].key # NoKey PROVE Judged(t)'
        <4>1. Judged(t) /\ asked[t].key # NoKey /\ pc'[t] = pc[t]
          BY <2>1, <3>1, <3>5 DEF Verdicts, NoKey
        <4> QED BY <2>1, <3>1, <4>1, JudgedKept
      <3> QED BY <2>1, <3>1, <3>4, <3>5 DEF Verdicts, NoKey, HasState
    <2> QED BY <2>2, <2>3
  <1>3. ASSUME NEW s \in Slots, Called(s) PROVE Verdicts'
    <2>1. /\ UNCHANGED <<models, modules, asked>> /\ pc[s] = "entry"
          /\ asked[s].key # NoKey /\ Reply(s, Outcome(s))
      BY <1>3 DEF Called, Verdicts
    <2>2. modules[asked[s].key].state = "loaded" /\ Does(s) # "no-entry"
      BY <2>1 DEF Verdicts, Judged
    <2>3. Outcome(s) = Verdict(s)
      BY <2>2 DEF Verdict
    <2> QED BY <2>1, <2>2, <2>3, ReplyVerdicts
  <1>4. ASSUME NEW key \in DOMAIN modules, Settle(key) PROVE Verdicts'
    <2>1. PICK outcome \in {"loaded", "failed"} : modules' = [modules EXCEPT ![key].state = outcome]
      BY <1>4 DEF Settle
    <2>2. /\ modules[key].state = "loading"
          /\ UNCHANGED <<models, pc, asked, worker>>
      BY <1>4 DEF Settle
    <2>3. /\ DOMAIN modules' = DOMAIN modules
          /\ \A k \in DOMAIN modules : modules'[k].source = modules[k].source
      BY <2>1
    <2>4. \A k \in DOMAIN modules : k # key => modules'[k] = modules[k]
      BY <2>1
    <2>5. \A k \in DOMAIN modules : HasState(k)'
      BY <2>1, <2>4 DEF Verdicts, HasState
    <2> QED BY <2>2, <2>3, <2>4, <2>5, QuietVerdicts
  <1>5. ASSUME NEW p \in Packages, Install(p) PROVE Verdicts'
    <2>1. UNCHANGED <<modules, pc, asked, worker>>
      BY <1>5 DEF Install
    <2>2. \A m \in 1 .. Len(models) : models'[m] = models[m]
      BY <1>5, ModelsGrow DEF Inv
    <2>3. \A k \in DOMAIN modules : HasState(k)'
      BY <2>1 DEF Verdicts, HasState
    <2> QED BY <2>1, <2>2, <2>3, QuietVerdicts
  <1>6. CASE UNCHANGED vars
    <2>1. UNCHANGED <<models, modules, pc, asked, worker>>
      BY <1>6 DEF vars
    <2> QED BY <2>1, QuietVerdicts DEF Verdicts, HasState
  <1> QED BY <1>1, <1>2, <1>3, <1>4, <1>5, <1>6 DEF Next

LEMMA VerdictsSuffice == Inv /\ Verdicts => OneImport
  <1> SUFFICES ASSUME Inv, Verdicts, NEW s \in Slots, NEW t \in Slots, Done(s), Done(t),
                      asked[s].key = asked[t].key, asked[s].key # NoKey, asked[s].by = asked[t].by
               PROVE  worker[s] = worker[t]
    BY DEF OneImport, Same
  <1>1. asked[s].model = asked[s].key[1] /\ asked[t].model = asked[t].key[1]
    BY DEF Inv, Waits, Key
  <1>2. asked[s].model = asked[t].model
    BY <1>1
  <1>3. Verdict(s) = Verdict(t) /\ RouteOf(s) = RouteOf(t)
    BY <1>2 DEF Verdict, Outcome, Does, RouteOf
  <1>4. Judged(s) /\ Judged(t)
    BY DEF Verdicts
  <1> QED BY <1>3, <1>4 DEF Judged, Done

\* Two requests for one handler of one package get the same answer: one import decides,
\* and a failed one decides for all (handler-executor.ts:127-131).
THEOREM OneImportOnly == Spec => []OneImport
  <1>1. Init => Verdicts
    BY DEF Init, Verdicts
  <1>2. Inv /\ Verdicts /\ [Next]_vars => Inv' /\ Verdicts'
    BY NextInv, NextVerdicts
  <1> QED BY InitInv, <1>1, <1>2, VerdictsSuffice, PTL DEF Spec

(***************************************************************************)
(* What the three reactors answer                                           *)
(***************************************************************************)
\* What is known of a request from what it asked: the other two reactors have answered it,
\* and so has the worker unless it runs a handler.
AsAsked(p, a, o, w, state) ==
  /\ o = [node |-> NodeSends(p, a.model, a.path, a.method), cloudflare |-> CloudflareSends(p, a.model, a.path, a.method)]
  /\ IF Runs(p, a.path, a.method)
       THEN a.key # NoKey /\ a.by = Resolve(Routes(p), a.path, a.method).by
       ELSE state = "done" /\ a.key = NoKey /\ w = WorkerServe(p, a.model, a.path, a.method)

Answered(s) == AsAsked(Package(asked[s].model), asked[s], others[s], worker[s], pc[s])

States == {"free", "import", "entry", "done"}
Answers ==
  /\ pc \in [Slots -> States] /\ DOMAIN worker = Slots /\ DOMAIN others = Slots
  /\ \A s \in Slots :
       /\ asked[s].model \in 0 .. Len(models)
       /\ pc[s] # "done" => worker[s] = Unanswered
       /\ IF pc[s] = "free" THEN asked[s].key = NoKey ELSE Answered(s)

\* A request that a step does not touch stays answered, whatever is installed.
LEMMA AnsweredKept ==
  ASSUME Inv, NEW s \in Slots, Answered(s), asked[s].model \in 0 .. Len(models),
         UNCHANGED <<asked[s], others[s], worker[s], pc[s]>>,
         \A m \in 1 .. Len(models) : models'[m] = models[m]
  PROVE  Answered(s)'
  <1>1. Package(asked[s].model)' = Package(asked[s].model)
    BY DEF Package, Inv, Stored
  <1>2. Answered(s)' = AsAsked(Package(asked[s].model)', asked'[s], others'[s], worker'[s], pc'[s])
    BY DEF Answered
  <1> QED BY <1>1, <1>2 DEF Answered

LEMMA Minimum ==
  ASSUME NEW S, S \subseteq Nat, S # {}
  PROVE  First(S) \in S /\ \A i \in S : First(S) <= i
  <1>1. PICK m \in S : \A n \in S : <<n, m>> \notin OpToRel(<, Nat)
    BY NatLessThanWellFounded, WFMin
  <1>2. \A n \in S : ~(n < m)
    BY <1>1 DEF OpToRel
  <1>3. \A n \in S : m <= n
    BY <1>2
  <1> QED BY <1>3 DEF First

\* The routes served at a path, those of them that are handlers, those of a method, and
\* the others.
At(routes, path)           == {i \in DOMAIN routes : EffectivePath(routes[i]) = path}
Mine(routes, path, method) == {i \in Handlers(routes, path) : routes[i].method = method}
Others(routes, path)       == At(routes, path) \ Handlers(routes, path)

\* RouteResolver.resolve, by the routes that are served at a path (resolver.ts:53-78).
LEMMA Resolves ==
  ASSUME NEW routes, DOMAIN routes \subseteq Nat \ {0}, NEW path, NEW method
  PROVE  /\ Mine(routes, path, method) # {} =>
              /\ Resolve(routes, path, method) = Resolved("handler", First(Mine(routes, path, method)))
              /\ First(Mine(routes, path, method)) \in Mine(routes, path, method)
         /\ Mine(routes, path, method) = {} /\ Others(routes, path) # {} =>
              /\ Resolve(routes, path, method) = Static(routes, First(Others(routes, path)))
              /\ First(Others(routes, path)) \in Others(routes, path)
         /\ Mine(routes, path, method) = {} /\ Others(routes, path) = {} /\ Handlers(routes, path) # {} =>
              Resolve(routes, path, method) = Refused({routes[i].method : i \in Handlers(routes, path)})
         /\ Mine(routes, path, method) = {} /\ Others(routes, path) = {} /\ Handlers(routes, path) = {} =>
              Resolve(routes, path, method) = Resolved("not-found", 0)
  <1> DEFINE mine == Mine(routes, path, method)
             rest == Others(routes, path)
  <1>1. rest = {i \in DOMAIN routes : ~HandlerKind(routes[i]) /\ EffectivePath(routes[i]) = path}
    BY DEF Others, At, Handlers
  <1>2. ByPath(routes, path) = IF rest = {} THEN 0 ELSE First(rest)
    BY <1>1 DEF ByPath
  <1>3. mine \subseteq Nat /\ rest \subseteq Nat /\ 0 \notin rest
    BY DEF Mine, Others, At, Handlers
  <1> HIDE DEF rest
  <1>4. mine # {} => First(mine) \in mine
    BY <1>3, Minimum
  <1>5. rest # {} => First(rest) \in rest /\ First(rest) # 0
    BY <1>3, Minimum
  <1>6. mine = {i \in Handlers(routes, path) : routes[i].method = method}
    BY DEF Mine
  <1> HIDE DEF mine
  <1>7. mine # {} => Resolve(routes, path, method) = Resolved("handler", First(mine))
    BY <1>6 DEF Resolve
  <1>8. mine = {} /\ rest # {} => Resolve(routes, path, method) = Static(routes, First(rest))
    BY <1>2, <1>5, <1>6 DEF Resolve
  <1>9. mine = {} /\ rest = {} /\ Handlers(routes, path) # {} =>
          Resolve(routes, path, method) = Refused({routes[i].method : i \in Handlers(routes, path)})
    BY <1>2, <1>6 DEF Resolve
  <1>10. mine = {} /\ rest = {} /\ Handlers(routes, path) = {} => Resolve(routes, path, method) = Resolved("not-found", 0)
    BY <1>2, <1>6 DEF Resolve
  <1> QED BY <1>4, <1>5, <1>7, <1>8, <1>9, <1>10 DEF mine, rest

\* What a resolution is: of a handler's route, a static one's, or of none.
OfHandler(routes, found) ==
  found = Resolved("handler", found.by) /\ found.by \in DOMAIN routes /\ HandlerKind(routes[found.by])
OfStatic(routes, found) ==
  found = Static(routes, found.by) /\ found.by \in DOMAIN routes /\ ~HandlerKind(routes[found.by])

LEMMA ResolvesTo ==
  ASSUME NEW routes, DOMAIN routes \subseteq Nat \ {0}, NEW path, NEW method
  PROVE  \/ OfHandler(routes, Resolve(routes, path, method))
         \/ OfStatic(routes, Resolve(routes, path, method))
         \/ \E methods : Resolve(routes, path, method) = Refused(methods)
         \/ Resolve(routes, path, method) = Resolved("not-found", 0)
  <1> DEFINE mine == Mine(routes, path, method)
             rest == Others(routes, path)
  <1>1. CASE mine # {}
    <2>1. First(mine) \in mine /\ Resolve(routes, path, method) = Resolved("handler", First(mine))
      BY <1>1, Resolves
    <2>2. First(mine) \in DOMAIN routes /\ HandlerKind(routes[First(mine)])
      BY <2>1 DEF Mine, Handlers
    <2>3. Resolve(routes, path, method).by = First(mine)
      BY <2>1 DEF Resolved
    <2> HIDE DEF mine
    <2> QED BY <2>1, <2>2, <2>3 DEF OfHandler
  <1>2. CASE mine = {} /\ rest # {}
    <2>1. First(rest) \in rest /\ Resolve(routes, path, method) = Static(routes, First(rest))
      BY <1>2, Resolves
    <2>2. First(rest) \in DOMAIN routes /\ ~HandlerKind(routes[First(rest)])
      BY <2>1 DEF Others, At, Handlers
    <2>3. Resolve(routes, path, method).by = First(rest)
      BY <2>1 DEF Static, Resolved
    <2> HIDE DEF rest
    <2> QED BY <2>1, <2>2, <2>3 DEF OfStatic
  <1>3. CASE mine = {} /\ rest = {}
    BY <1>3, Resolves
  <1> QED BY <1>1, <1>2, <1>3

\* An answer has four fields, and processing it touches two of them.
LEMMA AnswerFields ==
  ASSUME NEW status, NEW body, NEW headers, NEW by
  PROVE  /\ Answer(status, body, headers, by).status = status
         /\ Answer(status, body, headers, by).body = body
         /\ Answer(status, body, headers, by).headers = headers
         /\ Answer(status, body, headers, by).by = by
  BY DEF Answer

\* What is assumed of a package, and of its routes.
LEMMA RouteOfPackage ==
  ASSUME NEW p \in Packages, NEW i \in DOMAIN Routes(p)
  PROVE  i \in Nat /\ i # 0 /\ IsRoute(Routes(p)[i]) /\ p # None
  BY RequestsAssumption DEF RequestsAssumption

LEMMA PackageResolves ==
  ASSUME NEW p \in Packages, NEW path, NEW method
  PROVE  \/ OfHandler(Routes(p), Resolve(Routes(p), path, method))
         \/ OfStatic(Routes(p), Resolve(Routes(p), path, method))
         \/ \E methods : Resolve(Routes(p), path, method) = Refused(methods)
         \/ Resolve(Routes(p), path, method) = Resolved("not-found", 0)
  BY RequestsAssumption, ResolvesTo DEF RequestsAssumption

\* An answer of some fields, whose length is that of its body if it has one.
Fields     == {"status", "body", "headers", "by"}
IsAnswer(a) == a = Answer(a.status, a.body, a.headers, a.by)
Honest(a)   == IsAnswer(a) /\ ("length" \in DOMAIN a.headers => a.body = a.headers["length"])

LEMMA Processed ==
  ASSUME NEW answer, NEW r
  PROVE  /\ IsAnswer(Process(answer, r))
         /\ Process(answer, r).status = answer.status
         /\ Process(answer, r).by = answer.by
         /\ Process(answer, r).body = BodyOf(r, answer.body)
  BY AnswerFields DEF Process, IsAnswer

LEMMA Failed ==
  ASSUME NEW status, NEW by
  PROVE  /\ IsAnswer(Failure(status, by)) /\ Failure(status, by).status = status /\ Failure(status, by).by = by
         /\ Failure(status, by).body = <<"error">> /\ Failure(status, by).headers = NoHeaders
         /\ Honest(Failure(status, by))
  BY DEF Failure, Answer, IsAnswer, Honest, NoHeaders

LEMMA Responded ==
  ASSUME NEW bytes, NEW base, NEW r, NEW by
  PROVE  LET a == Respond(bytes, base, r, by)
         IN Honest(a) /\ a.status = 200 /\ a.by = by /\ a.body = BodyOf(r, bytes)
  BY DEF Respond, Answer, IsAnswer, Honest, Over, Header

LEMMA NotAllowedIs ==
  ASSUME NEW methods
  PROVE  /\ Honest(NotAllowed(methods)) /\ NotAllowed(methods).status = 405 /\ NotAllowed(methods).by = 0
         /\ NotAllowed(methods).headers["allow"] = methods /\ NotAllowed(methods).body = <<"error">>
  BY DEF NotAllowed, Answer, IsAnswer, Honest, Header

LEMMA DatasetAnswered ==
  ASSUME NEW p, NEW id, NEW bytes, NEW headers, NEW by, headers = NoHeaders \/ headers = Header("length", bytes)
  PROVE  LET a == DatasetAnswer(p, id, bytes, headers, by)
         IN /\ Honest(a) /\ a.by = by /\ a.status = DatasetStatus(p, id) /\ a.status \in {200, 404, 501}
            /\ a.body = IF a.status = 200 THEN bytes ELSE <<"error">>
  <1>1. DatasetStatus(p, id) \in {200, 404, 501}
    BY DEF DatasetStatus
  <1>2. CASE DatasetStatus(p, id) = 200
    BY <1>2 DEF DatasetAnswer, Answer, IsAnswer, Honest, Over, Header, Type, NoHeaders
  <1>3. CASE DatasetStatus(p, id) # 200
    BY <1>1, <1>3, Failed DEF DatasetAnswer
  <1> QED BY <1>2, <1>3

LEMMA Sends ==
  ASSUME NEW a, NEW method, IsAnswer(a)
  PROVE  /\ IsAnswer(Sent(method, a)) /\ Sent(method, a).status = a.status /\ Sent(method, a).by = a.by
         /\ Sent(method, a).headers = a.headers
         /\ Sent(method, a).body = IF method = "HEAD" THEN <<>> ELSE a.body
  BY DEF Sent, IsAnswer, Answer



(***************************************************************************)
(* Whose file a reference names                                             *)
(***************************************************************************)
LEMMA PrefixAndRest ==
  ASSUME NEW s \in Seq(STRING), NEW t \in Seq(STRING), IsStrictPrefix(s, t)
  PROVE  s \o SubSeq(t, Len(s) + 1, Len(t)) = t
  <1>1. Len(s) <= Len(t) /\ SubSeq(s, 1, Len(s)) = SubSeq(t, 1, Len(s))
    BY DEF IsStrictPrefix, IsPrefix
  <1>2. s = SubSeq(t, 1, Len(s)) /\ t = SubSeq(t, 1, Len(t))
    BY <1>1, SubSeqFull
  <1>3. 1 \in 1 .. Len(t) + 1 /\ Len(s) \in 1 - 1 .. Len(t) /\ Len(t) \in Len(s) .. Len(t)
    BY <1>1
  <1>4. SubSeq(t, 1, Len(s)) \o SubSeq(t, Len(s) + 1, Len(t)) = SubSeq(t, 1, Len(t))
    BY <1>3, ConcatAdjacentSubSeq
  <1> QED BY <1>2, <1>4

\* A reference belongs to the dependency with the longest of the guids that begin it
\* (composite.ts:79-100).
LEMMA OwnerIsLongest ==
  ASSUME NEW p \in Packages, NEW ref, IsRef(ref), Owner(p, ref) # 0
  PROVE  /\ Owner(p, ref) \in DOMAIN p.deps
         /\ p.deps[Owner(p, ref)].guid \o Rest(p, Owner(p, ref), ref) = ref.at
         /\ \A e \in DOMAIN p.deps :
              Len(p.deps[e].guid) > Len(p.deps[Owner(p, ref)].guid) => ~IsStrictPrefix(p.deps[e].guid, ref.at)
  <1> DEFINE Guid(i) == p.deps[i].guid
             left    == {Len(ref.at) - Len(Guid(i)) : i \in Owners(p, ref)}
  <1>1. Owners(p, ref) # {}
    BY DEF Owner
  <1>2. \A i \in Owners(p, ref) : Guid(i) \in Seq(STRING) /\ i \in DOMAIN p.deps /\ IsStrictPrefix(Guid(i), ref.at)
    BY RequestsAssumption DEF RequestsAssumption, Owners
  <1>3. \A i \in Owners(p, ref) : Len(Guid(i)) \in Nat /\ Len(Guid(i)) <= Len(ref.at) /\ Len(ref.at) \in Nat
    BY <1>2 DEF IsStrictPrefix, IsPrefix, IsRef
  <1>4. left \subseteq Nat /\ left # {}
    <2>1. \A i \in Owners(p, ref) : Len(ref.at) - Len(Guid(i)) \in Nat
      BY <1>3
    <2> HIDE DEF Guid
    <2> QED BY <1>1, <2>1
  <1>5. PICK i \in Owners(p, ref) : First(left) = Len(ref.at) - Len(Guid(i))
    BY <1>4, Minimum
  <1>6. \A j \in Owners(p, ref) : Len(ref.at) - Len(Guid(j)) \in left
    OBVIOUS
  <1>7. \A j \in Owners(p, ref) : Len(ref.at) - Len(Guid(i)) <= Len(ref.at) - Len(Guid(j))
    BY <1>4, <1>5, <1>6, Minimum
  <1>8. \A j \in Owners(p, ref) : Len(Guid(j)) <= Len(Guid(i))
    BY <1>3, <1>7
  <1>9. /\ Owner(p, ref) \in Owners(p, ref)
        /\ \A j \in Owners(p, ref) : Len(Guid(j)) <= Len(Guid(Owner(p, ref)))
    BY <1>1, <1>8 DEF Owner
  <1>10. Guid(Owner(p, ref)) \o Rest(p, Owner(p, ref), ref) = ref.at
    BY <1>2, <1>9, PrefixAndRest DEF Rest, IsRef
  <1>11. ASSUME NEW e \in DOMAIN p.deps, Len(Guid(e)) > Len(Guid(Owner(p, ref))), IsStrictPrefix(Guid(e), ref.at)
         PROVE  FALSE
    <2>1. e \in Owners(p, ref)
      BY <1>11 DEF Owners
    <2> QED BY <1>3, <1>9, <1>11, <2>1
  <1> QED BY <1>2, <1>9, <1>10, <1>11

\* What a dependency gives for a reference.
Gives(p, ref) ==
  /\ Owner(p, ref) # 0 /\ p.deps[Owner(p, ref)].installed
  /\ Lookup(p.deps[Owner(p, ref)].gives, Rest(p, Owner(p, ref), ref)) = "found"
GivenBy(p, ref) == Given(Owner(p, ref), Rest(p, Owner(p, ref), ref))

\* The worker's answer to a route of a resource.
LEMMA WorkerResourceIs ==
  ASSUME NEW p, NEW r, NEW by, IsRef(r.resource)
  PROVE  LET w     == WorkerResource(p, r, by)
             own   == ~r.resource.uri /\ Lookup(p.own, r.resource.at) = "found"
             given == r.resource.uri /\ Gives(p, r.resource)
         IN /\ IsAnswer(w) /\ w.by = by
            /\ own => w.status = 200 /\ w.body = BodyOf(r, Local(r.resource.at))
            /\ given => w.status = 200 /\ w.body = BodyOf(r, GivenBy(p, r.resource))
            /\ ~own /\ ~given => w = Failure(404, by)
  <1> DEFINE w == WorkerResource(p, r, by)
             Ok(bytes) == Process(Answer(200, bytes, Typed(r, bytes), by), r)
  <1>1. ASSUME NEW bytes
        PROVE  IsAnswer(Ok(bytes)) /\ Ok(bytes).by = by /\ Ok(bytes).status = 200 /\ Ok(bytes).body = BodyOf(r, bytes)
    <2>1. IsAnswer(Answer(200, bytes, Typed(r, bytes), by))
      BY DEF Answer, IsAnswer
    <2> QED BY <2>1, AnswerFields, Processed
  <1>2. r.resource.uri \in BOOLEAN
    BY DEF IsRef
  <1>3. CASE r.resource.uri /\ Gives(p, r.resource)
    <2>1. w = Ok(GivenBy(p, r.resource))
      BY <1>3 DEF WorkerResource, Gives, GivenBy
    <2> HIDE DEF Ok, w
    <2> QED BY <1>1, <1>3, <2>1 DEF w
  <1>4. CASE r.resource.uri /\ ~Gives(p, r.resource)
    <2>1. w = Failure(404, by)
      BY <1>4 DEF WorkerResource, Gives
    <2> QED BY <1>4, <2>1, Failed
  <1>5. CASE ~r.resource.uri /\ Lookup(p.own, r.resource.at) = "found"
    <2>1. w = Ok(Local(r.resource.at))
      BY <1>5 DEF WorkerResource
    <2> HIDE DEF Ok, w
    <2> QED BY <1>1, <1>5, <2>1 DEF w
  <1>6. CASE ~r.resource.uri /\ Lookup(p.own, r.resource.at) # "found"
    <2>1. w = Failure(404, by)
      BY <1>6 DEF WorkerResource
    <2> QED BY <1>6, <2>1, Failed
  <1> QED BY <1>2, <1>3, <1>4, <1>5, <1>6

\* The Node reactor's fall-through takes the first dependency that exports the path.
Givers(p, at) == {d \in DOMAIN p.deps : p.deps[d].installed /\ Lookup(p.deps[d].gives, at) = "found"}

LEMMA FallthroughIs ==
  ASSUME NEW p \in Packages, NEW r, NEW by
  PROVE  LET n == NodeFallthrough(p, r, by)
         IN /\ Honest(n) /\ n.by = by
            /\ Givers(p, r.resource.at) = {} => n = Failure(404, by)
            /\ Givers(p, r.resource.at) # {} =>
                 /\ n.status = 200 /\ n.body = BodyOf(r, Given(First(Givers(p, r.resource.at)), r.resource.at))
                 /\ First(Givers(p, r.resource.at)) \in Givers(p, r.resource.at)
                 /\ \A d \in Givers(p, r.resource.at) : First(Givers(p, r.resource.at)) <= d
  <1> DEFINE gives == Givers(p, r.resource.at)
             n     == NodeFallthrough(p, r, by)
             bytes == Given(First(gives), r.resource.at)
  <1>1. gives \subseteq Nat
    BY RequestsAssumption DEF RequestsAssumption, Givers
  <1>2. CASE gives = {}
    <2>1. n = Failure(404, by)
      BY <1>2 DEF NodeFallthrough, Givers
    <2> QED BY <1>2, <2>1, Failed
  <1>3. CASE gives # {}
    <2>1. n = Respond(bytes, BaseHeaders(r, bytes), r, by)
      BY <1>3 DEF NodeFallthrough, Givers, First
    <2>2. First(gives) \in gives /\ \A d \in gives : First(gives) <= d
      BY <1>1, <1>3, Minimum
    <2>3. Honest(n) /\ n.status = 200 /\ n.by = by /\ n.body = BodyOf(r, bytes)
      BY <2>1, Responded
    <2> QED BY <1>3, <2>2, <2>3
  <1> QED BY <1>2, <1>3

LEMMA NodeResourceIs ==
  ASSUME NEW p \in Packages, NEW r, NEW by, IsRef(r.resource)
  PROVE  LET n     == NodeResource(p, r, by)
             own   == Lookup(p.own, r.resource.at)
         IN /\ Honest(n) /\ n.by = by
            /\ ~r.resource.uri /\ own = "found" => n.status = 200 /\ n.body = BodyOf(r, Local(r.resource.at))
            /\ r.resource.uri /\ Gives(p, r.resource) => n.status = 200 /\ n.body = BodyOf(r, GivenBy(p, r.resource))
            /\ r.resource.uri /\ ~Gives(p, r.resource) => n = Failure(404, by)
            /\ ~r.resource.uri /\ own = "tombstoned" => n = Failure(404, by)
            /\ ~r.resource.uri /\ own \notin {"found", "tombstoned"} => n = NodeFallthrough(p, r, by)
  <1> DEFINE n == NodeResource(p, r, by)
  <1>1. r.resource.uri \in BOOLEAN
    BY DEF IsRef
  <1>2. CASE r.resource.uri /\ Gives(p, r.resource)
    <2>1. n = Respond(GivenBy(p, r.resource), BaseHeaders(r, GivenBy(p, r.resource)), r, by)
      BY <1>2 DEF NodeResource, Gives, GivenBy
    <2> HIDE DEF n
    <2> QED BY <1>2, <2>1, Responded DEF n
  <1>3. CASE r.resource.uri /\ ~Gives(p, r.resource)
    <2>1. n = Failure(404, by)
      BY <1>3 DEF NodeResource, Gives
    <2> HIDE DEF n
    <2> QED BY <1>3, <2>1, Failed DEF n
  <1>4. CASE ~r.resource.uri /\ Lookup(p.own, r.resource.at) = "found"
    <2>1. n = Respond(Local(r.resource.at), BaseHeaders(r, Local(r.resource.at)), r, by)
      BY <1>4 DEF NodeResource
    <2> HIDE DEF n
    <2> QED BY <1>4, <2>1, Responded DEF n
  <1>5. CASE ~r.resource.uri /\ Lookup(p.own, r.resource.at) = "tombstoned"
    <2>1. n = Failure(404, by)
      BY <1>5 DEF NodeResource
    <2> HIDE DEF n
    <2> QED BY <1>5, <2>1, Failed DEF n
  <1>6. CASE ~r.resource.uri /\ Lookup(p.own, r.resource.at) \notin {"found", "tombstoned"}
    <2>1. n = NodeFallthrough(p, r, by)
      BY <1>6 DEF NodeResource
    <2> HIDE DEF n
    <2> QED BY <1>6, <2>1, FallthroughIs DEF n
  <1> QED BY <1>1, <1>2, <1>3, <1>4, <1>5, <1>6

LEMMA CloudflareResourceIs ==
  ASSUME NEW p, NEW r, NEW by, IsRef(r.resource)
  PROVE  LET c   == CloudflareResource(p, r, by)
             own == ~r.resource.uri /\ Lookup(p.own, r.resource.at) = "found"
         IN /\ Honest(c) /\ c.by = by
            /\ own => c.status = 200 /\ c.body = BodyOf(r, Local(r.resource.at))
            /\ ~own => c = Failure(404, by)
  <1> DEFINE c == CloudflareResource(p, r, by)
  <1>1. r.resource.uri \in BOOLEAN
    BY DEF IsRef
  <1>2. CASE ~r.resource.uri /\ Lookup(p.own, r.resource.at) = "found"
    <2>1. c = Respond(Local(r.resource.at), BaseHeaders(r, Local(r.resource.at)), r, by)
      BY <1>2 DEF CloudflareResource
    <2> HIDE DEF c
    <2> QED BY <1>2, <2>1, Responded DEF c
  <1>3. CASE ~(~r.resource.uri /\ Lookup(p.own, r.resource.at) = "found")
    <2>1. c = Failure(404, by)
      BY <1>1, <1>3 DEF CloudflareResource
    <2> HIDE DEF c
    <2> QED BY <1>3, <2>1, Failed DEF c
  <1> QED BY <1>2, <1>3


(***************************************************************************)
(* The answers of the three reactors, by what the resolver found            *)
(***************************************************************************)
Found(p, path, method)     == Resolve(Routes(p), path, method)
FoundRoute(p, path, method) == Routes(p)[Found(p, path, method).by]

FoundHandler(p, path, method)  == OfHandler(Routes(p), Found(p, path, method))
FoundResource(p, path, method) ==
  OfStatic(Routes(p), Found(p, path, method)) /\ FoundRoute(p, path, method).resource # None
FoundDataset(p, path, method)  ==
  OfStatic(Routes(p), Found(p, path, method)) /\ FoundRoute(p, path, method).resource = None
FoundRefused(p, path, method)  == Found(p, path, method) = Refused(Found(p, path, method).allowed)
FoundNothing(p, path, method)  == Found(p, path, method) = Resolved("not-found", 0)

LEMMA FoundIs ==
  ASSUME NEW p \in Packages, NEW path, NEW method
  PROVE  \/ FoundHandler(p, path, method) \/ FoundResource(p, path, method) \/ FoundDataset(p, path, method)
         \/ FoundRefused(p, path, method) \/ FoundNothing(p, path, method)
  <1>1. CASE \E methods : Found(p, path, method) = Refused(methods)
    BY <1>1 DEF FoundRefused, Refused
  <1> QED BY <1>1, PackageResolves DEF FoundHandler, FoundResource, FoundDataset, FoundNothing, Found

\* The route found is one of the package's, of the kind found.
LEMMA FoundRouteIs ==
  ASSUME NEW p \in Packages, NEW path, NEW method
  PROVE  LET by == Found(p, path, method).by
             r  == FoundRoute(p, path, method)
         IN /\ FoundHandler(p, path, method) =>
                 by # 0 /\ by \in Nat /\ IsRoute(r) /\ r.handler # None /\ Found(p, path, method).kind = "handler"
            /\ FoundResource(p, path, method) =>
                 /\ by # 0 /\ by \in Nat /\ IsRoute(r) /\ r.handler = None /\ r.resource # None /\ IsRef(r.resource)
                 /\ Found(p, path, method).kind = "resource"
            /\ FoundDataset(p, path, method) =>
                 /\ by # 0 /\ by \in Nat /\ IsRoute(r) /\ r.handler = None /\ r.resource = None /\ r.dataset # None
                 /\ Found(p, path, method).kind = "dataset"
            /\ FoundRefused(p, path, method) => by = 0 /\ Found(p, path, method).kind = "method-not-allowed"
            /\ FoundNothing(p, path, method) => by = 0 /\ Found(p, path, method).kind = "not-found"
  <1>1. CASE FoundHandler(p, path, method)
    <2>1. Found(p, path, method).by \in DOMAIN Routes(p) /\ HandlerKind(FoundRoute(p, path, method))
      BY <1>1 DEF FoundHandler, OfHandler, FoundRoute
    <2>2. Found(p, path, method).kind = "handler"
      BY <1>1 DEF FoundHandler, OfHandler, Resolved
    <2> QED BY <2>1, <2>2, RouteOfPackage DEF FoundRoute, HandlerKind, FoundResource, FoundDataset, FoundRefused, FoundNothing, OfStatic, Static, Resolved, Refused
  <1>2. CASE FoundResource(p, path, method) \/ FoundDataset(p, path, method)
    <2>1. Found(p, path, method).by \in DOMAIN Routes(p) /\ ~HandlerKind(FoundRoute(p, path, method))
      BY <1>2 DEF FoundResource, FoundDataset, OfStatic, FoundRoute
    <2>2. Found(p, path, method).kind = IF FoundRoute(p, path, method).resource # None THEN "resource" ELSE "dataset"
      BY <1>2 DEF FoundResource, FoundDataset, OfStatic, Static, Resolved, FoundRoute
    <2>3. IsRoute(FoundRoute(p, path, method)) /\ Found(p, path, method).by \in Nat \ {0}
      BY <2>1, RouteOfPackage DEF FoundRoute
    <2>4. ~FoundHandler(p, path, method) /\ ~FoundRefused(p, path, method) /\ ~FoundNothing(p, path, method)
      BY <2>2 DEF FoundHandler, OfHandler, FoundRefused, FoundNothing, Resolved, Refused
    <2>5. FoundResource(p, path, method) => FoundRoute(p, path, method).resource # None
      BY DEF FoundResource
    <2>6. FoundDataset(p, path, method) => FoundRoute(p, path, method).resource = None
      BY DEF FoundDataset
    <2> QED BY <2>1, <2>2, <2>3, <2>4, <2>5, <2>6 DEF HandlerKind, IsRoute
  <1>3. CASE FoundRefused(p, path, method)
    <2>1. Found(p, path, method).kind = "method-not-allowed" /\ Found(p, path, method).by = 0
      BY <1>3 DEF FoundRefused, Refused
    <2> QED BY <2>1 DEF FoundHandler, FoundResource, FoundDataset, FoundNothing, OfHandler, OfStatic, Static, Resolved
  <1>4. CASE FoundNothing(p, path, method)
    <2>1. Found(p, path, method).kind = "not-found" /\ Found(p, path, method).by = 0
      BY <1>4 DEF FoundNothing, Resolved
    <2> QED BY <2>1 DEF FoundHandler, FoundResource, FoundDataset, FoundRefused, OfHandler, OfStatic, Static, Resolved, Refused
  <1> QED BY <1>1, <1>2, <1>3, <1>4

LEMMA NodeServes ==
  ASSUME NEW p \in Packages, NEW m, NEW path, NEW method, path \notin DOMAIN Introspect
  PROVE  LET n  == NodeServe(p, m, path, method)
             by == Found(p, path, method).by
             r  == FoundRoute(p, path, method)
         IN /\ FoundHandler(p, path, method) => n = Failure(501, by)
            /\ FoundResource(p, path, method) => n = IF IsRead(method) THEN NodeResource(p, r, by) ELSE NotAllowed(ReadMethods)
            /\ FoundDataset(p, path, method) => n = IF IsRead(method) THEN NodeDataset(p, r.dataset, by) ELSE NotAllowed(ReadMethods)
            /\ FoundRefused(p, path, method) => n = NotAllowed(Found(p, path, method).allowed)
            /\ FoundNothing(p, path, method) => n = Failure(404, 0)
  <1>1. CASE FoundHandler(p, path, method)
    BY <1>1, FoundRouteIs DEF NodeServe, Found, FoundRoute
  <1>2. CASE FoundResource(p, path, method)
    BY <1>2, FoundRouteIs DEF NodeServe, Found, FoundRoute
  <1>3. CASE FoundDataset(p, path, method)
    BY <1>3, FoundRouteIs DEF NodeServe, Found, FoundRoute
  <1>4. CASE FoundRefused(p, path, method)
    BY <1>4, FoundRouteIs DEF NodeServe, Found, FoundRoute
  <1>5. CASE FoundNothing(p, path, method)
    BY <1>5, FoundRouteIs DEF NodeServe, Found, FoundRoute
  <1> QED BY <1>1, <1>2, <1>3, <1>4, <1>5

LEMMA CloudflareServes ==
  ASSUME NEW p \in Packages, NEW m, NEW path, NEW method, path \notin DOMAIN Introspect
  PROVE  LET c  == CloudflareServe(p, m, path, method)
             by == Found(p, path, method).by
             r  == FoundRoute(p, path, method)
         IN /\ FoundHandler(p, path, method) => c = Failure(501, by)
            /\ FoundResource(p, path, method) => c = IF IsRead(method) THEN CloudflareResource(p, r, by) ELSE NotAllowed(ReadMethods)
            /\ FoundDataset(p, path, method) => c = IF IsRead(method) THEN CloudflareDataset(p, r.dataset, by) ELSE NotAllowed(ReadMethods)
            /\ FoundRefused(p, path, method) => c = NotAllowed(Found(p, path, method).allowed)
            /\ FoundNothing(p, path, method) => c = Failure(404, 0)
  <1>0. p # None
    BY RequestsAssumption DEF RequestsAssumption
  <1>1. CASE FoundHandler(p, path, method)
    BY <1>0, <1>1, FoundRouteIs DEF CloudflareServe, Found, FoundRoute
  <1>2. CASE FoundResource(p, path, method)
    BY <1>0, <1>2, FoundRouteIs DEF CloudflareServe, Found, FoundRoute
  <1>3. CASE FoundDataset(p, path, method)
    BY <1>0, <1>3, FoundRouteIs DEF CloudflareServe, Found, FoundRoute
  <1>4. CASE FoundRefused(p, path, method)
    BY <1>0, <1>4, FoundRouteIs DEF CloudflareServe, Found, FoundRoute
  <1>5. CASE FoundNothing(p, path, method)
    BY <1>0, <1>5, FoundRouteIs DEF CloudflareServe, Found, FoundRoute
  <1> QED BY <1>1, <1>2, <1>3, <1>4, <1>5

LEMMA WorkerServes ==
  ASSUME NEW p \in Packages, NEW m, NEW path, NEW method, path # None, path \notin DOMAIN Introspect
  PROVE  LET w  == WorkerServe(p, m, path, method)
             by == Found(p, path, method).by
             r  == FoundRoute(p, path, method)
         IN /\ FoundHandler(p, path, method) => w = HandlerAnswer(p, r, by)
            /\ FoundResource(p, path, method) => w = WorkerResource(p, r, by)
            /\ FoundDataset(p, path, method) => w = WorkerDataset(p, r, by)
            /\ FoundRefused(p, path, method) => w = NotAllowed(Found(p, path, method).allowed)
            /\ FoundNothing(p, path, method) => w = Failure(404, 0)
            /\ Runs(p, path, method) <=> FoundHandler(p, path, method) /\ Runnable(p, HandlerFile(p, r))
  <1>0. p # None
    BY RequestsAssumption DEF RequestsAssumption
  <1>1. CASE FoundHandler(p, path, method)
    BY <1>0, <1>1, FoundRouteIs DEF WorkerServe, Runs, Found, FoundRoute
  <1>2. CASE FoundResource(p, path, method)
    <2>1. Found(p, path, method).kind = "resource" /\ ~FoundHandler(p, path, method)
      BY <1>2, FoundRouteIs
    <2> QED BY <1>0, <1>2, <2>1, FoundRouteIs DEF WorkerServe, Runs, Found, FoundRoute
  <1>3. CASE FoundDataset(p, path, method)
    BY <1>0, <1>3, FoundRouteIs DEF WorkerServe, Runs, Found, FoundRoute
  <1>4. CASE FoundRefused(p, path, method)
    BY <1>0, <1>4, FoundRouteIs DEF WorkerServe, Runs, Found, FoundRoute
  <1>5. CASE FoundNothing(p, path, method)
    BY <1>0, <1>5, FoundRouteIs DEF WorkerServe, Runs, Found, FoundRoute
  <1> QED BY <1>1, <1>2, <1>3, <1>4, <1>5, FoundIs


\* The worker answers at once unless it runs a handler; the answer names the route found.
LEMMA WorkerAnswers ==
  ASSUME NEW p \in Packages \cup {None}, NEW m, NEW path, NEW method
  PROVE  LET w == WorkerServe(p, m, path, method)
         IN /\ Runs(p, path, method) => w = Unanswered
            /\ ~Runs(p, path, method) => w.status # 0
            /\ p # None /\ path # None /\ path \notin DOMAIN Introspect /\ ~Runs(p, path, method) =>
                 w.by = Found(p, path, method).by
  <1>1. CASE path = None
    BY <1>1, Failed DEF WorkerServe, Runs
  <1>2. CASE path # None /\ path \in DOMAIN Introspect
    <2>1. WorkerServe(p, m, path, method).status = 200
      BY <1>2, AnswerFields DEF WorkerServe
    <2> QED BY <1>2, <2>1 DEF Runs
  <1>3. CASE path # None /\ path \notin DOMAIN Introspect /\ p = None
    BY <1>3, Failed DEF WorkerServe, Runs
  <1>4. CASE path # None /\ path \notin DOMAIN Introspect /\ p # None
    <2> DEFINE w  == WorkerServe(p, m, path, method)
               by == Found(p, path, method).by
               r  == FoundRoute(p, path, method)
    <2>1. p \in Packages
      BY <1>4
    <2>2. CASE FoundHandler(p, path, method)
      <3>1. w = HandlerAnswer(p, r, by)
        BY <1>4, <2>1, <2>2, WorkerServes
      <3>2. Runs(p, path, method) <=> Runnable(p, HandlerFile(p, r))
        BY <1>4, <2>1, <2>2, WorkerServes
      <3> HIDE DEF w, r, by
      <3>3. HandlerFile(p, r).fails \in {0, 404}
        BY DEF HandlerFile
      <3>4. CASE Runnable(p, HandlerFile(p, r))
        <4>1. HandlerAnswer(p, r, by) = Unanswered
          BY <3>4 DEF HandlerAnswer, Runnable
        <4> QED BY <3>1, <3>2, <3>4, <4>1 DEF w
      <3>5. CASE ~Runnable(p, HandlerFile(p, r))
        <4>1. \/ HandlerAnswer(p, r, by) = Failure(404, by)
              \/ HandlerAnswer(p, r, by) = Failure(501, by)
              \/ HandlerAnswer(p, r, by) = Process(Failure(502, by), r)
          BY <3>3, <3>5 DEF HandlerAnswer, Runnable
        <4>2. w.status # 0 /\ w.by = by
          BY <3>1, <4>1, Failed, Processed
        <4> QED BY <3>2, <3>5, <4>2 DEF w, by
      <3> QED BY <3>4, <3>5
    <2>3. CASE ~FoundHandler(p, path, method)
      <3>1. ~Runs(p, path, method)
        BY <1>4, <2>1, <2>3, WorkerServes
      <3>2. ASSUME FoundResource(p, path, method) PROVE w.status # 0 /\ w.by = by
        <4>1. w = WorkerResource(p, r, by) /\ IsRef(r.resource)
          BY <1>4, <2>1, <3>2, WorkerServes, FoundRouteIs
        <4> HIDE DEF w, r, by
        <4>2. w.by = by /\ (w.status = 200 \/ w = Failure(404, by))
          BY <4>1, WorkerResourceIs
        <4> QED BY <4>2, Failed
      <3>3. ASSUME FoundDataset(p, path, method) PROVE w.status # 0 /\ w.by = by
        <4>1. w = WorkerDataset(p, r, by)
          BY <1>4, <2>1, <3>3, WorkerServes
        <4> HIDE DEF w, r, by
        <4>2. CASE r.access # 0
          <5>1. w = Failure(r.access, by)
            BY <4>1, <4>2 DEF WorkerDataset
          <5> QED BY <4>2, <5>1, Failed
        <4>3. CASE r.access = 0
          <5>1. w = DatasetAnswer(p, r.dataset, Local(p.data[r.dataset].source), NoHeaders, by)
            BY <4>1, <4>3 DEF WorkerDataset
          <5>2. w.status \in {200, 404, 501} /\ w.by = by
            BY <5>1, DatasetAnswered
          <5> QED BY <5>2
        <4> QED BY <4>2, <4>3
      <3>4. ASSUME FoundRefused(p, path, method) PROVE w.status # 0 /\ w.by = by
        <4>1. w = NotAllowed(Found(p, path, method).allowed) /\ by = 0
          BY <1>4, <2>1, <3>4, WorkerServes, FoundRouteIs
        <4> HIDE DEF w, by
        <4> QED BY <4>1, NotAllowedIs
      <3>5. ASSUME FoundNothing(p, path, method) PROVE w.status # 0 /\ w.by = by
        <4>1. w = Failure(404, 0) /\ by = 0
          BY <1>4, <2>1, <3>5, WorkerServes, FoundRouteIs
        <4> HIDE DEF w, by
        <4> QED BY <4>1, Failed
      <3> HIDE DEF w, by
      <3>6. w.status # 0 /\ w.by = by
        BY <2>1, <2>3, <3>2, <3>3, <3>4, <3>5, FoundIs
      <3> QED BY <3>1, <3>6 DEF w, by
    <2> QED BY <2>2, <2>3
  <1> QED BY <1>1, <1>2, <1>3, <1>4

LEMMA InitAnswers == Init => Answers
  BY DEF Init, Answers, States

LEMMA PackageIs ==
  ASSUME Inv, NEW m \in 0 .. Len(models)
  PROVE  Package(m) \in Packages \cup {None} /\ (m # 0 => Package(m) \in Packages /\ Package(m) = models[m])
  BY DEF Inv, Stored, Package

LEMMA ArriveAnswers ==
  ASSUME Inv, Answers, NEW s \in Slots, NEW raw, NEW method, Arrive(s, raw, method)
  PROVE  Answers'
  <1> DEFINE path == StripScope(raw)
             p    == Package(current)
             key  == Key(current, HandlerFile(p, Routes(p)[Resolve(Routes(p), path, method).by]))
             next == asked'[s]
  <1>1. models' = models /\ current' = current /\ Len(models) \in Nat /\ current \in 0 .. Len(models)
    BY DEF Arrive, Inv, Stored
  <1>2. /\ DOMAIN asked' = Slots /\ DOMAIN worker' = Slots /\ DOMAIN others' = Slots
        /\ \A t \in Slots : t # s => UNCHANGED <<asked[t], pc[t], worker[t], others[t]>>
    BY DEF Arrive, Inv, Stored, Answers
  <1>3. pc' \in [Slots -> States]
    BY DEF Arrive, Answers, States
  <1>4. next.model = current /\ next.path = path /\ next.method = method
    BY DEF Arrive, Inv, Stored
  <1>5. worker'[s] = WorkerServe(p, current, path, method)
    BY DEF Arrive, Answers
  <1>6. others'[s] = [node |-> NodeSends(p, current, path, method), cloudflare |-> CloudflareSends(p, current, path, method)]
    BY DEF Arrive, Answers
  <1>7. IF Runs(p, path, method)
          THEN next.key = key /\ next.by = Resolve(Routes(p), path, method).by /\ pc'[s] = "import"
          ELSE next.key = NoKey /\ pc'[s] = "done"
    BY DEF Arrive, Inv, Stored, Answers
  <1>8. key # NoKey
    BY DEF Key, NoKey
  <1>9. p \in Packages \cup {None}
    BY <1>1, PackageIs
  <1> HIDE DEF path, p, key, next
  <1>10. pc'[s] # "free" /\ (pc'[s] # "done" => worker'[s] = Unanswered)
    BY <1>5, <1>7, <1>9, WorkerAnswers
  <1>11. AsAsked(p, next, others'[s], worker'[s], pc'[s])
    BY <1>4, <1>5, <1>6, <1>7, <1>8 DEF AsAsked
  <1>12. Package(asked[s].model)' = p
    BY <1>1, <1>4 DEF Package, p, next
  <1>13. Answered(s)'
    <2>1. Answered(s)' = AsAsked(Package(asked[s].model)', next, others'[s], worker'[s], pc'[s])
      BY DEF Answered, next
    <2> QED BY <1>11, <1>12, <2>1
  <1>14. ASSUME NEW t \in Slots, t # s
         PROVE  /\ asked'[t].model \in 0 .. Len(models')
                /\ pc'[t] # "done" => worker'[t] = Unanswered'
                /\ IF pc'[t] = "free" THEN asked'[t].key = NoKey ELSE Answered(t)'
    <2>1. UNCHANGED <<asked[t], pc[t], worker[t], others[t]>>
      BY <1>2, <1>14
    <2>2. /\ asked[t].model \in 0 .. Len(models)
          /\ pc[t] # "done" => worker[t] = Unanswered
          /\ IF pc[t] = "free" THEN asked[t].key = NoKey ELSE Answered(t)
      BY DEF Answers
    <2>3. pc[t] # "free" => Answered(t)'
      BY <1>1, <2>1, <2>2, AnsweredKept
    <2> QED BY <1>1, <2>1, <2>2, <2>3 DEF Unanswered
  <1>15. /\ asked'[s].model \in 0 .. Len(models')
         /\ pc'[s] # "done" => worker'[s] = Unanswered'
         /\ IF pc'[s] = "free" THEN asked'[s].key = NoKey ELSE Answered(s)'
    BY <1>1, <1>4, <1>10, <1>13 DEF next, Unanswered
  <1> QED BY <1>2, <1>3, <1>14, <1>15 DEF Answers, NoKey

\* A handler's answer disturbs nothing but the worker's.
LEMMA ReplyAnswers ==
  ASSUME Inv, Answers, NEW s \in Slots, asked[s].key # NoKey, UNCHANGED <<models, asked, others>>,
         pc' \in [Slots -> States], DOMAIN worker' = Slots, pc'[s] # "free", pc'[s] # "done" => worker'[s] = Unanswered,
         \A t \in Slots : t # s => UNCHANGED <<pc[t], worker[t]>>
  PROVE  Answers'
  <1>1. ASSUME NEW t \in Slots, pc'[t] # "free" PROVE Answered(t)'
    <2>1. asked[t].model \in 0 .. Len(models)
      BY DEF Answers
    <2>2. CASE t = s
      <3>1. Answered(s)
        BY DEF Answers
      <3>2. Runs(Package(asked[s].model), asked[s].path, asked[s].method)
        BY <3>1 DEF Answered, AsAsked
      <3>3. AsAsked(Package(asked[s].model), asked[s], others[s], worker'[s], pc'[s])
        BY <3>1, <3>2 DEF Answered, AsAsked
      <3>4. Package(asked[s].model)' = Package(asked[s].model)
        BY DEF Package
      <3>5. Answered(s)' = AsAsked(Package(asked[s].model)', asked'[s], others'[s], worker'[s], pc'[s])
        BY DEF Answered
      <3> QED BY <2>2, <3>3, <3>4, <3>5
    <2>3. CASE t # s
      <3>1. Answered(t)
        BY <1>1, <2>3 DEF Answers
      <3> QED BY <2>1, <2>3, <3>1, AnsweredKept
    <2> QED BY <2>2, <2>3
  <1>2. ASSUME NEW t \in Slots
        PROVE  /\ asked'[t].model \in 0 .. Len(models')
               /\ pc'[t] # "done" => worker'[t] = Unanswered'
               /\ pc'[t] = "free" => asked'[t].key = NoKey
    BY DEF Answers, Unanswered
  <1> QED BY <1>1, <1>2 DEF Answers, NoKey

\* Steps that touch no request.
LEMMA QuietAnswers ==
  ASSUME Inv, Answers, UNCHANGED <<asked, others, worker, pc>>, Len(models') \in Nat, Len(models') >= Len(models),
         \A m \in 1 .. Len(models) : models'[m] = models[m]
  PROVE  Answers'
  <1>1. ASSUME NEW t \in Slots, pc'[t] # "free" PROVE Answered(t)'
    BY <1>1, AnsweredKept DEF Answers
  <1>2. Len(models) \in Nat
    BY DEF Inv, Stored
  <1>3. ASSUME NEW t \in Slots
        PROVE  /\ asked'[t].model \in 0 .. Len(models')
               /\ pc'[t] # "done" => worker'[t] = Unanswered'
               /\ pc'[t] = "free" => asked'[t].key = NoKey
    BY <1>2 DEF Answers, Unanswered
  <1> QED BY <1>1, <1>3 DEF Answers, NoKey

LEMMA NextAnswers ==
  ASSUME Inv, Verdicts, Answers, [Next]_vars
  PROVE  Answers'
  <1>0. Len(models) \in Nat
    BY DEF Inv, Stored
  <1>1. CASE \E s \in Slots, method \in Methods : \E raw : Arrive(s, raw, method)
    BY <1>1, ArriveAnswers
  <1>2. ASSUME NEW s \in Slots, Imported(s) \/ Called(s) PROVE Answers'
    <2>1. UNCHANGED <<models, asked, others>> /\ asked[s].key # NoKey /\ pc[s] \notin {"free", "done"}
      BY <1>2 DEF Imported, Called, Verdicts
    <2>2. CASE \E answer : Reply(s, answer)
      <3>1. pc' \in [Slots -> States] /\ pc'[s] = "done" /\ DOMAIN worker' = Slots
        BY <2>2 DEF Reply, Answers, States
      <3>2. \A t \in Slots : t # s => UNCHANGED <<pc[t], worker[t]>>
        BY <2>2 DEF Reply, Answers
      <3> QED BY <2>1, <3>1, <3>2, ReplyAnswers
    <2>3. CASE pc' = [pc EXCEPT ![s] = "entry"] /\ worker' = worker
      <3>1. pc' \in [Slots -> States] /\ pc'[s] = "entry" /\ DOMAIN worker' = Slots /\ worker'[s] = Unanswered
        BY <2>1, <2>3 DEF Answers, States
      <3>2. \A t \in Slots : t # s => UNCHANGED <<pc[t], worker[t]>>
        BY <2>3 DEF Answers
      <3> QED BY <2>1, <3>1, <3>2, ReplyAnswers
    <2> QED BY <1>2, <2>2, <2>3 DEF Imported, Called
  <1>3. CASE \E key \in DOMAIN modules : Settle(key)
    <2>1. UNCHANGED <<models, asked, others, worker, pc>>
      BY <1>3 DEF Settle
    <2> QED BY <1>0, <2>1, QuietAnswers
  <1>4. ASSUME NEW p \in Packages, Install(p) PROVE Answers'
    <2>1. UNCHANGED <<asked, others, worker, pc>>
      BY <1>4 DEF Install
    <2> QED BY <1>0, <1>4, <2>1, ModelsGrow, QuietAnswers DEF Inv
  <1>5. CASE UNCHANGED vars
    <2>1. UNCHANGED <<models, asked, others, worker, pc>>
      BY <1>5 DEF vars
    <2> QED BY <1>0, <2>1, QuietAnswers
  <1> QED BY <1>1, <1>2, <1>3, <1>4, <1>5 DEF Next


(***************************************************************************)
(* What an answered request got                                             *)
(***************************************************************************)
Every == Inv /\ Verdicts /\ Answers

LEMMA EveryIsInvariant == Spec => []Every
  <1>1. Init => Every
    BY InitInv, InitAnswers DEF Init, Verdicts, Every
  <1>2. Every /\ [Next]_vars => Every'
    BY NextInv, NextVerdicts, NextAnswers DEF Every
  <1> QED BY <1>1, <1>2, PTL DEF Spec

LEMMA VerdictIs ==
  ASSUME NEW s
  PROVE  Verdict(s).status # 0 /\ Verdict(s).by = asked[s].by /\ (Verdict(s).body = <<"error">> \/ Verdict(s).body[1] = "script")
  <1>1. \/ \E status \in {500, 502} : Verdict(s) = Failure(status, asked[s].by)
        \/ Verdict(s) = Answer(200, <<"script", modules[asked[s].key].source>>, NoHeaders, asked[s].by)
    BY DEF Verdict, Outcome
  <1>2. CASE \E status \in {500, 502} : Verdict(s) = Failure(status, asked[s].by)
    BY <1>2, Failed
  <1>3. CASE Verdict(s) = Answer(200, <<"script", modules[asked[s].key].source>>, NoHeaders, asked[s].by)
    <2>1. Verdict(s).status = 200 /\ Verdict(s).by = asked[s].by /\ Verdict(s).body = <<"script", modules[asked[s].key].source>>
      BY <1>3, AnswerFields
    <2> QED BY <2>1
  <1> QED BY <1>1, <1>2, <1>3

\* An answered request, as its package and its question determine it.
LEMMA DoneIs ==
  ASSUME Every, NEW s \in Slots, pc[s] = "done"
  PROVE  LET p == Package(asked[s].model)
             a == asked[s]
         IN /\ p \in Packages \cup {None} /\ (a.model # 0 => p \in Packages /\ p = Asked(s))
            /\ others[s].node = NodeSends(p, a.model, a.path, a.method)
            /\ others[s].cloudflare = CloudflareSends(p, a.model, a.path, a.method)
            /\ Runs(p, a.path, a.method) =>
                 /\ worker[s] = Process(Verdict(s), FoundRoute(p, a.path, a.method))
                 /\ a.by = Found(p, a.path, a.method).by /\ a.model # 0
            /\ ~Runs(p, a.path, a.method) => worker[s] = WorkerServe(p, a.model, a.path, a.method)
  <1> DEFINE p == Package(asked[s].model)
             a == asked[s]
  <1>1. Answered(s) /\ a.model \in 0 .. Len(models)
    BY DEF Every, Answers
  <1>2. p \in Packages \cup {None} /\ (a.model # 0 => p \in Packages /\ p = Asked(s))
    BY <1>1, PackageIs DEF Every, Asked
  <1>3. others[s].node = NodeSends(p, a.model, a.path, a.method) /\ others[s].cloudflare = CloudflareSends(p, a.model, a.path, a.method)
    BY <1>1 DEF Answered, AsAsked
  <1>4. CASE Runs(p, a.path, a.method)
    <2>1. a.key # NoKey /\ a.by = Found(p, a.path, a.method).by
      BY <1>1, <1>4 DEF Answered, AsAsked, Found
    <2>2. Judged(s)
      BY <2>1 DEF Every, Verdicts
    <2>3. p # None /\ a.model # 0
      BY <1>4 DEF Runs, Package
    <2>4. RouteOf(s) = FoundRoute(p, a.path, a.method)
      BY <1>2, <2>1, <2>3 DEF RouteOf, FoundRoute, Asked
    <2> HIDE DEF p, a
    <2>5. worker[s] = Process(Verdict(s), RouteOf(s))
      BY <2>2 DEF Judged
    <2> QED BY <1>2, <1>3, <1>4, <2>1, <2>3, <2>4, <2>5 DEF p, a
  <1>5. CASE ~Runs(p, a.path, a.method)
    <2>1. worker[s] = WorkerServe(p, a.model, a.path, a.method)
      BY <1>1, <1>5 DEF Answered, AsAsked
    <2> QED BY <1>2, <1>3, <1>5, <2>1
  <1> QED BY <1>4, <1>5

\* Every answer of the worker has a status, and names the route found.
LEMMA WorkerDone ==
  ASSUME Every, NEW s \in Slots, pc[s] = "done"
  PROVE  /\ worker[s].status # 0
         /\ OnPackage(s) => worker[s].by = Found(Asked(s), asked[s].path, asked[s].method).by
  <1> DEFINE p == Package(asked[s].model)
             a == asked[s]
  <1>1. CASE Runs(p, a.path, a.method)
    <2>1. worker[s] = Process(Verdict(s), FoundRoute(p, a.path, a.method))
      BY <1>1, DoneIs
    <2>2. a.by = Found(p, a.path, a.method).by /\ p = Asked(s)
      BY <1>1, DoneIs
    <2>3. worker[s].status = Verdict(s).status /\ worker[s].by = Verdict(s).by
      BY <2>1, Processed
    <2> QED BY <2>2, <2>3, VerdictIs
  <1>2. CASE ~Runs(p, a.path, a.method)
    <2>1. worker[s] = WorkerServe(p, a.model, a.path, a.method) /\ p \in Packages \cup {None}
      BY <1>2, DoneIs
    <2>2. worker[s].status # 0
      BY <1>2, <2>1, WorkerAnswers
    <2>3. ASSUME OnPackage(s) PROVE worker[s].by = Found(Asked(s), asked[s].path, asked[s].method).by
      <3>1. p \in Packages /\ p = Asked(s)
        BY <2>3, DoneIs DEF OnPackage
      <3>2. p # None /\ a.path # None /\ a.path \notin DOMAIN Introspect
        BY <2>3, <3>1, RequestsAssumption DEF OnPackage, Done, RequestsAssumption
      <3> QED BY <1>2, <2>1, <3>1, <3>2, WorkerAnswers
    <2> QED BY <2>2, <2>3
  <1> QED BY <1>1, <1>2

LEMMA EveryIsTyped == Every => TypeOK
  <1> SUFFICES ASSUME Every PROVE TypeOK
    OBVIOUS
  <1>1. models \in Seq(Packages) /\ current \in 0 .. Len(models)
    BY DEF Every, Inv, Stored
  <1>2. \A k \in DOMAIN modules : modules[k].state \in {"loading", "loaded", "failed"}
    BY DEF Every, Verdicts, HasState
  <1>3. pc \in [Slots -> {"free", "import", "entry", "done"}]
    BY DEF Every, Answers, States
  <1>4. ASSUME NEW s \in Slots
        PROVE  /\ asked[s].model \in 0 .. Len(models)
               /\ pc[s] = "done" <=> worker[s].status # 0
               /\ pc[s] \in {"import", "entry"} => asked[s].key \in DOMAIN modules
               /\ pc[s] = "entry" => modules[asked[s].key].state = "loaded"
    <2>1. pc[s] # "done" => worker[s].status = 0
      BY Failed DEF Every, Answers, Unanswered
    <2>2. pc[s] = "done" => worker[s].status # 0
      BY WorkerDone
    <2>3. pc[s] \in {"import", "entry"} => asked[s].key # NoKey
      BY DEF Every, Verdicts
    <2>4. asked[s].key # NoKey => Waits(s) /\ Judged(s)
      BY DEF Every, Verdicts, Inv
    <2> QED BY <2>1, <2>2, <2>3, <2>4 DEF Waits, Judged, Every, Answers
  <1> QED BY <1>1, <1>2, <1>3, <1>4 DEF TypeOK

\* Every variable keeps its type, a request is answered exactly when it is done, and one
\* that calls an entry has an imported module (fetch-handler.ts:69-120,272-322).
THEOREM TypeCorrect == Spec => []TypeOK
  BY EveryIsInvariant, EveryIsTyped, PTL

\* The pipelines' answers are honest about their length.
LEMMA NodeHonest ==
  ASSUME NEW p \in Packages, NEW m, NEW path, NEW method
  PROVE  Honest(NodeServe(p, m, path, method))
  <1> DEFINE n  == NodeServe(p, m, path, method)
             by == Found(p, path, method).by
             r  == FoundRoute(p, path, method)
  <1>1. CASE path \in DOMAIN Introspect
    <2>1. n = Answer(200, NodeReport(path, p, m), NoHeaders, 0) \/ n = NotAllowed(ReadMethods)
      BY <1>1 DEF NodeServe
    <2>2. Honest(Answer(200, NodeReport(path, p, m), NoHeaders, 0))
      BY AnswerFields DEF Honest, IsAnswer, NoHeaders
    <2> HIDE DEF n
    <2> QED BY <2>1, <2>2, NotAllowedIs DEF n
  <1>2. CASE path \notin DOMAIN Introspect
    <2>1. \/ \E status, b : n = Failure(status, b)
          \/ \E methods : n = NotAllowed(methods)
          \/ FoundResource(p, path, method) /\ n = NodeResource(p, r, by)
          \/ n = NodeDataset(p, r.dataset, by)
      BY <1>2, NodeServes, FoundIs
    <2>2. FoundResource(p, path, method) => IsRef(r.resource)
      BY FoundRouteIs
    <2> HIDE DEF n, r, by
    <2>3. CASE FoundResource(p, path, method) /\ n = NodeResource(p, r, by)
      BY <2>2, <2>3, NodeResourceIs DEF n
    <2>4. CASE n = NodeDataset(p, r.dataset, by)
      BY <2>4, DatasetAnswered DEF NodeDataset, n
    <2> QED BY <2>1, <2>3, <2>4, Failed, NotAllowedIs DEF n
  <1> QED BY <1>1, <1>2

LEMMA CloudflareHonest ==
  ASSUME NEW p \in Packages \cup {None}, NEW m, NEW path, NEW method
  PROVE  Honest(CloudflareServe(p, m, path, method))
  <1> DEFINE c  == CloudflareServe(p, m, path, method)
             by == Found(p, path, method).by
             r  == FoundRoute(p, path, method)
  <1>1. CASE path \in DOMAIN Introspect
    <2>1. c = Answer(200, CloudflareReport(path, p, m), NoHeaders, 0) \/ c = NotAllowed(ReadMethods)
      BY <1>1 DEF CloudflareServe
    <2>2. Honest(Answer(200, CloudflareReport(path, p, m), NoHeaders, 0))
      BY AnswerFields DEF Honest, IsAnswer, NoHeaders
    <2> HIDE DEF c
    <2> QED BY <2>1, <2>2, NotAllowedIs DEF c
  <1>2. CASE path \notin DOMAIN Introspect /\ p \in Packages
    <2>1. \/ \E status, b : c = Failure(status, b)
          \/ \E methods : c = NotAllowed(methods)
          \/ FoundResource(p, path, method) /\ c = CloudflareResource(p, r, by)
          \/ c = CloudflareDataset(p, r.dataset, by)
      BY <1>2, CloudflareServes, FoundIs
    <2>2. FoundResource(p, path, method) => IsRef(r.resource)
      BY <1>2, FoundRouteIs
    <2> HIDE DEF c, r, by
    <2>3. CASE FoundResource(p, path, method) /\ c = CloudflareResource(p, r, by)
      BY <2>2, <2>3, CloudflareResourceIs DEF c
    <2>4. CASE c = CloudflareDataset(p, r.dataset, by)
      BY <2>4, DatasetAnswered DEF CloudflareDataset, c
    <2> QED BY <2>1, <2>3, <2>4, Failed, NotAllowedIs DEF c
  <1>3. CASE path \notin DOMAIN Introspect /\ p = None
    BY <1>3, Failed DEF CloudflareServe
  <1> QED BY <1>1, <1>2, <1>3

LEMMA EveryIsHonest == Every => LengthIsBody
  <1> SUFFICES ASSUME Every, NEW s \in Slots, Done(s), NEW answer \in {others[s].node, others[s].cloudflare},
                      "length" \in DOMAIN answer.headers
               PROVE  answer.body = IF asked[s].method = "HEAD" THEN <<>> ELSE answer.headers["length"]
    BY DEF LengthIsBody
  <1> DEFINE p == Package(asked[s].model)
             a == asked[s]
  <1>1. answer \in {NodeSends(p, a.model, a.path, a.method), CloudflareSends(p, a.model, a.path, a.method)} /\ p \in Packages \cup {None}
    BY DoneIs DEF Done
  <1>2. answer = Unanswered \/ \E f : Honest(f) /\ answer = Sent(a.method, f)
    <2>1. CASE answer = NodeSends(p, a.model, a.path, a.method)
      BY <1>1, <2>1, NodeHonest DEF NodeSends
    <2>2. CASE answer = CloudflareSends(p, a.model, a.path, a.method)
      BY <1>1, <2>2, CloudflareHonest DEF CloudflareSends, Done
    <2> QED BY <1>1, <2>1, <2>2
  <1>3. answer # Unanswered
    BY Failed DEF Unanswered, NoHeaders
  <1>4. PICK f : Honest(f) /\ answer = Sent(a.method, f)
    BY <1>2, <1>3
  <1>5. answer.headers = f.headers /\ answer.body = IF a.method = "HEAD" THEN <<>> ELSE f.body
    BY <1>4, Sends DEF Honest
  <1> QED BY <1>4, <1>5 DEF Honest

\* What the two pipelines send has the length it announces, whatever the route declares
\* (reactor-node/src/serving.ts:255-267, reactor-cloudflare/src/serving.ts:181-194).
THEOREM LengthHolds == Spec => []LengthIsBody
  BY EveryIsInvariant, EveryIsHonest, PTL


(***************************************************************************)
(* The three reactors compared                                              *)
(***************************************************************************)
OwnRange(p) == \A at : Lookup(p.own, at) \in {"found", "tombstoned", "not-found"}
LEMMA OwnIs ==
  ASSUME NEW p \in Packages
  PROVE  OwnRange(p)
  BY RequestsAssumption DEF RequestsAssumption, OwnRange, Lookup

\* On one route of a resource.
LEMMA ResourceAgrees ==
  ASSUME NEW p \in Packages, NEW r, NEW by, IsRef(r.resource)
  PROVE  LET w == WorkerResource(p, r, by)
             n == NodeResource(p, r, by)
             c == CloudflareResource(p, r, by)
         IN /\ Same(w, n) \/ (~r.resource.uri /\ w.status = 404 /\ Lookup(p.own, r.resource.at) = "not-found")
            /\ Same(w, c) \/ (r.resource.uri /\ c.status = 404)
  <1> DEFINE w == WorkerResource(p, r, by)
             n == NodeResource(p, r, by)
             c == CloudflareResource(p, r, by)
             own == Lookup(p.own, r.resource.at)
  <1>1. r.resource.uri \in BOOLEAN /\ own \in {"found", "tombstoned", "not-found"}
    BY OwnIs DEF IsRef, OwnRange
  <1>2. CASE r.resource.uri
    <2>1. c.status = 404
      BY <1>2, CloudflareResourceIs, Failed
    <2>2. CASE Gives(p, r.resource)
      <3>1. w.status = 200 /\ w.body = BodyOf(r, GivenBy(p, r.resource)) /\ w.by = by
        BY <1>2, <2>2, WorkerResourceIs
      <3>2. n.status = 200 /\ n.body = BodyOf(r, GivenBy(p, r.resource)) /\ n.by = by
        BY <1>2, <2>2, NodeResourceIs
      <3> QED BY <1>2, <2>1, <3>1, <3>2 DEF Same
    <2>3. CASE ~Gives(p, r.resource)
      <3>1. w = Failure(404, by) /\ n = Failure(404, by)
        BY <1>2, <2>3, WorkerResourceIs, NodeResourceIs
      <3> QED BY <1>2, <2>1, <3>1 DEF Same
    <2> QED BY <2>2, <2>3
  <1>3. CASE ~r.resource.uri /\ own = "found"
    <2>1. w.status = 200 /\ w.body = BodyOf(r, Local(r.resource.at)) /\ w.by = by
      BY <1>3, WorkerResourceIs
    <2>2. n.status = 200 /\ n.body = BodyOf(r, Local(r.resource.at)) /\ n.by = by
      BY <1>3, NodeResourceIs
    <2>3. c.status = 200 /\ c.body = BodyOf(r, Local(r.resource.at)) /\ c.by = by
      BY <1>3, CloudflareResourceIs
    <2> QED BY <2>1, <2>2, <2>3 DEF Same
  <1>4. CASE ~r.resource.uri /\ own # "found"
    <2>1. w = Failure(404, by) /\ c = Failure(404, by)
      BY <1>4, WorkerResourceIs, CloudflareResourceIs
    <2>2. own = "tombstoned" => n = Failure(404, by)
      BY <1>4, NodeResourceIs
    <2> HIDE DEF w, c, n
    <2>3. w.status = 404
      BY <2>1, Failed
    <2> QED BY <1>1, <1>4, <2>1, <2>2, <2>3 DEF Same, w, c, n
  <1> QED BY <1>1, <1>2, <1>3, <1>4

\* On one route of a dataset without access control.
LEMMA DatasetAgrees ==
  ASSUME NEW p \in Packages, NEW r, NEW by, r.access = 0
  PROVE  LET w == WorkerDataset(p, r, by)
             n == NodeDataset(p, r.dataset, by)
             c == CloudflareDataset(p, r.dataset, by)
         IN /\ Same(w, n) \/ (w.status = 200 /\ p.data[r.dataset].yaml)
            /\ Same(w, c)
  <1> DEFINE w == WorkerDataset(p, r, by)
             n == NodeDataset(p, r.dataset, by)
             c == CloudflareDataset(p, r.dataset, by)
             local  == Local(p.data[r.dataset].source)
             json   == AsJson(p.data[r.dataset])
             status == DatasetStatus(p, r.dataset)
  <1>1. w = DatasetAnswer(p, r.dataset, local, NoHeaders, by)
    BY DEF WorkerDataset
  <1>2. w.by = by /\ w.status = status /\ w.body = IF status = 200 THEN local ELSE <<"error">>
    BY <1>1, DatasetAnswered
  <1>3. c = DatasetAnswer(p, r.dataset, local, Header("length", local), by)
    BY DEF CloudflareDataset
  <1>4. c.by = by /\ c.status = status /\ c.body = IF status = 200 THEN local ELSE <<"error">>
    BY <1>3, DatasetAnswered
  <1>5. n = DatasetAnswer(p, r.dataset, json, Header("length", json), by)
    BY DEF NodeDataset
  <1>6. n.by = by /\ n.status = status /\ n.body = IF status = 200 THEN json ELSE <<"error">>
    BY <1>5, DatasetAnswered
  <1>7. status = 200 => r.dataset \in DOMAIN p.data
    BY DEF DatasetStatus
  <1>8. status = 200 /\ ~p.data[r.dataset].yaml => json = local
    BY <1>7, RequestsAssumption DEF RequestsAssumption, AsJson
  <1> QED BY <1>2, <1>4, <1>6, <1>8 DEF Same

LEMMA GetIsRead == IsRead("GET") /\ \A a : Sent("GET", a) = a
  BY DEF IsRead, ReadMethods, Sent

LEMMA EveryAgrees == Every => ReactorsAgree
  <1> SUFFICES ASSUME Every, NEW s \in Slots, Done(s), asked[s].model # 0, asked[s].method = "GET"
      PROVE  LET w == worker[s]
                 n == others[s].node
                 c == others[s].cloudflare
                 r == Routes(Asked(s))[w.by]
                 apart == w.by # 0 /\ (r.handler # None \/ r.access # 0)
                 local == w.by # 0 /\ r.resource # None /\ ~r.resource.uri
                 fallen == local /\ w.status = 404 /\ Lookup(Asked(s).own, r.resource.at) = "not-found"
                 yaml   == w.by # 0 /\ r.dataset # None /\ w.status = 200 /\ Asked(s).data[r.dataset].yaml
                 reference == w.by # 0 /\ r.resource # None /\ r.resource.uri
             IN /\ Same(w, n) \/ apart \/ fallen \/ yaml
                /\ Same(w, c) \/ apart \/ (reference /\ c.status = 404)
    BY DEF ReactorsAgree
  <1> DEFINE p    == Asked(s)
             path == asked[s].path
             m    == asked[s].model
             by   == Found(p, path, "GET").by
             r    == FoundRoute(p, path, "GET")
             w    == worker[s]
             n    == others[s].node
             c    == others[s].cloudflare
  <1>1. p \in Packages /\ p = Package(m) /\ path # None /\ p # None
    BY DoneIs, RequestsAssumption DEF Done, RequestsAssumption
  <1>2. n = NodeServe(p, m, path, "GET") /\ c = CloudflareServe(p, m, path, "GET")
    BY <1>1, DoneIs, GetIsRead DEF Done, NodeSends, CloudflareSends
  <1>3. ~Runs(p, path, "GET") => w = WorkerServe(p, m, path, "GET")
    BY <1>1, DoneIs DEF Done
  <1>4. path \notin DOMAIN Introspect => w.by = by
    BY <1>1, WorkerDone DEF OnPackage, Done
  <1> HIDE DEF w, n, c
  <1>5. CASE path \in DOMAIN Introspect
    <2>1. w = Answer(200, WorkerReport(path, p, m), NoHeaders, 0)
      BY <1>1, <1>3, <1>5 DEF WorkerServe, Runs
    <2>2. n = Answer(200, NodeReport(path, p, m), NoHeaders, 0) /\ c = Answer(200, CloudflareReport(path, p, m), NoHeaders, 0)
      BY <1>2, <1>5, GetIsRead DEF NodeServe, CloudflareServe
    <2>3. WorkerReport(path, p, m) = NodeReport(path, p, m) /\ WorkerReport(path, p, m) = CloudflareReport(path, p, m)
      BY <1>1 DEF WorkerReport, NodeReport, CloudflareReport
    <2>4. Same(w, n) /\ Same(w, c)
      BY <2>1, <2>2, <2>3 DEF Same
    <2> QED BY <2>4 DEF w, n, c
  <1>6. CASE path \notin DOMAIN Introspect
    <2>1. CASE FoundHandler(p, path, "GET")
      <3>1. by # 0 /\ r.handler # None
        BY <1>1, <2>1, FoundRouteIs
      <3> QED BY <1>4, <1>6, <3>1 DEF w, FoundRoute
    <2>2. CASE ~FoundHandler(p, path, "GET")
      <3>1. ~Runs(p, path, "GET") /\ w = WorkerServe(p, m, path, "GET")
        BY <1>1, <1>3, <1>6, <2>2, WorkerServes
      <3>2. CASE FoundResource(p, path, "GET")
        <4>1. by # 0 /\ r.resource # None /\ IsRef(r.resource)
          BY <1>1, <3>2, FoundRouteIs
        <4>2. w = WorkerResource(p, r, by) /\ n = NodeResource(p, r, by) /\ c = CloudflareResource(p, r, by)
          BY <1>1, <1>2, <1>6, <3>1, <3>2, WorkerServes, NodeServes, CloudflareServes, GetIsRead
        <4>3. w.by = by /\ r = Routes(p)[by]
          BY <1>4, <1>6 DEF FoundRoute
        <4> HIDE DEF r, by, p
        <4>4. /\ Same(w, n) \/ (~r.resource.uri /\ w.status = 404 /\ Lookup(p.own, r.resource.at) = "not-found")
              /\ Same(w, c) \/ (r.resource.uri /\ c.status = 404)
          BY <1>1, <4>1, <4>2, ResourceAgrees
        <4> QED BY <4>1, <4>3, <4>4 DEF w, n, c, p
      <3>3. CASE FoundDataset(p, path, "GET")
        <4>1. by # 0 /\ r.resource = None /\ r.dataset # None
          BY <1>1, <3>3, FoundRouteIs
        <4>2. w = WorkerDataset(p, r, by) /\ n = NodeDataset(p, r.dataset, by) /\ c = CloudflareDataset(p, r.dataset, by)
          BY <1>1, <1>2, <1>6, <3>1, <3>3, WorkerServes, NodeServes, CloudflareServes, GetIsRead
        <4>3. w.by = by /\ r = Routes(p)[by]
          BY <1>4, <1>6 DEF FoundRoute
        <4> HIDE DEF r, by, p
        <4>4. r.access = 0 => (Same(w, n) \/ (w.status = 200 /\ p.data[r.dataset].yaml)) /\ Same(w, c)
          BY <1>1, <4>2, DatasetAgrees
        <4> QED BY <4>1, <4>3, <4>4 DEF w, n, c, p
      <3>4. CASE FoundRefused(p, path, "GET")
        <4>1. w = n /\ w = c
          BY <1>1, <1>2, <1>6, <3>1, <3>4, WorkerServes, NodeServes, CloudflareServes
        <4> QED BY <4>1 DEF Same, w, n, c
      <3>5. CASE FoundNothing(p, path, "GET")
        <4>1. w = n /\ w = c
          BY <1>1, <1>2, <1>6, <3>1, <3>5, WorkerServes, NodeServes, CloudflareServes
        <4> QED BY <4>1 DEF Same, w, n, c
      <3> QED BY <1>1, <2>2, <3>2, <3>3, <3>4, <3>5, FoundIs
    <2> QED BY <2>1, <2>2
  <1> QED BY <1>5, <1>6

\* The three reactors give one answer to a GET, but where the route is a handler or has
\* access control, or a dependency or a YAML dataset is in play (fetch-handler.ts:88-120,
\* reactor-node/src/serving.ts:4-19, reactor-cloudflare/src/serving.ts:6-18).
THEOREM AgreementHolds == Spec => []ReactorsAgree
  BY EveryIsInvariant, EveryAgrees, PTL


(***************************************************************************)
(* Files of dependencies                                                    *)
(***************************************************************************)
FromDependency(body) == body # <<>> /\ body[1] = "dependency"

\* No body but the bytes of a dependency's file is taken for one.
LEMMA PlainBodies == ~FromDependency(<<"error">>) /\ ~FromDependency(<<>>)
  BY DEF FromDependency

LEMMA LocalBody == \A x : ~FromDependency(Local(x)) /\ ~FromDependency(<<"json of", x>>) /\ ~FromDependency(<<"report", x>>)
  BY DEF FromDependency, Local

LEMMA GivenBody == \A x, y : Given(x, y)[1] = "dependency" /\ Given(x, y)[2] = x /\ Given(x, y)[3] = y
  BY DEF Given

LEMMA Rewritten ==
  ASSUME NEW r, IsRoute(r), NEW bytes, FromDependency(BodyOf(r, bytes))
  PROVE  BodyOf(r, bytes) = bytes
  BY DEF IsRoute, BodyOf, FromDependency

\* What DependencyContent says of the body of an answer to a route of a resource.
OfReference(p, ref, body) ==
  /\ ref.uri /\ p.deps[body[2]].installed /\ Lookup(p.deps[body[2]].gives, body[3]) = "found"
  /\ p.deps[body[2]].guid \o body[3] = ref.at
  /\ \A e \in DOMAIN p.deps : Len(p.deps[e].guid) > Len(p.deps[body[2]].guid) => ~IsStrictPrefix(p.deps[e].guid, ref.at)
FallenThrough(p, ref, body) ==
  /\ ~ref.uri /\ p.deps[body[2]].installed /\ Lookup(p.deps[body[2]].gives, body[3]) = "found"
  /\ body[3] = ref.at /\ Lookup(p.own, body[3]) = "not-found"
  /\ \A e \in DOMAIN p.deps : e < body[2] => ~(p.deps[e].installed /\ Lookup(p.deps[e].gives, body[3]) = "found")

LEMMA GivenIsOfReference ==
  ASSUME NEW p \in Packages, NEW ref, IsRef(ref), ref.uri, Gives(p, ref)
  PROVE  OfReference(p, ref, GivenBy(p, ref))
  <1>1. GivenBy(p, ref)[2] = Owner(p, ref) /\ GivenBy(p, ref)[3] = Rest(p, Owner(p, ref), ref)
    BY GivenBody DEF GivenBy
  <1>2. Owner(p, ref) # 0
    BY DEF Gives
  <1> QED BY <1>1, <1>2, OwnerIsLongest DEF OfReference, Gives

LEMMA WorkerDependency ==
  ASSUME NEW p \in Packages, NEW r, NEW by, IsRoute(r), IsRef(r.resource), FromDependency(WorkerResource(p, r, by).body)
  PROVE  OfReference(p, r.resource, WorkerResource(p, r, by).body)
  <1> DEFINE w == WorkerResource(p, r, by)
  <1>1. CASE r.resource.uri /\ Gives(p, r.resource)
    <2>1. w.body = BodyOf(r, GivenBy(p, r.resource))
      BY <1>1, WorkerResourceIs
    <2>2. w.body = GivenBy(p, r.resource)
      BY <2>1, Rewritten
    <2> QED BY <1>1, <2>2, GivenIsOfReference
  <1>2. CASE ~r.resource.uri /\ Lookup(p.own, r.resource.at) = "found"
    <2>1. w.body = BodyOf(r, Local(r.resource.at))
      BY <1>2, WorkerResourceIs
    <2> QED BY <2>1, Rewritten, LocalBody
  <1>3. CASE ~(r.resource.uri /\ Gives(p, r.resource)) /\ ~(~r.resource.uri /\ Lookup(p.own, r.resource.at) = "found")
    <2>1. w = Failure(404, by)
      BY <1>3, WorkerResourceIs
    <2> QED BY <2>1, Failed, PlainBodies
  <1> QED BY <1>1, <1>2, <1>3

LEMMA NodeDependency ==
  ASSUME NEW p \in Packages, NEW r, NEW by, IsRoute(r), IsRef(r.resource), FromDependency(NodeResource(p, r, by).body)
  PROVE  LET body == NodeResource(p, r, by).body
         IN OfReference(p, r.resource, body) \/ FallenThrough(p, r.resource, body)
  <1> DEFINE n   == NodeResource(p, r, by)
             at  == r.resource.at
             own == Lookup(p.own, at)
  <1>1. r.resource.uri \in BOOLEAN /\ own \in {"found", "tombstoned", "not-found"}
    BY OwnIs DEF IsRef, OwnRange
  <1>2. CASE r.resource.uri /\ Gives(p, r.resource)
    <2>1. n.body = BodyOf(r, GivenBy(p, r.resource))
      BY <1>2, NodeResourceIs
    <2>2. n.body = GivenBy(p, r.resource)
      BY <2>1, Rewritten
    <2> QED BY <1>2, <2>2, GivenIsOfReference
  <1>3. CASE ~r.resource.uri /\ own = "found"
    <2>1. n.body = BodyOf(r, Local(at))
      BY <1>3, NodeResourceIs
    <2> QED BY <2>1, Rewritten, LocalBody
  <1>4. CASE (r.resource.uri /\ ~Gives(p, r.resource)) \/ (~r.resource.uri /\ own = "tombstoned")
    <2>1. n = Failure(404, by)
      BY <1>4, NodeResourceIs
    <2> QED BY <2>1, Failed, PlainBodies
  <1>5. CASE ~r.resource.uri /\ own = "not-found"
    <2>1. n = NodeFallthrough(p, r, by)
      BY <1>5, NodeResourceIs
    <2>2. Givers(p, at) # {}
      BY <2>1, FallthroughIs, Failed, PlainBodies
    <2> DEFINE d == First(Givers(p, at))
    <2>3. n.body = BodyOf(r, Given(d, at)) /\ d \in Givers(p, at) /\ \A e \in Givers(p, at) : d <= e
      BY <2>1, <2>2, FallthroughIs
    <2>4. n.body = Given(d, at)
      BY <2>3, Rewritten
    <2>5. n.body[2] = d /\ n.body[3] = at
      BY <2>4, GivenBody
    <2>6. d \in DOMAIN p.deps /\ p.deps[d].installed /\ Lookup(p.deps[d].gives, at) = "found"
      BY <2>3 DEF Givers
    <2>7. ASSUME NEW e \in DOMAIN p.deps, e < d, p.deps[e].installed, Lookup(p.deps[e].gives, at) = "found" PROVE FALSE
      <3>1. e \in Givers(p, at) /\ e \in Nat /\ d \in Nat
        BY <2>6, <2>7, RequestsAssumption DEF Givers, RequestsAssumption
      <3> HIDE DEF d
      <3> QED BY <2>3, <2>7, <3>1
    <2> HIDE DEF n, d
    <2>8. FallenThrough(p, r.resource, n.body)
      BY <1>5, <2>5, <2>6, <2>7 DEF FallenThrough
    <2> QED BY <2>8 DEF n
  <1> QED BY <1>1, <1>2, <1>3, <1>4, <1>5

\* The Cloudflare reactor has no dependencies.
LEMMA CloudflareDependency ==
  ASSUME NEW p, NEW r, NEW by, IsRoute(r), IsRef(r.resource)
  PROVE  ~FromDependency(CloudflareResource(p, r, by).body)
  <1>1. CASE ~r.resource.uri /\ Lookup(p.own, r.resource.at) = "found"
    <2>1. CloudflareResource(p, r, by).body = BodyOf(r, Local(r.resource.at))
      BY <1>1, CloudflareResourceIs
    <2> QED BY <2>1, Rewritten, LocalBody
  <1>2. CASE ~(~r.resource.uri /\ Lookup(p.own, r.resource.at) = "found")
    BY <1>2, CloudflareResourceIs, Failed, PlainBodies
  <1> QED BY <1>1, <1>2

LEMMA DatasetIsOwn ==
  ASSUME NEW p, NEW id, NEW by, NEW r
  PROVE  /\ ~FromDependency(NodeDataset(p, id, by).body)
         /\ ~FromDependency(CloudflareDataset(p, id, by).body)
         /\ ~FromDependency(WorkerDataset(p, r, by).body)
  <1>1. ASSUME NEW set, NEW bytes, NEW headers, headers = NoHeaders \/ headers = Header("length", bytes), ~FromDependency(bytes)
        PROVE  ~FromDependency(DatasetAnswer(p, set, bytes, headers, by).body)
    <2>1. DatasetAnswer(p, set, bytes, headers, by).body \in {bytes, <<"error">>}
      BY <1>1, DatasetAnswered
    <2> QED BY <1>1, <2>1, PlainBodies
  <1>2. ~FromDependency(NodeDataset(p, id, by).body)
    <2>1. ~FromDependency(AsJson(p.data[id]))
      BY LocalBody DEF AsJson
    <2> QED BY <1>1, <2>1 DEF NodeDataset
  <1>3. ~FromDependency(CloudflareDataset(p, id, by).body)
    BY <1>1, LocalBody DEF CloudflareDataset
  <1>4. ~FromDependency(WorkerDataset(p, r, by).body)
    <2>1. CASE r.access # 0
      BY <2>1, Failed, PlainBodies DEF WorkerDataset
    <2>2. CASE r.access = 0
      <3>1. WorkerDataset(p, r, by) = DatasetAnswer(p, r.dataset, Local(p.data[r.dataset].source), NoHeaders, by)
        BY <2>2 DEF WorkerDataset
      <3> QED BY <1>1, <3>1, LocalBody
    <2> QED BY <2>1, <2>2
  <1> QED BY <1>2, <1>3, <1>4

LEMMA HandlerIsScript ==
  ASSUME NEW p, NEW r, NEW by, IsRoute(r)
  PROVE  ~FromDependency(HandlerAnswer(p, r, by).body)
  <1>1. HandlerFile(p, r).fails \in {0, 404}
    BY DEF HandlerFile
  <1>2. \/ \E status : HandlerAnswer(p, r, by) = Failure(status, by)
        \/ HandlerAnswer(p, r, by) = Unanswered
        \/ HandlerAnswer(p, r, by) = Process(Failure(502, by), r)
    BY <1>1 DEF HandlerAnswer, Runnable
  <1>3. Process(Failure(502, by), r).body = BodyOf(r, <<"error">>)
    BY Processed, Failed
  <1> QED BY <1>2, <1>3, Rewritten, Failed, PlainBodies DEF Unanswered


\* Whose answers hold a dependency's file, and which route they name.
LEMMA WorkerHolds ==
  ASSUME Every, NEW s \in Slots, OnPackage(s), FromDependency(worker[s].body)
  PROVE  OfReference(Asked(s), Routes(Asked(s))[worker[s].by].resource, worker[s].body)
  <1> DEFINE p      == Asked(s)
             path   == asked[s].path
             method == asked[s].method
             by     == Found(p, path, method).by
             r      == FoundRoute(p, path, method)
             w      == worker[s]
  <1>1. p \in Packages /\ p = Package(asked[s].model) /\ path # None /\ path \notin DOMAIN Introspect
    BY DoneIs DEF OnPackage, Done
  <1>2. w.by = by
    BY WorkerDone DEF OnPackage, Done
  <1>3. CASE FoundHandler(p, path, method)
    <2>1. IsRoute(r)
      BY <1>1, <1>3, FoundRouteIs
    <2>2. CASE Runs(p, path, method)
      <3>1. w = Process(Verdict(s), r)
        BY <1>1, <2>2, DoneIs DEF OnPackage, Done
      <3> HIDE DEF w, r
      <3>2. w.body = BodyOf(r, Verdict(s).body)
        BY <3>1, Processed
      <3>3. ~FromDependency(Verdict(s).body)
        BY VerdictIs, PlainBodies DEF FromDependency
      <3> QED BY <2>1, <3>2, <3>3, Rewritten DEF w
    <2>3. CASE ~Runs(p, path, method)
      <3>1. w = HandlerAnswer(p, r, by)
        BY <1>1, <1>3, <2>3, DoneIs, WorkerServes DEF OnPackage, Done
      <3> QED BY <2>1, <3>1, HandlerIsScript
    <2> QED BY <2>2, <2>3
  <1>4. CASE ~FoundHandler(p, path, method)
    <2>1. ~Runs(p, path, method) /\ w = WorkerServe(p, asked[s].model, path, method)
      BY <1>1, <1>4, WorkerServes, DoneIs DEF OnPackage, Done
    <2>2. FoundResource(p, path, method)
      <3>1. ASSUME FoundDataset(p, path, method) PROVE FALSE
        <4>1. w = WorkerDataset(p, r, by)
          BY <1>1, <2>1, <3>1, WorkerServes
        <4> QED BY <4>1, DatasetIsOwn
      <3>2. ASSUME FoundRefused(p, path, method) \/ FoundNothing(p, path, method) PROVE FALSE
        <4>1. w = NotAllowed(Found(p, path, method).allowed) \/ w = Failure(404, 0)
          BY <1>1, <2>1, <3>2, WorkerServes
        <4> QED BY <4>1, NotAllowedIs, Failed, PlainBodies
      <3> QED BY <1>1, <1>4, <3>1, <3>2, FoundIs
    <2>3. w = WorkerResource(p, r, by) /\ IsRef(r.resource) /\ IsRoute(r)
      BY <1>1, <2>1, <2>2, WorkerServes, FoundRouteIs
    <2>4. r = Routes(p)[w.by]
      BY <1>2 DEF FoundRoute
    <2> HIDE DEF w, r, p, by
    <2>5. OfReference(p, r.resource, w.body)
      BY <1>1, <2>3, WorkerDependency DEF w
    <2> QED BY <2>4, <2>5 DEF w, p
  <1> QED BY <1>3, <1>4

LEMMA NodeSent ==
  ASSUME Every, NEW s \in Slots, OnPackage(s)
  PROVE  LET p      == Asked(s)
             method == asked[s].method
             found  == Found(p, asked[s].path, method)
             r      == FoundRoute(p, asked[s].path, method)
             n      == others[s].node
             c      == others[s].cloudflare
         IN /\ p \in Packages
            /\ FoundHandler(p, asked[s].path, method) =>
                 n = Sent(method, Failure(501, found.by)) /\ c = Sent(method, Failure(501, found.by))
            /\ FoundResource(p, asked[s].path, method) =>
                 /\ n = Sent(method, IF IsRead(method) THEN NodeResource(p, r, found.by) ELSE NotAllowed(ReadMethods))
                 /\ c = Sent(method, IF IsRead(method) THEN CloudflareResource(p, r, found.by) ELSE NotAllowed(ReadMethods))
            /\ FoundDataset(p, asked[s].path, method) =>
                 /\ n = Sent(method, IF IsRead(method) THEN NodeDataset(p, r.dataset, found.by) ELSE NotAllowed(ReadMethods))
                 /\ c = Sent(method, IF IsRead(method) THEN CloudflareDataset(p, r.dataset, found.by) ELSE NotAllowed(ReadMethods))
            /\ FoundRefused(p, asked[s].path, method) =>
                 n = Sent(method, NotAllowed(found.allowed)) /\ c = Sent(method, NotAllowed(found.allowed))
            /\ FoundNothing(p, asked[s].path, method) =>
                 n = Sent(method, Failure(404, 0)) /\ c = Sent(method, Failure(404, 0))
  <1> DEFINE p      == Asked(s)
             path   == asked[s].path
             method == asked[s].method
             m      == asked[s].model
  <1>1. p \in Packages /\ p = Package(m) /\ path # None /\ path \notin DOMAIN Introspect /\ p # None
    BY DoneIs, RequestsAssumption DEF OnPackage, Done, RequestsAssumption
  <1>2. others[s].node = Sent(method, NodeServe(p, m, path, method))
    BY <1>1, DoneIs DEF OnPackage, Done, NodeSends
  <1>3. others[s].cloudflare = Sent(method, CloudflareServe(p, m, path, method))
    BY <1>1, DoneIs DEF OnPackage, Done, CloudflareSends
  <1> HIDE DEF p, path, method, m
  <1>4. p \in Packages /\ path \notin DOMAIN Introspect
    BY <1>1
  <1> QED BY <1>2, <1>3, <1>4, NodeServes, CloudflareServes DEF p, path, method, m


\* What is sent of an answer holds a dependency's file only if the answer does.
LEMMA SentBody ==
  ASSUME NEW a, NEW method, IsAnswer(a)
  PROVE  /\ Sent(method, a).by = a.by /\ Sent(method, a).status = a.status
         /\ FromDependency(Sent(method, a).body) => Sent(method, a).body = a.body
  BY Sends, PlainBodies

LEMMA NodeHolds ==
  ASSUME Every, NEW s \in Slots, OnPackage(s), FromDependency(others[s].node.body)
  PROVE  LET n   == others[s].node
             ref == Routes(Asked(s))[n.by].resource
         IN OfReference(Asked(s), ref, n.body) \/ FallenThrough(Asked(s), ref, n.body)
  <1> DEFINE p      == Asked(s)
             path   == asked[s].path
             method == asked[s].method
             by     == Found(p, path, method).by
             r      == FoundRoute(p, path, method)
             n      == others[s].node
  <1>1. p \in Packages
    BY NodeSent
  <1>2. \A status, b : n # Sent(method, Failure(status, b))
    BY SentBody, Failed, PlainBodies
  <1>3. \A methods : n # Sent(method, NotAllowed(methods))
    BY SentBody, NotAllowedIs, PlainBodies DEF Honest
  <1>4. ~FoundDataset(p, path, method)
    <2> SUFFICES ASSUME FoundDataset(p, path, method) PROVE FALSE
      OBVIOUS
    <2>1. n = Sent(method, NodeDataset(p, r.dataset, by))
      BY <1>3, NodeSent
    <2>2. IsAnswer(NodeDataset(p, r.dataset, by))
      BY DatasetAnswered DEF NodeDataset, Honest
    <2> HIDE DEF n, r, by
    <2> QED BY <2>1, <2>2, SentBody, DatasetIsOwn DEF n
  <1>5. FoundResource(p, path, method) /\ n = Sent(method, NodeResource(p, r, by))
    BY <1>1, <1>2, <1>3, <1>4, NodeSent, FoundIs
  <1>6. IsRef(r.resource) /\ IsRoute(r)
    BY <1>1, <1>5, FoundRouteIs
  <1> HIDE DEF n, by, r, p
  <1>7. IsAnswer(NodeResource(p, r, by)) /\ NodeResource(p, r, by).by = by
    BY <1>1, <1>6, NodeResourceIs DEF Honest
  <1>8. n.by = by /\ n.body = NodeResource(p, r, by).body
    BY <1>5, <1>7, SentBody DEF n
  <1>9. OfReference(p, r.resource, n.body) \/ FallenThrough(p, r.resource, n.body)
    BY <1>1, <1>6, <1>8, NodeDependency DEF n
  <1>10. r = Routes(p)[n.by]
    BY <1>8 DEF r, by, FoundRoute
  <1> QED BY <1>9, <1>10 DEF n, p

LEMMA CloudflareHolds ==
  ASSUME Every, NEW s \in Slots, OnPackage(s)
  PROVE  ~FromDependency(others[s].cloudflare.body)
  <1> DEFINE p      == Asked(s)
             path   == asked[s].path
             method == asked[s].method
             by     == Found(p, path, method).by
             r      == FoundRoute(p, path, method)
             c      == others[s].cloudflare
  <1> SUFFICES ASSUME FromDependency(c.body) PROVE FALSE
    OBVIOUS
  <1>1. p \in Packages
    BY NodeSent
  <1>2. \A status, b : c # Sent(method, Failure(status, b))
    BY SentBody, Failed, PlainBodies
  <1>3. \A methods : c # Sent(method, NotAllowed(methods))
    BY SentBody, NotAllowedIs, PlainBodies DEF Honest
  <1>4. CASE FoundDataset(p, path, method)
    <2>1. c = Sent(method, CloudflareDataset(p, r.dataset, by))
      BY <1>3, <1>4, NodeSent
    <2>2. IsAnswer(CloudflareDataset(p, r.dataset, by))
      BY DatasetAnswered DEF CloudflareDataset, Honest
    <2> HIDE DEF c, r, by
    <2> QED BY <2>1, <2>2, SentBody, DatasetIsOwn DEF c
  <1>5. CASE FoundResource(p, path, method)
    <2>1. c = Sent(method, CloudflareResource(p, r, by))
      BY <1>3, <1>5, NodeSent
    <2>2. IsRef(r.resource) /\ IsRoute(r)
      BY <1>1, <1>5, FoundRouteIs
    <2> HIDE DEF c, r, by
    <2>3. IsAnswer(CloudflareResource(p, r, by))
      BY <2>2, CloudflareResourceIs DEF Honest
    <2> QED BY <2>1, <2>2, <2>3, SentBody, CloudflareDependency DEF c
  <1> QED BY <1>1, <1>2, <1>3, <1>4, <1>5, NodeSent, FoundIs

\* The Node reactor misses an own path only where the package hides it, or nobody has it.
LEMMA NodeMisses ==
  ASSUME Every, NEW s \in Slots, OnPackage(s), others[s].node.status = 404, others[s].node.by # 0,
         Routes(Asked(s))[others[s].node.by].resource # None, ~Routes(Asked(s))[others[s].node.by].resource.uri
  PROVE  LET at == Routes(Asked(s))[others[s].node.by].resource.at
         IN Lookup(Asked(s).own, at) = "tombstoned" \/ Givers(Asked(s), at) = {}
  <1> DEFINE p      == Asked(s)
             path   == asked[s].path
             method == asked[s].method
             by     == Found(p, path, method).by
             r      == FoundRoute(p, path, method)
             n      == others[s].node
  <1>1. p \in Packages
    BY NodeSent
  <1>2. \A methods : n # Sent(method, NotAllowed(methods))
    BY SentBody, NotAllowedIs DEF Honest
  <1>3. n # Sent(method, Failure(404, 0)) /\ \A b : n # Sent(method, Failure(501, b))
    BY SentBody, Failed
  <1>4. ~FoundDataset(p, path, method)
    <2> SUFFICES ASSUME FoundDataset(p, path, method) PROVE FALSE
      OBVIOUS
    <2>1. n = Sent(method, NodeDataset(p, r.dataset, by)) /\ r.resource = None
      BY <1>1, <1>2, NodeSent, FoundRouteIs
    <2>2. IsAnswer(NodeDataset(p, r.dataset, by)) /\ NodeDataset(p, r.dataset, by).by = by
      BY DatasetAnswered DEF NodeDataset, Honest
    <2>3. n.by = by
      BY <2>1, <2>2, SentBody
    <2> QED BY <2>1, <2>3 DEF FoundRoute
  <1>5. FoundResource(p, path, method) /\ n = Sent(method, NodeResource(p, r, by))
    BY <1>1, <1>2, <1>3, <1>4, NodeSent, FoundIs
  <1>6. IsRef(r.resource)
    BY <1>1, <1>5, FoundRouteIs
  <1> HIDE DEF n, by, r, p
  <1>7. IsAnswer(NodeResource(p, r, by)) /\ NodeResource(p, r, by).by = by
    BY <1>1, <1>6, NodeResourceIs DEF Honest
  <1>8. n.by = by /\ n.status = NodeResource(p, r, by).status
    BY <1>5, <1>7, SentBody
  <1>9. r = Routes(p)[n.by]
    BY <1>8 DEF r, by, FoundRoute
  <1>10. ~r.resource.uri /\ NodeResource(p, r, by).status = 404
    BY <1>8, <1>9 DEF n, p
  <1>11. Lookup(p.own, r.resource.at) = "tombstoned" \/ Givers(p, r.resource.at) = {}
    <2> SUFFICES ASSUME Lookup(p.own, r.resource.at) # "tombstoned" PROVE Givers(p, r.resource.at) = {}
      OBVIOUS
    <2>1. Lookup(p.own, r.resource.at) # "found"
      BY <1>1, <1>6, <1>10, NodeResourceIs
    <2>2. NodeResource(p, r, by) = NodeFallthrough(p, r, by)
      BY <1>1, <1>6, <1>10, <2>1, NodeResourceIs
    <2> QED BY <1>1, <1>10, <2>2, FallthroughIs
  <1> QED BY <1>9, <1>11 DEF n, p

LEMMA EveryHolds == Every => DependencyContent
  <1> SUFFICES ASSUME Every, NEW s \in Slots, OnPackage(s)
      PROVE  /\ \A answer \in {worker[s], others[s].node, others[s].cloudflare} : IsDependencyBody(answer) =>
                  LET d    == answer.body[2]
                      at   == answer.body[3]
                      deps == Asked(s).deps
                      ref  == Routes(Asked(s))[answer.by].resource
                  IN /\ deps[d].installed /\ Lookup(deps[d].gives, at) = "found"
                     /\ ref.uri => /\ deps[d].guid \o at = ref.at
                                   /\ \A e \in DOMAIN deps : Len(deps[e].guid) > Len(deps[d].guid) => ~IsStrictPrefix(deps[e].guid, ref.at)
                     /\ ~ref.uri => /\ answer = others[s].node /\ at = ref.at
                                    /\ Lookup(Asked(s).own, at) = "not-found"
                                    /\ \A e \in DOMAIN deps : e < d => ~(deps[e].installed /\ Lookup(deps[e].gives, at) = "found")
             /\ LET node == others[s].node
                    r    == Routes(Asked(s))[node.by]
                IN node.status = 404 /\ node.by # 0 /\ r.resource # None /\ ~r.resource.uri =>
                     \/ Lookup(Asked(s).own, r.resource.at) = "tombstoned"
                     \/ \A d \in DOMAIN Asked(s).deps : ~(Asked(s).deps[d].installed /\ Lookup(Asked(s).deps[d].gives, r.resource.at) = "found")
    BY DEF DependencyContent
  <1>1. ASSUME FromDependency(worker[s].body)
        PROVE  OfReference(Asked(s), Routes(Asked(s))[worker[s].by].resource, worker[s].body)
    BY <1>1, WorkerHolds
  <1>2. ASSUME FromDependency(others[s].node.body)
        PROVE  \/ OfReference(Asked(s), Routes(Asked(s))[others[s].node.by].resource, others[s].node.body)
               \/ FallenThrough(Asked(s), Routes(Asked(s))[others[s].node.by].resource, others[s].node.body)
    BY <1>2, NodeHolds
  <1>3. ~FromDependency(others[s].cloudflare.body)
    BY CloudflareHolds
  <1>4. ASSUME NEW answer \in {worker[s], others[s].node, others[s].cloudflare}, IsDependencyBody(answer)
        PROVE  LET ref == Routes(Asked(s))[answer.by].resource
               IN OfReference(Asked(s), ref, answer.body) \/ (FallenThrough(Asked(s), ref, answer.body) /\ answer = others[s].node)
    <2>1. FromDependency(answer.body)
      BY <1>4 DEF IsDependencyBody, FromDependency
    <2> QED BY <1>1, <1>2, <1>3, <1>4, <2>1
  <1>5. ASSUME NEW answer \in {worker[s], others[s].node, others[s].cloudflare}, IsDependencyBody(answer)
        PROVE  LET d    == answer.body[2]
                   at   == answer.body[3]
                   deps == Asked(s).deps
                   ref  == Routes(Asked(s))[answer.by].resource
               IN /\ deps[d].installed /\ Lookup(deps[d].gives, at) = "found"
                  /\ ref.uri => /\ deps[d].guid \o at = ref.at
                                /\ \A e \in DOMAIN deps : Len(deps[e].guid) > Len(deps[d].guid) => ~IsStrictPrefix(deps[e].guid, ref.at)
                  /\ ~ref.uri => /\ answer = others[s].node /\ at = ref.at
                                 /\ Lookup(Asked(s).own, at) = "not-found"
                                 /\ \A e \in DOMAIN deps : e < d => ~(deps[e].installed /\ Lookup(deps[e].gives, at) = "found")
    BY <1>4, <1>5 DEF OfReference, FallenThrough
  <1>6. ASSUME others[s].node.status = 404, others[s].node.by # 0,
               Routes(Asked(s))[others[s].node.by].resource # None, ~Routes(Asked(s))[others[s].node.by].resource.uri
        PROVE  LET at == Routes(Asked(s))[others[s].node.by].resource.at
               IN Lookup(Asked(s).own, at) = "tombstoned" \/ Givers(Asked(s), at) = {}
    BY <1>6, NodeMisses
  <1> QED BY <1>5, <1>6 DEF Givers

\* No reactor serves a dependency's file that the dependency does not export; a reference
\* goes to the declared dependency with the longest guid in it, and an own path falls
\* through only when the own layers lack it (composite.ts:79-100,
\* reactor-node/src/serving.ts:133-206).
THEOREM DependencyContentHolds == Spec => []DependencyContent
  BY EveryIsInvariant, EveryHolds, PTL


(***************************************************************************)
(* Which declared route answers                                             *)
(***************************************************************************)
\* An entry that says one thing: one of a resource, a dataset, a handler and a legacy
\* target, the target being a file or a dataset.
Plain(e) ==
  /\ e.resource # None => e.dataset = None /\ e.handler = None /\ e.target = None
  /\ e.dataset # None  => e.handler = None /\ e.target = None
  /\ e.handler # None  => e.target = None
  /\ e.target # None   => e.target.file = None \/ e.target.dataset = None

LEMMA ClassifyKeeps ==
  ASSUME NEW e, DOMAIN e = DOMAIN Blank, Canonical(e),
         e.resource # None => e.dataset = None /\ e.handler = None,
         e.dataset # None => e.handler = None
  PROVE  LET r == Classify(e)
         IN /\ HandlerKind(r) <=> e.handler # None
            /\ HandlerKind(r) => r.method = e.method
            /\ EffectivePath(r) = IF (e.resource # None \/ e.handler # None) /\ e.remap # None THEN e.remap ELSE e.path
  <1>1. {"handler", "remap", "path", "method", "resource", "dataset", "target", "rewrite", "extra"} \subseteq DOMAIN e
    BY DEF Blank
  <1>2. CASE e.resource # None
    <2>1. Classify(e) = [e EXCEPT !.dataset = None, !.handler = None, !.method = None, !.target = None]
      BY <1>2 DEF Classify
    <2>2. Classify(e).handler = None /\ Classify(e).remap = e.remap /\ Classify(e).path = e.path
      BY <1>1, <2>1
    <2> QED BY <1>2, <2>2 DEF HandlerKind, EffectivePath
  <1>3. CASE e.resource = None /\ e.dataset # None /\ IsData(e.path)
    <2>1. Classify(e) = [e EXCEPT !.handler = None, !.method = None, !.target = None, !.remap = None, !.rewrite = None, !.extra = None]
      BY <1>3 DEF Classify
    <2>2. Classify(e).handler = None /\ Classify(e).remap = None /\ Classify(e).path = e.path
      BY <1>1, <2>1
    <2> QED BY <1>3, <2>2 DEF HandlerKind, EffectivePath
  <1>4. CASE e.resource = None /\ ~(e.dataset # None /\ IsData(e.path))
    <2>1. Classify(e) = e
      BY <1>4 DEF Classify
    <2>2. e.handler # None
      BY <1>4 DEF Canonical
    <2> QED BY <1>4, <2>1, <2>2 DEF HandlerKind, EffectivePath
  <1> QED BY <1>2, <1>3, <1>4

\* A route of a declared document is a handler's, and is served, as its entry says.
LEMMA ClassifyMeans ==
  ASSUME NEW e, DOMAIN e = DOMAIN Blank, Plain(e), Canonical(e)
  PROVE  LET r == Classify(e)
         IN /\ HandlerKind(r) <=> Means(e) = "handler"
            /\ HandlerKind(r) => r.method = e.method
            /\ EffectivePath(r) = ServedAt(e)
  <1>1. CASE e.resource # None
    BY <1>1, ClassifyKeeps DEF Means, ServedAt, Plain
  <1>2. CASE e.resource = None /\ e.handler # None
    <2>1. e.target = None /\ e.dataset = None
      BY <1>2 DEF Plain
    <2> QED BY <1>2, <2>1, ClassifyKeeps DEF Means, ServedAt
  <1>3. CASE e.resource = None /\ e.handler = None
    <2>1. e.dataset # None
      BY <1>3 DEF Canonical
    <2>2. e.target = None
      BY <2>1 DEF Plain
    <2> QED BY <1>3, <2>1, <2>2, ClassifyKeeps DEF Means, ServedAt
  <1> QED BY <1>1, <1>2, <1>3

LEMMA LegacyMeans ==
  ASSUME NEW e, DOMAIN e = DOMAIN Blank, Plain(e), Canonical(NormalizeTarget(e))
  PROVE  LET r == Classify(NormalizeTarget(e))
         IN /\ HandlerKind(r) <=> Means(e) = "handler"
            /\ HandlerKind(r) => r.method = e.method
            /\ EffectivePath(r) = ServedAt(e)
  <1>1. CASE e.target = None
    <2>1. NormalizeTarget(e) = e
      BY <1>1 DEF NormalizeTarget
    <2> QED BY <2>1, ClassifyMeans
  <1>2. CASE e.target # None
    <2> DEFINE file == IF e.target.file # None THEN e.target.file ELSE e.resource
               set  == IF e.target.dataset # None THEN e.target.dataset ELSE e.dataset
               f    == NormalizeTarget(e)
    <2>1. {"handler", "remap", "path", "method", "resource", "dataset"} \subseteq DOMAIN e
      BY DEF Blank
    <2>2. f = [e EXCEPT !.resource = file, !.dataset = set]
      BY <1>2 DEF NormalizeTarget
    <2>3. e.resource = None /\ e.dataset = None /\ e.handler = None
      BY <1>2 DEF Plain
    <2> HIDE DEF file, set, f
    <2>4. /\ DOMAIN f = DOMAIN e /\ f.resource = file /\ f.dataset = set
          /\ f.handler = e.handler /\ f.remap = e.remap /\ f.path = e.path /\ f.method = e.method
      BY <2>1, <2>2
    <2>5. Canonical(f)
      BY DEF f
    <2>6. CASE e.target.file # None
      <3>1. f.resource # None /\ f.dataset = None /\ f.handler = None
        BY <1>2, <2>3, <2>4, <2>6 DEF file, set, Plain
      <3>2. Means(e) = "resource"
        BY <1>2, <2>3, <2>6 DEF Means
      <3>3. /\ ~HandlerKind(Classify(f))
            /\ EffectivePath(Classify(f)) = IF f.remap # None THEN f.remap ELSE f.path
        BY <2>4, <2>5, <3>1, ClassifyKeeps
      <3> QED BY <2>4, <3>2, <3>3 DEF ServedAt, f
    <2>7. CASE e.target.file = None
      <3>1. f.resource = None /\ f.handler = None
        BY <2>3, <2>4, <2>7 DEF file
      <3>2. Means(e) = "dataset"
        BY <2>3, <2>7 DEF Means
      <3>3. ~HandlerKind(Classify(f)) /\ EffectivePath(Classify(f)) = f.path
        BY <2>4, <2>5, <3>1, ClassifyKeeps
      <3> QED BY <2>4, <3>2, <3>3 DEF ServedAt, f
    <2> QED BY <2>6, <2>7
  <1> QED BY <1>1, <1>2

\* Of every routes.json a package of the instance has.
PlainPackages == \A p \in Packages : \A i \in DOMAIN p.doc.entries : Plain(p.doc.entries[i])

LEMMA DeclaredMeans ==
  ASSUME NEW p \in Packages, p.doc.form # "absent", PlainPackages
  PROVE  /\ DOMAIN Routes(p) = DOMAIN p.doc.entries
         /\ \A i \in DOMAIN p.doc.entries :
              /\ HandlerKind(Routes(p)[i]) <=> Means(p.doc.entries[i]) = "handler"
              /\ HandlerKind(Routes(p)[i]) => Routes(p)[i].method = p.doc.entries[i].method
              /\ EffectivePath(Routes(p)[i]) = ServedAt(p.doc.entries[i])
  <1> DEFINE e == p.doc.entries
             legacy == MapSeq(NormalizeTarget, e)
  <1>1. Routes(p) = ParseRoutes(p.doc) /\ ParseRoutes(p.doc) # None
    BY RequestsAssumption DEF Routes, RequestsAssumption
  <1>2. \A i \in DOMAIN e : DOMAIN e[i] = DOMAIN Blank /\ Plain(e[i])
    BY RequestsAssumption DEF RequestsAssumption, PlainPackages
  <1>3. CASE AllCanonical(e)
    <2>1. ParseRoutes(p.doc) = MapSeq(Classify, e)
      BY <1>3 DEF ParseRoutes
    <2>2. DOMAIN Routes(p) = DOMAIN e /\ \A i \in DOMAIN e : Routes(p)[i] = Classify(e[i])
      BY <1>1, <2>1 DEF MapSeq
    <2> QED BY <1>2, <1>3, <2>2, ClassifyMeans DEF AllCanonical
  <1>4. CASE ~AllCanonical(e)
    <2>1. AllCanonical(legacy) /\ ParseRoutes(p.doc) = MapSeq(Classify, legacy)
      BY <1>1, <1>4 DEF ParseRoutes
    <2>2. DOMAIN legacy = DOMAIN e /\ \A i \in DOMAIN e : legacy[i] = NormalizeTarget(e[i])
      BY DEF MapSeq
    <2>3. \A i \in DOMAIN e : Canonical(NormalizeTarget(e[i]))
      BY <2>1, <2>2 DEF AllCanonical
    <2> HIDE DEF legacy
    <2>4. DOMAIN Routes(p) = DOMAIN e /\ \A i \in DOMAIN e : Routes(p)[i] = Classify(NormalizeTarget(e[i]))
      BY <1>1, <2>1, <2>2 DEF MapSeq
    <2> QED BY <1>2, <2>3, <2>4, LegacyMeans
  <1> QED BY <1>3, <1>4


LEMMA EveryPrecedes ==
  ASSUME Every, PlainPackages
  PROVE  Precedence
  <1> SUFFICES ASSUME NEW s \in Slots, OnPackage(s), Asked(s).doc.form # "absent"
      PROVE  LET e        == Asked(s).doc.entries
                 at       == {i \in DOMAIN e : ServedAt(e[i]) = asked[s].path}
                 handlers == {i \in at : Means(e[i]) = "handler"}
                 mine     == {i \in handlers : e[i].method = asked[s].method}
                 rest     == at \ handlers
             IN /\ mine # {} => worker[s].by = First(mine) /\ others[s].node.by = First(mine)
                /\ mine = {} /\ rest # {} =>
                     /\ worker[s].by = First(rest)
                     /\ others[s].node.by = IF IsRead(asked[s].method) THEN First(rest) ELSE 0
                /\ mine = {} /\ rest = {} =>
                     /\ worker[s].status = IF handlers = {} THEN 404 ELSE 405
                     /\ handlers # {} => worker[s].headers["allow"] = {e[i].method : i \in handlers}
                     /\ others[s].node.status = worker[s].status /\ others[s].node.headers = worker[s].headers
                /\ others[s].cloudflare.by = others[s].node.by
    BY DEF Precedence
  <1> DEFINE p        == Asked(s)
             path     == asked[s].path
             method   == asked[s].method
             routes   == Routes(p)
             e        == p.doc.entries
             at       == {i \in DOMAIN e : ServedAt(e[i]) = path}
             handlers == {i \in at : Means(e[i]) = "handler"}
             mine     == {i \in handlers : e[i].method = method}
             rest     == at \ handlers
             found    == Found(p, path, method)
             r        == FoundRoute(p, path, method)
             w        == worker[s]
             n        == others[s].node
             c        == others[s].cloudflare
  <1>1. p \in Packages /\ p = Package(asked[s].model) /\ path # None /\ path \notin DOMAIN Introspect
    BY DoneIs DEF OnPackage, Done
  <1>2. /\ DOMAIN routes = DOMAIN e
        /\ \A i \in DOMAIN e :
             /\ HandlerKind(routes[i]) <=> Means(e[i]) = "handler"
             /\ HandlerKind(routes[i]) => routes[i].method = e[i].method
             /\ EffectivePath(routes[i]) = ServedAt(e[i])
    BY <1>1, DeclaredMeans
  <1>3. handlers = Handlers(routes, path)
    BY <1>2 DEF Handlers
  <1>4. mine = Mine(routes, path, method)
    BY <1>2, <1>3 DEF Mine, Handlers
  <1>5. rest = Others(routes, path)
    BY <1>2, <1>3 DEF Others, At
  <1>6. {e[i].method : i \in handlers} = {routes[i].method : i \in Handlers(routes, path)}
    BY <1>2, <1>3 DEF Handlers
  <1>7. DOMAIN routes \subseteq Nat \ {0}
    BY <1>1, RequestsAssumption DEF RequestsAssumption
  <1>8. w.by = found.by
    BY WorkerDone DEF OnPackage, Done
  <1> DEFINE methods == {e[i].method : i \in handlers}
  <1>9. /\ mine # {} => found = Resolved("handler", First(mine)) /\ First(mine) \in mine
        /\ mine = {} /\ rest # {} => found = Static(routes, First(rest)) /\ First(rest) \in rest
        /\ mine = {} /\ rest = {} /\ handlers # {} => found = Refused(methods)
        /\ mine = {} /\ rest = {} /\ handlers = {} => found = Resolved("not-found", 0)
    <2> HIDE DEF mine, rest, handlers, methods
    <2> QED BY <1>3, <1>4, <1>5, <1>6, <1>7, Resolves DEF Found, methods
  <1> HIDE DEF w, n, c, r
  \* The two pipelines name the same route: of a static one, only when it is read.
  <1>10. CASE mine # {}
    <2>1. found.by = First(mine) /\ found = Resolved("handler", found.by)
      <3> HIDE DEF mine, rest, handlers, methods, found
      <3> QED BY <1>9, <1>10 DEF Resolved
    <2>2. First(mine) \in DOMAIN routes /\ HandlerKind(routes[First(mine)])
      BY <1>2, <1>9, <1>10
    <2>3. FoundHandler(p, path, method)
      BY <2>1, <2>2 DEF FoundHandler, OfHandler
    <2>4. n = Sent(method, Failure(501, found.by)) /\ c = Sent(method, Failure(501, found.by))
      BY <2>3, NodeSent DEF n, c
    <2>5. n.by = found.by /\ c.by = found.by
      BY <2>4, SentBody, Failed
    <2> QED BY <1>8, <1>10, <2>1, <2>5 DEF w, n, c
  <1>11. CASE mine = {} /\ rest # {}
    <2>1. found.by = First(rest) /\ found = Static(routes, found.by)
      <3> HIDE DEF mine, rest, handlers, methods, found
      <3> QED BY <1>9, <1>11 DEF Static, Resolved
    <2>2. First(rest) \in DOMAIN routes /\ ~HandlerKind(routes[First(rest)])
      BY <1>2, <1>9, <1>11
    <2>3. OfStatic(routes, found)
      BY <2>1, <2>2 DEF OfStatic
    <2>4. ASSUME NEW a, NEW b, IsAnswer(a), a.by = found.by, IsAnswer(b), b.by = found.by,
                 n = Sent(method, IF IsRead(method) THEN a ELSE NotAllowed(ReadMethods)),
                 c = Sent(method, IF IsRead(method) THEN b ELSE NotAllowed(ReadMethods))
          PROVE  n.by = (IF IsRead(method) THEN found.by ELSE 0) /\ c.by = n.by
      <3>1. IsAnswer(NotAllowed(ReadMethods)) /\ NotAllowed(ReadMethods).by = 0
        BY NotAllowedIs DEF Honest
      <3> HIDE DEF found
      <3> QED BY <2>4, <3>1, SentBody
    <2>5. n.by = (IF IsRead(method) THEN found.by ELSE 0) /\ c.by = n.by
      <3>1. CASE FoundResource(p, path, method)
        <4>1. IsRef(r.resource)
          BY <1>1, <3>1, FoundRouteIs DEF r
        <4>2. /\ IsAnswer(NodeResource(p, r, found.by)) /\ NodeResource(p, r, found.by).by = found.by
              /\ IsAnswer(CloudflareResource(p, r, found.by)) /\ CloudflareResource(p, r, found.by).by = found.by
          BY <1>1, <4>1, NodeResourceIs, CloudflareResourceIs DEF Honest
        <4> QED BY <2>4, <3>1, <4>2, NodeSent DEF n, c, r
      <3>2. CASE FoundDataset(p, path, method)
        <4>1. /\ IsAnswer(NodeDataset(p, r.dataset, found.by)) /\ NodeDataset(p, r.dataset, found.by).by = found.by
              /\ IsAnswer(CloudflareDataset(p, r.dataset, found.by)) /\ CloudflareDataset(p, r.dataset, found.by).by = found.by
          BY DatasetAnswered DEF Honest, NodeDataset, CloudflareDataset
        <4> QED BY <2>4, <3>2, <4>1, NodeSent DEF n, c, r
      <3> QED BY <2>3, <3>1, <3>2 DEF FoundResource, FoundDataset
    <2> HIDE DEF found
    <2> QED BY <1>8, <1>11, <2>1, <2>5 DEF w, n, c
  <1>12. CASE mine = {} /\ rest = {}
    <2>1. CASE handlers # {}
      <3>1. found = Refused(methods)
        BY <1>9, <1>12, <2>1
      <3> HIDE DEF methods
      <3>2. FoundRefused(p, path, method) /\ found.allowed = methods
        BY <3>1 DEF FoundRefused, Refused
      <3>3. w = NotAllowed(methods)
        <4>1. ~Runs(p, path, method)
          BY <1>1, <3>2, WorkerServes, FoundRouteIs
        <4> QED BY <1>1, <3>2, <4>1, WorkerServes, DoneIs DEF w, OnPackage, Done
      <3>4. n = Sent(method, NotAllowed(methods)) /\ c = Sent(method, NotAllowed(methods))
        BY <3>2, NodeSent DEF n, c
      <3>5. /\ n.status = 405 /\ n.by = 0 /\ c.by = 0 /\ n.headers = w.headers
            /\ w.status = 405 /\ w.headers["allow"] = methods
        BY <3>3, <3>4, Sends, NotAllowedIs DEF Honest
      <3> QED BY <1>12, <2>1, <3>5 DEF w, n, c, methods
    <2>2. CASE handlers = {}
      <3>1. FoundNothing(p, path, method)
        BY <1>9, <1>12, <2>2 DEF FoundNothing
      <3>2. w = Failure(404, 0)
        <4>1. ~Runs(p, path, method)
          BY <1>1, <3>1, WorkerServes, FoundRouteIs
        <4> QED BY <1>1, <3>1, <4>1, WorkerServes, DoneIs DEF w, OnPackage, Done
      <3>3. n = Sent(method, Failure(404, 0)) /\ c = Sent(method, Failure(404, 0))
        BY <3>1, NodeSent DEF n, c
      <3>4. n.status = 404 /\ n.by = 0 /\ c.by = 0 /\ n.headers = w.headers /\ w.status = 404
        BY <3>2, <3>3, Sends, Failed
      <3> QED BY <1>12, <2>2, <3>4 DEF w, n, c
    <2> QED BY <2>1, <2>2
  <1> QED BY <1>10, <1>11, <1>12

\* Where every entry says one thing, the first handler of the method answers, else the
\* first other route served at the path, else 405 with the handlers' methods or 404; all
\* three reactors pick the same route (resolver.ts:32-78, routes.ts:109-174).
THEOREM PrecedenceHolds ==
  ASSUME PlainPackages
  PROVE  Spec => []Precedence
  <1>1. Every => Precedence
    BY EveryPrecedes
  <1> QED BY EveryIsInvariant, <1>1, PTL

(***************************************************************************)
(* Which file a generated path stands for                                   *)
(***************************************************************************)
Kept(p) == {i \in DOMAIN SortedNames : SortedNames[i] \in p.manifest}
Ids(p)  == {i \in DOMAIN SortedIds : SortedIds[i] \in DOMAIN p.data}

\* The last place of a file; the datasets' come after it.
NamesEnd    == 2 * Len(SortedNames) + 1

Whole(i)    == RouteTo(SortedNames[i], Own(SortedNames[i]))
Stripped(i) == RouteTo(Strip[SortedNames[i]], Own(SortedNames[i]))

LEMMA Halves == \A i \in Nat : (2 * i) \div 2 = i /\ (2 * i + 1) \div 2 = i
  OBVIOUS

LEMMA Order ==
  /\ DOMAIN SortedNames = 1 .. Len(SortedNames) /\ Len(SortedNames) \in Nat
  /\ DOMAIN SortedIds \subseteq Nat \ {0}
  /\ \A i \in DOMAIN SortedNames : SortedNames[i] # <<>>
  BY ServingAssumption DEF ServingAssumption

\* The places of the generated routes, and the route at each.
LEMMA Places ==
  ASSUME NEW p
  PROVE  LET B == BuildRoutes(p)
         IN /\ DOMAIN B = (IF Index \in p.manifest THEN {1} ELSE {})
                            \cup {2 * i : i \in {i \in Kept(p) : Strip[SortedNames[i]] # SortedNames[i]}}
                            \cup {2 * i + 1 : i \in Kept(p)} \cup {NamesEnd + i : i \in Ids(p)}
            /\ Index \in p.manifest => B[1] = RouteTo(<<>>, Own(Index))
            /\ \A i \in Kept(p) : Strip[SortedNames[i]] # SortedNames[i] => B[2 * i] = Stripped(i)
            /\ \A i \in Kept(p) : B[2 * i + 1] = Whole(i)
            /\ \A i \in Ids(p) : B[NamesEnd + i] = DataRoute(SortedIds[i])
  <1> DEFINE root     == IF Index \in p.manifest THEN {1} ELSE {}
             stripped == {2 * i : i \in {i \in Kept(p) : Strip[SortedNames[i]] # SortedNames[i]}}
             whole    == {2 * i + 1 : i \in Kept(p)}
             data     == {NamesEnd + i : i \in Ids(p)}
             places   == root \cup stripped \cup whole \cup data
             at(k)    == CASE k \in root     -> RouteTo(<<>>, Own(Index))
                           [] k \in stripped -> RouteTo(Strip[SortedNames[k \div 2]], Own(SortedNames[k \div 2]))
                           [] k \in whole    -> RouteTo(SortedNames[k \div 2], Own(SortedNames[k \div 2]))
                           [] k \in data     -> DataRoute(SortedIds[k - NamesEnd])
  <1>1. BuildRoutes(p) = [k \in places |-> at(k)]
    BY DEF BuildRoutes, RoutesInOrder, Kept, Ids, NamesEnd
  <1>2. /\ Kept(p) \subseteq 1 .. Len(SortedNames) /\ Len(SortedNames) \in Nat
        /\ Ids(p) \subseteq Nat \ {0}
    BY Order DEF Kept, Ids
  <1>3. NamesEnd \in Nat /\ \A i \in Kept(p) : 2 * i < NamesEnd /\ 2 * i + 1 <= NamesEnd
    BY <1>2 DEF NamesEnd
  <1>4. \A k \in root : k = 1
    OBVIOUS
  <1>5. ASSUME Index \in p.manifest PROVE 1 \in places /\ at(1) = RouteTo(<<>>, Own(Index))
    <2>1. 1 \in root /\ 1 \notin stripped
      BY <1>2, <1>5
    <2>2. 1 \notin whole /\ 1 \notin data
      BY <1>2, <1>3 DEF NamesEnd
    <2> HIDE DEF root, stripped, whole, data
    <2> QED BY <2>1, <2>2, Zenon
  <1>6. ASSUME NEW i \in Kept(p), Strip[SortedNames[i]] # SortedNames[i]
        PROVE  2 * i \in places /\ at(2 * i) = Stripped(i)
    <2>1. 2 * i \in stripped /\ 2 * i \notin root /\ (2 * i) \div 2 = i
      BY <1>2, <1>4, <1>6, Halves
    <2>2. 2 * i \notin whole /\ 2 * i \notin data
      BY <1>2, <1>3
    <2> HIDE DEF root, stripped, whole, data
    <2> QED BY <2>1, <2>2, Zenon DEF Stripped
  <1>7. ASSUME NEW i \in Kept(p) PROVE 2 * i + 1 \in places /\ at(2 * i + 1) = Whole(i)
    <2>1. 2 * i + 1 \in whole /\ 2 * i + 1 \notin root /\ (2 * i + 1) \div 2 = i
      BY <1>2, <1>4, <1>7, Halves
    <2>2. 2 * i + 1 \notin stripped /\ 2 * i + 1 \notin data
      BY <1>2, <1>3
    <2> HIDE DEF root, stripped, whole, data
    <2> QED BY <2>1, <2>2, Zenon DEF Whole
  <1>8. ASSUME NEW i \in Ids(p) PROVE NamesEnd + i \in places /\ at(NamesEnd + i) = DataRoute(SortedIds[i])
    <2>1. NamesEnd + i \in data /\ NamesEnd + i > NamesEnd /\ NamesEnd + i - NamesEnd = i
      BY <1>2, <1>3
    <2>2. NamesEnd + i \notin stripped /\ NamesEnd + i \notin whole
      BY <1>2, <1>3, <2>1
    <2>3. NamesEnd + i \notin root
      BY <1>2, <1>4 DEF NamesEnd
    <2> DEFINE k == NamesEnd + i
    <2> HIDE DEF root, stripped, whole, data
    <2>4. k \in data /\ k \notin root /\ k \notin stripped /\ k \notin whole
      BY <2>1, <2>2, <2>3
    <2>5. k - NamesEnd = i
      BY <1>2, <1>3
    <2> HIDE DEF k
    <2>6. k \in places /\ at(k) = DataRoute(SortedIds[i])
      BY <2>4, <2>5, Zenon
    <2> QED BY <2>6 DEF k
  <1> HIDE DEF at, root, stripped, whole, data
  <1>9. DOMAIN BuildRoutes(p) = places /\ \A k \in places : BuildRoutes(p)[k] = at(k)
    BY <1>1
  <1>10. places = root \cup stripped \cup whole \cup data
    OBVIOUS
  <1> HIDE DEF places
  <1> QED BY <1>5, <1>6, <1>7, <1>8, <1>9, <1>10 DEF root, stripped, whole, data

\* A generated route is a resource's or a dataset's, served at its path.
LEMMA GeneratedFields ==
  /\ \A path, name : LET r == RouteTo(path, Own(name))
                     IN ~HandlerKind(r) /\ EffectivePath(r) = path /\ r.resource = Own(name)
                        /\ r.rewrite = None
  /\ \A id : LET r == DataRoute(id)
             IN ~HandlerKind(r) /\ EffectivePath(r) = <<DataSegment, id>> /\ r.resource = None /\ r.dataset = id
  BY DEF RouteTo, DataRoute, Own, Blank, HandlerKind, EffectivePath

\* What the layout of a generated document says of a path: the file that is the root, the
\* file of that name, the files it is without their extension, and the datasets.
Rooted(p, path) == path = <<>> /\ Index \in p.manifest
Stems(p, path)  == {i \in DOMAIN SortedNames : SortedNames[i] \in p.manifest /\ Strip[SortedNames[i]] = path}
IdsAt(p, path)  == {id \in DOMAIN p.data : path = <<DataSegment, id>>}

\* The routes served at a path, by their places.
AtRoot(p, path, k)     == k = 1 /\ Rooted(p, path)
AtStem(p, path, k)     == \E i \in Stems(p, path) : k = 2 * i /\ path # SortedNames[i]
AtName(p, path, k)     == \E i \in Kept(p) : k = 2 * i + 1 /\ path = SortedNames[i]
AtDataset(p, path, k)  == \E i \in Ids(p) : k = NamesEnd + i /\ path = <<DataSegment, SortedIds[i]>>

LEMMA GeneratedAt ==
  ASSUME NEW p, NEW path
  PROVE  LET O == Others(BuildRoutes(p), path)
         IN /\ Handlers(BuildRoutes(p), path) = {}
            /\ \A k \in O : AtRoot(p, path, k) \/ AtStem(p, path, k) \/ AtName(p, path, k) \/ AtDataset(p, path, k)
            /\ Rooted(p, path) => 1 \in O
            /\ \A i \in Stems(p, path) : path # SortedNames[i] => 2 * i \in O
            /\ \A i \in Kept(p) : path = SortedNames[i] => 2 * i + 1 \in O
            /\ \A i \in Ids(p) : path = <<DataSegment, SortedIds[i]>> => NamesEnd + i \in O
  <1> DEFINE B == BuildRoutes(p)
             O == Others(B, path)
             shorter == {i \in Kept(p) : Strip[SortedNames[i]] # SortedNames[i]}
  <1>1. /\ DOMAIN B = (IF Index \in p.manifest THEN {1} ELSE {}) \cup {2 * i : i \in shorter}
                        \cup {2 * i + 1 : i \in Kept(p)} \cup {NamesEnd + i : i \in Ids(p)}
        /\ Index \in p.manifest => B[1] = RouteTo(<<>>, Own(Index))
        /\ \A i \in Kept(p) : Strip[SortedNames[i]] # SortedNames[i] => B[2 * i] = Stripped(i)
        /\ \A i \in Kept(p) : B[2 * i + 1] = Whole(i)
        /\ \A i \in Ids(p) : B[NamesEnd + i] = DataRoute(SortedIds[i])
    BY Places
  <1> HIDE DEF B
  <1>2. Index \in p.manifest => ~HandlerKind(B[1]) /\ EffectivePath(B[1]) = <<>>
    BY <1>1, GeneratedFields
  <1>3. \A i \in shorter : ~HandlerKind(B[2 * i]) /\ EffectivePath(B[2 * i]) = Strip[SortedNames[i]]
    BY <1>1, GeneratedFields DEF Stripped
  <1>4. \A i \in Kept(p) : ~HandlerKind(B[2 * i + 1]) /\ EffectivePath(B[2 * i + 1]) = SortedNames[i]
    BY <1>1, GeneratedFields DEF Whole
  <1>5. \A i \in Ids(p) : ~HandlerKind(B[NamesEnd + i]) /\ EffectivePath(B[NamesEnd + i]) = <<DataSegment, SortedIds[i]>>
    BY <1>1, GeneratedFields
  <1>6. \A k \in DOMAIN B : ~HandlerKind(B[k])
    BY <1>1, <1>2, <1>3, <1>4, <1>5
  <1>7. Handlers(B, path) = {} /\ O = {k \in DOMAIN B : EffectivePath(B[k]) = path}
    BY <1>6 DEF Handlers, Others, At
  <1>8. \A i : i \in Stems(p, path) /\ path # SortedNames[i] <=> i \in shorter /\ Strip[SortedNames[i]] = path
    BY DEF Stems, Kept
  <1> HIDE DEF O
  <1>9. ASSUME NEW k \in O
        PROVE  AtRoot(p, path, k) \/ AtStem(p, path, k) \/ AtName(p, path, k) \/ AtDataset(p, path, k)
    <2>1. k \in DOMAIN B /\ EffectivePath(B[k]) = path
      BY <1>7
    <2>2. CASE k = 1 /\ Index \in p.manifest
      BY <1>2, <2>1, <2>2 DEF AtRoot, Rooted
    <2>3. CASE \E i \in shorter : k = 2 * i
      BY <1>3, <1>8, <2>1, <2>3 DEF AtStem
    <2>4. CASE \E i \in Kept(p) : k = 2 * i + 1
      BY <1>4, <2>1, <2>4 DEF AtName
    <2>5. CASE \E i \in Ids(p) : k = NamesEnd + i
      BY <1>5, <2>1, <2>5 DEF AtDataset
    <2> QED BY <1>1, <2>1, <2>2, <2>3, <2>4, <2>5
  <1>10. Rooted(p, path) => 1 \in O
    BY <1>1, <1>2, <1>7 DEF Rooted
  <1>11. \A i \in Stems(p, path) : path # SortedNames[i] => 2 * i \in O
    BY <1>1, <1>3, <1>7, <1>8
  <1>12. \A i \in Kept(p) : path = SortedNames[i] => 2 * i + 1 \in O
    BY <1>1, <1>4, <1>7
  <1>13. \A i \in Ids(p) : path = <<DataSegment, SortedIds[i]>> => NamesEnd + i \in O
    BY <1>1, <1>5, <1>7
  <1> QED BY <1>7, <1>9, <1>10, <1>11, <1>12, <1>13 DEF B, O

\* A least element, when one is known.
LEMMA FirstIs ==
  ASSUME NEW S, S \subseteq Nat, NEW m \in S, \A k \in S : m <= k
  PROVE  First(S) = m
  <1>1. First(S) \in S /\ First(S) <= m
    BY Minimum
  <1>2. m <= First(S) /\ m \in Nat /\ First(S) \in Nat
    BY <1>1
  <1> QED BY <1>1, <1>2

\* The first route served at a path, where a file takes it.
LEMMA FirstGenerated ==
  ASSUME NEW p, NEW path
  PROVE  LET O == Others(BuildRoutes(p), path)
         IN /\ O \subseteq Nat \ {0}
            /\ Rooted(p, path) => First(O) = 1 /\ 1 \in O
            /\ \A i \in Kept(p) : path = SortedNames[i] => First(O) = 2 * i + 1 /\ 2 * i + 1 \in O
            /\ ~Rooted(p, path) /\ (\A i \in Kept(p) : path # SortedNames[i]) /\ Stems(p, path) # {} =>
                 LET m == First(Stems(p, path))
                 IN m \in Stems(p, path) /\ First(O) = 2 * m /\ 2 * m \in O
            /\ ~Rooted(p, path) /\ (\A i \in Kept(p) : path # SortedNames[i]) /\ Stems(p, path) = {} =>
                 \A k \in O : AtDataset(p, path, k)
  <1> DEFINE O     == Others(BuildRoutes(p), path)
             stems == Stems(p, path)
  <1>1. \A k \in O : AtRoot(p, path, k) \/ AtStem(p, path, k) \/ AtName(p, path, k) \/ AtDataset(p, path, k)
    BY GeneratedAt
  <1>2. /\ Kept(p) \subseteq DOMAIN SortedNames /\ stems \subseteq DOMAIN SortedNames /\ Ids(p) \subseteq Nat \ {0}
        /\ DOMAIN SortedNames \subseteq Nat \ {0} /\ stems \subseteq Kept(p)
        /\ NamesEnd \in Nat /\ \A i \in DOMAIN SortedNames : 2 * i < NamesEnd /\ 2 * i + 1 <= NamesEnd
    BY Order DEF Kept, Ids, Stems, NamesEnd
  <1>3. /\ Rooted(p, path) => 1 \in O
        /\ \A i \in stems : path # SortedNames[i] => 2 * i \in O
        /\ \A i \in Kept(p) : path = SortedNames[i] => 2 * i + 1 \in O
    BY GeneratedAt
  <1> HIDE DEF O
  <1>4. O \subseteq Nat \ {0}
    BY <1>1, <1>2 DEF AtRoot, AtStem, AtName, AtDataset
  <1>5. Rooted(p, path) => First(O) = 1 /\ 1 \in O
    <2>1. O \subseteq Nat /\ \A k \in O : 1 <= k
      BY <1>4
    <2> QED BY <1>3, <2>1, FirstIs
  <1>6. ASSUME NEW i \in Kept(p), path = SortedNames[i]
        PROVE  First(O) = 2 * i + 1 /\ 2 * i + 1 \in O
    <2>1. path # <<>> /\ i \in Nat
      BY <1>2, <1>6, Order
    <2>2. ASSUME NEW k \in O PROVE 2 * i + 1 <= k
      <3>1. CASE AtRoot(p, path, k)
        BY <2>1, <3>1 DEF AtRoot, Rooted
      <3>2. CASE AtStem(p, path, k)
        <4>1. PICK j \in stems : k = 2 * j /\ path # SortedNames[j]
          BY <3>2 DEF AtStem
        <4>2. Strip[SortedNames[j]] = SortedNames[i] /\ i # j
          BY <1>6, <4>1 DEF Stems
        <4>3. i <= j
          BY <1>2, <4>2, ServingAssumption DEF ServingAssumption
        <4> QED BY <1>2, <4>1, <4>2, <4>3
      <3>3. CASE AtName(p, path, k)
        <4>1. PICK j \in Kept(p) : k = 2 * j + 1 /\ path = SortedNames[j]
          BY <3>3 DEF AtName
        <4>2. i = j
          BY <1>2, <1>6, <4>1, ServingAssumption DEF ServingAssumption
        <4> QED BY <1>2, <4>1, <4>2
      <3>4. CASE AtDataset(p, path, k)
        BY <1>2, <3>4 DEF AtDataset
      <3> QED BY <1>1, <3>1, <3>2, <3>3, <3>4
    <2>3. 2 * i + 1 \in O
      BY <1>3, <1>6
    <2> QED BY <1>4, <2>2, <2>3, FirstIs
  <1>7. ASSUME ~Rooted(p, path), \A i \in Kept(p) : path # SortedNames[i], stems # {}
        PROVE  First(stems) \in stems /\ First(O) = 2 * First(stems) /\ 2 * First(stems) \in O
    <2> DEFINE m == First(stems)
    <2>1. m \in stems /\ \A j \in stems : m <= j
      BY <1>2, <1>7, Minimum
    <2> HIDE DEF m, stems
    <2>2. 2 * m \in O
      BY <1>2, <1>3, <1>7, <2>1
    <2>3. \A k \in O : 2 * m <= k
      <3> SUFFICES ASSUME NEW k \in O PROVE 2 * m <= k
        OBVIOUS
      <3>1. ~AtRoot(p, path, k) /\ ~AtName(p, path, k)
        BY <1>7 DEF AtRoot, AtName
      <3>2. CASE AtStem(p, path, k)
        BY <1>2, <2>1, <3>2 DEF AtStem, stems
      <3>3. CASE AtDataset(p, path, k)
        BY <1>2, <2>1, <3>3 DEF AtDataset
      <3> QED BY <1>1, <3>1, <3>2, <3>3
    <2> QED BY <1>4, <2>1, <2>2, <2>3, FirstIs DEF m
  <1>8. ASSUME ~Rooted(p, path), \A i \in Kept(p) : path # SortedNames[i], stems = {}
        PROVE  \A k \in O : AtDataset(p, path, k)
    BY <1>1, <1>8 DEF AtRoot, AtName, AtStem
  <1> QED BY <1>4, <1>5, <1>6, <1>7, <1>8 DEF O


\* What the resolver finds: the file of a name, by a route that sends it as it is.
FileFound(p, path, method, name) ==
  /\ FoundResource(p, path, method)
  /\ FoundRoute(p, path, method).resource = Own(name) /\ FoundRoute(p, path, method).rewrite = None

LEMMA GeneratedFound ==
  ASSUME NEW p \in Packages, p.doc.form = "absent", NEW path, NEW method
  PROVE  /\ Rooted(p, path) => FileFound(p, path, method, Index)
         /\ path \in p.manifest => FileFound(p, path, method, path)
         /\ ~Rooted(p, path) /\ path \notin p.manifest /\ Stems(p, path) # {} =>
              FileFound(p, path, method, SortedNames[First(Stems(p, path))])
         /\ ~Rooted(p, path) /\ path \notin p.manifest /\ Stems(p, path) = {} =>
              IF IdsAt(p, path) = {} THEN FoundNothing(p, path, method)
              ELSE FoundDataset(p, path, method) /\ FoundRoute(p, path, method).dataset \in IdsAt(p, path)
  <1> DEFINE B     == BuildRoutes(p)
             O     == Others(B, path)
             found == Found(p, path, method)
             r     == FoundRoute(p, path, method)
  <1>1. Routes(p) = B
    BY DEF Routes
  <1>2. Handlers(B, path) = {} /\ DOMAIN B \subseteq Nat \ {0}
    BY <1>1, GeneratedAt, RequestsAssumption DEF RequestsAssumption
  <1>3. Mine(B, path, method) = {}
    BY <1>2 DEF Mine
  <1>4. /\ O # {} => found = Static(B, First(O)) /\ First(O) \in O
        /\ O = {} => found = Resolved("not-found", 0)
    BY <1>1, <1>2, <1>3, Resolves DEF Found
  <1>5. \A k \in O : k \in DOMAIN B /\ ~HandlerKind(B[k]) /\ IsRoute(B[k])
    BY <1>1, RouteOfPackage DEF Others, At, Handlers
  <1>6. p.manifest \subseteq ToSet(SortedNames) /\ DOMAIN p.data \subseteq ToSet(SortedIds)
    BY RequestsAssumption DEF RequestsAssumption
  <1>7. path \in p.manifest <=> \E i \in Kept(p) : path = SortedNames[i]
    BY <1>6 DEF Kept, ToSet
  <1>8. \A k \in O : found = Static(B, k) => found.by = k /\ r = B[k] /\ OfStatic(Routes(p), found)
    BY <1>1, <1>5 DEF FoundRoute, Static, Resolved, OfStatic
  \* A file's route that comes first.
  <1>9. ASSUME NEW k \in O, First(O) = k, NEW at, NEW name, B[k] = RouteTo(at, Own(name))
        PROVE  FileFound(p, path, method, name)
    <2>1. B[k].resource = Own(name) /\ B[k].rewrite = None /\ B[k].dataset = None /\ B[k].handler = None
      BY <1>9 DEF RouteTo, Blank
    <2>2. B[k].resource # None
      BY <1>5, <2>1 DEF IsRoute
    <2>3. r = B[k] /\ OfStatic(Routes(p), found)
      BY <1>4, <1>8, <1>9
    <2> HIDE DEF r, found, B, O
    <2> QED BY <2>1, <2>2, <2>3 DEF FileFound, FoundResource, r, found
  <1>10. /\ Index \in p.manifest => B[1] = RouteTo(<<>>, Own(Index))
         /\ \A i \in Kept(p) : Strip[SortedNames[i]] # SortedNames[i] => B[2 * i] = RouteTo(Strip[SortedNames[i]], Own(SortedNames[i]))
         /\ \A i \in Kept(p) : B[2 * i + 1] = RouteTo(SortedNames[i], Own(SortedNames[i]))
         /\ \A i \in Ids(p) : B[NamesEnd + i] = DataRoute(SortedIds[i])
    BY Places DEF Stripped, Whole
  <1>11. /\ Rooted(p, path) => First(O) = 1 /\ 1 \in O
         /\ \A i \in Kept(p) : path = SortedNames[i] => First(O) = 2 * i + 1 /\ 2 * i + 1 \in O
         /\ ~Rooted(p, path) /\ (\A i \in Kept(p) : path # SortedNames[i]) /\ Stems(p, path) # {} =>
              LET m == First(Stems(p, path))
              IN m \in Stems(p, path) /\ First(O) = 2 * m /\ 2 * m \in O
         /\ ~Rooted(p, path) /\ (\A i \in Kept(p) : path # SortedNames[i]) /\ Stems(p, path) = {} =>
              \A k \in O : AtDataset(p, path, k)
    BY FirstGenerated
  <1>12. \A i \in Ids(p) : path = <<DataSegment, SortedIds[i]>> => NamesEnd + i \in O
    BY GeneratedAt
  <1> HIDE DEF B, O, found, r
  <1>13. Rooted(p, path) => FileFound(p, path, method, Index)
    BY <1>9, <1>10, <1>11 DEF Rooted
  <1>14. path \in p.manifest => FileFound(p, path, method, path)
    BY <1>7, <1>9, <1>10, <1>11
  <1>15. ASSUME ~Rooted(p, path), path \notin p.manifest, Stems(p, path) # {}
         PROVE  FileFound(p, path, method, SortedNames[First(Stems(p, path))])
    <2> DEFINE m == First(Stems(p, path))
    <2>1. m \in Stems(p, path) /\ First(O) = 2 * m /\ 2 * m \in O
      BY <1>7, <1>11, <1>15
    <2> HIDE DEF m
    <2>2. m \in Kept(p) /\ Strip[SortedNames[m]] = path /\ path # SortedNames[m]
      BY <1>7, <1>15, <2>1 DEF Stems, Kept
    <2>3. B[2 * m] = RouteTo(path, Own(SortedNames[m]))
      BY <1>10, <2>2
    <2> QED BY <1>9, <2>1, <2>3 DEF m
  <1>16. ASSUME ~Rooted(p, path), path \notin p.manifest, Stems(p, path) = {}
         PROVE  IF IdsAt(p, path) = {} THEN FoundNothing(p, path, method)
                ELSE FoundDataset(p, path, method) /\ r.dataset \in IdsAt(p, path)
    <2>1. \A k \in O : AtDataset(p, path, k)
      BY <1>7, <1>11, <1>16
    <2>2. CASE O = {}
      <3>1. IdsAt(p, path) = {}
        BY <1>6, <1>12, <2>2 DEF IdsAt, Ids, ToSet
      <3> QED BY <1>4, <2>2, <3>1 DEF FoundNothing, found
    <2>3. CASE O # {}
      <3>1. First(O) \in O /\ found = Static(B, First(O))
        BY <1>4, <2>3
      <3>2. PICK i \in Ids(p) : First(O) = NamesEnd + i /\ path = <<DataSegment, SortedIds[i]>>
        BY <2>1, <3>1 DEF AtDataset
      <3>3. SortedIds[i] \in IdsAt(p, path)
        BY <3>2 DEF Ids, IdsAt
      <3>4. r = DataRoute(SortedIds[i]) /\ OfStatic(Routes(p), found)
        BY <1>8, <1>10, <3>1, <3>2
      <3>5. r.resource = None /\ r.dataset = SortedIds[i]
        BY <3>4 DEF DataRoute, Blank
      <3>6. FoundDataset(p, path, method)
        BY <3>4, <3>5 DEF FoundDataset, r, found
      <3> QED BY <3>3, <3>5, <3>6
    <2> QED BY <2>2, <2>3
  <1> QED BY <1>13, <1>14, <1>15, <1>16 DEF r


\* How the three reactors answer a GET that found a file.
LEMMA FileAnswers ==
  ASSUME Every, NEW s \in Slots, OnPackage(s), asked[s].method = "GET", NEW name,
         FileFound(Asked(s), asked[s].path, "GET", name),
         NEW answer \in {worker[s], others[s].node, others[s].cloudflare}
  PROVE  /\ answer.by # 0 /\ Routes(Asked(s))[answer.by].resource = Own(name)
         /\ Lookup(Asked(s).own, name) = "found" => answer.status = 200 /\ answer.body = Local(name)
  <1> DEFINE p    == Asked(s)
             path == asked[s].path
             by   == Found(p, path, "GET").by
             r    == FoundRoute(p, path, "GET")
  <1>1. p \in Packages /\ p = Package(asked[s].model) /\ path # None /\ path \notin DOMAIN Introspect
    BY DoneIs DEF OnPackage, Done
  <1>2. FoundResource(p, path, "GET") /\ r.resource = Own(name) /\ r.rewrite = None
    BY DEF FileFound
  <1>3. by # 0 /\ IsRef(r.resource)
    BY <1>1, <1>2, FoundRouteIs
  <1>4. others[s].node = NodeResource(p, r, by) /\ others[s].cloudflare = CloudflareResource(p, r, by)
    BY <1>2, NodeSent, GetIsRead
  <1>5. worker[s] = WorkerResource(p, r, by)
    <2>1. ~Runs(p, path, "GET")
      BY <1>1, <1>2, WorkerServes, FoundRouteIs
    <2> QED BY <1>1, <1>2, <2>1, WorkerServes, DoneIs DEF OnPackage, Done
  <1>6. ~r.resource.uri /\ r.resource.at = name /\ BodyOf(r, Local(name)) = Local(name)
    BY <1>2 DEF Own, BodyOf
  <1> HIDE DEF p, r, by
  <1>7. answer.by = by
    BY <1>1, <1>3, <1>4, <1>5, WorkerResourceIs, NodeResourceIs, CloudflareResourceIs DEF p
  <1>8. ASSUME Lookup(p.own, name) = "found" PROVE answer.status = 200 /\ answer.body = Local(name)
    BY <1>1, <1>3, <1>4, <1>5, <1>6, <1>8, WorkerResourceIs, NodeResourceIs, CloudflareResourceIs DEF p
  <1>9. r = Routes(p)[by]
    BY DEF r, by, FoundRoute
  <1> QED BY <1>2, <1>3, <1>7, <1>8, <1>9 DEF p

\* And one that found a dataset, or nothing.
LEMMA DatasetAnswers ==
  ASSUME Every, NEW s \in Slots, OnPackage(s), asked[s].method = "GET",
         FoundDataset(Asked(s), asked[s].path, "GET"),
         NEW answer \in {worker[s], others[s].node, others[s].cloudflare}
  PROVE  /\ answer.by = Found(Asked(s), asked[s].path, "GET").by /\ answer.by # 0
         /\ Routes(Asked(s))[answer.by].resource = None
  <1> DEFINE p    == Asked(s)
             path == asked[s].path
             by   == Found(p, path, "GET").by
             r    == FoundRoute(p, path, "GET")
  <1>1. p \in Packages
    BY DoneIs DEF OnPackage, Done
  <1>2. by # 0 /\ r.resource = None
    BY <1>1, FoundRouteIs
  <1>3. worker[s].by = by
    BY WorkerDone DEF OnPackage, Done
  <1>4. others[s].node = NodeDataset(p, r.dataset, by) /\ others[s].cloudflare = CloudflareDataset(p, r.dataset, by)
    BY NodeSent, GetIsRead
  <1>5. others[s].node.by = by /\ others[s].cloudflare.by = by
    BY <1>4, DatasetAnswered DEF NodeDataset, CloudflareDataset
  <1> QED BY <1>2, <1>3, <1>5 DEF FoundRoute

LEMMA NothingAnswers ==
  ASSUME Every, NEW s \in Slots, OnPackage(s), asked[s].method = "GET",
         FoundNothing(Asked(s), asked[s].path, "GET"),
         NEW answer \in {worker[s], others[s].node, others[s].cloudflare}
  PROVE  answer.status = 404 /\ answer.by = 0
  <1> DEFINE p    == Asked(s)
             path == asked[s].path
  <1>1. p \in Packages /\ p = Package(asked[s].model) /\ path # None /\ path \notin DOMAIN Introspect
    BY DoneIs DEF OnPackage, Done
  <1>2. ~Runs(p, path, "GET")
    BY <1>1, WorkerServes, FoundRouteIs
  <1>3. worker[s] = Failure(404, 0)
    BY <1>1, <1>2, WorkerServes, DoneIs DEF OnPackage, Done
  <1>4. others[s].node = Failure(404, 0) /\ others[s].cloudflare = Failure(404, 0)
    BY NodeSent, GetIsRead
  <1> QED BY <1>3, <1>4, Failed

LEMMA EveryReaches == Every => GeneratedReachable
  <1> SUFFICES ASSUME Every, NEW s \in Slots, OnPackage(s), Asked(s).doc.form = "absent", asked[s].method = "GET",
                      NEW answer \in {worker[s], others[s].node, others[s].cloudflare}
      PROVE  LET p      == Asked(s)
                 path   == asked[s].path
                 r      == Routes(p)[answer.by]
                 rooted == path = <<>> /\ Index \in p.manifest
                 named  == path \in p.manifest
                 stems  == {i \in DOMAIN SortedNames : SortedNames[i] \in p.manifest /\ Strip[SortedNames[i]] = path}
                 ids    == {id \in DOMAIN p.data : path = <<DataSegment, id>>}
                 Serves(name) == /\ answer.by # 0 /\ r.resource = Own(name)
                                 /\ Lookup(p.own, name) = "found" => answer.status = 200 /\ answer.body = Local(name)
             IN /\ rooted => Serves(Index)
                /\ named  => Serves(path)
                /\ ~rooted /\ ~named /\ stems # {} => Serves(SortedNames[First(stems)])
                /\ ~rooted /\ ~named /\ stems = {} =>
                     IF ids = {} THEN answer.status = 404 /\ answer.by = 0
                     ELSE answer.by # 0 /\ r.resource = None /\ r.dataset \in ids
    BY DEF GeneratedReachable
  <1> DEFINE p    == Asked(s)
             path == asked[s].path
             r    == Routes(p)[answer.by]
             Serves(name) == /\ answer.by # 0 /\ r.resource = Own(name)
                             /\ Lookup(p.own, name) = "found" => answer.status = 200 /\ answer.body = Local(name)
  <1>1. p \in Packages
    BY DoneIs DEF OnPackage, Done
  <1>2. /\ Rooted(p, path) => FileFound(p, path, "GET", Index)
        /\ path \in p.manifest => FileFound(p, path, "GET", path)
        /\ ~Rooted(p, path) /\ path \notin p.manifest /\ Stems(p, path) # {} =>
             FileFound(p, path, "GET", SortedNames[First(Stems(p, path))])
        /\ ~Rooted(p, path) /\ path \notin p.manifest /\ Stems(p, path) = {} =>
             IF IdsAt(p, path) = {} THEN FoundNothing(p, path, "GET")
             ELSE FoundDataset(p, path, "GET") /\ FoundRoute(p, path, "GET").dataset \in IdsAt(p, path)
    BY <1>1, GeneratedFound
  <1>3. ASSUME NEW name, FileFound(p, path, "GET", name) PROVE Serves(name)
    BY <1>3, FileAnswers
  <1>4. ASSUME FoundNothing(p, path, "GET") PROVE answer.status = 404 /\ answer.by = 0
    BY <1>4, NothingAnswers
  <1>5. ASSUME FoundDataset(p, path, "GET"), FoundRoute(p, path, "GET").dataset \in IdsAt(p, path)
        PROVE  answer.by # 0 /\ r.resource = None /\ r.dataset \in IdsAt(p, path)
    BY <1>5, DatasetAnswers DEF FoundRoute
  <1> HIDE DEF Serves, r
  <1>6. /\ Rooted(p, path) => Serves(Index)
        /\ path \in p.manifest => Serves(path)
        /\ ~Rooted(p, path) /\ path \notin p.manifest /\ Stems(p, path) # {} => Serves(SortedNames[First(Stems(p, path))])
        /\ ~Rooted(p, path) /\ path \notin p.manifest /\ Stems(p, path) = {} =>
             IF IdsAt(p, path) = {} THEN answer.status = 404 /\ answer.by = 0
             ELSE answer.by # 0 /\ r.resource = None /\ r.dataset \in IdsAt(p, path)
    BY <1>2, <1>3, <1>4, <1>5
  <1> QED BY <1>6 DEF Rooted, Stems, IdsAt, Serves, r

\* With generated routes the root is the index, a file is at its own path, a path that is
\* neither is the first file's that it is without the HTML extension, and a dataset has
\* what no file takes; whatever the inventory, its order being that of the paths
\* (generate/routes.ts:5-15,42-77).
THEOREM GeneratedHolds == Spec => []GeneratedReachable
  BY EveryIsInvariant, EveryReaches, PTL
===============================================================================
