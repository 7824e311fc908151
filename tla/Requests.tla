-------------------------------- MODULE Requests --------------------------------
(***************************************************************************)
(* One package asked by three reactors.  The service worker's part has      *)
(* state: installs replace the package between two awaits of a request      *)
(* (fetch-handler.ts handleRequest), and handler modules are imported once  *)
(* and remembered (handler-executor.ts).  The Node and Cloudflare pipelines *)
(* answer the same request on the same package within a step.  Packages     *)
(* here declare no authentication: AuthGate is the gate.                    *)
(***************************************************************************)
EXTENDS Serving

CONSTANTS
  Packages,   \* packages, each readable by the parser
  Paths,      \* package-relative paths asked for
  Methods,
  Scope,      \* segments of the registration scope or path prefix, <<>> for the root
  Outside,    \* a path that is not below it
  Slots,      \* requests
  MaxModels   \* bound: packages installed during a behaviour

\* A reference is a sequence of segments, and a body that a route declares is not the
\* bytes of a file.
IsRef(ref) == ref.uri \in BOOLEAN /\ ref.at \in Seq(STRING)
IsRoute(r) ==
  /\ r.resource # None \/ r.dataset # None \/ r.handler # None
  /\ r.resource = None \/ IsRef(r.resource)
  /\ r.handler = None \/ IsRef(r.handler)
  /\ r.rewrite = None \/ r.rewrite.body = None \/ r.rewrite.body[1] \notin {"own", "dependency"}
RequestsAssumption ==
  /\ MaxModels \in Nat
  /\ None \notin Packages
  /\ \A p \in Packages :
       /\ Routes(p) # None /\ DOMAIN Routes(p) \subseteq Nat \ {0}
       /\ \A i \in DOMAIN Routes(p) : IsRoute(Routes(p)[i])
       /\ \A i \in DOMAIN p.doc.entries : DOMAIN p.doc.entries[i] = DOMAIN Blank
       /\ p.manifest \subseteq ToSet(SortedNames) /\ DOMAIN p.data \subseteq ToSet(SortedIds)
       /\ \A at \in DOMAIN p.own : p.own[at] \in {"found", "tombstoned"}
       /\ \A id \in DOMAIN p.data : p.data[id].yaml \in BOOLEAN
       /\ DOMAIN p.deps \subseteq Nat \ {0}
       /\ \A d \in DOMAIN p.deps : p.deps[d].guid \in Seq(STRING) /\ p.deps[d].installed \in BOOLEAN
ASSUME RequestsAssumption

VARIABLES
  models,   \* the packages installed so far; an index is the identity of the model object
  current,  \* the installed one, or 0
  modules,  \* handler modules: key -> [source, state], over all executors
  pc,       \* a request: "free", "import", "entry" or "done"
  asked,    \* its [path, method], the model it captured and the module it awaits
  worker,   \* the service worker's answer
  others    \* the Node and the Cloudflare reactor's answers to the same request

vars == <<models, current, modules, pc, asked, worker, others>>

Unanswered == Failure(0, 0)
NoKey      == <<>>

TypeOK ==
  /\ models \in Seq(Packages)
  /\ current \in 0 .. Len(models)
  /\ \A k \in DOMAIN modules : modules[k].state \in {"loading", "loaded", "failed"}
  /\ pc \in [Slots -> {"free", "import", "entry", "done"}]
  /\ \A s \in Slots :
       /\ asked[s].model \in 0 .. Len(models)
       /\ pc[s] = "done" <=> worker[s].status # 0
       /\ pc[s] \in {"import", "entry"} => asked[s].key \in DOMAIN modules
       /\ pc[s] = "entry" => modules[asked[s].key].state = "loaded"

Init ==
  /\ \E p \in Packages : models = <<p>>
  /\ current \in {0, 1}
  /\ modules = [k \in {} |-> None]
  /\ pc = [s \in Slots |-> "free"]
  /\ asked = [s \in Slots |-> [path |-> <<>>, method |-> "GET", model |-> 0, by |-> 0, key |-> NoKey]]
  /\ worker = [s \in Slots |-> Unanswered]
  /\ others = [s \in Slots |-> [node |-> Unanswered, cloudflare |-> Unanswered]]

Package(m) == IF m = 0 THEN None ELSE models[m]

\* stripScopePrefix: the path below the scope, or None outside it.
StripScope(raw) ==
  IF IsPrefix(Scope, raw) THEN SubSeq(raw, Len(Scope) + 1, Len(raw)) ELSE None

\* Variant: executors outlive the package they were made for.
KeyByFile(m, file) == <<0, file.dep, file.at>>

\* executorFor, and the executor's file maps: a dependency is a model of its own, of one
\* installed package.
Key(m, file) == <<m, file.dep, file.at>>

Script(p, file) == Lookup(IF file.dep = 0 THEN p.code ELSE p.deps[file.dep].code, file.at)

\* serveHandlerRoute and execute up to the import: a file that is not JavaScript is not
\* run, a file that is not there cannot be.
Runnable(p, file) == file.fails = 0 /\ Script(p, file) \notin {"lua", "not-found"}
HandlerAnswer(p, r, by) ==
  LET file == HandlerFile(p, r)
  IN CASE file.fails # 0 -> Failure(file.fails, by)
       [] file.fails = 0 /\ Script(p, file) = "lua" -> Failure(501, by)
       [] file.fails = 0 /\ Script(p, file) = "not-found" -> Process(Failure(502, by), r)
       [] Runnable(p, file) -> Unanswered

\* handleRequest: no method is refused, whatever the route.
WorkerServe(p, m, path, method) ==
  IF path = None THEN Failure(404, 0)
  ELSE IF path \in DOMAIN Introspect THEN Answer(200, WorkerReport(path, p, m), NoHeaders, 0)
  ELSE IF p = None THEN Failure(404, 0)
  ELSE
  LET routes == Routes(p)
      found  == Resolve(routes, path, method)
  IN CASE found.kind = "resource" -> WorkerResource(p, routes[found.by], found.by)
       [] found.kind = "dataset"  -> WorkerDataset(p, routes[found.by], found.by)
       [] found.kind = "handler"  -> HandlerAnswer(p, routes[found.by], found.by)
       [] found.kind = "method-not-allowed" -> NotAllowed(found.allowed)
       [] found.kind = "not-found" -> Failure(404, 0)

\* The request gets as far as the import.
Runs(p, path, method) ==
  /\ path # None /\ path \notin DOMAIN Introspect /\ p # None
  /\ LET found == Resolve(Routes(p), path, method)
     IN found.kind = "handler" /\ Runnable(p, HandlerFile(p, Routes(p)[found.by]))

\* What the other two send; the Node reactor always has a package.
NodeSends(p, m, path, method) ==
  IF p = None \/ path = None THEN Unanswered ELSE Sent(method, NodeServe(p, m, path, method))
CloudflareSends(p, m, path, method) ==
  IF path = None THEN Failure(404, 0) ELSE Sent(method, CloudflareServe(p, m, path, method))

\* Variant: a failed import is forgotten and tried again.
RememberFresh(key, source) ==
  IF key \in DOMAIN modules /\ modules[key].state # "failed" THEN modules
  ELSE [k \in DOMAIN modules \cup {key} |->
          IF k = key THEN [source |-> source, state |-> "loading"] ELSE modules[k]]

\* load: the promise of the first import stays, whatever becomes of it.
Remember(key, source) ==
  IF key \in DOMAIN modules THEN modules
  ELSE [k \in DOMAIN modules \cup {key} |->
          IF k = key THEN [source |-> source, state |-> "loading"] ELSE modules[k]]

\* A request arrives at the three reactors; the worker's runs to its first await.
Arrive(s, raw, method) ==
  LET path   == StripScope(raw)
      p      == Package(current)
      answer == WorkerServe(p, current, path, method)
      by     == Resolve(Routes(p), path, method).by
      file   == HandlerFile(p, Routes(p)[by])
      key    == Key(current, file)
      Ask(b, k) == asked' = [asked EXCEPT ![s] = [path |-> path, method |-> method, model |-> current, by |-> b, key |-> k]]
  IN /\ pc[s] = "free"
     /\ worker' = [worker EXCEPT ![s] = answer]
     /\ IF Runs(p, path, method)
          THEN /\ pc' = [pc EXCEPT ![s] = "import"]
               /\ modules' = Remember(key, <<current, file>>)
               /\ Ask(by, key)
          ELSE pc' = [pc EXCEPT ![s] = "done"] /\ Ask(answer.by, NoKey) /\ UNCHANGED modules
     /\ others' = [others EXCEPT ![s] = [node       |-> NodeSends(p, current, path, method),
                                         cloudflare |-> CloudflareSends(p, current, path, method)]]
     /\ UNCHANGED <<models, current>>

\* importSource settles, one way or the other.
Settle(key) ==
  /\ modules[key].state = "loading"
  /\ \E outcome \in {"loaded", "failed"} : modules' = [modules EXCEPT ![key].state = outcome]
  /\ UNCHANGED <<models, current, pc, asked, worker, others>>

RouteOf(s) == Routes(models[asked[s].model])[asked[s].by]
Reply(s, answer) ==
  /\ pc' = [pc EXCEPT ![s] = "done"]
  /\ worker' = [worker EXCEPT ![s] = Process(answer, RouteOf(s))]

\* What the module does is its source's, wherever the request found the module.
Does(s) == LET source == modules[asked[s].key].source IN Script(models[source[1]], source[2])

\* Variant: a rejected import is not caught.
ImportedUnchecked(s) ==
  /\ pc[s] = "import"
  /\ modules[asked[s].key].state # "loading"
  /\ IF Does(s) = "no-entry"
       THEN Reply(s, Failure(502, asked[s].by))
       ELSE pc' = [pc EXCEPT ![s] = "entry"] /\ UNCHANGED worker
  /\ UNCHANGED <<models, current, modules, asked, others>>

\* execute, after the import: a module without a callable export is refused.
Imported(s) ==
  /\ pc[s] = "import"
  /\ modules[asked[s].key].state # "loading"
  /\ IF modules[asked[s].key].state = "failed" \/ Does(s) = "no-entry"
       THEN Reply(s, Failure(502, asked[s].by))
       ELSE pc' = [pc EXCEPT ![s] = "entry"] /\ UNCHANGED worker
  /\ UNCHANGED <<models, current, modules, asked, others>>

\* The entry's promise settles.
Outcome(s) ==
  CASE Does(s) = "ok" -> Answer(200, <<"script", modules[asked[s].key].source>>, NoHeaders, asked[s].by)
    [] Does(s) = "throws" -> Failure(500, asked[s].by)
    [] OTHER -> Failure(502, asked[s].by)
Called(s) ==
  /\ pc[s] = "entry"
  /\ Reply(s, Outcome(s))
  /\ UNCHANGED <<models, current, modules, asked, others>>

\* store.install ends: the new model is current, requests keep the one they captured.
Install(p) ==
  /\ Len(models) < MaxModels
  /\ models' = Append(models, p)
  /\ current' = Len(models')
  /\ UNCHANGED <<modules, pc, asked, worker, others>>

Next ==
  \/ \E s \in Slots, method \in Methods :
       \E raw \in {Scope \o path : path \in Paths} \cup {Outside} : Arrive(s, raw, method)
  \/ \E key \in DOMAIN modules : Settle(key)
  \/ \E s \in Slots : Imported(s) \/ Called(s)
  \/ \E p \in Packages : Install(p)

Spec == Init /\ [][Next]_vars

(***************************************************************************)
(* What requests may rely on                                                *)
(***************************************************************************)
Done(s)   == pc[s] = "done" /\ asked[s].path # None
OnPackage(s) == Done(s) /\ asked[s].model # 0 /\ asked[s].path \notin DOMAIN Introspect
Asked(s)  == models[asked[s].model]

\* An entry of routes.json as its author reads it.
Means(e) ==
  CASE e.resource # None \/ (e.target # None /\ e.target.file # None) -> "resource"
    [] e.handler # None -> "handler"
    [] OTHER -> "dataset"
ServedAt(e) == IF Means(e) # "dataset" /\ e.remap # None THEN e.remap ELSE e.path

\* Of the declared routes served at a path, whatever the form of the document, the first
\* handler of the method answers, else the first that is no handler; otherwise the answer
\* is 405 naming the handlers' methods, or 404.  The three reactors pick the same route
\* (resolver.ts:32-78, routes.ts:109-174).
Precedence ==
  \A s \in Slots : OnPackage(s) /\ Asked(s).doc.form # "absent" =>
    LET e        == Asked(s).doc.entries
        at       == {i \in DOMAIN e : ServedAt(e[i]) = asked[s].path}
        handlers == {i \in at : Means(e[i]) = "handler"}
        mine     == {i \in handlers : e[i].method = asked[s].method}
        rest     == at \ handlers
    IN /\ mine # {} => worker[s].by = First(mine) /\ others[s].node.by = First(mine)
       /\ mine = {} /\ rest # {} =>
            /\ worker[s].by = First(rest)
            /\ others[s].node.by = IF IsRead(asked[s].method) THEN First(rest) ELSE 0
       /\ mine = {} /\ rest = {} =>
            /\ worker[s].status = IF handlers = {} THEN 404 ELSE 405
            /\ handlers # {} => worker[s].headers["allow"] = {e[i].method : i \in handlers}
            /\ others[s].node.status = worker[s].status /\ others[s].node.headers = worker[s].headers
       /\ others[s].cloudflare.by = others[s].node.by

IsDependencyBody(answer) == answer.body # <<>> /\ answer.body[1] = "dependency"

\* No reactor serves a file of a dependency unless the dependency exports it; for a
\* reference, the dependency is the declared one with the longest guid in it; for an own
\* path (Node), the own layers have neither the file nor its tombstone and no earlier
\* dependency exports it.  The Node reactor finds such a file if there is one
\* (composite.ts:79-100, reactor-node/src/serving.ts:133-206).
DependencyContent ==
  \A s \in Slots : OnPackage(s) =>
    /\ \A answer \in {worker[s], others[s].node, others[s].cloudflare} : IsDependencyBody(answer) =>
         LET d    == answer.body[2]
             at   == answer.body[3]
             deps == Asked(s).deps
             ref  == Routes(Asked(s))[answer.by].resource
         IN /\ deps[d].installed /\ Lookup(deps[d].gives, at) = "found"
            /\ ref.uri => /\ deps[d].guid \o at = ref.at
                          /\ \A e \in DOMAIN deps : Len(deps[e].guid) > Len(deps[d].guid) => ~IsStrictPrefix(deps[e].guid, ref.at)
            /\ ~ref.uri => /\ answer = others[s].node /\ at = ref.at
                           /\ Lookup(Asked(s).own, at) = "not-found"
                           /\ \A e \in DOMAIN deps : e < d => ~(deps[e].installed /\ Lookup(deps[e].gives, at) = "found")
    /\ LET node == others[s].node
           r    == Routes(Asked(s))[node.by]
       IN node.status = 404 /\ node.by # 0 /\ r.resource # None /\ ~r.resource.uri =>
            \/ Lookup(Asked(s).own, r.resource.at) = "tombstoned"
            \/ \A d \in DOMAIN Asked(s).deps : ~(Asked(s).deps[d].installed /\ Lookup(Asked(s).deps[d].gives, r.resource.at) = "found")

Same(a, b) == a.status = b.status /\ a.body = b.body /\ a.by = b.by

\* Introspection and the routes all can serve are answered alike: where the answers of two reactors
\* differ, the route is a handler, the method is not GET or HEAD, the path is a reference
\* (Cloudflare has no dependencies), an own path its layers miss (Node falls through to
\* dependencies), a YAML dataset (Node converts it) or one with access control (checked
\* by the worker); the headers of reactor-node/src/serving.ts:4-19 and
\* reactor-cloudflare/src/serving.ts:6-18 name all but the last two.
ReactorsAgree ==
  \A s \in Slots : Done(s) /\ asked[s].model # 0 /\ asked[s].method = "GET" =>
    LET w == worker[s]
        n == others[s].node
        c == others[s].cloudflare
        r == Routes(Asked(s))[w.by]
        apart == w.by # 0 /\ (r.handler # None \/ r.access # 0)
        local == w.by # 0 /\ r.resource # None /\ ~r.resource.uri
        fallen == local /\ w.status = 404 /\ Lookup(Asked(s).own, r.resource.at) = "not-found"
        yaml   == w.by # 0 /\ r.dataset # None /\ w.status = 200 /\ Asked(s).data[r.dataset].yaml
        reference == w.by # 0 /\ r.resource # None /\ r.resource.uri
    IN /\ Same(w, n) \/ apart \/ fallen \/ yaml
       /\ Same(w, c) \/ apart \/ (reference /\ c.status = 404)

\* What is sent has the length announced, whatever headers the route declares
\* (reactor-node/src/serving.ts:255-267, reactor-cloudflare/src/serving.ts:181-194).
LengthIsBody ==
  \A s \in Slots : Done(s) =>
    \A answer \in {others[s].node, others[s].cloudflare} :
      "length" \in DOMAIN answer.headers =>
        answer.body = IF asked[s].method = "HEAD" THEN <<>> ELSE answer.headers["length"]

\* With generated routes the root is the index, a file is at its own path, and a path that
\* is neither is the first file's, in the order of names, that it is without the HTML
\* extension; a dataset has what no file takes.  Such a file is served when the layers have
\* it, and no other path is routed (generate/routes.ts:5-15,42-77).
GeneratedReachable ==
  \A s \in Slots : OnPackage(s) /\ Asked(s).doc.form = "absent" /\ asked[s].method = "GET" =>
    \A answer \in {worker[s], others[s].node, others[s].cloudflare} :
      LET p      == Asked(s)
          path   == asked[s].path
          r      == Routes(p)[answer.by]
          rooted == path = <<>> /\ Index \in p.manifest
          named  == path \in p.manifest
          stems  == {i \in DOMAIN SortedNames : SortedNames[i] \in p.manifest /\ Strip[SortedNames[i]] = path}
          ids    == {id \in DOMAIN p.data : path = <<DataSegment, id>>}
          Gives(name) == /\ answer.by # 0 /\ r.resource = Own(name)
                         /\ Lookup(p.own, name) = "found" => answer.status = 200 /\ answer.body = Local(name)
      IN /\ rooted => Gives(Index)
         /\ named  => Gives(path)
         /\ ~rooted /\ ~named /\ stems # {} => Gives(SortedNames[First(stems)])
         /\ ~rooted /\ ~named /\ stems = {} =>
              IF ids = {} THEN answer.status = 404 /\ answer.by = 0
              ELSE answer.by # 0 /\ r.resource = None /\ r.dataset \in ids

\* A handler's answer comes from the file its route names, in the package the request
\* captured, also when another package was installed while the request was suspended
\* (fetch-handler.ts:69-81,272-322, handler-executor.ts:117-133).
HandlerOfItsPackage ==
  \A s \in Slots : asked[s].key # NoKey =>
    modules[asked[s].key].source = <<asked[s].model, HandlerFile(Asked(s), RouteOf(s))>>

\* Two requests for one handler of one package never see two imports of it: after a
\* failed import none is answered by the module (handler-executor.ts:127-131).
OneImport ==
  \A s, t \in Slots : Done(s) /\ Done(t) /\ asked[s].key = asked[t].key /\ asked[s].key # NoKey =>
    Same(worker[s], worker[t]) \/ asked[s].by # asked[t].by
===============================================================================
