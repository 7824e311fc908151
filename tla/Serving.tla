-------------------------------- MODULE Serving --------------------------------
(***************************************************************************)
(* How a package answers a path: routes.json read or generated              *)
(* (core/src/routes.ts, generate/routes.ts), resolved (resolver.ts), and    *)
(* served by the Node and the Cloudflare pipelines and by the service       *)
(* worker's fetch handler, three codes for one contract.  No state: Requests*)
(* puts these operators to work.                                            *)
(*                                                                         *)
(* A path is the sequence of its segments.  A package is a record:          *)
(*   doc      routes.json: [form |-> "array", "keyed" or "absent", entries] *)
(*   manifest the inventoried names of content/                             *)
(*   own      what resolveLayeredPath returns for a reference: "found",     *)
(*            "tombstoned"; "not-found" outside its domain                  *)
(*   data     datasets: id -> [kind, source, yaml]                          *)
(*   deps     dependencies in the order of metadata: [guid, installed,      *)
(*            gives], gives being resolveDependencyResource's answers       *)
(*   code     what calling a handler file does, once it is imported         *)
(* and a route is a record with None in the fields it lacks.  An answer is  *)
(* [status, body, headers, by]: by is the route that gave it, or 0.         *)
(***************************************************************************)
EXTENDS Integers, Sequences, SequencesExt

CONSTANTS
  None,
  SortedNames, \* names of files in content/, each a sequence of segments, in the order of their strings
  SortedIds,   \* ids of datasets, in their order
  Strip,       \* the path of a name without its HTML extension, or the name itself
  Index,       \* the name index.html
  DataSegment, \* the segments of /api/v1/data/
  Introspect   \* the introspection endpoints: path -> name

\* A proper prefix sorts before what it is a prefix of, if it is a name at all.
ServingAssumption ==
  /\ SortedNames \in Seq(Seq(STRING) \ {<<>>}) /\ SortedIds \in Seq(STRING)
  /\ \A i, j \in DOMAIN SortedNames :
       /\ SortedNames[i] = SortedNames[j] => i = j
       /\ SortedNames[i] = Strip[SortedNames[j]] => i <= j
ASSUME ServingAssumption

HandlerKind(e)  == e.handler # None
EffectivePath(r) == IF r.remap # None THEN r.remap ELSE r.path

(***************************************************************************)
(* routes.json                                                              *)
(***************************************************************************)
IsData(path) == Len(path) = 2 /\ path[1] = DataSegment

\* The union of the three schemas, in their order; each drops the keys of the others.
Canonical(e) ==
  \/ e.resource # None
  \/ e.dataset # None /\ IsData(e.path)
  \/ e.handler # None /\ e.method # None
Classify(e) ==
  CASE e.resource # None -> [e EXCEPT !.dataset = None, !.handler = None, !.method = None, !.target = None]
    [] e.resource = None /\ e.dataset # None /\ IsData(e.path) ->
         [e EXCEPT !.handler = None, !.method = None, !.target = None, !.remap = None, !.rewrite = None, !.extra = None]
    [] OTHER -> e

\* A legacy entry {path, target: {file | dataset}}.
NormalizeTarget(e) ==
  IF e.target = None THEN e
  ELSE [e EXCEPT !.resource = IF e.target.file # None THEN e.target.file ELSE @,
                 !.dataset  = IF e.target.dataset # None THEN e.target.dataset ELSE @]

MapSeq(Op(_), s) == [i \in DOMAIN s |-> Op(s[i])]
AllCanonical(s)  == \A i \in DOMAIN s : Canonical(s[i])

\* The routes, or None when the document is rejected.  In the keyed form an entry's path
\* was its key, and targets are not normalised.
ParseRoutes(doc) ==
  LET legacy == MapSeq(NormalizeTarget, doc.entries)
  IN CASE AllCanonical(doc.entries) -> MapSeq(Classify, doc.entries)
       [] doc.form = "array" /\ ~AllCanonical(doc.entries) /\ AllCanonical(legacy) -> MapSeq(Classify, legacy)
       [] OTHER -> None

Blank == [path |-> <<>>, remap |-> None, resource |-> None, dataset |-> None, handler |-> None,
          method |-> None, target |-> None, headers |-> None, rewrite |-> None, extra |-> None, access |-> 0]
Own(name)          == [uri |-> FALSE, at |-> name]
RouteTo(path, ref) == [Blank EXCEPT !.path = path, !.resource = ref]
DataRoute(id)      == [Blank EXCEPT !.path = <<DataSegment, id>>, !.dataset = id]

\* `/`, then each resource in the order given, an HTML file twice, then the datasets.  The
\* place of a route is the one it has when nothing is missing: only their order counts.
RoutesInOrder(p, names, ids) ==
  LET kept     == {i \in DOMAIN names : names[i] \in p.manifest}
      root     == IF Index \in p.manifest THEN {1} ELSE {}
      stripped == {2 * i : i \in {i \in kept : Strip[names[i]] # names[i]}}
      whole    == {2 * i + 1 : i \in kept}
      last     == 2 * Len(names) + 1
      data     == {last + i : i \in {i \in DOMAIN ids : ids[i] \in DOMAIN p.data}}
  IN [k \in root \cup stripped \cup whole \cup data |->
        CASE k \in root     -> RouteTo(<<>>, Own(Index))
          [] k \in stripped -> RouteTo(Strip[names[k \div 2]], Own(names[k \div 2]))
          [] k \in whole    -> RouteTo(names[k \div 2], Own(names[k \div 2]))
          [] k \in data     -> DataRoute(ids[k - last])]

\* Variant: the resources in another order than that of their paths.
BuildRoutesUnsorted(p) == RoutesInOrder(p, Reverse(SortedNames), SortedIds)

BuildRoutes(p) == RoutesInOrder(p, SortedNames, SortedIds)

Routes(p) == IF p.doc.form = "absent" THEN BuildRoutes(p) ELSE ParseRoutes(p.doc)

(***************************************************************************)
(* resolver.ts                                                              *)
(***************************************************************************)
First(S) == CHOOSE i \in S : \A j \in S : i <= j

\* The map handlersByPath, whose lists are in the order of the routes.
Handlers(routes, path) ==
  {i \in DOMAIN routes : HandlerKind(routes[i]) /\ EffectivePath(routes[i]) = path}

\* The map byPath: the first route that is not a handler's.
ByPath(routes, path) ==
  LET others == {i \in DOMAIN routes : ~HandlerKind(routes[i]) /\ EffectivePath(routes[i]) = path}
  IN IF others = {} THEN 0 ELSE First(others)

Resolved(kind, by) == [kind |-> kind, by |-> by, allowed |-> {}]
Static(routes, by) == Resolved(IF routes[by].resource # None THEN "resource" ELSE "dataset", by)
Refused(methods)   == [kind |-> "method-not-allowed", by |-> 0, allowed |-> methods]

\* Variant: a path with handlers answers no other route.
ResolveHandlersOnly(routes, path, method) ==
  LET handlers == Handlers(routes, path)
      matching == {i \in handlers : routes[i].method = method}
      route    == ByPath(routes, path)
  IN CASE matching # {} -> Resolved("handler", First(matching))
       [] matching = {} /\ handlers # {} -> Refused({routes[i].method : i \in handlers})
       [] matching = {} /\ handlers = {} /\ route # 0 -> Static(routes, route)
       [] OTHER -> Resolved("not-found", 0)

\* RouteResolver.resolve.
Resolve(routes, path, method) ==
  LET handlers == Handlers(routes, path)
      matching == {i \in handlers : routes[i].method = method}
      route    == ByPath(routes, path)
  IN CASE matching # {} -> Resolved("handler", First(matching))
       [] matching = {} /\ route # 0 -> Static(routes, route)
       [] matching = {} /\ route = 0 /\ handlers # {} -> Refused({routes[i].method : i \in handlers})
       [] OTHER -> Resolved("not-found", 0)

(***************************************************************************)
(* References and headers                                                   *)
(***************************************************************************)
\* parseDependencyResourceRef: the longest declared guid that begins the reference.
Owners(p, ref) ==
  {i \in DOMAIN p.deps : IsStrictPrefix(p.deps[i].guid, ref.at)}

\* Variant: the first guid declared.
OwnerFirst(p, ref) ==
  IF Owners(p, ref) = {} THEN 0 ELSE CHOOSE i \in Owners(p, ref) : \A j \in Owners(p, ref) : i <= j

Owner(p, ref) ==
  IF Owners(p, ref) = {} THEN 0
  ELSE CHOOSE i \in Owners(p, ref) :
         \A j \in Owners(p, ref) : Len(p.deps[j].guid) <= Len(p.deps[i].guid)

Lookup(f, at) == IF at \in DOMAIN f THEN f[at] ELSE "not-found"
Rest(p, d, ref) == SubSeq(ref.at, Len(p.deps[d].guid) + 1, Len(ref.at))

Given(d, at)  == <<"dependency", d, at>>
Local(at)     == <<"own", at>>
NoHeaders     == [h \in {} |-> None]
Answer(status, body, headers, by) == [status |-> status, body |-> body, headers |-> headers, by |-> by]
Failure(status, by) == Answer(status, <<"error">>, NoHeaders, by)

\* The headers of f, and those of g that f has not.
Over(f, g)        == [h \in DOMAIN f \cup DOMAIN g |-> IF h \in DOMAIN f THEN f[h] ELSE g[h]]
Header(name, val) == [h \in {name} |-> val]
NotAllowed(methods) == Answer(405, <<"error">>, Header("allow", methods), 0)

Default(f) == IF f = None THEN NoHeaders ELSE f
Overrides(r) == Over(Default(r.extra), IF r.rewrite = None THEN NoHeaders ELSE Default(r.rewrite.headers))
BodyOf(r, bytes) == IF r.rewrite = None \/ r.rewrite.body = None THEN bytes ELSE r.rewrite.body

\* Variant: the length is set before the route's own headers.
RespondEarly(bytes, base, r, by) ==
  LET body == BodyOf(r, bytes)
  IN Answer(200, body, Over(Overrides(r), Over(Header("length", body), base)), by)

\* respond of the Node and the Cloudflare pipelines: the length of what is sent wins.
Respond(bytes, base, r, by) ==
  LET body == BodyOf(r, bytes)
  IN Answer(200, body, Over(Header("length", body), Over(Overrides(r), base)), by)

Type(bytes) == Header("type", <<"type of", bytes>>)

\* baseHeaders: the route's own headers replace the default wholesale; the type wins.
BaseHeaders(r, bytes) ==
  Over(Type(bytes), IF r.headers = None THEN Header("cache", <<"default">>) ELSE r.headers)

(***************************************************************************)
(* reactor-node/src/serving.ts                                              *)
(***************************************************************************)
\* serveDependencyFallthrough: dependencies in the order of their declaration.
NodeFallthrough(p, r, by) ==
  LET gives == {d \in DOMAIN p.deps : p.deps[d].installed /\ Lookup(p.deps[d].gives, r.resource.at) = "found"}
      first == CHOOSE d \in gives : \A e \in gives : d <= e
  IN IF gives = {} THEN Failure(404, by)
     ELSE Respond(Given(first, r.resource.at), BaseHeaders(r, Given(first, r.resource.at)), r, by)

\* Variant: a tombstone is a miss.
NodeResourceFallen(p, r, by) ==
  LET d    == Owner(p, r.resource)
      rest == Rest(p, d, r.resource)
  IN CASE r.resource.uri ->
            IF d # 0 /\ p.deps[d].installed /\ Lookup(p.deps[d].gives, rest) = "found"
              THEN Respond(Given(d, rest), BaseHeaders(r, Given(d, rest)), r, by)
              ELSE Failure(404, by)
       [] ~r.resource.uri /\ Lookup(p.own, r.resource.at) = "found" ->
            Respond(Local(r.resource.at), BaseHeaders(r, Local(r.resource.at)), r, by)
       [] OTHER -> NodeFallthrough(p, r, by)

NodeResource(p, r, by) ==
  LET d    == Owner(p, r.resource)
      rest == Rest(p, d, r.resource)
      own  == Lookup(p.own, r.resource.at)
  IN CASE r.resource.uri ->
            IF d # 0 /\ p.deps[d].installed /\ Lookup(p.deps[d].gives, rest) = "found"
              THEN Respond(Given(d, rest), BaseHeaders(r, Given(d, rest)), r, by)
              ELSE Failure(404, by)
       [] ~r.resource.uri /\ own = "tombstoned" -> Failure(404, by)
       [] ~r.resource.uri /\ own = "found" ->
            Respond(Local(r.resource.at), BaseHeaders(r, Local(r.resource.at)), r, by)
       [] OTHER -> NodeFallthrough(p, r, by)

\* A dataset's status: unknown, not a file, or the layers' answer for its source.
DatasetStatus(p, id) ==
  CASE id \notin DOMAIN p.data -> 404
    [] id \in DOMAIN p.data /\ p.data[id].kind # "file" -> 501
    [] id \in DOMAIN p.data /\ p.data[id].kind = "file" ->
         IF Lookup(p.own, p.data[id].source) = "found" THEN 200 ELSE 404
DatasetAnswer(p, id, bytes, headers, by) ==
  IF DatasetStatus(p, id) = 200 THEN Answer(200, bytes, Over(Type(bytes), headers), by)
  ELSE Failure(DatasetStatus(p, id), by)

\* datasetSourceResponse: YAML is sent as JSON.
AsJson(set) == IF set.yaml THEN <<"json of", set.source>> ELSE Local(set.source)
NodeDataset(p, id, by) ==
  LET bytes == AsJson(p.data[id]) IN DatasetAnswer(p, id, bytes, Header("length", bytes), by)

ReadMethods == {"GET", "HEAD"}
IsRead(method) == method \in ReadMethods

\* introspectionResponse: what an endpoint lists of the one installed package m.  Routes
\* are listed at their own path, whatever their remap.
Listed(endpoint, p, m) ==
  CASE endpoint = "metadata" -> <<"package", m>>
    [] endpoint = "routes" ->
         MapSeq(LAMBDA r : <<IF HandlerKind(r) THEN r.method ELSE "GET", r.path>>, Routes(p))
    [] endpoint = "contentHashes" -> <<"hash", m>>
    [] endpoint = "contentValidity" -> <<"valid", m>>
WorkerReport(path, p, m)     == <<"report", IF p = None THEN <<>> ELSE Listed(Introspect[path], p, m)>>
CloudflareReport(path, p, m) == <<"report", IF p = None THEN <<>> ELSE Listed(Introspect[path], p, m)>>

\* introspectionReport of the Node reactor, which always has a package.
NodeReport(path, p, m) == <<"report", Listed(Introspect[path], p, m)>>

NodeServe(p, m, path, method) ==
  LET routes == Routes(p)
      found  == Resolve(routes, path, method)
  IN CASE path \in DOMAIN Introspect ->
            IF IsRead(method) THEN Answer(200, NodeReport(path, p, m), NoHeaders, 0) ELSE NotAllowed(ReadMethods)
       [] path \notin DOMAIN Introspect /\ found.kind \in {"resource", "dataset"} /\ ~IsRead(method) -> NotAllowed(ReadMethods)
       [] path \notin DOMAIN Introspect /\ found.kind = "resource" /\ IsRead(method) -> NodeResource(p, routes[found.by], found.by)
       [] path \notin DOMAIN Introspect /\ found.kind = "dataset" /\ IsRead(method) -> NodeDataset(p, routes[found.by].dataset, found.by)
       [] path \notin DOMAIN Introspect /\ found.kind = "handler" -> Failure(501, found.by)
       [] path \notin DOMAIN Introspect /\ found.kind = "method-not-allowed" -> NotAllowed(found.allowed)
       [] path \notin DOMAIN Introspect /\ found.kind = "not-found" -> Failure(404, 0)

\* The worker and createReactor send no body for HEAD.
Sent(method, answer) == IF method = "HEAD" THEN [answer EXCEPT !.body = <<>>] ELSE answer

(***************************************************************************)
(* reactor-cloudflare/src/serving.ts                                        *)
(***************************************************************************)
CloudflareResource(p, r, by) ==
  IF r.resource.uri \/ Lookup(p.own, r.resource.at) # "found" THEN Failure(404, by)
  ELSE Respond(Local(r.resource.at), BaseHeaders(r, Local(r.resource.at)), r, by)

\* Any source is sent as it is, YAML included.
CloudflareDataset(p, id, by) ==
  LET bytes == Local(p.data[id].source) IN DatasetAnswer(p, id, bytes, Header("length", bytes), by)

CloudflareServe(p, m, path, method) ==
  IF path \in DOMAIN Introspect
    THEN IF IsRead(method) THEN Answer(200, CloudflareReport(path, p, m), NoHeaders, 0) ELSE NotAllowed(ReadMethods)
  ELSE IF p = None THEN Failure(404, 0)
  ELSE
  LET routes == Routes(p)
      found  == Resolve(routes, path, method)
  IN CASE found.kind \in {"resource", "dataset"} /\ ~IsRead(method) -> NotAllowed(ReadMethods)
       [] found.kind = "resource" /\ IsRead(method) -> CloudflareResource(p, routes[found.by], found.by)
       [] found.kind = "dataset" /\ IsRead(method) -> CloudflareDataset(p, routes[found.by].dataset, found.by)
       [] found.kind = "handler" -> Failure(501, found.by)
       [] found.kind = "method-not-allowed" -> NotAllowed(found.allowed)
       [] found.kind = "not-found" -> Failure(404, 0)

(***************************************************************************)
(* swsws/src/fetch-handler.ts                                               *)
(***************************************************************************)
\* applyResponseProcessing, on whatever answer the route gave.
Process(answer, r) ==
  Answer(answer.status, BodyOf(r, answer.body), Over(Overrides(r), answer.headers), answer.by)

Typed(r, bytes) == Over(Type(bytes), Default(r.headers))

WorkerResource(p, r, by) ==
  LET d    == Owner(p, r.resource)
      rest == Rest(p, d, r.resource)
      Ok(bytes) == Process(Answer(200, bytes, Typed(r, bytes), by), r)
  IN CASE r.resource.uri ->
            IF d # 0 /\ p.deps[d].installed /\ Lookup(p.deps[d].gives, rest) = "found"
              THEN Ok(Given(d, rest)) ELSE Failure(404, by)
       [] ~r.resource.uri /\ Lookup(p.own, r.resource.at) = "found" -> Ok(Local(r.resource.at))
       [] OTHER -> Failure(404, by)

\* The route's access control comes first; without a login nobody passes it.
WorkerDataset(p, r, by) ==
  IF r.access # 0 THEN Failure(r.access, by)
  ELSE DatasetAnswer(p, r.dataset, Local(p.data[r.dataset].source), NoHeaders, by)

\* serveHandlerRoute up to the executor: the model and the file to run, or a failure.
HandlerFile(p, r) ==
  LET d    == Owner(p, r.handler)
      rest == Rest(p, d, r.handler)
  IN CASE ~r.handler.uri -> [dep |-> 0, at |-> r.handler.at, fails |-> 0]
       [] r.handler.uri /\ d # 0 /\ p.deps[d].installed /\ Lookup(p.deps[d].gives, rest) = "found" ->
            [dep |-> d, at |-> rest, fails |-> 0]
       [] OTHER -> [dep |-> 0, at |-> <<>>, fails |-> 404]
===============================================================================
