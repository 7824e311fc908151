------------------------------- MODULE MC_Requests -------------------------------
(***************************************************************************)
(* Packages of one and two routes of every kind and of generated routes,    *)
(* asked for once by every path and method; packages with handlers are      *)
(* asked twice while others are installed.                                  *)
(***************************************************************************)
EXTENDS Requests

CONSTANTS s1, s2

MCNames ==
  <<<<".html">>, <<"about">>, <<"about.htm">>, <<"about.html">>, <<"data", "rows">>, <<"index.html">>,
    <<"note.html">>, <<"note.html.html">>>>
MCIds   == <<"hole", "odd", "rows", "sql">>
MCIndex == <<"index.html">>
MCStrip ==
  (<<".html">> :> <<>>) @@ (<<"about.htm">> :> <<"about">>) @@ (<<"about.html">> :> <<"about">>)
    @@ (<<"index.html">> :> <<"index">>) @@ (<<"note.html">> :> <<"note">>) @@ (<<"note.html.html">> :> <<"note.html">>)
    @@ [n \in ToSet(MCNames) |-> n]

MCIntrospect ==
  (<<"api", "metadata">> :> "metadata") @@ (<<"api", "routes">> :> "routes")
    @@ (<<"api", "hashes">> :> "contentHashes") @@ (<<"api", "validity">> :> "contentValidity")
MCPaths   == {<<>>, <<"a">>, <<"b">>, <<"data", "rows">>, <<"data", "odd">>}
               \cup ToSet(MCNames) \cup {<<"note">>, <<"index">>} \cup DOMAIN MCIntrospect
MCOutside == <<"docs2", "a">>
MCScope   == <<"docs">>

MCOwn == (<<"page">> :> "found") @@ (<<"gone">> :> "tombstoned") @@ (<<"rows.json">> :> "found")
           @@ (<<"odd.yaml">> :> "found")
MCDeps ==
  <<[guid |-> <<"lib">>, installed |-> TRUE,
     gives |-> (<<"lost">> :> "private") @@ (<<"gone">> :> "found") @@ (<<"a">> :> "found")
                 @@ (<<"sub", "a">> :> "found") @@ (<<"h.js">> :> "found"),
     code |-> (<<"h.js">> :> "ok")],
    [guid |-> <<"lib", "sub">>, installed |-> TRUE,
     gives |-> (<<"lost">> :> "found") @@ (<<"a">> :> "found") @@ (<<"b">> :> "private"),
     code |-> (<<"h.js">> :> "ok")],
    [guid |-> <<"off">>, installed |-> FALSE, gives |-> <<>>, code |-> <<>>]>>
MCCode == (<<"ok.js">> :> "ok") @@ (<<"bad.js">> :> "throws") @@ (<<"odd.js">> :> "other")
            @@ (<<"dull.js">> :> "no-entry") @@ (<<"h.lua">> :> "lua")
MCData == [rows |-> [kind |-> "file", source |-> <<"rows.json">>, yaml |-> FALSE],
           odd  |-> [kind |-> "file", source |-> <<"odd.yaml">>, yaml |-> TRUE],
           hole |-> [kind |-> "file", source |-> <<"gone">>, yaml |-> FALSE],
           sql  |-> [kind |-> "sqlite", source |-> None, yaml |-> FALSE]]

Pack(form, entries) ==
  [doc |-> [form |-> form, entries |-> entries], manifest |-> {}, own |-> MCOwn, data |-> MCData,
   deps |-> MCDeps, code |-> MCCode]

Uri(at)  == [uri |-> TRUE, at |-> at]
Res(path, ref)       == RouteTo(path, ref)
Set(id)              == [Blank EXCEPT !.path = <<"data", "rows">>, !.dataset = id]
Hand(path, mth, ref) == [Blank EXCEPT !.path = path, !.method = mth, !.handler = ref]
Legacy(e) == [e EXCEPT !.resource = None, !.dataset = None,
                       !.target = [file |-> e.resource, dataset |-> e.dataset]]
At(path, e) == [e EXCEPT !.remap = path]

Resources == {Own(<<"page">>), Own(<<"gone">>), Own(<<"lost">>), Own(<<"void">>), Uri(<<"lib", "a">>), Uri(<<"lib", "sub", "a">>),
              Uri(<<"lib", "sub", "b">>), Uri(<<"off", "a">>), Uri(<<"else", "a">>)}
Scripts   == {Own(<<"ok.js">>), Own(<<"bad.js">>), Own(<<"odd.js">>), Own(<<"dull.js">>), Own(<<"h.lua">>), Own(<<"missing.js">>),
              Uri(<<"lib", "h.js">>), Uri(<<"lib", "sub", "b">>)}
Ornate    == [Res(<<"a">>, Own(<<"page">>)) EXCEPT
                !.headers = "cache" :> <<"route">>, !.extra = "length" :> <<"declared">>,
                !.rewrite = [body |-> <<"rewritten">>, headers |-> "cache" :> <<"rewrite">>]]
Plain     == [Res(<<"a">>, Own(<<"lost">>)) EXCEPT !.extra = "length" :> <<"declared">>]

Singles ==
  {Res(<<"a">>, x) : x \in Resources} \cup {Set(id) : id \in DOMAIN MCData \cup {"none"}}
    \cup {Hand(<<"a">>, "POST", x) : x \in Scripts} \cup {Ornate, Plain}
    \cup {[Set("rows") EXCEPT !.access = c, !.remap = <<"b">>] : c \in {401, 403}}
Core ==
  {Res(<<"a">>, Own(<<"page">>)), Res(<<"b">>, Own(<<"lost">>)), At(<<"b">>, Res(<<"a">>, Own(<<"gone">>))),
   Hand(<<"a">>, "GET", Own(<<"ok.js">>)), Hand(<<"a">>, "POST", Own(<<"bad.js">>)), At(<<"b">>, Hand(<<"a">>, "GET", Own(<<"h.lua">>))),
   Set("rows"), At(<<"b">>, Set("odd"))}

Handled == {Pack("array", <<Hand(<<"a">>, "GET", x), Hand(<<"b">>, "GET", Own(<<"ok.js">>))>>) : x \in Scripts \ {Own(<<"h.lua">>)}}
Fixed ==
  {Pack("array", <<e>>) : e \in Singles} \cup {Pack("array", <<Legacy(e)>>) : e \in {e \in Singles : e.handler = None}}
    \cup {Pack(form, <<e, f>>) : form \in {"array", "keyed"}, e \in Core, f \in Core}
    \cup {Pack("array", <<e, Legacy(f)>>) : e \in Core, f \in {f \in Core : f.handler = None}}
    \cup {[Pack("absent", <<>>) EXCEPT !.manifest = m, !.own = MCOwn @@ [n \in m |-> "found"],
                                       !.data = [id \in {"rows", "odd"} |-> MCData[id]]] :
            m \in SUBSET ToSet(MCNames)}
MCPackages == Handled \cup Fixed

\* A package without handlers is asked once and stays; of the others one replaces
\* another, and their handlers' paths are asked.
Focus ==
  IF models[1] \in Handled
    THEN /\ \A i \in DOMAIN models' : models'[i] \in Handled
         /\ \A s \in Slots : pc'[s] # pc[s] => asked'[s].path \in {<<"a">>, <<"b">>}
    ELSE Len(models') = 1 /\ \E s \in Slots : pc'[s] = "free"
MCSpec == Init /\ [][Next /\ Focus]_vars

Swap == Permutations(Slots)
===============================================================================
