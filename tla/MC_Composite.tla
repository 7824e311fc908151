------------------------------ MODULE MC_Composite ------------------------------
(***************************************************************************)
(* The two halves of composite.ts.  A behaviour is one lookup of a path in  *)
(* every package of three layers and two resources (Layers), or one load of *)
(* the dependencies from small store directories (StoreDirectory); the      *)
(* other half's variables stand still.                                      *)
(***************************************************************************)
EXTENDS Layers, StoreDirectory, TLC

CONSTANTS page, style, g, h

Swap == Permutations(Paths)

NoIndex == [readable |-> TRUE, guids |-> Nothing]

NoLookup ==
  /\ files = [l \in Layer |-> {}] /\ tombs = [l \in Layer |-> {}]
  /\ hidden = {} /\ private = {} /\ viewpoint = "self"
  /\ path = [dir |-> 1, rel |-> Marker] /\ layer = Top
  /\ tombstoned = FALSE /\ result = NotFound

NoLoad ==
  /\ caps = <<>> /\ index = NoIndex /\ wanted = Nothing /\ pc = "loaded"
  /\ entries = <<>> /\ plan = Nothing /\ loaded = Nothing /\ verified = {} /\ rewritten = {}

CompositeInit == (Init /\ NoLoad) \/ (NoLookup /\ StoreInit)
CompositeNext == (Next /\ UNCHANGED storeVars) \/ (StoreNext /\ UNCHANGED vars)
CompositeSpec == CompositeInit /\ [][CompositeNext]_<<vars, storeVars>>

V(a, b, c) == [num |-> <<a, b, c>>, tag |-> ""]
Beta       == [num |-> <<1, 2, 0>>, tag |-> "-beta"]
Versions   == {V(0, 0, 2), V(0, 2, 1), V(1, 0, 0), V(1, 2, 0), Beta, V(1, 2, 3), V(2, 0, 0)}
C(o, a, b, c) == [op |-> o, at |-> <<a, b, c>>]

Package(u, v)    == [body |-> "package", guid |-> u, version |-> v, named |-> v]
Other(b, u, v)   == [body |-> b, guid |-> u, version |-> v, named |-> v]
Torn(v)          == [body |-> "torn", guid |-> None, version |-> None, named |-> v]

MCCaps ==
  {Package(g, v) : v \in Versions}
    \cup {Package(h, V(1, 0, 0)), Package(None, V(1, 2, 3)), Package(g, V(2, 0, 0))}
    \cup {Other(b, g, V(1, 2, 0)) : b \in {"unsigned", "damaged", "encrypted"}}
    \cup {Torn(V(1, 0, 0)), Torn(V(1, 2, 0)), Torn(None)}
    \cup {[body |-> "package", guid |-> h, version |-> V(1, 2, 3), named |-> V(1, 2, 0)]}
MCStores  == {<<a, b, c>> : a, b, c \in MCCaps}
MCIndexes == {NoIndex, [readable |-> FALSE, guids |-> Nothing], [readable |-> TRUE, guids |-> <<g, h, g>>]}

Ranges ==
  {{}, {C("?", 1, 2, 0)}, {C("x", 1, -1, 0)}, {C("x", 1, 2, 0)}, {C("=", 1, 2, 0)},
   {C("^", 1, 0, 0)}, {C("^", 0, 2, 0)}, {C("^", 0, 0, 2)}, {C("^", 0, 0, 1)}, {C("~", 1, 2, 0)},
   {C(">=", 0, 2, 1), C("<", 1, 2, 3)}, {C(">", 1, 2, 0), C("<=", 2, 0, 0)}}
MCWants ==
  {Nothing} \cup {(g :> r) : r \in Ranges}
    \cup {(g :> r) @@ (h :> {C("^", 1, 0, 0)}) : r \in {{C("^", 1, 0, 0)}, {C(">", 1, 2, 0), C("<=", 2, 0, 0)}}}
===============================================================================
