-------------------------------- MODULE Layers --------------------------------
(***************************************************************************)
(* Layered storage (core/src/layers.ts): resolveLayeredPath walks the       *)
(* layers visible from a viewpoint from the top down to content/, carrying  *)
(* one flag, and resolveDependencyResource (composite.ts) adds the          *)
(* manifest's visibility on top.  One behaviour is one call, on any package;*)
(* Overlay says what the call should return.                                *)
(***************************************************************************)
EXTENDS Integers

CONSTANTS
  Paths,   \* content/-relative paths of resources
  Marker,  \* .capsium-tombstones
  Top      \* the number of configured layers; layer 0 is content/ itself

ASSUME LayersAssumption == Top \in Nat /\ Marker \notin Paths

Layer == 0 .. Top

VARIABLES
  files,      \* files[l]: the paths the directory of layer l holds
  tombs,      \* tombs[l]: the paths its tombstone file lists, {} if absent or malformed
  hidden,     \* layers declared private
  private,    \* resources the manifest declares private
  viewpoint,  \* the package itself, or a package that depends on it
  path,       \* the path asked for
  layer,      \* the loop: layers above this one have been visited
  tombstoned, \* the loop's flag
  result

package == <<files, tombs, hidden, private>>
call    == <<viewpoint, path>>
vars    == <<package, call, layer, tombstoned, result>>

\* A request names content/<rel>, or a file by its place in a layer's directory.
ContentPath == [dir : {0}, rel : Paths \cup {Marker}]
DirectPath  == [dir : Layer \ {0}, rel : Paths \cup {Marker}]

Found(l)   == [kind |-> "found", at |-> l]
Tombstoned == [kind |-> "tombstoned", at |-> 0]
NotFound   == [kind |-> "not-found", at |-> 0]
Private    == [kind |-> "private", at |-> 0]
Pending    == [kind |-> "pending", at |-> 0]
Results    == {Found(l) : l \in Layer} \cup {Tombstoned, NotFound, Private, Pending}

TypeOK ==
  /\ files \in [Layer -> SUBSET Paths]
  /\ tombs \in [Layer -> SUBSET Paths]
  /\ hidden \subseteq Layer \ {0}
  /\ private \subseteq Paths
  /\ viewpoint \in {"self", "dependent"}
  /\ path \in ContentPath \cup DirectPath
  /\ layer \in Layer \cup {-1}
  /\ tombstoned \in BOOLEAN
  /\ result \in Results

Init ==
  /\ files \in [Layer -> SUBSET Paths]
  /\ tombs \in [Layer -> SUBSET Paths]
  /\ hidden \in SUBSET (Layer \ {0})
  /\ private \in SUBSET Paths
  /\ viewpoint \in {"self", "dependent"}
  /\ path \in ContentPath \cup DirectPath
  /\ layer = Top
  /\ tombstoned = FALSE
  /\ result = Pending

\* visibleLayers: a package sees all its layers, a dependent the exported ones.
Visible(l) == viewpoint = "dependent" => l \notin hidden

\* resolveDependencyResource: a dependent's answer, given the layered one.  The
\* manifest is asked for the path of the request, whatever layer answers, and
\* whatever is not found is missing.
Answer(r) ==
  IF viewpoint = "self" THEN r
  ELSE IF r.kind # "found" THEN NotFound
  ELSE IF path.dir = 0 /\ path.rel \in private THEN Private
  ELSE r

Return(r) ==
  /\ result' = Answer(r)
  /\ UNCHANGED <<package, call, layer>>

\* A path outside content/ addresses the package's files directly; every file is
\* reported under the implicit layer.
Stored(l, rel) == rel \in files[l] \/ (rel = Marker /\ tombs[l] # {})
Direct ==
  /\ result = Pending
  /\ path.dir # 0
  /\ Return(IF Stored(path.dir, path.rel) THEN Found(0) ELSE NotFound)
  /\ UNCHANGED tombstoned

MarkerAsked ==
  /\ result = Pending
  /\ path.dir = 0 /\ path.rel = Marker
  /\ Return(NotFound)
  /\ UNCHANGED tombstoned

Walking == result = Pending /\ path.dir = 0 /\ path.rel # Marker

\* Variant: the flag is the visited layer's own, not accumulated.
VisitForgetful ==
  /\ Walking
  /\ layer >= 0
  /\ Visible(layer)
  /\ tombstoned' = (path.rel \in tombs[layer])
  /\ IF path.rel \in files[layer]
       THEN Return(IF tombstoned' THEN Tombstoned ELSE Found(layer))
       ELSE layer' = layer - 1 /\ UNCHANGED <<package, call, result>>

\* Variant: the layer answering is counted from one.
VisitCounted ==
  /\ Walking
  /\ layer >= 0
  /\ Visible(layer)
  /\ tombstoned' = (tombstoned \/ path.rel \in tombs[layer])
  /\ IF path.rel \in files[layer]
       THEN Return(IF tombstoned' THEN Tombstoned ELSE Found(layer + 1))
       ELSE layer' = layer - 1 /\ UNCHANGED <<package, call, result>>

\* One turn of the loop; a layer's own tombstone counts before its own file.
Visit ==
  /\ Walking
  /\ layer >= 0
  /\ Visible(layer)
  /\ tombstoned' = (tombstoned \/ path.rel \in tombs[layer])
  /\ IF path.rel \in files[layer]
       THEN Return(IF tombstoned' THEN Tombstoned ELSE Found(layer))
       ELSE layer' = layer - 1 /\ UNCHANGED <<package, call, result>>

\* A layer the filter leaves out.
Skip ==
  /\ Walking
  /\ layer >= 0
  /\ ~Visible(layer)
  /\ layer' = layer - 1
  /\ UNCHANGED <<package, call, tombstoned, result>>

Exhausted ==
  /\ Walking
  /\ layer = -1
  /\ Return(IF tombstoned THEN Tombstoned ELSE NotFound)
  /\ UNCHANGED tombstoned

Next == Direct \/ MarkerAsked \/ Visit \/ Skip \/ Exhausted

Spec == Init /\ [][Next]_vars

(***************************************************************************)
(* The overlay, stated without a loop                                       *)
(***************************************************************************)
Serves(l)  == Visible(l) /\ path.rel \in files[l]
Deletes(l) == Visible(l) /\ path.rel \in tombs[l]

\* l is the topmost layer with the file, and no tombstone lies in it or above it.
Shows(l) ==
  /\ Serves(l)
  /\ \A m \in Layer : Serves(m) => m <= l
  /\ \A m \in Layer : Deletes(m) => m < l

Hides == (\E m \in Layer : Deletes(m)) /\ ~\E l \in Layer : Shows(l)

\* The call returns what the overlay shows: the topmost visible file that no
\* tombstone at or above it deletes; "tombstoned" exactly when a visible tombstone
\* hides the path; and a dependent never learns more than an exported, undeleted,
\* non-private resource (layers.ts:102-109, composite.ts:107-113).
OverlayResult ==
  result # Pending /\ path.dir = 0 /\ path.rel # Marker =>
    /\ result.kind = "found" =>
         /\ Shows(result.at)
         /\ viewpoint = "dependent" => path.rel \notin private
    /\ result = Private =>
         viewpoint = "dependent" /\ path.rel \in private /\ \E l \in Layer : Shows(l)
    /\ result = Tombstoned => viewpoint = "self" /\ Hides
    /\ result = NotFound =>
         /\ ~\E l \in Layer : Shows(l)
         /\ viewpoint = "self" => ~\E m \in Layer : Deletes(m)
===============================================================================
