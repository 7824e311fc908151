----------------------------- MODULE CompositeProofs -----------------------------
(***************************************************************************)
(* The two halves of composite packages.  resolveLayeredPath returns the    *)
(* overlay's answer for every package, any number of layers and any set of  *)
(* resources.  loadDependencies plans the newest archive in range for every *)
(* store, and hands over what was planned.                                  *)
(***************************************************************************)
EXTENDS Layers, StoreDirectory, WellFoundedInduction, TLAPS

(***************************************************************************)
(* The loop of resolveLayeredPath                                           *)
(***************************************************************************)

\* What the loop knows before it looks at its next layer.
LoopInv ==
  result = Pending /\ path.dir = 0 /\ path.rel # Marker =>
    /\ \A m \in Layer : m > layer => ~Serves(m)
    /\ tombstoned <=> \E m \in Layer : m > layer /\ Deletes(m)

USE LayersAssumption

-------------------------------------------------------------------------------

\* Everything keeps its type while a call runs.
THEOREM TypeCorrect == Spec => []TypeOK
<1>1. Init => TypeOK
  <2> SUFFICES ASSUME Init PROVE TypeOK
    OBVIOUS
  <2>1. layer \in Layer \cup {-1}
    BY DEF Init, Layer
  <2>2. result \in Results
    BY DEF Init, Results
  <2> QED
    BY <2>1, <2>2 DEF Init, TypeOK
<1>2. TypeOK /\ [Next]_vars => TypeOK'
  <2> SUFFICES ASSUME TypeOK, [Next]_vars PROVE TypeOK'
    OBVIOUS
  <2>1. ASSUME NEW r \in Results, Return(r)
        PROVE  result' \in Results /\ UNCHANGED <<package, call, layer>>
    BY <2>1 DEF Return, Answer, Results
  <2>2. \A l \in Layer : Found(l) \in Results
    BY DEF Results
  <2>3. {Tombstoned, NotFound} \subseteq Results /\ 0 \in Layer
    BY DEF Results, Layer
  <2>4. CASE Direct
    <3>1. PICK r \in Results : Return(r)
      BY <2>2, <2>3, <2>4 DEF Direct
    <3>2. result' \in Results /\ UNCHANGED <<package, call, layer, tombstoned>>
      BY <2>1, <3>1, <2>4 DEF Direct
    <3> QED
      BY <3>2 DEF TypeOK, package, call
  <2>5. CASE MarkerAsked
    <3>1. Return(NotFound) /\ UNCHANGED tombstoned
      BY <2>5 DEF MarkerAsked
    <3>2. result' \in Results /\ UNCHANGED <<package, call, layer>>
      BY <2>1, <2>3, <3>1
    <3> QED
      BY <3>1, <3>2 DEF TypeOK, package, call
  <2>6. CASE Visit
    <3>1. layer \in Layer /\ tombstoned' \in BOOLEAN
      BY <2>6 DEF Visit, TypeOK, Layer
    <3>2. CASE path.rel \in files[layer]
      <4>1. PICK r \in Results : Return(r)
        BY <2>2, <2>3, <2>6, <3>1, <3>2 DEF Visit
      <4>2. result' \in Results /\ UNCHANGED <<package, call, layer>>
        BY <2>1, <4>1
      <4> QED
        BY <3>1, <4>2 DEF TypeOK, package, call
    <3>3. CASE path.rel \notin files[layer]
      <4>1. layer' = layer - 1 /\ UNCHANGED <<package, call, result>>
        BY <2>6, <3>3 DEF Visit
      <4>2. layer' \in Layer \cup {-1}
        BY <3>1, <4>1 DEF Layer
      <4> QED
        BY <3>1, <4>1, <4>2 DEF TypeOK, package, call
    <3> QED
      BY <3>2, <3>3
  <2>7. CASE Skip
    <3>1. layer' \in Layer \cup {-1}
      BY <2>7 DEF Skip, TypeOK, Layer
    <3> QED
      BY <2>7, <3>1 DEF Skip, TypeOK, package, call
  <2>8. CASE Exhausted
    <3>1. PICK r \in Results : Return(r)
      BY <2>3, <2>8 DEF Exhausted
    <3>2. result' \in Results /\ UNCHANGED <<package, call, layer, tombstoned>>
      BY <2>1, <3>1, <2>8 DEF Exhausted
    <3> QED
      BY <3>2 DEF TypeOK, package, call
  <2>9. CASE UNCHANGED vars
    BY <2>9 DEF TypeOK, vars, package, call
  <2> QED
    BY <2>4, <2>5, <2>6, <2>7, <2>8, <2>9 DEF Next
<1> QED
  BY <1>1, <1>2, PTL DEF Spec

-------------------------------------------------------------------------------

\* What OverlayResult says of a content/ path's result r.
Correct(r) ==
  /\ r.kind = "found" =>
       /\ Shows(r.at)
       /\ viewpoint = "dependent" => path.rel \notin private
  /\ r = Private =>
       viewpoint = "dependent" /\ path.rel \in private /\ \E l \in Layer : Shows(l)
  /\ r = Tombstoned => viewpoint = "self" /\ Hides
  /\ r = NotFound =>
       /\ ~\E l \in Layer : Shows(l)
       /\ viewpoint = "self" => ~\E m \in Layer : Deletes(m)

\* The kinds of results are told apart by their records.
LEMMA Kinds ==
  /\ \A l \in Layer : Found(l).kind = "found" /\ Found(l).at = l
  /\ Tombstoned.kind = "tombstoned" /\ NotFound.kind = "not-found"
  /\ Private.kind = "private" /\ Pending.kind = "pending"
  BY DEF Found, Tombstoned, NotFound, Private, Pending

\* A call that leaves the package alone ends with a correct result, or goes on.
LEMMA Frame ==
  ASSUME UNCHANGED <<package, call>>
  PROVE  /\ Correct(result') => OverlayResult'
         /\ \A m \in Layer : (Serves(m)' <=> Serves(m)) /\ (Deletes(m)' <=> Deletes(m))
<1>1. \A m \in Layer : (Serves(m)' <=> Serves(m)) /\ (Deletes(m)' <=> Deletes(m))
  BY DEF package, call, Serves, Deletes, Visible
<1>2. \A l : Shows(l) => Shows(l)'
  BY DEF package, call, Shows, Serves, Deletes, Visible
<1>3. \A l : Shows(l)' => Shows(l)
  BY DEF package, call, Shows, Serves, Deletes, Visible
<1>4. ASSUME Correct(result') PROVE OverlayResult'
  <2>1. UNCHANGED <<private, viewpoint, path>>
    BY DEF package, call
  <2>2. Hides => Hides'
    BY <1>1, <1>3 DEF Hides
  <2>3. \A r : r = Private => r = Private'
    BY DEF Private
  <2>4. NotFound' = NotFound /\ Tombstoned' = Tombstoned /\ Private' = Private
    BY DEF NotFound, Tombstoned, Private
  <2> QED
    BY <1>1, <1>2, <1>3, <1>4, <2>1, <2>2, <2>4 DEF OverlayResult, Correct
<1> QED
  BY <1>1, <1>4

\* The answer to a dependent keeps what is correct of the layered result.
LEMMA AnswerCorrect ==
  ASSUME NEW r \in Results, r # Pending, r # Private, path.dir = 0,
         viewpoint \in {"self", "dependent"},
         r.kind = "found" => r.at \in Layer /\ Shows(r.at),
         r = Tombstoned => Hides,
         r = NotFound => (~\E l \in Layer : Shows(l)) /\ (~\E m \in Layer : Deletes(m))
  PROVE  Answer(r) # Pending /\ Correct(Answer(r))
<1> USE Kinds
<1>1. r.kind = "found" \/ r = Tombstoned \/ r = NotFound
  BY DEF Results
<1>2. CASE viewpoint = "self"
  BY <1>1, <1>2 DEF Answer, Correct
<1>3. CASE viewpoint = "dependent" /\ r.kind # "found"
  <2>1. Answer(r) = NotFound /\ ~\E l \in Layer : Shows(l)
    BY <1>1, <1>3 DEF Answer, Hides
  <2> QED
    BY <1>3, <2>1 DEF Correct
<1>4. CASE viewpoint = "dependent" /\ r.kind = "found"
  <2>1. CASE path.rel \in private
    <3>1. Answer(r) = Private
      BY <1>4, <2>1 DEF Answer
    <3> QED
      BY <1>4, <2>1, <3>1 DEF Correct
  <2>2. CASE path.rel \notin private
    <3>1. Answer(r) = r
      BY <1>4, <2>2 DEF Answer
    <3> QED
      BY <1>4, <2>2, <3>1 DEF Correct
  <2> QED
    BY <2>1, <2>2
<1> QED
  BY <1>2, <1>3, <1>4

-------------------------------------------------------------------------------

\* At the first visible layer with the file the overlay is decided.
LEMMA FirstHit ==
  ASSUME TypeOK, LoopInv, Walking, layer \in Layer, Visible(layer),
         path.rel \in files[layer]
  PROVE  IF tombstoned \/ path.rel \in tombs[layer] THEN Hides ELSE Shows(layer)
<1>1. /\ \A m \in Layer : m > layer => ~Serves(m)
      /\ tombstoned <=> \E m \in Layer : m > layer /\ Deletes(m)
  BY DEF LoopInv, Walking
<1>2. Serves(layer) /\ (Deletes(layer) <=> path.rel \in tombs[layer])
  BY DEF Serves, Deletes
<1>3. Layer \subseteq Int
  BY DEF Layer
<1>4. CASE tombstoned \/ path.rel \in tombs[layer]
  <2>1. PICK m \in Layer : m >= layer /\ Deletes(m)
    BY <1>1, <1>2, <1>3, <1>4
  <2>2. ASSUME NEW l \in Layer, Shows(l) PROVE FALSE
    <3>1. Serves(l) /\ layer <= l /\ m < l
      BY <1>2, <2>1, <2>2 DEF Shows
    <3>2. ~(l > layer)
      BY <1>1, <3>1
    <3>3. l \in Int /\ m \in Int /\ layer \in Int
      BY <1>3
    <3> QED
      BY <2>1, <3>1, <3>2, <3>3
  <2> QED
    BY <1>4, <2>1, <2>2 DEF Hides
<1>5. CASE ~(tombstoned \/ path.rel \in tombs[layer])
  <2>1. \A m \in Layer : Serves(m) => m <= layer
    BY <1>1, <1>3
  <2>2. \A m \in Layer : Deletes(m) => m < layer
    BY <1>1, <1>2, <1>3, <1>5
  <2>3. Shows(layer)
    BY <1>2, <2>1, <2>2 DEF Shows
  <2> QED
    BY <1>5, <2>3
<1> QED
  BY <1>4, <1>5

\* The loop knows what it has passed, and whatever it returns is the overlay's
\* answer.
LEMMA Inductive == TypeOK /\ TypeOK' /\ LoopInv /\ OverlayResult /\ [Next]_vars
                     => LoopInv' /\ OverlayResult'
<1> SUFFICES ASSUME TypeOK, TypeOK', LoopInv, OverlayResult, [Next]_vars
             PROVE  LoopInv' /\ OverlayResult'
  OBVIOUS
<1> USE Kinds
<1>1. viewpoint \in {"self", "dependent"}
  BY DEF TypeOK
<1>2. CASE Direct \/ MarkerAsked
  <2>1. UNCHANGED path /\ ~(path.dir = 0 /\ path.rel # Marker)
    BY <1>2 DEF Direct, MarkerAsked, Return, call
  <2> QED
    BY <2>1 DEF LoopInv, OverlayResult
<1>3. CASE Visit /\ path.rel \in files[layer]
  <2>1. layer \in Layer
    BY <1>3 DEF Visit, TypeOK, Layer
  <2> DEFINE r == IF tombstoned' THEN Tombstoned ELSE Found(layer)
  <2>2. UNCHANGED <<package, call>> /\ result' = Answer(r) /\ path.dir = 0
    BY <1>3 DEF Visit, Return, Walking
  <2>3. IF tombstoned' THEN Hides ELSE Shows(layer)
    BY <1>3, <2>1, FirstHit DEF Visit
  <2>4. /\ r \in Results /\ r # Pending /\ r # Private /\ r # NotFound
        /\ r.kind = "found" => r.at \in Layer /\ Shows(r.at)
        /\ r = Tombstoned => Hides
    <3>1. CASE tombstoned'
      BY <2>3, <3>1 DEF Results
    <3>2. CASE ~tombstoned'
      BY <2>1, <2>3, <3>2 DEF Results
    <3> QED
      BY <3>1, <3>2
  <2> HIDE DEF r
  <2>5. Answer(r) # Pending /\ Correct(Answer(r))
    BY <1>1, <2>2, <2>4, AnswerCorrect
  <2>6. result' # Pending'
    BY <2>2, <2>5 DEF Pending
  <2> QED
    BY <2>2, <2>5, <2>6, Frame DEF LoopInv
<1>4. CASE Visit /\ path.rel \notin files[layer]
  <2>1. /\ layer \in Layer /\ layer \in Int /\ Visible(layer) /\ Walking
        /\ UNCHANGED <<package, call, result>> /\ layer' = layer - 1
        /\ tombstoned' = (tombstoned \/ path.rel \in tombs[layer])
    BY <1>4 DEF Visit, TypeOK, Layer
  <2>2. ~Serves(layer) /\ (Deletes(layer) <=> path.rel \in tombs[layer])
    BY <1>4, <2>1 DEF Serves, Deletes
  <2>3. \A m \in Layer : m > layer' <=> m > layer \/ m = layer
    BY <2>1 DEF Layer
  <2>4. /\ \A m \in Layer : m > layer => ~Serves(m)
        /\ tombstoned <=> \E m \in Layer : m > layer /\ Deletes(m)
    BY <2>1 DEF LoopInv, Walking
  <2>5. \A m \in Layer : m > layer' => ~Serves(m)'
    BY <2>1, <2>2, <2>3, <2>4, Frame
  <2>6. tombstoned' <=> \E m \in Layer : m > layer' /\ Deletes(m)'
    BY <2>1, <2>2, <2>3, <2>4, Frame
  <2>7. result' = Pending'
    BY <2>1 DEF Walking, Pending
  <2> QED
    BY <2>5, <2>6, <2>7 DEF LoopInv, OverlayResult, Layer
<1>5. CASE Skip
  <2>1. /\ layer \in Layer /\ layer \in Int /\ ~Visible(layer) /\ Walking
        /\ UNCHANGED <<package, call, result, tombstoned>> /\ layer' = layer - 1
    BY <1>5 DEF Skip, TypeOK, Layer
  <2>2. ~Serves(layer) /\ ~Deletes(layer)
    BY <2>1 DEF Serves, Deletes
  <2>3. \A m \in Layer : m > layer' <=> m > layer \/ m = layer
    BY <2>1 DEF Layer
  <2>4. /\ \A m \in Layer : m > layer => ~Serves(m)
        /\ tombstoned <=> \E m \in Layer : m > layer /\ Deletes(m)
    BY <2>1 DEF LoopInv, Walking
  <2>5. \A m \in Layer : m > layer' => ~Serves(m)'
    BY <2>1, <2>2, <2>3, <2>4, Frame
  <2>6. tombstoned' <=> \E m \in Layer : m > layer' /\ Deletes(m)'
    BY <2>1, <2>2, <2>3, <2>4, Frame
  <2>7. result' = Pending'
    BY <2>1 DEF Walking, Pending
  <2> QED
    BY <2>5, <2>6, <2>7 DEF LoopInv, OverlayResult, Layer
<1>6. CASE Exhausted
  <2> DEFINE r == IF tombstoned THEN Tombstoned ELSE NotFound
  <2>1. /\ UNCHANGED <<package, call>> /\ result' = Answer(r) /\ path.dir = 0
        /\ layer = -1 /\ Walking
    BY <1>6 DEF Exhausted, Return, Walking
  <2>2. \A m \in Layer : m > layer
    BY <2>1 DEF Layer
  <2>3. (\A m \in Layer : ~Serves(m)) /\ (tombstoned <=> \E m \in Layer : Deletes(m))
    BY <2>1, <2>2 DEF LoopInv, Walking
  <2>4. ~\E l \in Layer : Shows(l)
    BY <2>3 DEF Shows
  <2>5. /\ r \in Results /\ r # Pending /\ r # Private /\ r.kind # "found"
        /\ r = Tombstoned => Hides
        /\ r = NotFound => (~\E l \in Layer : Shows(l)) /\ (~\E m \in Layer : Deletes(m))
    <3>1. CASE tombstoned
      BY <2>3, <2>4, <3>1 DEF Results, Hides
    <3>2. CASE ~tombstoned
      BY <2>3, <2>4, <3>2 DEF Results
    <3> QED
      BY <3>1, <3>2
  <2> HIDE DEF r
  <2>6. Answer(r) # Pending /\ Correct(Answer(r))
    BY <1>1, <2>1, <2>5, AnswerCorrect
  <2>7. result' # Pending'
    BY <2>1, <2>6 DEF Pending
  <2> QED
    BY <2>1, <2>6, <2>7, Frame DEF LoopInv
<1>7. CASE UNCHANGED vars
  BY <1>7 DEF vars, package, call, LoopInv, OverlayResult, Serves, Deletes,
              Shows, Hides, Visible, Pending, Private, Tombstoned, NotFound
<1> QED
  BY <1>2, <1>3, <1>4, <1>5, <1>6, <1>7 DEF Next

\* resolveLayeredPath, and resolveDependencyResource over it, return what the
\* overlay shows, for any number of layers and any resources.
THEOREM OverlayCorrect == Spec => []OverlayResult
<1>1. Init => LoopInv /\ OverlayResult
  <2> SUFFICES ASSUME Init PROVE LoopInv /\ OverlayResult
    OBVIOUS
  <2>1. \A m \in Layer : ~(m > layer)
    BY DEF Init, Layer
  <2> QED
    BY <2>1 DEF Init, LoopInv, OverlayResult
<1>2. Spec => []TypeOK
  BY TypeCorrect
<1> QED
  BY <1>1, <1>2, Inductive, PTL DEF Spec

(***************************************************************************)
(* Versions, ranges and the newest in range                                 *)
(***************************************************************************)
Triple == Nat \X Nat \X Nat

\* A set of natural numbers that is not empty has a least one.
LEMMA Least ==
  ASSUME NEW S \in SUBSET Nat, S # {}
  PROVE  \E m \in S : \A n \in S : m <= n
  <1>1. PICK m \in S : \A n \in S : <<n, m>> \notin OpToRel(<, Nat)
    BY NatLessThanWellFounded, WFMin
  <1>2. \A n \in S : ~(n < m)
    BY <1>1 DEF OpToRel
  <1> QED BY <1>2

\* compareParsed is the lexicographic order of the triples (semver.ts:47-54).
LEMMA OrderIsBelow ==
  ASSUME NEW a \in Triple, NEW b \in Triple
  PROVE  /\ Order(a, b) \in {-1, 0, 1}
         /\ Order(a, b) = 0 <=> a = b
         /\ Order(a, b) < 0 <=> Below(a, b)
         /\ Order(a, b) > 0 <=> Below(b, a)
  <1> DEFINE differs == {k \in 1 .. 3 : a[k] # b[k]}
             least == CHOOSE k \in differs : \A j \in differs : k <= j
  <1>1. /\ a = <<a[1], a[2], a[3]>> /\ b = <<b[1], b[2], b[3]>>
        /\ \A k \in 1 .. 3 : a[k] \in Nat /\ b[k] \in Nat
    BY DEF Triple
  <1>2. CASE a[1] # b[1]
    <2>1. least = 1
      BY <1>1, <1>2
    <2>2. Order(a, b) = IF a[1] < b[1] THEN -1 ELSE 1
      BY <1>2, <2>1 DEF Order
    <2> QED BY <1>1, <1>2, <2>2 DEF Below
  <1>3. CASE a[1] = b[1] /\ a[2] # b[2]
    <2>1. least = 2
      BY <1>1, <1>3
    <2>2. Order(a, b) = IF a[2] < b[2] THEN -1 ELSE 1
      BY <1>3, <2>1 DEF Order
    <2> QED BY <1>1, <1>3, <2>2 DEF Below
  <1>4. CASE a[1] = b[1] /\ a[2] = b[2] /\ a[3] # b[3]
    <2>1. least = 3
      BY <1>1, <1>4
    <2>2. Order(a, b) = IF a[3] < b[3] THEN -1 ELSE 1
      BY <1>4, <2>1 DEF Order
    <2> QED BY <1>1, <1>4, <2>2 DEF Below
  <1>5. CASE a[1] = b[1] /\ a[2] = b[2] /\ a[3] = b[3]
    <2>1. differs = {}
      BY <1>5
    <2>2. Order(a, b) = 0
      BY <2>1 DEF Order
    <2> QED BY <1>1, <1>5, <2>2 DEF Below
  <1> QED BY <1>2, <1>3, <1>4, <1>5

\* Each comparator accepts exactly an interval of versions, the caret's ending where its
\* leftmost number that is not zero moves on (semver.ts:56-105).
LEMMA ComparatorIsInterval ==
  ASSUME NEW v \in Triple, NEW c, IsComparator(c)
  PROVE  MatchesComparator(v, c) <=> Inside(v, c)
  <1> DEFINE t == c.at
  <1>1. /\ v[1] \in Nat /\ v[2] \in Nat /\ v[3] \in Nat
        /\ v = <<v[1], v[2], v[3]>>
    BY DEF Triple
  <1>2. /\ t[1] \in Nat /\ t[3] \in Nat /\ t = <<t[1], t[2], t[3]>>
        /\ t[2] \in Int
        /\ c.op # "x" => t[2] \in Nat /\ t \in Triple
        /\ c.op = "x" => t[2] = -1 \/ t[2] \in Nat
    BY DEF IsComparator, Triple
  <1>3. /\ Bump(t, 1)[1] = t[1] + 1 /\ Bump(t, 1)[2] = 0 /\ Bump(t, 1)[3] = 0
        /\ Bump(t, 2)[1] = t[1] /\ Bump(t, 2)[2] = t[2] + 1 /\ Bump(t, 2)[3] = 0
        /\ Bump(t, 3)[1] = t[1] /\ Bump(t, 3)[2] = t[2] /\ Bump(t, 3)[3] = t[3] + 1
    BY DEF Bump
  <1>4. c.op # "x" =>
          /\ Order(v, t) \in {-1, 0, 1}
          /\ Order(v, t) = 0 <=> v[1] = t[1] /\ v[2] = t[2] /\ v[3] = t[3]
          /\ Order(v, t) < 0 <=> Below(v, t)
          /\ Order(v, t) > 0 <=> Below(t, v)
    BY <1>1, <1>2, OrderIsBelow
  <1> HIDE DEF t
  <1>5. CASE c.op = "x"
    BY <1>1, <1>2, <1>3, <1>5 DEF MatchesComparator, Inside, Within, Below, t
  <1>6. CASE c.op = "="
    <2>1. MatchesComparator(v, c) <=> Order(v, t) = 0
      BY <1>6 DEF MatchesComparator, t
    <2>2. Inside(v, c) <=> Within(v, t, Bump(t, 3))
      BY <1>6 DEF Inside, t
    <2> QED BY <1>1, <1>2, <1>3, <1>4, <1>6, <2>1, <2>2 DEF Within, Below
  <1>7. CASE c.op = ">"
    <2>1. MatchesComparator(v, c) <=> Order(v, t) > 0
      BY <1>7 DEF MatchesComparator, t
    <2>2. Inside(v, c) <=> ~Below(v, Bump(t, 3))
      BY <1>7 DEF Inside, t
    <2> QED BY <1>1, <1>2, <1>3, <1>4, <1>7, <2>1, <2>2 DEF Below
  <1>8. CASE c.op = ">="
    <2>1. MatchesComparator(v, c) <=> Order(v, t) >= 0
      BY <1>8 DEF MatchesComparator, t
    <2>2. Inside(v, c) <=> ~Below(v, t)
      BY <1>8 DEF Inside, t
    <2> QED BY <1>1, <1>2, <1>4, <1>8, <2>1, <2>2
  <1>9. CASE c.op = "<"
    <2>1. MatchesComparator(v, c) <=> Order(v, t) < 0
      BY <1>9 DEF MatchesComparator, t
    <2>2. Inside(v, c) <=> Within(v, Zero, t)
      BY <1>9 DEF Inside, t
    <2> QED BY <1>1, <1>4, <1>9, <2>1, <2>2 DEF Within, Below, Zero
  <1>10. CASE c.op = "<="
    <2>1. MatchesComparator(v, c) <=> Order(v, t) <= 0
      BY <1>10 DEF MatchesComparator, t
    <2>2. Inside(v, c) <=> Within(v, Zero, Bump(t, 3))
      BY <1>10 DEF Inside, t
    <2> QED BY <1>1, <1>2, <1>3, <1>4, <1>10, <2>1, <2>2 DEF Within, Below, Zero
  <1>11. CASE c.op = "~"
    <2>1. MatchesComparator(v, c) <=> v[1] = t[1] /\ v[2] = t[2] /\ Order(v, t) >= 0
      BY <1>11 DEF MatchesComparator, t
    <2>2. Inside(v, c) <=> Within(v, t, Bump(t, 2))
      BY <1>11 DEF Inside, t
    <2> QED BY <1>1, <1>2, <1>3, <1>4, <1>11, <2>1, <2>2 DEF Within, Below
  <1>12. CASE c.op = "^"
    <2>1. MatchesComparator(v, c) <=>
            /\ Order(v, t) >= 0 /\ v[1] = t[1]
            /\ t[1] = 0 => v[2] = t[2]
            /\ t[1] = 0 /\ t[2] = 0 => v[3] = t[3]
      BY <1>12 DEF MatchesComparator, t
    <2>2. Inside(v, c) <=> Within(v, t, CaretEnd(t))
      BY <1>12 DEF Inside, t
    <2>3. CASE t[1] # 0
      BY <1>1, <1>2, <1>3, <1>4, <1>12, <2>1, <2>2, <2>3 DEF Within, Below, CaretEnd
    <2>4. CASE t[1] = 0 /\ t[2] # 0
      BY <1>1, <1>2, <1>3, <1>4, <1>12, <2>1, <2>2, <2>4 DEF Within, Below, CaretEnd
    <2>5. CASE t[1] = 0 /\ t[2] = 0
      BY <1>1, <1>2, <1>3, <1>4, <1>12, <2>1, <2>2, <2>5 DEF Within, Below, CaretEnd
    <2> QED BY <2>3, <2>4, <2>5
  <1>13. CASE c.op \notin {"x", "=", ">", ">=", "<", "<=", "~", "^"}
    BY <1>13 DEF MatchesComparator, Inside
  <1> QED BY <1>5, <1>6, <1>7, <1>8, <1>9, <1>10, <1>11, <1>12, <1>13

\* satisfiesRange is the interval reading of the range.
LEMMA RangeIsIntervals ==
  ASSUME NEW version, IsVersion(version), NEW range, \A c \in range : IsComparator(c)
  PROVE  Satisfies(version, range) <=> InRange(version, range)
  BY ComparatorIsInterval DEF Satisfies, InRange, IsVersion, Triple

\* The loop of newestSatisfying, unrolled: best[n] is its variable after n positions.
Step(versions, range, n, best) ==
  IF /\ n \in DOMAIN versions
     /\ Satisfies(versions[n], range)
     /\ best = None \/ Order(versions[n].num, best.num) > 0
    THEN versions[n] ELSE best
Trace(best, versions, last, range) ==
  best = [n \in 0 .. last |-> IF n = 0 THEN None ELSE Step(versions, range, n, best[n - 1])]

LEMMA TraceExists ==
  ASSUME NEW versions, NEW last \in Nat, NEW range
  PROVE  \E best : Trace(best, versions, last, range)
  <1> DEFINE missing == {n \in Nat : ~\E best : Trace(best, versions, n, range)}
  <1>1. ASSUME missing # {} PROVE FALSE
    <2>1. PICK n \in missing : \A m \in missing : n <= m
      BY <1>1, Least
    <2>2. Trace([k \in 0 .. 0 |-> None], versions, 0, range)
      BY DEF Trace
    <2>3. n \in Nat /\ n # 0
      BY <2>2
    <2>4. PICK shorter : Trace(shorter, versions, n - 1, range)
      BY <2>1, <2>3
    <2> DEFINE longer == [k \in 0 .. n |-> IF k = n THEN Step(versions, range, n, shorter[n - 1]) ELSE shorter[k]]
    <2>5. \A k \in 0 .. n : longer[k] = IF k = 0 THEN None ELSE Step(versions, range, k, longer[k - 1])
      <3> SUFFICES ASSUME NEW k \in 0 .. n
                   PROVE  longer[k] = IF k = 0 THEN None ELSE Step(versions, range, k, longer[k - 1])
        OBVIOUS
      <3> HIDE DEF missing
      <3>1. CASE k = n
        <4>1. n - 1 \in 0 .. n /\ n - 1 # n
          BY <2>3
        <4>2. longer[n] = Step(versions, range, n, shorter[n - 1]) /\ longer[n - 1] = shorter[n - 1]
          BY <2>3, <4>1
        <4> QED BY <2>3, <3>1, <4>2
      <3>2. CASE k # n
        <4>1. k \in 0 .. n - 1 /\ (k # 0 => k - 1 \in 0 .. n - 1)
          BY <2>3, <3>2
        <4>2. shorter[k] = IF k = 0 THEN None ELSE Step(versions, range, k, shorter[k - 1])
          BY <2>4, <4>1 DEF Trace
        <4>3. longer[k] = shorter[k] /\ (k # 0 => longer[k - 1] = shorter[k - 1])
          BY <2>3, <3>2, <4>1
        <4> QED BY <4>2, <4>3
      <3> QED BY <3>1, <3>2
    <2>6. Trace(longer, versions, n, range)
      <3> HIDE DEF missing
      <3>1. longer = [k \in 0 .. n |-> longer[k]]
        OBVIOUS
      <3> HIDE DEF longer
      <3> QED BY <2>5, <3>1 DEF Trace
    <2> QED BY <2>6
  <1> QED BY <1>1

LEMMA NewestIsTraced ==
  ASSUME NEW versions, NEW last \in Nat, NEW range
  PROVE  \E best : Trace(best, versions, last, range) /\ Newest(versions, last, range) = best[last]
  <1> DEFINE best == CHOOSE b : Trace(b, versions, last, range)
  <1>1. Trace(best, versions, last, range)
    BY TraceExists
  <1>2. Newest(versions, last, range) = best[last]
    BY DEF Newest, Trace, Step
  <1> QED BY <1>1, <1>2

\* What the loop holds after n positions: nothing if none of them satisfies the range, else
\* the first of the newest of those that do.
Holds(best, versions, n, range) ==
  LET some == {m \in DOMAIN versions : m <= n /\ Satisfies(versions[m], range)}
  IN \/ best = None /\ some = {}
     \/ \E p \in some :
          /\ best = versions[p]
          /\ \A m \in some : /\ ~Below(best.num, versions[m].num)
                             /\ versions[m].num = best.num => p <= m

LEMMA BelowOrders ==
  ASSUME NEW a \in Triple, NEW b \in Triple, NEW c \in Triple
  PROVE  /\ ~Below(a, a)
         /\ Below(a, b) /\ Below(b, c) => Below(a, c)
         /\ ~Below(a, b) /\ ~Below(b, a) => a = b
  BY DEF Below, Triple

LEMMA StepHolds ==
  ASSUME NEW versions, DOMAIN versions \subseteq Nat, NEW range, NEW n \in Nat, NEW best,
         \A m \in DOMAIN versions : versions[m] # None /\ IsVersion(versions[m]),
         Holds(best, versions, n, range)
  PROVE  Holds(Step(versions, range, n + 1, best), versions, n + 1, range)
  <1> DEFINE v == versions[n + 1]
             old == {m \in DOMAIN versions : m <= n /\ Satisfies(versions[m], range)}
             new == {m \in DOMAIN versions : m <= n + 1 /\ Satisfies(versions[m], range)}
             Old(p, b) == /\ b = versions[p]
                          /\ \A m \in old : ~Below(b.num, versions[m].num) /\ (versions[m].num = b.num => p <= m)
             New(p, b) == /\ b = versions[p]
                          /\ \A m \in new : ~Below(b.num, versions[m].num) /\ (versions[m].num = b.num => p <= m)
             next == Step(versions, range, n + 1, best)
  <1>1. \A m \in DOMAIN versions : versions[m].num \in Triple /\ versions[m] # None /\ m \in Nat
    BY DEF IsVersion, Triple
  <1>2. (best = None /\ old = {}) \/ \E p \in old : Old(p, best)
    BY DEF Holds
  <1>3. SUFFICES (next = None /\ new = {}) \/ \E p \in new : New(p, next)
    BY DEF Holds
  <1>4. CASE n + 1 \in DOMAIN versions /\ Satisfies(v, range)
    <2>1. new = old \cup {n + 1} /\ n + 1 \in new
      BY <1>1, <1>4
    <2>2. CASE best = None
      <3>1. old = {}
        BY <1>1, <1>2, <2>2
      <3>2. next = v
        BY <1>4, <2>2 DEF Step
      <3>3. ~Below(v.num, v.num)
        BY <1>1, <1>4, BelowOrders
      <3> HIDE DEF next, old, new
      <3> QED BY <2>1, <3>1, <3>2, <3>3
    <2>3. CASE best # None
      <3>1. PICK p \in old : Old(p, best)
        BY <1>2, <2>3
      <3>2. p \in DOMAIN versions /\ p <= n /\ best.num \in Triple /\ v.num \in Triple /\ n + 1 \in Nat
        BY <1>1, <1>4, <3>1
      <3>3. CASE Order(v.num, best.num) > 0
        <4>1. next = v /\ Below(best.num, v.num)
          BY <1>4, <2>3, <3>2, <3>3, OrderIsBelow DEF Step
        <4>2. ASSUME NEW m \in old PROVE ~Below(v.num, versions[m].num) /\ versions[m].num # v.num
          <5>1. ~Below(best.num, versions[m].num) /\ versions[m].num \in Triple
            BY <1>1, <3>1, <4>2
          <5> QED BY <3>2, <4>1, <5>1, BelowOrders
        <4>3. ~Below(v.num, v.num)
          BY <3>2, BelowOrders
        <4> HIDE DEF next, old, new
        <4>4. New(n + 1, next)
          BY <2>1, <4>1, <4>2, <4>3, <3>2
        <4> QED BY <2>1, <4>4
      <3>4. CASE ~(Order(v.num, best.num) > 0)
        <4>1. next = best /\ ~Below(best.num, v.num)
          BY <1>4, <2>3, <3>2, <3>4, OrderIsBelow DEF Step
        <4>2. p <= n + 1 /\ p \in Nat
          BY <1>1, <3>2
        <4> HIDE DEF next, old, new
        <4>3. New(p, next)
          BY <2>1, <3>1, <4>1, <4>2
        <4> QED BY <2>1, <3>1, <4>3
      <3> QED BY <3>3, <3>4
    <2> QED BY <2>2, <2>3
  <1>5. CASE ~(n + 1 \in DOMAIN versions /\ Satisfies(v, range))
    <2>1. next = best
      BY <1>5 DEF Step
    <2>2. new = old
      BY <1>1, <1>5
    <2> QED BY <1>2, <2>1, <2>2
  <1> QED BY <1>4, <1>5

LEMMA NewestHolds ==
  ASSUME NEW versions, NEW last \in Nat, DOMAIN versions \subseteq 1 .. last, NEW range,
         \A m \in DOMAIN versions : versions[m] # None /\ IsVersion(versions[m])
  PROVE  Holds(Newest(versions, last, range), versions, last, range)
  <1>1. PICK best : Trace(best, versions, last, range) /\ Newest(versions, last, range) = best[last]
    BY NewestIsTraced
  <1> DEFINE broken == {n \in 0 .. last : ~Holds(best[n], versions, n, range)}
  <1>2. ASSUME broken # {} PROVE FALSE
    <2>1. broken \in SUBSET Nat
      OBVIOUS
    <2>2. PICK n \in broken : \A m \in broken : n <= m
      BY <1>2, <2>1, Least
    <2>3. best[0] = None
      BY <1>1 DEF Trace
    <2>4. Holds(None, versions, 0, range)
      BY DEF Holds
    <2>5. n # 0 /\ n - 1 \in Nat /\ n - 1 \in 0 .. last /\ n - 1 + 1 = n
      BY <2>3, <2>4
    <2>6. Holds(best[n - 1], versions, n - 1, range)
      BY <2>2, <2>5
    <2>7. best[n] = Step(versions, range, n, best[n - 1])
      BY <1>1, <2>5 DEF Trace
    <2>8. DOMAIN versions \subseteq Nat
      OBVIOUS
    <2>9. Holds(Step(versions, range, n - 1 + 1, best[n - 1]), versions, n - 1 + 1, range)
      <3> HIDE DEF broken
      <3> QED BY <2>5, <2>6, <2>8, StepHolds
    <2> QED BY <2>5, <2>7, <2>9
  <1> QED BY <1>1, <1>2

(***************************************************************************)
(* What a call knows at each of its awaits                                  *)
(***************************************************************************)
Guids    == {None} \cup {c.guid : c \in Caps} \cup UNION {{i.guids[f] : f \in DOMAIN i.guids} : i \in Indexes}
Versions == {c.version : c \in Caps} \cup {c.named : c \in Caps}
Entry    == [guid : Guids, version : Versions, file : Nat]

\* What is listed is the identity of an archive, and still is unless it was rewritten.
EntryOK(i) ==
  /\ entries[i].file = i
  /\ entries[i].guid # None
  /\ entries[i].version # None
  /\ IsVersion(entries[i].version)
  /\ i \notin rewritten => entries[i] = Identity(i)

ListOK ==
  /\ caps \in Seq(Caps)
  /\ index \in Indexes
  /\ wanted \in Wants
  /\ entries \in Seq(Entry)
  /\ Len(entries) <= Len(caps)
  /\ \A i \in DOMAIN entries : EntryOK(i)
  /\ rewritten \subseteq DOMAIN entries

\* What is read is an archive that parses, the one planned unless it was rewritten.
ReadOK(g) ==
  /\ loaded[g] \in Caps
  /\ loaded[g].body \in {"package", "damaged"}
  /\ plan[g].file \notin rewritten => loaded[g] = caps[plan[g].file]

Planned == \A g \in DOMAIN wanted : Best(g) # None
PhaseOK ==
  /\ pc \in {"index", "list", "read", "verify", "loaded", "failed"}
  /\ DOMAIN loaded \subseteq DOMAIN plan
  /\ verified \subseteq DOMAIN loaded
  /\ \A g \in DOMAIN loaded : ReadOK(g)
  /\ \A g \in verified : loaded[g].body = "package"
  /\ plan = Nothing \/ (DOMAIN wanted # {} /\ Planned /\ Len(entries) = Len(caps) /\ plan = [g \in DOMAIN wanted |-> Chosen(g)])
  /\ pc = "index" => entries = <<>>
  /\ pc \in {"index", "list"} => plan = Nothing
  /\ pc \in {"list", "read", "verify"} => DOMAIN wanted # {}
  /\ pc \in {"read", "verify"} => plan # Nothing
  /\ pc \in {"verify", "loaded"} => DOMAIN loaded = DOMAIN plan
  /\ pc = "loaded" => verified = DOMAIN loaded /\ DOMAIN plan = DOMAIN wanted
  /\ pc = "failed" /\ plan = Nothing /\ Len(entries) = Len(caps) => \E g \in DOMAIN wanted : Best(g) = None

StoreInv == ListOK /\ PhaseOK

\* Everything planDependencies and resolve find for a guid (composite.ts:45-53,
\* store-directory.ts:78-86).
LEMMA ChosenFits ==
  ASSUME ListOK, NEW g \in DOMAIN wanted
  PROVE  /\ Best(g) = None => \A i \in DOMAIN entries : ~Fits(entries[i], g)
         /\ Best(g) # None =>
              \E p \in DOMAIN entries :
                /\ Chosen(g) = entries[p]
                /\ Fits(entries[p], g)
                /\ \A i \in DOMAIN entries : Fits(entries[i], g) =>
                     /\ ~Below(entries[p].version.num, entries[i].version.num)
                     /\ entries[i].version.num = entries[p].version.num => p <= i
  <1> DEFINE own == Candidates(g)
             versions == [i \in own |-> entries[i].version]
             last == Len(entries)
             range == wanted[g]
             some == {m \in own : m <= last /\ Satisfies(versions[m], range)}
             found == {i \in own : entries[i].version = Best(g)}
             least == CHOOSE i \in found : \A j \in found : i <= j
  <1>1. /\ last \in Nat /\ own \subseteq 1 .. last /\ DOMAIN entries = 1 .. last
        /\ \A i \in own : entries[i].guid = g
        /\ \A i \in DOMAIN entries : entries[i].guid = g => i \in own
    BY DEF ListOK, Candidates
  <1>2. \A m \in own : versions[m] = entries[m].version /\ versions[m] # None /\ IsVersion(versions[m])
    BY <1>1 DEF ListOK, EntryOK
  <1>3. \A c \in range : IsComparator(c)
    BY StoreAssumption DEF ListOK, StoreAssumption
  <1>4. \A i \in own : Satisfies(entries[i].version, range) <=> Fits(entries[i], g)
    BY <1>1, <1>2, <1>3, RangeIsIntervals DEF Fits
  <1>5. Holds(Best(g), versions, last, range)
    <2>1. DOMAIN versions = own
      OBVIOUS
    <2>2. Holds(Newest(versions, last, range), versions, last, range)
      <3> HIDE DEF versions, own, range
      <3> QED BY <1>1, <1>2, <2>1, NewestHolds
    <2> QED BY <2>2 DEF Best
  <1>6. \/ Best(g) = None /\ some = {}
        \/ \E p \in some :
             /\ Best(g) = versions[p]
             /\ \A m \in some : /\ ~Below(Best(g).num, versions[m].num)
                                /\ versions[m].num = Best(g).num => p <= m
    BY <1>5 DEF Holds
  <1>7. \A m \in DOMAIN entries : Fits(entries[m], g) => m \in some
    BY <1>1, <1>2, <1>4 DEF Fits
  <1>8. ASSUME Best(g) = None, NEW i \in DOMAIN entries PROVE ~Fits(entries[i], g)
    <2>1. some = {}
      <3> HIDE DEF some, versions
      <3>1. \A p \in some : versions[p] # None
        BY <1>2 DEF some
      <3> QED BY <1>6, <1>8, <3>1
    <2> HIDE DEF some
    <2> QED BY <1>7, <2>1
  <1>9. ASSUME Best(g) # None
        PROVE  \E p \in DOMAIN entries :
                /\ Chosen(g) = entries[p]
                /\ Fits(entries[p], g)
                /\ \A i \in DOMAIN entries : Fits(entries[i], g) =>
                     /\ ~Below(entries[p].version.num, entries[i].version.num)
                     /\ entries[i].version.num = entries[p].version.num => p <= i
    <2>1. PICK p \in some :
             /\ Best(g) = versions[p]
             /\ \A m \in some : /\ ~Below(Best(g).num, versions[m].num)
                                /\ versions[m].num = Best(g).num => p <= m
      <3> HIDE DEF some, versions
      <3> QED BY <1>6, <1>9
    <2>2. p \in own /\ Best(g) = entries[p].version /\ p \in found /\ p \in 1 .. last /\ Fits(entries[p], g)
      BY <1>1, <1>2, <1>4, <2>1
    <2>3. \A i \in found : i \in some
      BY <1>1, <1>2, <2>1
    <2>4. \A i \in found : p <= i
      <3>1. \A i \in found : versions[i] = Best(g)
        BY <1>2
      <3> HIDE DEF found, some, versions
      <3> QED BY <2>1, <2>3, <3>1
    <2>5. least = p
      <3>1. found \subseteq Nat
        BY <1>1
      <3> HIDE DEF found
      <3>2. \E i \in found : \A j \in found : i <= j
        BY <2>2, <2>4
      <3>3. least \in found /\ \A j \in found : least <= j
        BY <3>2
      <3> HIDE DEF least
      <3>4. least <= p /\ p <= least /\ p \in Nat /\ least \in Nat
        BY <2>2, <2>4, <3>1, <3>3
      <3> QED BY <3>4
    <2>6. Chosen(g) = entries[p]
      BY <2>5 DEF Chosen
    <2>7. ASSUME NEW i \in DOMAIN entries, Fits(entries[i], g)
          PROVE  /\ ~Below(entries[p].version.num, entries[i].version.num)
                 /\ entries[i].version.num = entries[p].version.num => p <= i
      <3>1. i \in some
        BY <1>7, <2>7
      <3>2. i \in own
        BY <3>1
      <3>3. versions[i] = entries[i].version
        BY <1>2, <3>2
      <3> HIDE DEF some, versions, own
      <3> QED BY <2>1, <2>2, <3>1, <3>3
    <2> QED BY <1>1, <2>2, <2>6, <2>7
  <1> QED BY <1>8, <1>9

LEMMA StoreInitInv == StoreInit => StoreInv
  <1> SUFFICES ASSUME StoreInit PROVE StoreInv
    OBVIOUS
  <1>1. caps \in Seq(Caps)
    BY StoreAssumption DEF StoreInit, StoreAssumption
  <1>2. ListOK
    BY <1>1 DEF StoreInit, ListOK
  <1>3. DOMAIN Nothing = {}
    BY DEF Nothing
  <1>4. PhaseOK
    BY <1>3 DEF StoreInit, PhaseOK
  <1> QED BY <1>2, <1>4 DEF StoreInv

\* What was chosen depends on the list and the wishes alone.
LEMMA ChoiceKept ==
  ASSUME NEW g, entries' = entries, wanted' = wanted
  PROVE  Best(g)' = Best(g) /\ Chosen(g)' = Chosen(g)
  BY DEF Best, Chosen, Candidates, Newest, Satisfies, MatchesComparator, Order

LEMMA PlanKept ==
  ASSUME entries' = entries, wanted' = wanted, plan' = plan, Len(caps') = Len(caps),
         plan = Nothing \/ (DOMAIN wanted # {} /\ Planned /\ Len(entries) = Len(caps) /\ plan = [g \in DOMAIN wanted |-> Chosen(g)])
  PROVE  (plan = Nothing \/ (DOMAIN wanted # {} /\ Planned /\ Len(entries) = Len(caps) /\ plan = [g \in DOMAIN wanted |-> Chosen(g)]))'
  <1>1. \A g \in DOMAIN wanted : Best(g)' = Best(g) /\ Chosen(g)' = Chosen(g)
    BY ChoiceKept
  <1>2. Nothing' = Nothing
    BY DEF Nothing
  <1>3. Planned => Planned'
    BY <1>1 DEF Planned
  <1>4. [g \in DOMAIN wanted |-> Chosen(g)]' = [g \in DOMAIN wanted |-> Chosen(g)]
    BY <1>1
  <1> QED BY <1>2, <1>3, <1>4

\* A step that touches neither the directory, the list nor the wishes.
LEMMA ListKept ==
  ASSUME ListOK, UNCHANGED <<caps, index, wanted, entries, rewritten>>
  PROVE  ListOK'
  <1>1. \A i \in DOMAIN entries : EntryOK(i)'
    BY DEF ListOK, EntryOK, Identity, Indexed
  <1> QED BY <1>1 DEF ListOK

\* list: what Identify adds is the identity of its archive.
LEMMA IdentifyList ==
  ASSUME ListOK, Identify
  PROVE  ListOK'
  <1> DEFINE f == Len(entries) + 1
  <1>1. CASE UNCHANGED entries
    BY <1>1, ListKept DEF Identify
  <1>2. CASE entries' # entries
    <2>1. /\ entries' = Append(entries, Identity(f)) /\ UNCHANGED <<caps, index, wanted, rewritten>>
          /\ Identity(f).guid # None /\ Identity(f).version # None
          /\ Len(entries) \in Nat /\ f \in 1 .. Len(caps)
      BY <1>2 DEF Identify, ListOK
    <2>2. caps[f] \in Caps
      BY <2>1 DEF ListOK
    <2>3. Identity(f) = [guid |-> Identity(f).guid, version |-> Identity(f).version, file |-> f]
      BY DEF Identity
    <2>4. Identity(f).guid \in Guids
      BY <2>1, <2>2 DEF Identity, Indexed, Guids, ListOK
    <2>5. Identity(f).version \in Versions /\ IsVersion(Identity(f).version)
      <3>1. Identity(f).version \in {caps[f].version, caps[f].named}
        BY DEF Identity
      <3>2. Identity(f).version = None \/ IsVersion(Identity(f).version)
        BY <2>2, <3>1, StoreAssumption DEF StoreAssumption
      <3> QED BY <2>1, <2>2, <3>1, <3>2 DEF Versions
    <2>6. Identity(f) \in Entry
      BY <2>1, <2>3, <2>4, <2>5 DEF Entry
    <2>7. /\ entries' \in Seq(Entry) /\ Len(entries') = f /\ DOMAIN entries' = 1 .. f
          /\ entries'[f] = Identity(f) /\ \A i \in DOMAIN entries : entries'[i] = entries[i]
          /\ DOMAIN entries = 1 .. Len(entries)
      <3> HIDE DEF Entry
      <3>1. entries \in Seq(Entry)
        BY DEF ListOK
      <3> QED BY <2>1, <2>6, <3>1
    <2>8. ASSUME NEW i \in DOMAIN entries' PROVE EntryOK(i)'
      <3>1. Identity(i)' = Identity(i)
        BY <2>1 DEF Identity, Indexed
      <3>2. CASE i = f
        BY <2>1, <2>3, <2>5, <2>7, <3>1, <3>2 DEF EntryOK
      <3>3. CASE i # f
        <4>1. i \in DOMAIN entries /\ entries'[i] = entries[i]
          BY <2>1, <2>7, <2>8, <3>3
        <4> QED BY <2>1, <3>1, <4>1 DEF EntryOK, ListOK
      <3> QED BY <3>2, <3>3
    <2>9. rewritten' \subseteq DOMAIN entries'
      BY <2>1, <2>7 DEF ListOK
    <2> QED BY <2>1, <2>7, <2>8, <2>9 DEF ListOK
  <1> QED BY <1>1, <1>2

\* Another process takes its archive out of the promise, and no other.
LEMMA RewriteInv ==
  ASSUME StoreInv, NEW f \in DOMAIN caps, Rewrite(f)
  PROVE  StoreInv'
  <1>1. PICK c \in Caps : c.named = caps[f].named /\ caps' = [caps EXCEPT ![f] = c]
    BY DEF Rewrite
  <1>2. /\ UNCHANGED <<index, wanted, pc, entries, plan, loaded, verified>>
        /\ rewritten' = rewritten \cup {f} /\ f \in DOMAIN entries /\ pc \in {"list", "read"}
    BY DEF Rewrite
  <1>3. /\ caps' \in Seq(Caps) /\ Len(caps') = Len(caps)
        /\ \A i \in DOMAIN caps : i # f => caps'[i] = caps[i]
    BY <1>1 DEF StoreInv, ListOK
  <1>4. ListOK'
    <2>1. ASSUME NEW i \in DOMAIN entries PROVE EntryOK(i)'
      <3>1. i \in DOMAIN caps
        BY DEF StoreInv, ListOK
      <3>2. i # f => Identity(i)' = Identity(i)
        BY <1>2, <1>3, <3>1 DEF Identity, Indexed
      <3> QED BY <1>2, <3>2 DEF StoreInv, ListOK, EntryOK
    <2> QED BY <1>2, <1>3, <2>1 DEF StoreInv, ListOK
  <1>5. ASSUME NEW g \in DOMAIN loaded PROVE ReadOK(g)'
    <2>1. plan # Nothing /\ g \in DOMAIN wanted
      BY DEF StoreInv, PhaseOK, Nothing
    <2>2. plan[g] = Chosen(g) /\ Best(g) # None
      BY <2>1 DEF StoreInv, PhaseOK, Planned
    <2>3. PICK p \in DOMAIN entries : plan[g] = entries[p]
      BY <2>1, <2>2, ChosenFits DEF StoreInv
    <2>4. plan[g].file \in DOMAIN caps
      BY <2>3 DEF StoreInv, ListOK, EntryOK
    <2>5. ReadOK(g)
      BY DEF StoreInv, PhaseOK
    <2> QED BY <1>2, <1>3, <2>4, <2>5 DEF ReadOK
  <1>6. PhaseOK'
    <2>1. Nothing' = Nothing
      BY DEF Nothing
    <2> QED BY <1>2, <1>3, <1>5, <2>1, PlanKept DEF StoreInv, PhaseOK
  <1> QED BY <1>4, <1>6 DEF StoreInv

LEMMA ReadChosenInv ==
  ASSUME StoreInv, NEW g \in DOMAIN wanted, ReadChosen(g)
  PROVE  StoreInv'
  <1>1. /\ UNCHANGED <<caps, index, wanted, entries, plan, verified, rewritten>>
        /\ pc = "read" /\ g \in DOMAIN plan \ DOMAIN loaded
    BY DEF ReadChosen
  <1>2. ListOK'
    BY <1>1, ListKept DEF StoreInv
  <1>3. DOMAIN plan = DOMAIN wanted /\ plan # Nothing
    BY <1>1 DEF StoreInv, PhaseOK
  <1>4. CASE caps[plan[g].file].body \in {"package", "damaged"}
    <2>1. /\ loaded' = Extend(loaded, g, caps[plan[g].file])
          /\ pc' = IF DOMAIN loaded' = DOMAIN plan THEN "verify" ELSE pc
      BY <1>4 DEF ReadChosen
    <2>2. /\ DOMAIN loaded' = DOMAIN loaded \cup {g} /\ loaded'[g] = caps[plan[g].file]
          /\ \A u \in DOMAIN loaded : loaded'[u] = loaded[u]
      BY <1>1, <2>1 DEF Extend
    <2>3. caps[plan[g].file] \in Caps
      <3>1. plan[g] = Chosen(g) /\ Best(g) # None
        BY <1>3 DEF StoreInv, PhaseOK, Planned
      <3>2. PICK p \in DOMAIN entries : plan[g] = entries[p]
        BY <3>1, ChosenFits DEF StoreInv
      <3>3. plan[g].file \in 1 .. Len(caps)
        BY <3>2 DEF StoreInv, ListOK, EntryOK
      <3> QED BY <3>3 DEF StoreInv, ListOK
    <2>4. ASSUME NEW u \in DOMAIN loaded' PROVE ReadOK(u)'
      <3>1. CASE u = g
        BY <1>1, <1>4, <2>2, <2>3, <3>1 DEF ReadOK
      <3>2. CASE u # g
        <4>1. u \in DOMAIN loaded /\ loaded'[u] = loaded[u] /\ ReadOK(u)
          BY <2>2, <2>4, <3>2 DEF StoreInv, PhaseOK
        <4> QED BY <1>1, <4>1 DEF ReadOK
      <3> QED BY <3>1, <3>2
    <2>5. \A u \in verified' : loaded'[u].body = "package"
      BY <1>1, <2>2 DEF StoreInv, PhaseOK
    <2>6. Nothing' = Nothing
      BY DEF Nothing
    <2> QED BY <1>1, <1>2, <1>3, <2>1, <2>2, <2>4, <2>5, <2>6, PlanKept DEF StoreInv, PhaseOK
  <1>5. CASE caps[plan[g].file].body \notin {"package", "damaged"}
    <2>1. pc' = "failed" /\ loaded' = loaded
      BY <1>5 DEF ReadChosen
    <2>2. \A u \in DOMAIN loaded : ReadOK(u)'
      BY <1>1, <2>1 DEF StoreInv, PhaseOK, ReadOK
    <2>3. Nothing' = Nothing
      BY DEF Nothing
    <2> QED BY <1>1, <1>2, <1>3, <2>1, <2>2, <2>3, PlanKept DEF StoreInv, PhaseOK
  <1> QED BY <1>4, <1>5

LEMMA VerifyLoadedInv ==
  ASSUME StoreInv, NEW g \in DOMAIN wanted, VerifyLoaded(g)
  PROVE  StoreInv'
  <1>1. /\ UNCHANGED <<caps, index, wanted, entries, plan, loaded, rewritten>>
        /\ pc = "verify" /\ g \in DOMAIN loaded \ verified
    BY DEF VerifyLoaded
  <1>2. ListOK'
    BY <1>1, ListKept DEF StoreInv
  <1>3. DOMAIN plan = DOMAIN wanted /\ plan # Nothing
    BY <1>1 DEF StoreInv, PhaseOK
  <1>4. \A u \in DOMAIN loaded : ReadOK(u)'
    BY <1>1 DEF StoreInv, PhaseOK, ReadOK
  <1>5. Nothing' = Nothing
    BY DEF Nothing
  <1>6. CASE loaded[g].body = "package"
    <2>1. /\ verified' = verified \cup {g} /\ pc' = IF verified' = DOMAIN loaded THEN "loaded" ELSE pc
      BY <1>6 DEF VerifyLoaded
    <2> QED BY <1>1, <1>2, <1>3, <1>4, <1>5, <1>6, <2>1, PlanKept DEF StoreInv, PhaseOK
  <1>7. CASE loaded[g].body # "package"
    <2>1. pc' = "failed" /\ verified' = verified
      BY <1>7 DEF VerifyLoaded
    <2> QED BY <1>1, <1>2, <1>3, <1>4, <1>5, <2>1, PlanKept DEF StoreInv, PhaseOK
  <1> QED BY <1>6, <1>7

\* The steps before anything is read.
LEMMA EarlyInv ==
  ASSUME StoreInv, ReadIndex \/ Identify \/ PlanAll \/ NothingWanted
  PROVE  StoreInv'
  <1>1. /\ UNCHANGED <<caps, index, wanted, loaded, verified, rewritten>>
        /\ plan = Nothing /\ DOMAIN plan = {} /\ loaded = loaded /\ DOMAIN loaded = {} /\ verified = {}
        /\ Nothing' = Nothing
    BY DEF StoreInv, PhaseOK, ReadIndex, Identify, PlanAll, NothingWanted, Nothing
  <1>2. CASE ReadIndex
    <2>1. ListOK'
      BY <1>2, ListKept DEF ReadIndex, StoreInv
    <2>2. /\ entries = <<>> /\ entries' = entries /\ plan' = plan /\ DOMAIN wanted # {}
          /\ pc' = IF index.readable THEN "list" ELSE "failed"
      BY <1>2 DEF ReadIndex, StoreInv, PhaseOK
    <2>3. ASSUME NEW g \in DOMAIN wanted PROVE Best(g)' = None
      <3>1. Best(g) = None
        <4>1. DOMAIN entries = {}
          BY <2>2
        <4> QED BY <4>1, ChosenFits DEF StoreInv
      <3> QED BY <1>1, <2>2, <3>1, ChoiceKept
    <2> QED BY <1>1, <2>1, <2>2, <2>3 DEF StoreInv, PhaseOK
  <1>3. CASE Identify
    <2>1. ListOK'
      BY <1>3, IdentifyList DEF StoreInv
    <2>2. /\ pc = "list" /\ plan' = plan /\ DOMAIN wanted # {} /\ Len(entries) + 1 <= Len(caps)
          /\ (pc' = "failed" /\ entries' = entries) \/ pc' = pc
      BY <1>3 DEF Identify, StoreInv, PhaseOK
    <2>3. Len(entries) \in Nat /\ Len(caps) \in Nat
      BY DEF StoreInv, ListOK
    <2> QED BY <1>1, <2>1, <2>2, <2>3 DEF StoreInv, PhaseOK
  <1>4. CASE PlanAll
    <2>1. ListOK'
      BY <1>4, ListKept DEF PlanAll, StoreInv
    <2>2. /\ entries' = entries /\ pc = "list" /\ DOMAIN wanted # {} /\ Len(entries) = Len(caps)
      BY <1>4 DEF PlanAll, StoreInv, PhaseOK
    <2>3. \A g \in DOMAIN wanted : Best(g)' = Best(g) /\ Chosen(g)' = Chosen(g)
      BY <1>1, <2>2, ChoiceKept
    <2>4. CASE \E g \in DOMAIN wanted : Best(g) = None
      <3>1. pc' = "failed" /\ plan' = plan
        BY <1>4, <2>4 DEF PlanAll
      <3>2. \E g \in DOMAIN wanted' : Best(g)' = None
        BY <1>1, <2>3, <2>4
      <3> QED BY <1>1, <2>1, <2>2, <3>1, <3>2 DEF StoreInv, PhaseOK
    <2>5. CASE ~\E g \in DOMAIN wanted : Best(g) = None
      <3>1. pc' = "read" /\ plan' = [g \in DOMAIN wanted |-> Chosen(g)]
        BY <1>4, <2>5 DEF PlanAll
      <3>2. Planned'
        BY <1>1, <2>3, <2>5 DEF Planned
      <3>3. plan' = [g \in DOMAIN wanted' |-> Chosen(g)']
        BY <1>1, <2>3, <3>1
      <3>4. plan' # Nothing
        BY <1>1, <2>2, <3>1 DEF Nothing
      <3> QED BY <1>1, <2>1, <2>2, <3>1, <3>2, <3>3, <3>4 DEF StoreInv, PhaseOK
    <2> QED BY <2>4, <2>5
  <1>5. CASE NothingWanted
    <2>1. ListOK'
      BY <1>5, ListKept DEF NothingWanted, StoreInv
    <2> QED BY <1>1, <1>5, <2>1 DEF NothingWanted, StoreInv, PhaseOK
  <1> QED BY <1>2, <1>3, <1>4, <1>5

LEMMA StoreNextInv ==
  ASSUME StoreInv, [StoreNext]_storeVars
  PROVE  StoreInv'
  <1>1. CASE ReadIndex \/ Identify \/ PlanAll \/ NothingWanted
    BY <1>1, EarlyInv
  <1>2. ASSUME NEW g \in DOMAIN wanted, ReadChosen(g) \/ VerifyLoaded(g) PROVE StoreInv'
    BY <1>2, ReadChosenInv, VerifyLoadedInv
  <1>3. ASSUME NEW f \in DOMAIN caps, Rewrite(f) PROVE StoreInv'
    BY <1>3, RewriteInv
  <1>4. CASE UNCHANGED storeVars
    <2>1. ListOK'
      BY <1>4, ListKept DEF storeVars, StoreInv
    <2>2. \A u \in DOMAIN loaded : ReadOK(u)'
      BY <1>4 DEF storeVars, StoreInv, PhaseOK, ReadOK
    <2>3. Nothing' = Nothing /\ \A g \in DOMAIN wanted : Best(g)' = Best(g)
      BY <1>4, ChoiceKept DEF storeVars, Nothing
    <2> QED BY <1>4, <2>1, <2>2, <2>3, PlanKept DEF storeVars, StoreInv, PhaseOK
  <1> QED BY <1>1, <1>2, <1>3, <1>4 DEF StoreNext

\* Everything a call holds keeps its type, and every entry listed has a guid and a version
\* (store-directory.ts:44-67).
THEOREM StoreTypeCorrect == StoreSpec => []StoreTypeOK
  <1>1. StoreInv => StoreTypeOK
    <2> SUFFICES ASSUME StoreInv PROVE StoreTypeOK
      OBVIOUS
    <2>1. DOMAIN plan \subseteq DOMAIN wanted
      BY DEF StoreInv, PhaseOK, Nothing
    <2> QED BY <2>1 DEF StoreInv, ListOK, PhaseOK, EntryOK, ReadOK, StoreTypeOK
  <1>2. StoreInv /\ [StoreNext]_storeVars => StoreInv'
    BY StoreNextInv
  <1> QED BY StoreInitInv, <1>1, <1>2, PTL DEF StoreSpec

LEMMA StorePlanned == StoreInv => PlanCorrect
  <1> SUFFICES ASSUME StoreInv PROVE PlanCorrect
    OBVIOUS
  <1>1. ASSUME NEW g \in DOMAIN plan
        PROVE  /\ Fits(plan[g], g)
               /\ \A i \in DOMAIN entries : Fits(entries[i], g) =>
                    /\ ~Below(plan[g].version.num, entries[i].version.num)
                    /\ entries[i].version.num = plan[g].version.num => plan[g].file <= entries[i].file
    <2>1. g \in DOMAIN wanted /\ Best(g) # None /\ plan[g] = Chosen(g)
      BY <1>1 DEF StoreInv, PhaseOK, Planned, Nothing
    <2>2. PICK p \in DOMAIN entries :
            /\ Chosen(g) = entries[p]
            /\ Fits(entries[p], g)
            /\ \A i \in DOMAIN entries : Fits(entries[i], g) =>
                 /\ ~Below(entries[p].version.num, entries[i].version.num)
                 /\ entries[i].version.num = entries[p].version.num => p <= i
      BY <2>1, ChosenFits DEF StoreInv
    <2>3. \A i \in DOMAIN entries : entries[i].file = i
      BY DEF StoreInv, ListOK, EntryOK
    <2> QED BY <2>1, <2>2, <2>3
  <1>2. pc \in {"read", "verify", "loaded"} => DOMAIN plan = DOMAIN wanted
    BY DEF StoreInv, PhaseOK
  <1>3. ASSUME pc = "failed", plan = Nothing, Len(entries) = Len(caps)
        PROVE  \E g \in DOMAIN wanted : \A i \in DOMAIN entries : ~Fits(entries[i], g)
    <2>1. PICK g \in DOMAIN wanted : Best(g) = None
      BY <1>3 DEF StoreInv, PhaseOK
    <2> QED BY <2>1, ChosenFits DEF StoreInv
  <1> QED BY <1>1, <1>2, <1>3 DEF PlanCorrect

\* For any store, index and ranges: all dependencies are planned or none, each plan is the
\* newest archive within the intervals its range means and the first such of the directory,
\* and a call only fails there when some dependency has none
\* (composite.ts:40-66, semver.ts:56-129, store-directory.ts:74-87).
THEOREM NewestPlanned == StoreSpec => []PlanCorrect
  <1>1. StoreInv /\ [StoreNext]_storeVars => StoreInv'
    BY StoreNextInv
  <1> QED BY StoreInitInv, <1>1, StorePlanned, PTL DEF StoreSpec

LEMMA StoreLoaded == StoreInv => LoadedAsPlanned
  <1> SUFFICES ASSUME StoreInv, pc = "loaded"
               PROVE  /\ DOMAIN loaded = DOMAIN wanted
                      /\ \A g \in DOMAIN loaded :
                           /\ loaded[g].body = "package"
                           /\ plan[g].file \notin rewritten =>
                                InRange(loaded[g].version, wanted[g]) /\ loaded[g].guid \in {g, None}
    BY DEF LoadedAsPlanned
  <1>1. DOMAIN loaded = DOMAIN wanted /\ DOMAIN plan = DOMAIN wanted /\ verified = DOMAIN loaded
    BY DEF StoreInv, PhaseOK
  <1>2. ASSUME NEW g \in DOMAIN loaded, plan[g].file \notin rewritten
        PROVE  InRange(loaded[g].version, wanted[g]) /\ loaded[g].guid \in {g, None}
    <2>1. g \in DOMAIN wanted /\ Best(g) # None /\ plan[g] = Chosen(g)
      BY <1>1 DEF StoreInv, PhaseOK, Planned, Nothing
    <2>2. PICK p \in DOMAIN entries : Chosen(g) = entries[p] /\ Fits(entries[p], g)
      BY <2>1, ChosenFits DEF StoreInv
    <2>3. entries[p].file = p /\ entries[p] = Identity(p)
      BY <1>2, <2>1, <2>2 DEF StoreInv, ListOK, EntryOK
    <2>4. loaded[g] = caps[p] /\ loaded[g] \in Caps /\ loaded[g].body = "package"
      BY <1>1, <1>2, <2>1, <2>2, <2>3 DEF StoreInv, PhaseOK, ReadOK
    <2>5. caps[p].version # None
      BY <2>4, StoreAssumption DEF StoreAssumption
    <2>6. entries[p].version = caps[p].version /\ (caps[p].guid # None => entries[p].guid = caps[p].guid)
      BY <2>3, <2>5 DEF Identity
    <2> QED BY <2>2, <2>4, <2>6 DEF Fits
  <1> QED BY <1>1, <1>2 DEF StoreInv, PhaseOK

\* What a successful call hands over is complete and passed its gates, and is what was
\* chosen unless its file was rewritten since (store-directory.ts:93-102, loader.ts:94-115).
THEOREM LoadedIsPlanned == StoreSpec => []LoadedAsPlanned
  <1>1. StoreInv /\ [StoreNext]_storeVars => StoreInv'
    BY StoreNextInv
  <1> QED BY StoreInitInv, <1>1, StoreLoaded, PTL DEF StoreSpec
===============================================================================
