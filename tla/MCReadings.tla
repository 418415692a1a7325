----------------------------- MODULE MCReadings ------------------------------
(* Two leaves of one member; `left` reads the first, `both` competes with   *)
(* it for the same leaf, `root` reads `left`.  A character of the source is *)
(* two bytes wide.                                                          *)
EXTENDS DerivedReadings, TLC

CONSTANTS l1, l2, left, both, root, alice, a1, a2

MCOwnerOf == [n \in Nodes |-> alice]
MCLeafOrder == [o \in {alice} |-> <<l1, l2>>]
MCParents ==
  [n \in Nodes |-> CASE n = left -> {l1} [] n = both -> {l1, l2}
                     [] n = root -> {left} [] OTHER -> {}]
MCVariants == [n \in Nodes |-> {1}]
MCCuts == {0, 1, 3, 4}
Whole == [id |-> 1, start |-> 0, end |-> 4]
Rest == [id |-> 2, start |-> 1, end |-> 4]
MCAsks ==
  [n \in Nodes |-> CASE n = l1 -> {{Whole, Rest}} [] n = left -> {{Rest}}
                     [] OTHER -> {{}}]
MCRank == [x \in Nodes \X {1, 2} |->
             x[2] + (IF x[1] = left THEN 0 ELSE 2)]
Alike == Permutations(Procs) \cup Permutations(SlotIds)

\* The controller after a leaf was read, and its three events.
LeafRead(l, n, a) ==
  LET s1 == WithReservation(l, a, Ask(l, n), StartAt)
      s2 == WithDispatch(s1, a, StartAt)
  IN WithReconciliation(s2, a, Captured0, StartAt)

LeafEvents(a, wanted) ==
  <<[type |-> "reservation", attempt |-> a],
    [type |-> "dispatch", attempt |-> a],
    [type |-> "reconciliation", attempt |-> a, note |-> wanted]>>

\* The instance begins when both leaves were read and nothing is accepted; or
\* when the first was, and a coordinator died publishing its candidate: the
\* store is closed, the leaves go on.
BothRead ==
  /\ led = LeafRead(LeafRead(Initial, l1, a1), l2, a2)
  /\ \E wanted \in Asks[l1] :
       journal = LeafEvents(a1, wanted) \o LeafEvents(a2, {})
  /\ marker = FALSE /\ crashes = 0

MarkerLeft ==
  /\ led = LeafRead(Initial, l1, a1)
  /\ \E wanted \in Asks[l1] : journal = LeafEvents(a1, wanted)
  /\ marker = TRUE /\ crashes = MaxCrashes

MCInit ==
  /\ BothRead \/ MarkerLeft
  /\ packages = [a \in SlotIds |-> NoPackage] /\ candidates = {}
  /\ call = [p \in Procs |-> Idle]

MCSpec == MCInit /\ [][Next]_vars
=============================================================================
