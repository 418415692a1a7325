----------------------- MODULE CommittedReadingsProofs -----------------------
(***************************************************************************)
(* Every byte of every reread is accounted for, whatever the policy graph, *)
(* the requests and the cuts.                                              *)
(***************************************************************************)
EXTENDS CommittedReadings, TLAPS

\* The types, and: what is pending or delivered was asked by an accepted
\* reading, and a reading's parents were accepted before it.
Types ==
  /\ accepted \subseteq Nodes
  /\ asked \subseteq Piece
  /\ pending \in [Nodes -> SUBSET Piece]
  /\ delivered \subseteq Piece

Origins ==
  /\ \A r \in asked : r.origin \in accepted
  /\ \A n \in Nodes : \A q \in pending[n] : q.origin \in accepted
  /\ \A q \in delivered : q.origin \in accepted

Closed == \A m \in accepted : Parents[m] \subseteq accepted

\* Conserved for one byte of one request.
Placed(r, b) ==
  \E x \in Places : \E q \in Held(x) :
    /\ Covers(q, r, b)
    /\ \A y \in Places : \A z \in Held(y) :
         Covers(z, r, b) => y = x /\ z = q

AllPlaced == \A r \in asked : \A b \in r.start .. r.end - 1 : Placed(r, b)

Inv == ReadingsAssumption /\ Types /\ Origins /\ Closed /\ AllPlaced

\* Accept, with the parts of its choice named.
Given(q, cut) == [q EXCEPT !.end = cut[q]]
Rest(q, cut) == [q EXCEPT !.start = cut[q]]

Chosen(n, wanted, cut) ==
  /\ n \notin accepted /\ accepted' = accepted \cup {n}
  /\ Parents[n] \subseteq Frontier
  /\ \A v, w \in wanted : v.id = w.id => v = w
  /\ \A q \in Inherited(n) : cut[q] \in q.start .. q.end
  /\ asked' = asked \cup Own(n, wanted)
  /\ delivered' = delivered \cup
       {Given(q, cut) : q \in {x \in Inherited(n) : cut[x] > x.start}}
  /\ pending' = [pending EXCEPT ![n] = Own(n, wanted) \cup
       {Rest(q, cut) : q \in {x \in Inherited(n) : cut[x] < x.end}}]

-----------------------------------------------------------------------------
(* Pieces.                                                                 *)

LEMMA OwnPieces ==
  ASSUME ReadingsAssumption, NEW n \in Nodes, NEW wanted \in SUBSET Rereads
  PROVE  /\ Own(n, wanted) \subseteq Piece
         /\ \A q \in Own(n, wanted) : q.origin = n
  BY DEF ReadingsAssumption, Own, Piece

\* A request of a note is its own only piece there.
LEMMA OwnDistinct ==
  ASSUME ReadingsAssumption, NEW n \in Nodes, NEW wanted \in SUBSET Rereads,
         \A v, w \in wanted : v.id = w.id => v = w
  PROVE  \A q, r \in Own(n, wanted) : q.id = r.id => q = r
  BY DEF ReadingsAssumption, Own

LEMMA Halves ==
  ASSUME NEW q \in Piece, NEW cut, cut[q] \in q.start .. q.end
  PROVE  /\ Given(q, cut) \in Piece /\ Rest(q, cut) \in Piece
         /\ Given(q, cut).origin = q.origin /\ Given(q, cut).id = q.id
         /\ Given(q, cut).start = q.start /\ Given(q, cut).end = cut[q]
         /\ Rest(q, cut).origin = q.origin /\ Rest(q, cut).id = q.id
         /\ Rest(q, cut).start = cut[q] /\ Rest(q, cut).end = q.end
  BY DEF Given, Rest, Piece

LEMMA HalvesCover ==
  ASSUME NEW q \in Piece, NEW cut, cut[q] \in q.start .. q.end,
         NEW r \in Piece, NEW b \in r.start .. r.end - 1
  PROVE  /\ Covers(Given(q, cut), r, b) <=> Covers(q, r, b) /\ b < cut[q]
         /\ Covers(Rest(q, cut), r, b) <=> Covers(q, r, b) /\ b >= cut[q]
<1>1. q.start \in Nat /\ q.end \in Nat /\ r.start \in Nat /\ r.end \in Nat
  BY DEF Piece
<1> QED
  BY <1>1, Halves DEF Covers

LEMMA ConservedPlaces == Conserved <=> AllPlaced
  BY DEF Conserved, AllPlaced, Placed

LEMMA InitInv == ReadingsAssumption /\ Init => Inv
  BY DEF Init, Inv, Types, Origins, Closed, AllPlaced, Piece

LEMMA NextChosen ==
  ASSUME NEW n \in Nodes, Accept(n)
  PROVE  \E wanted \in SUBSET Rereads : \E cut : Chosen(n, wanted, cut)
<1>1. PICK wanted \in SUBSET Rereads :
      \E cut \in [Inherited(n) -> UNION {q.start .. q.end : q \in Inherited(n)}] :
          /\ \A v, w \in wanted : v.id = w.id => v = w
          /\ \A q \in Inherited(n) : cut[q] \in q.start .. q.end
          /\ asked' = asked \cup Own(n, wanted)
          /\ delivered' = delivered \cup
               {[q EXCEPT !.end = cut[q]] :
                  q \in {x \in Inherited(n) : cut[x] > x.start}}
          /\ pending' = [pending EXCEPT ![n] = Own(n, wanted) \cup
               {[q EXCEPT !.start = cut[q]] :
                  q \in {x \in Inherited(n) : cut[x] < x.end}}]
  BY Zenon DEF Accept
<1>2. n \notin accepted /\ accepted' = accepted \cup {n} /\ Parents[n] \subseteq Frontier
  BY DEF Accept
<1>3. PICK cut \in [Inherited(n) -> UNION {q.start .. q.end : q \in Inherited(n)}] :
          /\ \A v, w \in wanted : v.id = w.id => v = w
          /\ \A q \in Inherited(n) : cut[q] \in q.start .. q.end
          /\ asked' = asked \cup Own(n, wanted)
          /\ delivered' = delivered \cup
               {[q EXCEPT !.end = cut[q]] :
                  q \in {x \in Inherited(n) : cut[x] > x.start}}
          /\ pending' = [pending EXCEPT ![n] = Own(n, wanted) \cup
               {[q EXCEPT !.start = cut[q]] :
                  q \in {x \in Inherited(n) : cut[x] < x.end}}]
  BY <1>1, Zenon
<1>4. Chosen(n, wanted, cut)
  BY <1>2, <1>3, Zenon DEF Chosen, Given, Rest
<1> QED
  BY <1>4, Zenon

-----------------------------------------------------------------------------
(* The frontier: the reading joins it and its parents leave it.            *)

LEMMA FrontierAfter ==
  ASSUME Inv, NEW n \in Nodes, NEW wanted, NEW cut, Chosen(n, wanted, cut)
  PROVE  /\ Parents[n] \subseteq Frontier /\ Frontier \subseteq accepted
         /\ n \notin Parents[n] /\ n \notin Frontier
         /\ Frontier' = (Frontier \ Parents[n]) \cup {n}
         /\ Closed'
<1>1. Parents[n] \subseteq Frontier /\ Frontier \subseteq accepted
      /\ n \notin accepted /\ accepted' = accepted \cup {n}
  BY DEF Chosen, Frontier
<1>2. \A m \in accepted : n \notin Parents[m]
  BY <1>1 DEF Inv, Closed
<1>3. Frontier' = (Frontier \ Parents[n]) \cup {n}
  BY <1>1, <1>2 DEF Frontier
<1>4. Closed'
  BY <1>1 DEF Inv, Closed
<1> QED
  BY <1>1, <1>3, <1>4

\* Where a piece that is there after the step comes from.
LEMMA HeldAfter ==
  ASSUME Inv, NEW n \in Nodes, NEW wanted, NEW cut, Chosen(n, wanted, cut),
         NEW y \in Places', NEW z \in Held(y)'
  PROVE  \/ y \in Places \ Parents[n] /\ y # n /\ z \in Held(y)
         \/ y = n /\ z \in Own(n, wanted)
         \/ \E p \in Parents[n] : \E q \in Held(p) :
              \/ y = Gone /\ cut[q] > q.start /\ z = Given(q, cut)
              \/ y = n /\ cut[q] < q.end /\ z = Rest(q, cut)
<1>1. Parents[n] \subseteq Nodes /\ Gone \notin Nodes /\ Frontier \subseteq Nodes
  BY FrontierAfter DEF Inv, ReadingsAssumption, Types
<1>2. \A p \in Parents[n] : Held(p) = pending[p]
  BY <1>1 DEF Held
<1>3. ASSUME NEW q \in Inherited(n)
      PROVE  \E p \in Parents[n] : q \in Held(p)
  BY <1>2, <1>3 DEF Inherited
<1>4. CASE y = Gone
  <2>1. z \in delivered'
    BY <1>4 DEF Held
  <2>2. CASE z \in delivered
    BY <2>2, <1>1, <1>4 DEF Held, Places
  <2>3. CASE \E q \in Inherited(n) : cut[q] > q.start /\ z = Given(q, cut)
    BY <2>3, <1>3, <1>4
  <2> QED
    BY <2>1, <2>2, <2>3 DEF Chosen
<1>5. CASE y # Gone
  <2>1. y \in (Frontier \ Parents[n]) \cup {n} /\ z \in pending'[y] /\ y \in Nodes
    BY <1>1, <1>5, FrontierAfter DEF Places, Held
  <2>2. CASE y # n
    <3>1. pending'[y] = pending[y]
      BY <2>1, <2>2 DEF Chosen, Inv, Types
    <3> QED
      BY <1>5, <2>1, <2>2, <3>1 DEF Places, Held
  <2>3. CASE y = n
    <3>1. pending'[n] = Own(n, wanted) \cup
            {Rest(q, cut) : q \in {x \in Inherited(n) : cut[x] < x.end}}
      BY DEF Chosen, Inv, Types
    <3>2. CASE z \in Own(n, wanted)
      BY <2>3, <3>2
    <3>3. CASE \E q \in Inherited(n) : cut[q] < q.end /\ z = Rest(q, cut)
      BY <2>3, <3>3, <1>3
    <3> QED
      BY <2>1, <2>3, <3>1, <3>2, <3>3
  <2> QED
    BY <2>2, <2>3
<1> QED
  BY <1>4, <1>5

\* What the parents left: pieces, each cut within its span.
LEMMA InheritedPieces ==
  ASSUME Inv, NEW n \in Nodes, NEW wanted, NEW cut, Chosen(n, wanted, cut),
         NEW p \in Parents[n], NEW q \in Held(p)
  PROVE  /\ p \in Places /\ p # Gone
         /\ q \in Inherited(n) /\ q \in Piece /\ q.origin \in accepted
         /\ cut[q] \in q.start .. q.end
<1>1. p \in Frontier /\ p \in Nodes /\ p # Gone
  BY FrontierAfter DEF Inv, ReadingsAssumption
<1>2. q \in pending[p]
  BY <1>1 DEF Held
<1>3. q \in Inherited(n)
  BY <1>2 DEF Inherited
<1> QED
  BY <1>1, <1>2, <1>3 DEF Inv, Types, Origins, Places, Chosen

\* Where a piece that was there before the step goes.
LEMMA HeldBefore ==
  ASSUME Inv, NEW n \in Nodes, NEW wanted, NEW cut, Chosen(n, wanted, cut)
  PROVE  /\ n \in Places' /\ Gone \in Places' /\ n # Gone
         /\ Own(n, wanted) \subseteq Held(n)'
         /\ \A x \in Places \ Parents[n] : x \in Places' /\ Held(x) \subseteq Held(x)'
         /\ \A p \in Parents[n] : \A q \in Held(p) :
              /\ cut[q] > q.start => Given(q, cut) \in Held(Gone)'
              /\ cut[q] < q.end => Rest(q, cut) \in Held(n)'
<1>1. n # Gone /\ Frontier \subseteq Nodes /\ n \notin Frontier
  BY FrontierAfter DEF Inv, ReadingsAssumption, Types
<1>2. n \in Places' /\ Gone \in Places'
  BY FrontierAfter DEF Places
<1>3. Held(n)' = Own(n, wanted) \cup
            {Rest(q, cut) : q \in {x \in Inherited(n) : cut[x] < x.end}}
  BY <1>1 DEF Held, Chosen, Inv, Types
<1>4. Held(Gone)' = delivered \cup
            {Given(q, cut) : q \in {x \in Inherited(n) : cut[x] > x.start}}
  BY DEF Held, Chosen
<1>5. ASSUME NEW x \in Places \ Parents[n]
      PROVE  x \in Places' /\ Held(x) \subseteq Held(x)'
  <2>1. CASE x = Gone
    BY <2>1, <1>2, <1>4 DEF Held
  <2>2. CASE x # Gone
    <3>1. x \in Frontier /\ x \in Nodes /\ x # n
      BY <2>2, <1>1 DEF Places
    <3>2. pending'[x] = pending[x]
      BY <3>1 DEF Chosen, Inv, Types
    <3> QED
      BY <2>2, <3>1, <3>2, FrontierAfter DEF Places, Held
  <2> QED
    BY <2>1, <2>2
<1>6. ASSUME NEW p \in Parents[n], NEW q \in Held(p)
      PROVE  /\ cut[q] > q.start => Given(q, cut) \in Held(Gone)'
             /\ cut[q] < q.end => Rest(q, cut) \in Held(n)'
  BY <1>3, <1>4, InheritedPieces
<1> QED
  BY <1>1, <1>2, <1>3, <1>5, <1>6

LEMMA TypesAfter ==
  ASSUME Inv, NEW n \in Nodes, NEW wanted \in SUBSET Rereads, NEW cut,
         Chosen(n, wanted, cut)
  PROVE  Types' /\ Origins'
<1>1. \A q \in Inherited(n) : /\ q \in Piece /\ q.origin \in accepted
                             /\ cut[q] \in q.start .. q.end
  <2> SUFFICES ASSUME NEW q \in Inherited(n)
               PROVE  /\ q \in Piece /\ q.origin \in accepted
                      /\ cut[q] \in q.start .. q.end
    OBVIOUS
  <2>1. PICK p \in Parents[n] : q \in pending[p]
    BY DEF Inherited
  <2>2. p \in Nodes
    BY DEF Inv, ReadingsAssumption
  <2> QED
    BY <2>1, <2>2 DEF Inv, Types, Origins, Chosen
<1> DEFINE given == {Given(q, cut) : q \in {x \in Inherited(n) : cut[x] > x.start}}
           rest == {Rest(q, cut) : q \in {x \in Inherited(n) : cut[x] < x.end}}
<1>2. given \subseteq Piece /\ rest \subseteq Piece
  BY <1>1, Halves
<1>3. \A q \in given \cup rest : q.origin \in accepted
  BY <1>1, Halves
<1>4. Own(n, wanted) \subseteq Piece /\ \A q \in Own(n, wanted) : q.origin = n
  BY OwnPieces DEF Inv
<1>5. /\ accepted' = accepted \cup {n} /\ asked' = asked \cup Own(n, wanted)
      /\ delivered' = delivered \cup given
      /\ pending' = [pending EXCEPT ![n] = Own(n, wanted) \cup rest]
  BY DEF Chosen
<1> HIDE DEF given, rest
<1>6. Types'
  BY <1>2, <1>4, <1>5 DEF Inv, Types
<1>7. Origins'
  BY <1>3, <1>4, <1>5 DEF Inv, Types, Origins
<1> QED
  BY <1>6, <1>7

-----------------------------------------------------------------------------
(* A byte asked for before the step stays in one place, or moves to one.   *)

\* Whatever covers such a byte after the step covered it before, or is a half
\* of a piece that did.
LEMMA CoveredAfter ==
  ASSUME Inv, NEW n \in Nodes, NEW wanted \in SUBSET Rereads, NEW cut,
         Chosen(n, wanted, cut),
         NEW r \in asked, NEW b \in r.start .. r.end - 1,
         NEW y \in Places', NEW z \in Held(y)', Covers(z, r, b)
  PROVE  \/ y \in Places \ Parents[n] /\ y # n /\ z \in Held(y)
         \/ \E p \in Parents[n] : \E q \in Held(p) :
              /\ Covers(q, r, b)
              /\ \/ y = Gone /\ b < cut[q] /\ z = Given(q, cut)
                 \/ y = n /\ b >= cut[q] /\ z = Rest(q, cut)
<1>1. r \in Piece /\ r.origin # n
  BY DEF Inv, Types, Origins, Chosen
<1>2. z \notin Own(n, wanted)
  BY <1>1, OwnPieces DEF Inv, Covers
<1>3. ASSUME NEW p \in Parents[n], NEW q \in Held(p)
      PROVE  /\ Covers(Given(q, cut), r, b) <=> Covers(q, r, b) /\ b < cut[q]
             /\ Covers(Rest(q, cut), r, b) <=> Covers(q, r, b) /\ b >= cut[q]
  <2>1. q \in Piece /\ cut[q] \in q.start .. q.end
    BY InheritedPieces
  <2> QED
    BY <1>1, <2>1, HalvesCover
<1> QED
  BY <1>2, <1>3, HeldAfter

LEMMA StillPlaced ==
  ASSUME Inv, NEW n \in Nodes, NEW wanted \in SUBSET Rereads, NEW cut,
         Chosen(n, wanted, cut),
         NEW r \in asked, NEW b \in r.start .. r.end - 1
  PROVE  Placed(r, b)'
<1>0. PICK x \in Places : \E q \in Held(x) :
        /\ Covers(q, r, b)
        /\ \A y \in Places : \A z \in Held(y) :
             Covers(z, r, b) => y = x /\ z = q
  BY DEF Inv, AllPlaced, Placed
<1>1. PICK q \in Held(x) :
        /\ Covers(q, r, b)
        /\ \A y \in Places : \A z \in Held(y) :
             Covers(z, r, b) => y = x /\ z = q
  BY <1>0
<1>2. CASE x \notin Parents[n]
  <2>1. x \in Places' /\ q \in Held(x)'
    BY <1>2, HeldBefore
  <2>2. ASSUME NEW y \in Places', NEW z \in Held(y)', Covers(z, r, b)
        PROVE  y = x /\ z = q
    BY <1>1, <1>2, <2>2, CoveredAfter, InheritedPieces
  <2> QED
    BY <1>1, <2>1, <2>2 DEF Placed, Covers
<1>3. CASE x \in Parents[n]
  <2>1. /\ q \in Piece /\ cut[q] \in q.start .. q.end
        /\ r \in Piece /\ q.start \in Nat /\ q.end \in Nat /\ b \in Int
        /\ cut[q] \in Int
    BY <1>3, InheritedPieces DEF Inv, Types, Piece
  <2>2. ASSUME NEW y \in Places', NEW z \in Held(y)', Covers(z, r, b)
        PROVE  \/ y = Gone /\ b < cut[q] /\ z = Given(q, cut)
               \/ y = n /\ b >= cut[q] /\ z = Rest(q, cut)
    BY <1>1, <1>3, <2>2, CoveredAfter, InheritedPieces
  <2>3. b \in q.start .. q.end - 1
    BY <1>1 DEF Covers
  <2>4. CASE b < cut[q]
    <3>1. Given(q, cut) \in Held(Gone)' /\ Covers(Given(q, cut), r, b)
      BY <1>1, <1>3, <2>1, <2>3, <2>4, HeldBefore, HalvesCover
    <3>2. Gone \in Places' /\ n # Gone
      BY HeldBefore
    <3> QED
      BY <2>1, <2>2, <2>4, <3>1, <3>2 DEF Placed, Covers
  <2>5. CASE b >= cut[q]
    <3>1. Rest(q, cut) \in Held(n)' /\ Covers(Rest(q, cut), r, b)
      BY <1>1, <1>3, <2>1, <2>3, <2>5, HeldBefore, HalvesCover
    <3>2. n \in Places' /\ n # Gone
      BY HeldBefore
    <3> QED
      BY <2>1, <2>2, <2>5, <3>1, <3>2 DEF Placed, Covers
  <2> QED
    BY <2>1, <2>4, <2>5
<1> QED
  BY <1>2, <1>3

\* A request of the new reading waits with it, and nothing older has its origin.
LEMMA NewPlaced ==
  ASSUME Inv, NEW n \in Nodes, NEW wanted \in SUBSET Rereads, NEW cut,
         Chosen(n, wanted, cut),
         NEW r \in Own(n, wanted), NEW b \in r.start .. r.end - 1
  PROVE  Placed(r, b)'
<1>1. /\ n \in Places' /\ r \in Held(n)' /\ Covers(r, r, b) /\ r.origin = n
      /\ n \notin accepted
  BY HeldBefore, OwnPieces DEF Inv, Covers, Chosen
<1>2. ASSUME NEW y \in Places', NEW z \in Held(y)', Covers(z, r, b)
      PROVE  y = n /\ z = r
  <2>1. z.origin = n /\ z.id = r.id
    BY <1>1, <1>2 DEF Covers
  <2>2. CASE y \in Places /\ z \in Held(y)
    <3>1. z.origin \in accepted
      BY <2>2 DEF Inv, Types, Origins, Places, Held, Frontier
    <3> QED
      BY <1>1, <2>1, <3>1
  <2>3. CASE y = n /\ z \in Own(n, wanted)
    BY <2>1, <2>3, OwnDistinct DEF Inv, Chosen
  <2>4. ASSUME NEW p \in Parents[n], NEW q \in Held(p),
               z = Given(q, cut) \/ z = Rest(q, cut)
        PROVE  FALSE
    BY <1>1, <2>1, <2>4, InheritedPieces, Halves
  <2> QED
    BY <2>2, <2>3, <2>4, HeldAfter
<1> QED
  BY <1>1, <1>2 DEF Placed, Covers

LEMMA AcceptInv ==
  ASSUME Inv, NEW n \in Nodes, Accept(n)
  PROVE  Inv'
<1>1. PICK wanted \in SUBSET Rereads : \E cut : Chosen(n, wanted, cut)
  BY NextChosen
<1>2. PICK cut : Chosen(n, wanted, cut)
  BY <1>1
<1>3. ReadingsAssumption /\ Types' /\ Origins' /\ Closed'
  BY <1>2, TypesAfter, FrontierAfter DEF Inv
<1>4. ASSUME NEW r \in asked', NEW b \in r.start .. r.end - 1
      PROVE  Placed(r, b)'
  <2>1. r \in asked \/ r \in Own(n, wanted)
    BY <1>2 DEF Chosen
  <2> QED
    BY <1>2, <2>1, StillPlaced, NewPlaced
<1>5. AllPlaced'
  BY <1>4 DEF AllPlaced
<1> QED
  BY <1>3, <1>5 DEF Inv

LEMMA StepInv == Inv /\ [Next]_vars => Inv'
<1> SUFFICES ASSUME Inv, [Next]_vars PROVE Inv'
  OBVIOUS
<1>1. CASE Next
  BY <1>1, AcceptInv DEF Next
<1>2. CASE UNCHANGED vars
  BY <1>2 DEF vars, Inv, Types, Origins, Closed, AllPlaced, Placed, Places,
              Frontier, Held
<1> QED
  BY <1>1, <1>2

(* Conserved: whatever the policy, the notes and the cuts, and whatever     *)
(* order the readings are accepted in, each byte asked for again was given  *)
(* to a reader once, or waits in one place only.                            *)
THEOREM NoByteLostOrReadTwice ==
  ReadingsAssumption /\ Spec => []Conserved
<1>1. Inv => Conserved
  BY ConservedPlaces DEF Inv
<1> QED
  BY <1>1, InitInv, StepInv, PTL DEF Spec

(* What acceptance rests on: a reading's parents were accepted before it,   *)
(* and nobody is given or left a piece of a request no accepted reading     *)
(* made.                                                                    *)
THEOREM PiecesHaveOrigins ==
  ReadingsAssumption /\ Spec => [](Types /\ Origins /\ Closed)
<1>1. Inv => Types /\ Origins /\ Closed
  BY DEF Inv
<1> QED
  BY <1>1, InitInv, StepInv, PTL DEF Spec
=============================================================================
