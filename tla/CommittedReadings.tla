-------------------------- MODULE CommittedReadings --------------------------
(***************************************************************************)
(* What the readings of one council promise, whoever commits them.  A      *)
(* reading is accepted once, over parents nobody has consumed; it takes    *)
(* over the rereads its parents still ask for, is delivered a first part   *)
(* of each (possibly nothing of some), and asks for rereads of its own.    *)
(* DerivedReadings, with its processes, files, packets and crashes, is     *)
(* shown to implement this specification.                                  *)
(***************************************************************************)
EXTENDS Integers

CONSTANTS
  Nodes,      \* readings: leaves and successors
  Parents,    \* [Nodes -> SUBSET Nodes], {} for a leaf
  Ids,        \* names a note gives its requests
  Rereads,    \* what a note may ask: spans of a source
  Gone        \* where what a reader was given is; not a reading

\* What is asked of them: DerivedReadings assumes it of its policy.
ReadingsAssumption ==
  /\ Parents \in [Nodes -> SUBSET Nodes]
  /\ Rereads \subseteq [id : Ids, start : Nat, end : Nat]
  /\ \A w \in Rereads : w.start < w.end
  /\ Gone \notin Nodes

VARIABLES
  accepted,   \* the readings committed
  asked,      \* every reread they asked for
  pending,    \* [Nodes -> set of pieces]: what each reading left to a successor
  delivered   \* pieces given to a reader

vars == <<accepted, asked, pending, delivered>>

\* A piece of a request: the request is known by its origin and its id.
Piece == [origin : Nodes, id : Ids, start : Nat, end : Nat]

Frontier == {n \in accepted : \A m \in accepted : n \notin Parents[m]}

Init == accepted = {} /\ asked = {} /\ pending = [n \in Nodes |-> {}]
        /\ delivered = {}

Own(n, wanted) ==
  {[origin |-> n, id |-> w.id, start |-> w.start, end |-> w.end] : w \in wanted}

Inherited(n) == UNION {pending[m] : m \in Parents[n]}

\* Each inherited piece is cut in what is delivered and what is left.
Accept(n) ==
  /\ n \notin accepted /\ accepted' = accepted \cup {n}
  /\ Parents[n] \subseteq Frontier
  /\ LET inherited == Inherited(n)
     IN \E wanted \in SUBSET Rereads :
        \E cut \in [inherited -> UNION {q.start .. q.end : q \in inherited}] :
          /\ \A v, w \in wanted : v.id = w.id => v = w
          /\ \A q \in inherited : cut[q] \in q.start .. q.end
          /\ inherited # {} => \E q \in inherited : cut[q] > q.start
          /\ asked' = asked \cup Own(n, wanted)
          /\ delivered' = delivered \cup
               {[q EXCEPT !.end = cut[q]] :
                  q \in {x \in inherited : cut[x] > x.start}}
          /\ pending' = [pending EXCEPT ![n] = Own(n, wanted) \cup
               {[q EXCEPT !.start = cut[q]] :
                  q \in {x \in inherited : cut[x] < x.end}}]

Next == \E n \in Nodes : Accept(n)

Spec == Init /\ [][Next]_vars

-----------------------------------------------------------------------------
\* Where a piece may be: given to a reader, or left with a current reading.
Places == Frontier \cup {Gone}
Held(x) == IF x = Gone THEN delivered ELSE pending[x]

Covers(q, r, b) ==
  q.origin = r.origin /\ q.id = r.id /\ b \in q.start .. q.end - 1

(* No byte of a reread is lost or read twice: it was delivered in exactly  *)
(* one part, or waits in exactly one piece of exactly one current reading. *)
Conserved ==
  LET held == [x \in Places |-> Held(x)]
  IN \A r \in asked : \A b \in r.start .. r.end - 1 :
       \E x \in Places : \E q \in held[x] :
         /\ Covers(q, r, b)
         /\ \A y \in Places : \A z \in held[y] :
              Covers(z, r, b) => y = x /\ z = q
=============================================================================
