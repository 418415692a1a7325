--------------------------- MODULE ControllerState ---------------------------
(***************************************************************************)
(* The state of a council controller and the rules its journal events      *)
(* obey: scripts/lib/council-staged-controller-store.mjs.  A controller is *)
(* what replaying its events gives (`apply`), so the rules are operators   *)
(* over one record `s`; ControllerLedger and StagedController put them in  *)
(* motion.  Hash chains, digests and exact field lists are abstracted:     *)
(* an attempt, a node or an acceptance is named by a value.                *)
(***************************************************************************)
EXTENDS Integers, FiniteSets

CONSTANTS
  Nodes,         \* policy.nodes: reading purposes and composition purposes
  Slots,         \* the nodes that are composition slots (v3 only)
  Owners,
  OwnerOf,       \* [Nodes -> Owners]; an owner holds one member and one seat
  Attempts,      \* attempt ids
  Variants,      \* [Nodes -> SUBSET Nat]: the node's output_reservations
  Ceiling,       \* the seat's context ceiling
  Version,       \* policy schema: 1, 2 (derived) or 3 (composition)
  MaxPerNode, MaxCalls, MaxInput, MaxOutput, MaxSpend, MaxEvents,
  StartAt, Deadline,      \* policy.clock
  BaseDelay, MaxDelay,    \* policy.retry
  None                    \* an absent value

\* validatePolicy: distinct nodes mapped to owners, finite positive limits, a
\* composition slot per owner at most, and only under a v3 policy.
ASSUME PolicyAssumption ==
  /\ IsFiniteSet(Nodes) /\ Slots \subseteq Nodes
  /\ IsFiniteSet(Attempts)
  /\ OwnerOf \in [Nodes -> Owners]
  /\ Variants \in [Nodes -> SUBSET (Nat \ {0})]
  /\ Version \in 1..3 /\ (Version < 3 => Slots = {})
  /\ \A m, n \in Slots : OwnerOf[m] = OwnerOf[n] => m = n
  /\ \A k \in {Ceiling, MaxPerNode, MaxCalls, MaxInput, MaxOutput, MaxSpend,
               MaxEvents} : k \in Nat \ {0}
  /\ Version > 1 => MaxEvents >= Cardinality(Nodes) + 3
  /\ StartAt \in Nat /\ Deadline \in Nat /\ StartAt < Deadline
  /\ BaseDelay \in Nat /\ MaxDelay \in Nat /\ BaseDelay <= MaxDelay
  /\ None \notin Attempts /\ None \notin Nodes

-----------------------------------------------------------------------------
(* Records. *)

Unfinished == {"ambiguous", "not_dispatched"}
Captured == {"success", "retryable_transport", "retryable_output",
             "nonretryable"}

Reservation ==
  [node : Nodes, input : Nat, output : Nat, spend : Nat, until : Nat,
   predecessor : Attempts \cup {None}, notBefore : Nat,
   root : Nodes \cup {None}]

\* captured: state is "captured".  invalid: the reason is invalid_evidence or
\* invalid_provider_usage.  overrun: a measured quantity exceeds its bound.
Evidence ==
  [class : Captured \cup Unfinished, captured : BOOLEAN, invalid : BOOLEAN,
   overrun : BOOLEAN, notBefore : Nat, at : Nat]

Acceptance == [attempt : Attempts, parents : SUBSET Nodes]
Finalization == [attempt : Attempts, root : Nodes]

\* An absent record is none of them.
ASSUME NoneAssumption ==
  /\ None \notin Reservation /\ None \notin Evidence
  /\ None \notin Acceptance /\ None \notin Finalization

State ==
  [sequence : Nat, clock : Nat, stopped : BOOLEAN,
   calls : Nat, input : Nat, output : Nat, spend : Nat,
   reservations : [Attempts -> Reservation \cup {None}],
   dispatches : SUBSET Attempts,
   reconciliations : [Attempts -> Evidence \cup {None}],
   latest : [Nodes -> Attempts \cup {None}],
   acceptances : [Nodes -> Acceptance \cup {None}],
   finalizations : [Nodes -> Finalization \cup {None}]]

Initial ==
  [sequence |-> 0, clock |-> StartAt, stopped |-> FALSE,
   calls |-> 0, input |-> 0, output |-> 0, spend |-> 0,
   reservations |-> [a \in Attempts |-> None],
   dispatches |-> {},
   reconciliations |-> [a \in Attempts |-> None],
   latest |-> [n \in Nodes |-> None],
   acceptances |-> [n \in Nodes |-> None],
   finalizations |-> [n \in Nodes |-> None]]

-----------------------------------------------------------------------------
(* Views of a state. *)

Reserved(s) == {a \in Attempts : s.reservations[a] # None}
Reconciled(s) == {a \in Attempts : s.reconciliations[a] # None}
Accepted(s) == {n \in Nodes : s.acceptances[n] # None}
Finalized(s) == {n \in Nodes : s.finalizations[n] # None}
OfNode(s, n) == {a \in Reserved(s) : s.reservations[a].node = n}
OfOwner(s, o) == {a \in Reserved(s) : OwnerOf[s.reservations[a].node] = o}
OwnerFinalized(s, o) == \E n \in Finalized(s) : OwnerOf[n] = o
DispatchPending(s) == ~(s.dispatches \subseteq Reconciled(s))
TerminalCapacity == IF Version = 1 THEN 0 ELSE Cardinality(Nodes)

\* The owner's acceptances no other of its acceptances has consumed.
Frontier(s, o) ==
  LET own == {n \in Accepted(s) : OwnerOf[n] = o}
  IN  {n \in own : \A m \in own : n \notin s.acceptances[m].parents}

MinOf(i, j) == IF i < j THEN i ELSE j

\* retryDelay: the base delay, doubled for each attempt after the first.
RetryDelay[count \in Nat] ==
  IF count <= 1 THEN BaseDelay ELSE MinOf(MaxDelay, 2 * RetryDelay[count - 1])

-----------------------------------------------------------------------------
(* Guards: one for each event type.  `now` is the event's observed time.   *)

Live(s, now) == now >= s.clock /\ now < Deadline /\ ~s.stopped

\* checkCompositionBinding, without the exact head its callers compare.
SoleFrontier(s, root, o) ==
  /\ root \in Nodes /\ Frontier(s, o) = {root}
  /\ OfOwner(s, o) \subseteq Reconciled(s)

Biggest(n) == CHOOSE v \in Variants[n] : \A w \in Variants[n] : w <= v

\* The one output variant a successor of `prior` may ask for.
NextOutput(n, old, class) ==
  IF class = "retryable_output" THEN MinOf(2 * old, Biggest(n)) ELSE old

\* Mutant: an attempt without a predecessor need not be the node's first.
PredecessorAllows_M1(s, r, now) ==
  IF r.predecessor = None
  THEN r.notBefore = 0
  ELSE /\ s.latest[r.node] = r.predecessor
       /\ r.predecessor \in Reconciled(s)
       /\ s.reconciliations[r.predecessor].class
            \notin {"success", "nonretryable"}
       /\ now >= r.notBefore

\* Mutant: a success may be replayed.
PredecessorAllows_M2(s, r, now) ==
  IF r.predecessor = None
  THEN OfNode(s, r.node) = {} /\ r.notBefore = 0
  ELSE /\ s.latest[r.node] = r.predecessor
       /\ r.predecessor \in Reconciled(s)
       /\ s.reconciliations[r.predecessor].class # "nonretryable"
       /\ now >= r.notBefore

PredecessorAllows(s, r, now) ==
  IF r.predecessor = None
  THEN OfNode(s, r.node) = {} /\ r.notBefore = 0
  ELSE LET p == r.predecessor
           old == s.reservations[p].output
           end == s.reconciliations[p]
           delay == RetryDelay[Cardinality(OfNode(s, r.node))]
       IN /\ p \in Reserved(s) /\ p \in Reconciled(s)
          /\ s.latest[r.node] = p
          /\ \A b \in Reserved(s) : s.reservations[b].predecessor # p
          /\ end.class \notin {"success", "nonretryable"}
          /\ r.output = NextOutput(r.node, old, end.class)
          /\ end.class = "retryable_output" => r.output > old
          /\ r.notBefore >= end.at + delay /\ r.notBefore >= end.notBefore
          /\ now >= r.notBefore

\* Mutant: no records are kept for the nodes' terminal events.
WithinQuotas_M(s, r) ==
  /\ Cardinality(OfNode(s, r.node)) < MaxPerNode
  /\ Cardinality(OfOwner(s, OwnerOf[r.node])) < MaxCalls
  /\ s.input + r.input <= MaxInput
  /\ s.output + r.output <= MaxOutput
  /\ s.spend + r.spend <= MaxSpend
  /\ 3 * (s.calls + 1) <= MaxEvents

WithinQuotas(s, r) ==
  /\ Cardinality(OfNode(s, r.node)) < MaxPerNode
  /\ Cardinality(OfOwner(s, OwnerOf[r.node])) < MaxCalls
  /\ s.input + r.input <= MaxInput
  /\ s.output + r.output <= MaxOutput
  /\ s.spend + r.spend <= MaxSpend
  /\ 3 * (s.calls + 1) + TerminalCapacity <= MaxEvents

ReservationLegal(s, a, r, now) ==
  /\ Live(s, now)
  /\ a \notin Reserved(s)
  /\ Version > 1 => r.node \notin Accepted(s)
  /\ r.output \in Variants[r.node]
  /\ ~OwnerFinalized(s, OwnerOf[r.node])
  /\ IF r.node \in Slots THEN SoleFrontier(s, r.root, OwnerOf[r.node])
                         ELSE r.root = None
  /\ r.input + r.output <= Ceiling
  /\ r.until > now
  /\ PredecessorAllows(s, r, now)
  /\ WithinQuotas(s, r)

\* reservation(..., admission): what a dispatch needs of its reservation.
Dispatchable(s, a, now) ==
  /\ Live(s, now)
  /\ a \in Reserved(s) /\ a \notin Reconciled(s)
  /\ now < s.reservations[a].until
  /\ s.reservations[a].predecessor # None => now >= s.reservations[a].notBefore

\* Mutant: a dispatch does not wait for the one before it to be settled.
DispatchLegal_M(s, a, now) == Dispatchable(s, a, now) /\ a \notin s.dispatches

DispatchLegal(s, a, now) ==
  /\ Dispatchable(s, a, now)
  /\ a \notin s.dispatches
  /\ ~DispatchPending(s)

EvidenceValid(e) ==
  IF e.captured
  THEN e.class \in Captured
  ELSE /\ ~e.overrun
       /\ \/ e.class \in Unfinished
          \/ e.class = "nonretryable" /\ e.invalid

\* Mutant: nothing is settled past the deadline.
ReconciliationLegal_M(s, a, e, now) ==
  /\ now >= s.clock /\ now < Deadline
  /\ a \in Reserved(s) /\ a \notin Reconciled(s)
  /\ EvidenceValid(e)
  /\ e.captured => a \in s.dispatches

ReconciliationLegal(s, a, e, now) ==
  /\ now >= s.clock
  /\ a \in Reserved(s) /\ a \notin Reconciled(s)
  /\ EvidenceValid(e)
  /\ e.captured => a \in s.dispatches

Succeeded(s, a) ==
  /\ a \in Reserved(s) /\ a \in Reconciled(s)
  /\ s.reconciliations[a].captured
  /\ s.reconciliations[a].class = "success"

\* Mutant: a finalized owner still accepts readings.
AcceptanceLegal_M(s, n, x, now) ==
  /\ now >= s.clock
  /\ Version > 1 /\ ~s.stopped /\ ~DispatchPending(s)
  /\ n \notin Slots
  /\ Succeeded(s, x.attempt) /\ s.reservations[x.attempt].node = n
  /\ n \notin Accepted(s)
  /\ \A m \in x.parents : m \in Accepted(s) /\ OwnerOf[m] = OwnerOf[n]

AcceptanceLegal(s, n, x, now) ==
  /\ now >= s.clock
  /\ Version > 1 /\ ~s.stopped /\ ~DispatchPending(s)
  /\ n \notin Slots
  /\ ~OwnerFinalized(s, OwnerOf[n])
  /\ Succeeded(s, x.attempt) /\ s.reservations[x.attempt].node = n
  /\ n \notin Accepted(s)
  /\ \A m \in x.parents : m \in Accepted(s) /\ OwnerOf[m] = OwnerOf[n]

FinalizationLegal(s, n, f, now) ==
  /\ now >= s.clock
  /\ n \in Slots /\ ~s.stopped /\ ~DispatchPending(s)
  /\ Succeeded(s, f.attempt) /\ s.reservations[f.attempt].node = n
  /\ s.reservations[f.attempt].root = f.root
  /\ n \notin Finalized(s)
  /\ SoleFrontier(s, f.root, OwnerOf[n])

-----------------------------------------------------------------------------
(* Effects: apply(state, event). *)

WithReservation(s, a, r, now) ==
  [s EXCEPT !.sequence = s.sequence + 1, !.clock = now,
            !.reservations = [s.reservations EXCEPT ![a] = r],
            !.latest = [s.latest EXCEPT ![r.node] = a],
            !.calls = s.calls + 1, !.input = s.input + r.input,
            !.output = s.output + r.output, !.spend = s.spend + r.spend]

WithDispatch(s, a, now) ==
  [s EXCEPT !.sequence = s.sequence + 1, !.clock = now,
            !.dispatches = s.dispatches \cup {a}]

WithReconciliation(s, a, e, now) ==
  [s EXCEPT !.sequence = s.sequence + 1, !.clock = now,
            !.reconciliations = [s.reconciliations EXCEPT ![a] = e],
            !.stopped = (s.stopped \/ e.invalid \/ e.overrun)]

WithAcceptance(s, n, x, now) ==
  [s EXCEPT !.sequence = s.sequence + 1, !.clock = now,
            !.acceptances = [s.acceptances EXCEPT ![n] = x]]

WithFinalization(s, n, f, now) ==
  [s EXCEPT !.sequence = s.sequence + 1, !.clock = now,
            !.finalizations = [s.finalizations EXCEPT ![n] = f]]

\* append: no event is written past the journal's record limit.
HasRoom(s) == s.sequence < MaxEvents
=============================================================================
