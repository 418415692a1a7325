--------------------------- MODULE DerivedReadings ---------------------------
(***************************************************************************)
(* Derived readings of a council: scripts/lib/council-staged-derived-      *)
(* runtime.ts over the store of packages and candidates (derived-store)    *)
(* and the controller's journal.  A successor reads the notes of its       *)
(* parents and the rereads they ask for; its request is published as a     *)
(* package before it is reserved, its note as a candidate before it is     *)
(* accepted.  Each operation replays the whole journal, works on that      *)
(* verdict for a while, looks at the store again and appends at the head   *)
(* it verified.  The clock stands still: StagedController moves it.        *)
(***************************************************************************)
EXTENDS ControllerState, SequencesExt, Folds, FiniteSetsExt

CONSTANTS
  LeafOrder,          \* [Owners -> Seq(Nodes)]: members' leaves, as declared
  Parents,            \* [Nodes -> SUBSET Nodes]: parent_node_ids, {} for a leaf
  LeafIds, SlotIds,   \* attempt ids of leaves; of the store's finite slots
  Ids, Asks,          \* [Nodes -> sets of rereads its note may ask]
  Cuts,               \* offsets of the source where a code point begins
  Rank,               \* [Nodes \X Ids -> Nat]: hash order of the requests
  MaxDeliveryBytes, MaxDeliveryParts, MaxRequests, MaxCandidates,
  Procs, MaxCrashes

Reread == [id : Ids, start : Cuts, end : Cuts]

ASSUME PolicyShape ==
  /\ Version = 2 /\ Slots = {}
  /\ Parents \in [Nodes -> SUBSET Nodes]
  /\ \A n \in Nodes, m \in Nodes : m \in Parents[n] => OwnerOf[m] = OwnerOf[n]
  /\ LeafIds \cup SlotIds = Attempts /\ LeafIds \cap SlotIds = {}
  /\ Cuts \subseteq Nat
  /\ \A n \in Nodes : Asks[n] \subseteq SUBSET Reread
  /\ \A n \in Nodes : \A wanted \in Asks[n] : \A v, w \in wanted :
       v.start < v.end /\ (v.id = w.id => v = w)
  /\ \A n \in Nodes : \A wanted \in Asks[n] : IsFiniteSet(wanted)
  /\ Rank \in [Nodes \X Ids -> Nat]
  /\ \A k \in {MaxDeliveryBytes, MaxDeliveryParts, MaxRequests,
               MaxCandidates} : k \in Nat \ {0}
  /\ BaseDelay = 0 /\ MaxDelay = 0 /\ StartAt = 0

VARIABLES
  journal,      \* the controller's events, in order
  led,          \* the controller's state: the events applied
  packages,     \* [SlotIds -> [state, packet]]
  candidates,   \* bundles under acceptance-candidates/
  marker,       \* .publication.pending exists
  call,         \* [Procs -> the operation each is in]
  crashes

vars == <<journal, led, packages, candidates, marker, call, crashes>>

Leaf(n) == Parents[n] = {}
IsPrefixLeaf(m, n) ==
  LET order == LeafOrder[OwnerOf[n]]
  IN  \E i, j \in DOMAIN order : i < j /\ order[i] = m /\ order[j] = n

-----------------------------------------------------------------------------
(* Rereads: what a packet delivers and what it leaves.                     *)

SliceEnd(r, room) ==
  Max({c \in Cuts : r.start <= c /\ c <= MinOf(r.end, r.start + room)})

NothingYet == [deliveries |-> {}, remaining |-> {}, bytes |-> 0,
               stopped |-> FALSE, stuck |-> FALSE]

Left(sel, r) == [sel EXCEPT !.stopped = TRUE, !.remaining = @ \cup {r}]

NoRoom(sel) == \/ sel.stopped \/ sel.bytes = MaxDeliveryBytes
               \/ Cardinality(sel.deliveries) = MaxDeliveryParts

\* Mutant: the rest of a request that was cut is forgotten.
Deliver_M(sel, r) ==
  LET end == SliceEnd(r, MaxDeliveryBytes - sel.bytes)
  IN IF NoRoom(sel) THEN Left(sel, r)
     ELSE IF end = r.start THEN [Left(sel, r) EXCEPT !.stuck = (sel.bytes = 0)]
     ELSE [sel EXCEPT !.deliveries = @ \cup {[r EXCEPT !.end = end]},
                      !.bytes = @ + (end - r.start),
                      !.stopped = end < r.end]

\* One request of planRereadDelivery's loop.
Deliver(sel, r) ==
  LET end == SliceEnd(r, MaxDeliveryBytes - sel.bytes)
      rest == IF end < r.end THEN {[r EXCEPT !.start = end]} ELSE {}
  IN IF NoRoom(sel) THEN Left(sel, r)
     ELSE IF end = r.start THEN [Left(sel, r) EXCEPT !.stuck = (sel.bytes = 0)]
     ELSE [sel EXCEPT !.deliveries = @ \cup {[r EXCEPT !.end = end]},
                      !.remaining = @ \cup rest,
                      !.bytes = @ + (end - r.start),
                      !.stopped = end < r.end]

\* The fold takes this one up after all the others.
Hindmost(requests) ==
  CHOOSE r \in requests : \A q \in requests :
    Rank[<<q.origin, q.id>>] <= Rank[<<r.origin, r.id>>]

Delivery(requests) ==
  MapThenFoldSet(LAMBDA r, sel : Deliver(sel, r), NothingYet, LAMBDA r : r,
                 Hindmost, requests)

\* pendingUnion: one entry for each identity, within the policy's limit.
Fits(requests) ==
  /\ \A q, r \in requests :
       q.origin = r.origin /\ q.id = r.id => q = r
  /\ Cardinality(requests) <= MaxRequests

OwnRequests(n, wanted) ==
  {[origin |-> n, id |-> w.id, start |-> w.start, end |-> w.end] : w \in wanted}

-----------------------------------------------------------------------------
(* The meaning of a journal: verifyReadingHistory.                         *)

\* What the first k events say: the records accepted, and the nodes of those
\* no other has for a parent.
RecordsOf(s, k) ==
  {s[i].bundle.record : i \in {j \in 1..k : s[j].type = "acceptance"}}

MeaningOf(s, k) ==
  LET records == RecordsOf(s, k)
      nodes == {r.node : r \in records}
  IN [accepted |-> [n \in Nodes |-> IF n \in nodes
                                    THEN CHOOSE r \in records : r.node = n
                                    ELSE None],
      frontier |-> {n \in nodes : \A m \in nodes : n \notin Parents[m]}]

\* Mutant: only what the parents' own notes asked for is taken over.
InheritedBy_M(sem, n) ==
  UNION {{q \in sem.accepted[m].outstanding : q.origin = m} : m \in Parents[n]}

InheritedBy(sem, n) ==
  UNION {sem.accepted[m].outstanding : m \in Parents[n]}

\* packetForReading, None when there is no packet to be had.
PacketFor(sem, n) ==
  LET inherited == InheritedBy(sem, n)
      d == Delivery(inherited)
  IN IF /\ ~Leaf(n) /\ sem.accepted[n] = None
        /\ Parents[n] \subseteq sem.frontier
        /\ Fits(inherited) /\ ~d.stuck
     THEN [node |-> n, deliveries |-> d.deliveries, remaining |-> d.remaining]
     ELSE None

NoPackage == [state |-> "none", packet |-> None]
Complete(p) == p.state = "complete"

\* verifyReadingPacket.
Genuine(sem, packet) == packet # None /\ packet = PacketFor(sem, packet.node)

\* What a reading's capture says; a reconciled attempt has one only.
NoteOf(s, a) ==
  LET k == CHOOSE k \in DOMAIN s : s[k].type = "reconciliation"
                                   /\ s[k].attempt = a
  IN  s[k].note

ReadingOf(s, pk, n, a) ==
  LET own == OwnRequests(n, NoteOf(s, a))
  IN  [node |-> n, attempt |-> a,
       fulfilled |-> IF Leaf(n) THEN {} ELSE pk[a].packet.deliveries,
       outstanding |-> IF Leaf(n) THEN own
                       ELSE pk[a].packet.remaining \cup own]

\* reconstructReading succeeds, on the controller state l.
Reconstructible(l, s, pk, sem, n, a) ==
  /\ sem.accepted[n] = None
  /\ Leaf(n) => \A m \in Nodes : IsPrefixLeaf(m, n) => sem.accepted[m] # None
  /\ Succeeded(l, a) /\ l.reservations[a].node = n
  /\ Parents[n] \subseteq sem.frontier
  /\ ~Leaf(n) => /\ a \in SlotIds /\ Complete(pk[a])
                 /\ pk[a].packet.node = n /\ Genuine(sem, pk[a].packet)
  /\ Fits(ReadingOf(s, pk, n, a).outstanding)

\* Event k of the journal s, whose controller state is l, after the others.
EventVerifies(l, s, pk, cd, k) ==
  LET e == s[k]  sem == MeaningOf(s, k - 1)
  IN CASE e.type \in {"reservation", "dispatch"} ->
            e.attempt \in SlotIds /\ Complete(pk[e.attempt])
              => Genuine(sem, pk[e.attempt].packet)
       [] e.type = "reconciliation" -> TRUE
       [] e.type = "acceptance" ->
            LET r == e.bundle.record
            IN /\ e.bundle \in cd
               /\ Reconstructible(l, s, pk, sem, r.node, r.attempt)
               /\ r = ReadingOf(s, pk, r.node, r.attempt)

\* begin: a reserved successor has its package, and each event its meaning.
Replays(l, s, pk, cd) ==
  /\ \A a \in Attempts :
       l.reservations[a] # None /\ ~Leaf(l.reservations[a].node)
         => a \in SlotIds /\ Complete(pk[a])
  /\ \A k \in DOMAIN s : EventVerifies(l, s, pk, cd, k)

-----------------------------------------------------------------------------
(* The journal and the store.                                              *)

Publish(e, next) ==
  /\ HasRoom(led)
  /\ journal' = Append(journal, e)
  /\ led' = next

\* A second name of an intent, or a candidate being published, is a corrupt
\* store for every reader but the publisher itself.
Aliased == \E a \in SlotIds : packages[a].state = "aliased"
Loadable == ~marker /\ ~Aliased

Idle == [pc |-> "idle"]

Init ==
  /\ journal = <<>> /\ led = Initial
  /\ packages = [a \in SlotIds |-> NoPackage] /\ candidates = {}
  /\ marker = FALSE /\ crashes = 0
  /\ call = [p \in Procs |-> Idle]

To(p, pc) == call' = [call EXCEPT ![p].pc = pc]
End(p) == call' = [call EXCEPT ![p] = Idle]

Ask(l, n) ==
  [node |-> n, input |-> 1, output |-> Biggest(n), spend |-> 1,
   until |-> Deadline, predecessor |-> l.latest[n], notBefore |-> 0,
   root |-> None]

-----------------------------------------------------------------------------
(* Leaves, and the provider: the ordinary controller, at its own pace.     *)

ReserveLeaf(n, a) ==
  /\ Leaf(n) /\ a \in LeafIds
  /\ ReservationLegal(led, a, Ask(led, n), StartAt)
  /\ Publish([type |-> "reservation", attempt |-> a],
             WithReservation(led, a, Ask(led, n), StartAt))
  /\ UNCHANGED <<packages, candidates, marker, call, crashes>>

DispatchLeaf(a) ==
  /\ a \in LeafIds /\ DispatchLegal(led, a, StartAt)
  /\ Publish([type |-> "dispatch", attempt |-> a],
             WithDispatch(led, a, StartAt))
  /\ UNCHANGED <<packages, candidates, marker, call, crashes>>

Captured0 ==
  [class |-> "success", captured |-> TRUE, invalid |-> FALSE,
   overrun |-> FALSE, notBefore |-> StartAt, at |-> StartAt]

\* A call ends with a note.  How else it may end StagedController shows; here
\* that is a call that has not ended yet.
Settle(a, note) ==
  /\ a \in led.dispatches
  /\ ReconciliationLegal(led, a, Captured0, StartAt)
  /\ Publish([type |-> "reconciliation", attempt |-> a, note |-> note],
             WithReconciliation(led, a, Captured0, StartAt))
  /\ UNCHANGED <<packages, candidates, marker, call, crashes>>

-----------------------------------------------------------------------------
(* Operations.  Each begins by reading the store, then the journal, and    *)
(* replays what it read; the two reads are one step here, for an older     *)
(* store can only be refused.                                              *)

\* What finish compares; a package's files never change once they are there.
Inventory == [slots |-> [a \in SlotIds |-> packages[a].state],
              candidates |-> candidates]

Begin(p, op, pc, n, a, made) ==
  /\ call' = [call EXCEPT ![p] =
       [pc |-> pc, op |-> op, node |-> n, attempt |-> a, made |-> made,
        head |-> Len(journal), seen |-> Inventory]]
  /\ UNCHANGED <<journal, led, packages, candidates, marker, crashes>>

\* decideNextControlledAttempt says the node is ready for this attempt.
BeginPrepare(p, sem, n, a) ==
  /\ ~Leaf(n) /\ a \in SlotIds
  /\ ReservationLegal(led, a, Ask(led, n), StartAt)
  /\ LET packet == PacketFor(sem, n)
     IN  packet # None /\ Begin(p, "prepare", "claim", n, a, packet)

\* The dispatch guard's claim: the packet must be what this journal would
\* give the node now.
BeginDispatch(p, sem, a) ==
  /\ a \in Reserved(led) \cap SlotIds
  /\ a \notin led.dispatches \cup Reconciled(led)
  /\ Genuine(sem, packages[a].packet)
  /\ Begin(p, "dispatch", "finish", packages[a].packet.node, a, None)

\* An accepted node is answered from the history, without a commit.
BeginAccept(p, sem, n, a) ==
  /\ a \in Reserved(led)
  /\ Reconstructible(led, journal, packages, sem, n, a)
  /\ Begin(p, "accept", "mark", n, a,
           [prior |-> Len(journal),
            record |-> ReadingOf(journal, packages, n, a)])

BeginCall ==
  /\ Loadable /\ \E p \in Procs : call[p] = Idle
  /\ Replays(led, journal, packages, candidates)
  /\ LET sem == MeaningOf(journal, Len(journal))
     IN  \E p \in Procs, a \in Attempts :
           /\ call[p] = Idle
           /\ \/ BeginDispatch(p, sem, a)
              \/ \E n \in Nodes : BeginPrepare(p, sem, n, a)
                                 \/ BeginAccept(p, sem, n, a)

\* A call may end with an error wherever it looks at something: the head, the
\* store, a counter or a quote is not what it was.
GiveUp(p) ==
  /\ call[p].pc \in {"claim", "mark", "finish"}
  /\ End(p)
  /\ UNCHANGED <<journal, led, packages, candidates, marker, crashes>>

\* The package is a directory, its files, and the second link of its intent.
ClaimSlot(p) ==
  LET c == call[p]
  IN /\ c.pc = "claim" /\ Loadable
     /\ packages[c.attempt] = NoPackage
     /\ packages' = [packages EXCEPT ![c.attempt] =
                       [state |-> "claimed", packet |-> c.made]]
     /\ To(p, "link")
     /\ UNCHANGED <<journal, led, candidates, marker, crashes>>

ReusePackage(p) ==
  LET c == call[p]  there == packages[c.attempt]
  IN /\ c.pc = "claim" /\ Loadable
     /\ Complete(there) /\ there.packet = c.made
     /\ call' = [call EXCEPT ![p].pc = "finish",
                             ![p].seen.slots[c.attempt] = "complete"]
     /\ UNCHANGED <<journal, led, packages, candidates, marker, crashes>>

LinkIntent(p) ==
  /\ call[p].pc = "link"
  /\ packages' = [packages EXCEPT ![call[p].attempt].state = "aliased"]
  /\ To(p, "seal")
  /\ UNCHANGED <<journal, led, candidates, marker, crashes>>

SealPackage(p) ==
  LET a == call[p].attempt
  IN /\ call[p].pc = "seal"
     /\ packages' = [packages EXCEPT ![a].state = "complete"]
     /\ call' = [call EXCEPT ![p].pc = "finish",
                             ![p].seen.slots[a] = "complete"]
     /\ UNCHANGED <<journal, led, candidates, marker, crashes>>

\* publishReadingCandidate: what is there already needs no publication.
ReuseCandidate(p) ==
  /\ call[p].pc = "mark" /\ Loadable
  /\ call[p].made \in candidates
  /\ call' = [call EXCEPT ![p].pc = "finish",
                          ![p].seen.candidates = @ \cup {call[p].made}]
  /\ UNCHANGED <<journal, led, packages, candidates, marker, crashes>>

Mark(p) ==
  /\ call[p].pc = "mark" /\ Loadable
  /\ call[p].made \notin candidates
  /\ marker' = TRUE
  /\ To(p, "count")
  /\ UNCHANGED <<journal, led, packages, candidates, crashes>>

\* Mutant: the capacity is not counted.
Count_M(p) ==
  /\ call[p].pc = "count"
  /\ To(p, "place")
  /\ UNCHANGED <<journal, led, packages, candidates, marker, crashes>>

\* The store is loaded again under the marker; an error still removes it.
Count(p) ==
  /\ call[p].pc = "count"
  /\ IF ~Aliased /\ Cardinality(candidates) < MaxCandidates
     THEN To(p, "place") /\ UNCHANGED marker
     ELSE End(p) /\ marker' = FALSE
  /\ UNCHANGED <<journal, led, packages, candidates, crashes>>

\* No one reads the store until the marker is gone.
Place(p) ==
  /\ call[p].pc = "place"
  /\ candidates' = candidates \cup {call[p].made} /\ marker' = FALSE
  /\ call' = [call EXCEPT ![p].pc = "finish",
                          ![p].seen.candidates = @ \cup {call[p].made}]
  /\ UNCHANGED <<journal, led, packages, crashes>>

\* Mutant: the head is not compared.
Finished_M(p) ==
  /\ call[p].pc = "finish" /\ Loadable
  /\ Inventory = call[p].seen

\* finish, then the append at the verified head: the store is as it was read,
\* but for what this call published.  They are one step: what comes between
\* them moves the head, which the append refuses, or only adds to the store.
Finished(p) ==
  /\ call[p].pc = "finish" /\ Loadable
  /\ Inventory = call[p].seen
  /\ call[p].head = Len(journal)

AppendReservation(p) ==
  LET n == call[p].node  a == call[p].attempt
  IN /\ Finished(p) /\ call[p].op = "prepare"
     /\ ReservationLegal(led, a, Ask(led, n), StartAt)
     /\ Publish([type |-> "reservation", attempt |-> a],
                WithReservation(led, a, Ask(led, n), StartAt))
     /\ End(p)
     /\ UNCHANGED <<packages, candidates, marker, crashes>>

AppendDispatch(p) ==
  LET a == call[p].attempt
  IN /\ Finished(p) /\ call[p].op = "dispatch"
     /\ DispatchLegal(led, a, StartAt)
     /\ Publish([type |-> "dispatch", attempt |-> a],
                WithDispatch(led, a, StartAt))
     /\ End(p)
     /\ UNCHANGED <<packages, candidates, marker, crashes>>

AppendAcceptance(p) ==
  LET n == call[p].node
      x == [attempt |-> call[p].attempt, parents |-> Parents[n]]
  IN /\ Finished(p) /\ call[p].op = "accept"
     /\ AcceptanceLegal(led, n, x, StartAt)
     /\ Publish([type |-> "acceptance", bundle |-> call[p].made],
                WithAcceptance(led, n, x, StartAt))
     /\ End(p)
     /\ UNCHANGED <<packages, candidates, marker, crashes>>

\* A crash leaves the slot half written and the marker in place; anywhere else
\* it is no more than giving up.
Crash(p) ==
  /\ call[p].pc \in {"link", "seal", "count", "place"} /\ crashes < MaxCrashes
  /\ crashes' = crashes + 1
  /\ End(p)
  /\ UNCHANGED <<journal, led, packages, candidates, marker>>

Work(p) ==
  \/ ClaimSlot(p) \/ ReusePackage(p) \/ LinkIntent(p) \/ SealPackage(p)
  \/ ReuseCandidate(p) \/ Mark(p) \/ Count(p) \/ Place(p)
  \/ AppendReservation(p) \/ AppendDispatch(p) \/ AppendAcceptance(p)

Next ==
  \/ \E n \in Nodes, a \in Attempts : ReserveLeaf(n, a)
  \/ \E a \in Attempts : DispatchLeaf(a)
  \/ \E a \in Reserved(led) \ Reconciled(led) :
       \E note \in Asks[led.reservations[a].node] : Settle(a, note)
  \/ BeginCall
  \/ \E p \in Procs : Work(p) \/ GiveUp(p) \/ Crash(p)

Spec == Init /\ [][Next]_vars

-----------------------------------------------------------------------------
(* What holds.                                                             *)

(* Whatever the order in which several coordinators prepare, dispatch and  *)
(* accept, the journal they leave is one the next reader can replay: every *)
(* request was made of the frontier of its moment, and every note accepted *)
(* over parents nobody had consumed.  The journal itself checks neither.   *)
HistoryVerifies == Replays(led, journal, packages, candidates)

(* What a load of the store insists on, its transient marks apart: a       *)
(* package for each reserved successor, a candidate published at the head  *)
(* before each acceptance, and no more candidates than there is room for.  *)
(* One event that breaks it locks every coordinator out for good.          *)
Intact ==
  /\ \A a \in Reserved(led) :
       ~Leaf(led.reservations[a].node) =>
         /\ a \in SlotIds /\ Complete(packages[a])
         /\ packages[a].packet.node = led.reservations[a].node
  /\ \A k \in DOMAIN journal : journal[k].type = "acceptance" =>
       journal[k].bundle \in candidates /\ journal[k].bundle.prior = k - 1
  /\ Cardinality(candidates) <= MaxCandidates

\* A mark that closes the store is one a living call is about to remove.
Tended ==
  /\ marker => \E p \in Procs : call[p].pc \in {"count", "place"}
  /\ \A a \in SlotIds : packages[a].state = "aliased" =>
       \E p \in Procs : call[p].pc = "seal" /\ call[p].attempt = a

(* The store is closed to coordinators only while one of them publishes,   *)
(* or for good after one has died: no order of events, no full store and   *)
(* no call that ends with an error leaves it refused.                      *)
StoreLoads == Intact /\ (crashes = 0 => Tended)

\* The committed readings: what the acceptances of the journal say.
Committed == RecordsOf(journal, Len(journal))

AskedFor == UNION {OwnRequests(r.node, NoteOf(journal, r.attempt)) : r \in Committed}
LeftBy ==
  LET records == Committed
  IN  [n \in Nodes |-> UNION {r.outstanding : r \in {x \in records : x.node = n}}]
GivenOut == UNION {r.fulfilled : r \in Committed}

Readings == INSTANCE CommittedReadings WITH
  Rereads <- UNION UNION {Asks[n] : n \in Nodes},
  Gone <- None,
  accepted <- Accepted(led), asked <- AskedFor,
  pending <- LeftBy, delivered <- GivenOut

(* The coordinators commit what CommittedReadings allows: a reading once,  *)
(* over parents in the frontier, with their rereads taken over.            *)
ImplementsReadings == Readings!Spec

(* No byte of a reread is lost or read twice, across notes, packets, cuts  *)
(* at code points, competing branches and crashes.                         *)
Conserved == Readings!Conserved
=============================================================================
