------------------------ MODULE DerivedReadingsProofs ------------------------
(***************************************************************************)
(* Whatever the order in which coordinators prepare, dispatch and accept,  *)
(* the store they leave is one that loads (StoreLoads) and the journal one *)
(* that replays (HistoryVerifies).  A call works on what the journal said  *)
(* when it began; what it has found out stays true while the head is where *)
(* it was, and it appends nothing when the head has moved.  What an event  *)
(* meant when it was written it means for good: a complete package and a   *)
(* candidate are never changed, and an attempt is settled once.            *)
(*                                                                         *)
(* Last, what these readings add up to is what CommittedReadings allows    *)
(* (ReadingsImplemented), hence no reread is lost or given twice.          *)
(***************************************************************************)
EXTENDS DerivedReadings, ControllerStateProofs, FiniteSetTheorems

-----------------------------------------------------------------------------
(* What is read off a journal, and what stays of it.                       *)

IsJournal(s) == \E S : s \in Seq(S)

EventTypes == {"reservation", "dispatch", "reconciliation", "acceptance"}

LEMMA EventCases ==
  ASSUME NEW l, NEW s, NEW pk, NEW cd, NEW k, s[k].type \in EventTypes
  PROVE  EventVerifies(l, s, pk, cd, k) <=>
    LET e == s[k]  sem == MeaningOf(s, k - 1)
    IN /\ /\ e.type \in {"reservation", "dispatch"}
          /\ e.attempt \in SlotIds /\ Complete(pk[e.attempt])
          => Genuine(sem, pk[e.attempt].packet)
       /\ e.type = "acceptance" =>
            /\ e.bundle \in cd
            /\ Reconstructible(l, s, pk, sem, e.bundle.record.node,
                               e.bundle.record.attempt)
            /\ e.bundle.record = ReadingOf(s, pk, e.bundle.record.node,
                                           e.bundle.record.attempt)
<1>1. CASE s[k].type \in {"reservation", "dispatch"}
  BY <1>1 DEF EventVerifies
<1>2. CASE s[k].type = "reconciliation"
  BY <1>2 DEF EventVerifies
<1>3. CASE s[k].type = "acceptance"
  BY <1>3 DEF EventVerifies
<1> QED
  BY <1>1, <1>2, <1>3 DEF EventTypes

(* The meaning of the first events is theirs, whatever follows.            *)
LEMMA MeaningKept ==
  ASSUME NEW s, NEW t, NEW k \in Nat, \A j \in 1..k : t[j] = s[j]
  PROVE  MeaningOf(t, k) = MeaningOf(s, k)
<1>1. RecordsOf(t, k) = RecordsOf(s, k)
  BY DEF RecordsOf
<1> QED
  BY <1>1 DEF MeaningOf

(* An attempt has one note, that of the event that settled it.             *)
LEMMA NoteIs ==
  ASSUME NEW s, NEW a, NEW k \in DOMAIN s,
         s[k].type = "reconciliation", s[k].attempt = a,
         \A j \in DOMAIN s : s[j].type = "reconciliation" /\ s[j].attempt = a
                             => j = k
  PROVE  NoteOf(s, a) = s[k].note
BY DEF NoteOf

(* A reading says the same of a journal and a store that hold its note and *)
(* its package as they were.                                               *)
LEMMA ReadingKept ==
  ASSUME NEW l, NEW s, NEW pk, NEW sem, NEW n, NEW a,
         NEW ll, NEW t, NEW qk,
         Reconstructible(l, s, pk, sem, n, a),
         Succeeded(ll, a), ll.reservations[a] = l.reservations[a],
         a \in SlotIds /\ Complete(pk[a]) => qk[a] = pk[a],
         NoteOf(t, a) = NoteOf(s, a)
  PROVE  /\ Reconstructible(ll, t, qk, sem, n, a)
         /\ ReadingOf(t, qk, n, a) = ReadingOf(s, pk, n, a)
<1>1. ~Leaf(n) => a \in SlotIds /\ Complete(pk[a]) /\ qk[a] = pk[a]
  BY DEF Reconstructible
<1>2. ReadingOf(t, qk, n, a) = ReadingOf(s, pk, n, a)
  BY <1>1 DEF ReadingOf
<1>3. Reconstructible(ll, t, qk, sem, n, a)
  BY <1>1, <1>2 DEF Reconstructible
<1> QED
  BY <1>2, <1>3

-----------------------------------------------------------------------------
(* The invariant.                                                          *)

Types ==
  /\ led \in State /\ IsJournal(journal)
  /\ DOMAIN packages = SlotIds /\ DOMAIN call = Procs
  /\ \A k \in DOMAIN journal : journal[k].type \in EventTypes

(* Settling an attempt is one event; an attempt of a slot belongs to a     *)
(* successor, and each event on it came after its package.                 *)
Journalled ==
  /\ \A a \in Reconciled(led) : \E k \in DOMAIN journal :
       journal[k].type = "reconciliation" /\ journal[k].attempt = a
  /\ \A k \in DOMAIN journal : journal[k].type = "reconciliation" =>
       journal[k].attempt \in Reconciled(led)
  /\ \A j, k \in DOMAIN journal :
       journal[j].type = "reconciliation" /\ journal[k].type = "reconciliation"
         /\ journal[j].attempt = journal[k].attempt => j = k
  /\ \A k \in DOMAIN journal :
       journal[k].type \in {"reservation", "dispatch"}
         /\ journal[k].attempt \in SlotIds
       => Complete(packages[journal[k].attempt])
  /\ \A a \in Reserved(led) : a \in SlotIds => ~Leaf(led.reservations[a].node)

(* What a call is, and where its operation may be.                         *)
CallFits(p) == LET c == call[p] IN
  /\ c.pc \in {"idle", "claim", "link", "seal", "mark", "count", "place",
               "finish"}
  /\ c.pc # "idle" =>
       /\ DOMAIN c = {"pc", "op", "node", "attempt", "made", "head", "seen"}
       /\ c.op \in {"prepare", "dispatch", "accept"}
       /\ c.node \in Nodes /\ c.attempt \in Attempts
       /\ c.head \in 0..Len(journal)
       /\ c.pc \in {"claim", "link", "seal"} => c.op = "prepare"
       /\ c.pc \in {"mark", "count", "place"} => c.op = "accept"

(* Under way: from its beginning on, and until the head moves, what a call *)
(* has made is what the journal gives; and what it is publishing is there. *)
Prepared(p) == LET c == call[p]  a == call[p].attempt IN
  c.pc # "idle" /\ c.op = "prepare" =>
    /\ a \in SlotIds /\ ~Leaf(c.node)
    /\ c.made # None /\ c.made.node = c.node
    /\ c.head = Len(journal) =>
         c.made = PacketFor(MeaningOf(journal, Len(journal)), c.node)
    /\ c.pc = "link" => packages[a] = [state |-> "claimed", packet |-> c.made]
    /\ c.pc = "seal" => packages[a] = [state |-> "aliased", packet |-> c.made]
    /\ c.pc = "finish" => packages[a].packet = c.made /\ Complete(packages[a])

Dispatched(p) == LET c == call[p] IN
  c.pc # "idle" /\ c.op = "dispatch" =>
    /\ c.attempt \in SlotIds /\ Complete(packages[c.attempt])
    /\ c.head = Len(journal) =>
         Genuine(MeaningOf(journal, Len(journal)), packages[c.attempt].packet)

Answered(p) == LET c == call[p] IN
  c.pc # "idle" /\ c.op = "accept" =>
    /\ c.made.prior = c.head
    /\ c.made.record.node = c.node /\ c.made.record.attempt = c.attempt
    /\ c.head = Len(journal) =>
         /\ Reconstructible(led, journal, packages,
                            MeaningOf(journal, Len(journal)), c.node, c.attempt)
         /\ c.made.record = ReadingOf(journal, packages, c.node, c.attempt)
    /\ c.pc = "finish" => c.made \in candidates

CallAt(p) == CallFits(p) /\ Prepared(p) /\ Dispatched(p) /\ Answered(p)

Publishing == {"link", "seal"}
Marking == {"count", "place"}

(* A slot is one call's while its package is published, and the marker one *)
(* call's, which has counted the candidates before it places its own.      *)
Apart ==
  /\ \A p, q \in Procs :
       call[p].pc \in Publishing /\ call[q].pc \in Publishing
         /\ call[p].attempt = call[q].attempt => p = q
  /\ \A p \in Procs : call[p].pc \in Marking => marker
  /\ \A p, q \in Procs : call[p].pc \in Marking /\ call[q].pc \in Marking => p = q
  /\ \A p \in Procs : call[p].pc = "place" => Cardinality(candidates) < MaxCandidates

ReadingsInv ==
  /\ Types /\ Journalled /\ Apart
  /\ IsFiniteSet(candidates) /\ Intact /\ HistoryVerifies
  /\ \A p \in Procs : CallAt(p)

-----------------------------------------------------------------------------
(* What every step keeps, and what stays true because of it.               *)

Kept ==
  /\ \A k \in DOMAIN journal : k \in DOMAIN journal' /\ journal'[k] = journal[k]
  /\ \A a \in SlotIds : Complete(packages[a]) => packages'[a] = packages[a]
  /\ candidates \subseteq candidates'
  /\ \A a \in Attempts : Succeeded(led, a) =>
       /\ Succeeded(led', a)
       /\ led'.reservations[a] = led.reservations[a]
       /\ NoteOf(journal', a) = NoteOf(journal, a)

LEMMA EventKept ==
  ASSUME Types, Journalled, HistoryVerifies, Kept, NEW k \in DOMAIN journal
  PROVE  EventVerifies(led', journal', packages', candidates', k)
<1> DEFINE e == journal[k]
           sem == MeaningOf(journal, k - 1)
           n == e.bundle.record.node
           a == e.bundle.record.attempt
<1>1. /\ journal'[k] = e /\ e.type \in EventTypes
      /\ k \in Nat /\ k - 1 \in Nat /\ \A j \in 1..(k - 1) : journal'[j] = journal[j]
  BY DEF Types, Kept, IsJournal
<1>2. MeaningOf(journal', k - 1) = sem
  BY <1>1, MeaningKept
<1>3. EventVerifies(led, journal, packages, candidates, k)
  BY DEF HistoryVerifies, Replays
<1>4. ASSUME e.type \in {"reservation", "dispatch"}, e.attempt \in SlotIds
      PROVE  Genuine(sem, packages'[e.attempt].packet)
  <2>1. Complete(packages[e.attempt])
    BY <1>4 DEF Journalled
  <2>2. packages'[e.attempt] = packages[e.attempt]
    BY <1>4, <2>1 DEF Kept
  <2> QED
    BY <1>1, <1>3, <1>4, <2>1, <2>2, EventCases
<1>5. ASSUME e.type = "acceptance"
      PROVE  /\ e.bundle \in candidates'
             /\ Reconstructible(led', journal', packages', sem, n, a)
             /\ e.bundle.record = ReadingOf(journal', packages', n, a)
  <2>1. /\ e.bundle \in candidates
        /\ Reconstructible(led, journal, packages, sem, n, a)
        /\ e.bundle.record = ReadingOf(journal, packages, n, a)
    BY <1>1, <1>3, <1>5, EventCases
  <2>2. Succeeded(led, a) /\ a \in Attempts
    BY <2>1 DEF Reconstructible, Succeeded, Reserved
  <2>3. /\ Succeeded(led', a) /\ led'.reservations[a] = led.reservations[a]
        /\ NoteOf(journal', a) = NoteOf(journal, a)
        /\ a \in SlotIds /\ Complete(packages[a]) => packages'[a] = packages[a]
    BY <2>2 DEF Kept
  <2> HIDE DEF sem, n, a
  <2>4. /\ Reconstructible(led', journal', packages', sem, n, a)
        /\ ReadingOf(journal', packages', n, a) = ReadingOf(journal, packages, n, a)
    BY <2>1, <2>3, ReadingKept
  <2> QED
    BY <2>1, <2>4 DEF Kept, n, a
<1> QED
  BY <1>1, <1>2, <1>4, <1>5, EventCases

-----------------------------------------------------------------------------
(* Steps on the store: the journal stays as it is.                         *)

StoreKept ==
  /\ UNCHANGED <<journal, led>> /\ DOMAIN packages' = SlotIds
  /\ \A a \in SlotIds : Complete(packages[a]) => packages'[a] = packages[a]
  /\ candidates \subseteq candidates'

LEMMA StoreStays ==
  ASSUME ReadingsInv, StoreKept, DOMAIN call' = Procs
  PROVE  /\ Types' /\ Journalled' /\ HistoryVerifies'
         /\ Cardinality(candidates') <= MaxCandidates => Intact'
<1>1. Kept
  BY DEF StoreKept, Kept, ReadingsInv
<1>2. Types'
  BY DEF StoreKept, ReadingsInv, Types, IsJournal
<1>3. \A a \in SlotIds : Complete(packages[a]) => Complete(packages'[a])
  BY DEF StoreKept
<1>4. Journalled'
  BY <1>3 DEF StoreKept, ReadingsInv, Journalled
<1>5. \A a \in Attempts : led.reservations[a] # None /\ ~Leaf(led.reservations[a].node)
        => a \in SlotIds /\ Complete(packages[a]) /\ packages'[a] = packages[a]
  BY DEF StoreKept, ReadingsInv, Intact, Reserved
<1>6. HistoryVerifies'
  <2>1. \A k \in DOMAIN journal' :
          EventVerifies(led', journal', packages', candidates', k)
    BY <1>1, EventKept DEF ReadingsInv, StoreKept
  <2> QED
    BY <1>3, <1>5, <2>1 DEF HistoryVerifies, Replays, StoreKept
<1>7. ASSUME Cardinality(candidates') <= MaxCandidates PROVE Intact'
  <2>1. \A k \in DOMAIN journal : journal[k].type = "acceptance" =>
          journal[k].bundle \in candidates /\ journal[k].bundle.prior = k - 1
    BY DEF ReadingsInv, Intact
  <2>2. \A a \in Reserved(led) : ~Leaf(led.reservations[a].node) =>
          /\ a \in SlotIds /\ Complete(packages[a])
          /\ packages[a].packet.node = led.reservations[a].node
    BY DEF ReadingsInv, Intact
  <2> QED
    BY <1>3, <1>5, <1>7, <2>1, <2>2 DEF Intact, StoreKept, Reserved
<1> QED
  BY <1>2, <1>4, <1>6, <1>7

(* A call that does nothing meanwhile knows what it knew.                  *)
LEMMA CallStays ==
  ASSUME ReadingsInv, StoreKept, NEW p \in Procs, call'[p] = call[p],
         call[p].pc \in Publishing
           => packages'[call[p].attempt] = packages[call[p].attempt]
  PROVE  CallAt(p)'
<1>1. CallAt(p)
  BY DEF ReadingsInv
<1>2. CallFits(p)'
  BY <1>1 DEF CallAt, CallFits, StoreKept
<1>3. Prepared(p)'
  BY <1>1 DEF CallAt, Prepared, StoreKept, Publishing
<1>4. Dispatched(p)'
  BY <1>1 DEF CallAt, Dispatched, StoreKept
<1>5. Answered(p)'
  <2>1. ASSUME call[p].pc # "idle", call[p].op = "accept", call[p].head = Len(journal)
        PROVE  LET sem == MeaningOf(journal, Len(journal))
                   n == call[p].node
                   a == call[p].attempt
               IN  /\ Reconstructible(led, journal, packages', sem, n, a)
                   /\ call[p].made.record = ReadingOf(journal, packages', n, a)
    <3>1. /\ Reconstructible(led, journal, packages,
               MeaningOf(journal, Len(journal)), call[p].node, call[p].attempt)
          /\ call[p].made.record =
               ReadingOf(journal, packages, call[p].node, call[p].attempt)
      BY <1>1, <2>1 DEF CallAt, Answered
    <3>2. Succeeded(led, call[p].attempt)
      BY <3>1 DEF Reconstructible
    <3>3. call[p].attempt \in SlotIds /\ Complete(packages[call[p].attempt])
          => packages'[call[p].attempt] = packages[call[p].attempt]
      BY DEF StoreKept
    <3> QED
      BY <3>1, <3>2, <3>3, ReadingKept
  <2> QED
    BY <1>1, <2>1 DEF CallAt, Answered, StoreKept
<1> QED
  BY <1>2, <1>3, <1>4, <1>5 DEF CallAt

LEMMA StoreDone ==
  ASSUME ReadingsInv, StoreKept, NEW p \in Procs, DOMAIN call' = Procs,
         \A q \in Procs \ {p} : call'[q] = call[q],
         \A q \in Procs \ {p} : call[q].pc \in Publishing
           => packages'[call[q].attempt] = packages[call[q].attempt],
         CallAt(p)', Apart',
         IsFiniteSet(candidates'), Cardinality(candidates') <= MaxCandidates
  PROVE  ReadingsInv'
<1>1. Types' /\ Journalled' /\ HistoryVerifies' /\ Intact'
  BY StoreStays
<1>2. \A q \in Procs \ {p} : CallAt(q)'
  BY CallStays
<1> QED
  BY <1>1, <1>2 DEF ReadingsInv

(* A call as it was, but for where it is and what it has seen.             *)
Still(c, d, pc) ==
  /\ DOMAIN d = {"pc", "op", "node", "attempt", "made", "head", "seen"}
  /\ d.pc = pc /\ d.op = c.op /\ d.node = c.node /\ d.attempt = c.attempt
  /\ d.made = c.made /\ d.head = c.head

Others(p) == /\ DOMAIN call' = Procs
             /\ \A q \in Procs \ {p} : call'[q] = call[q]

LEMMA Moves ==
  ASSUME DOMAIN call = Procs, NEW p \in Procs, NEW pc,
         DOMAIN call[p] = {"pc", "op", "node", "attempt", "made", "head", "seen"}
  PROVE  /\ To(p, pc) => Others(p) /\ Still(call[p], call'[p], pc)
         /\ \A a : call' = [call EXCEPT ![p].pc = pc, ![p].seen.slots[a] = "complete"]
                   => Others(p) /\ Still(call[p], call'[p], pc)
         /\ \A x : call' = [call EXCEPT ![p].pc = pc, ![p].seen.candidates = x]
                   => Others(p) /\ Still(call[p], call'[p], pc)
<1>1. ASSUME NEW c, NEW x,
             DOMAIN c = {"pc", "op", "node", "attempt", "made", "head", "seen"}
      PROVE  /\ Still(c, [c EXCEPT !.pc = pc], pc)
             /\ Still(c, [[c EXCEPT !.pc = pc] EXCEPT !.seen = x], pc)
  BY <1>1 DEF Still
<1>2. ASSUME To(p, pc) PROVE Others(p) /\ Still(call[p], call'[p], pc)
  <2>1. call'[p] = [call[p] EXCEPT !.pc = pc] /\ Others(p)
    BY <1>2 DEF To, Others
  <2> QED
    BY <1>1, <2>1
<1>3. ASSUME NEW a, call' = [call EXCEPT ![p].pc = pc, ![p].seen.slots[a] = "complete"]
      PROVE  Others(p) /\ Still(call[p], call'[p], pc)
  <2>1. PICK x : call'[p] = [[call[p] EXCEPT !.pc = pc] EXCEPT !.seen = x]
    BY <1>3
  <2>2. Others(p)
    BY <1>3 DEF Others
  <2>3. Still(call[p], [[call[p] EXCEPT !.pc = pc] EXCEPT !.seen = x], pc)
    BY <1>1
  <2> QED
    BY <2>1, <2>2, <2>3
<1>4. ASSUME NEW y, call' = [call EXCEPT ![p].pc = pc, ![p].seen.candidates = y]
      PROVE  Others(p) /\ Still(call[p], call'[p], pc)
  <2>1. PICK x : call'[p] = [[call[p] EXCEPT !.pc = pc] EXCEPT !.seen = x]
    BY <1>4
  <2>2. Others(p)
    BY <1>4 DEF Others
  <2>3. Still(call[p], [[call[p] EXCEPT !.pc = pc] EXCEPT !.seen = x], pc)
    BY <1>1
  <2> QED
    BY <2>1, <2>2, <2>3
<1> QED
  BY <1>2, <1>3, <1>4

LEMMA Ends ==
  ASSUME DOMAIN call = Procs, NEW p \in Procs, End(p)
  PROVE  Others(p) /\ call'[p].pc = "idle" /\ CallAt(p)'
<1>1. Others(p) /\ call'[p] = Idle
  BY DEF End, Others
<1>2. call'[p].pc = "idle"
  BY <1>1 DEF Idle
<1>3. CallAt(p)'
  BY <1>2 DEF CallAt, CallFits, Prepared, Dispatched, Answered
<1> QED
  BY <1>1, <1>2, <1>3

LEMMA Knows ==
  ASSUME ReadingsInv, NEW p \in Procs, call[p].pc # "idle"
  PROVE  /\ DOMAIN call = Procs /\ CallAt(p)
         /\ DOMAIN call[p] = {"pc", "op", "node", "attempt", "made", "head", "seen"}
         /\ IsFiniteSet(candidates) /\ Cardinality(candidates) <= MaxCandidates
BY DEF ReadingsInv, Types, CallAt, CallFits, Intact

(* A call that ends leaves the rest as it was; with the marker it set, or  *)
(* with none, if nobody else relies on it.                                 *)
LEMMA EndStep ==
  ASSUME ReadingsInv, NEW p \in Procs, End(p), call[p].pc # "idle",
         UNCHANGED <<journal, led, packages, candidates>>,
         marker' = marker \/ call[p].pc \in Marking
  PROVE  ReadingsInv'
<1>1. Others(p) /\ call'[p].pc = "idle" /\ CallAt(p)'
  BY Knows, Ends
<1>2. StoreKept
  BY DEF StoreKept, ReadingsInv, Types
<1>3. Apart'
  <2>1. Apart
    BY DEF ReadingsInv
  <2> QED
    BY <1>1, <2>1 DEF Apart, Others, Publishing, Marking
<1> QED
  BY <1>1, <1>2, <1>3, Knows, StoreDone DEF Others

LEMMA ClaimSlotStep ==
  ASSUME ReadingsInv, NEW p \in Procs, ClaimSlot(p)
  PROVE  ReadingsInv'
<1> DEFINE c == call[p]
           a == call[p].attempt
<1>1. /\ c.pc = "claim" /\ packages[a] = NoPackage
      /\ packages' = [packages EXCEPT ![a] = [state |-> "claimed", packet |-> c.made]]
      /\ To(p, "link") /\ UNCHANGED <<journal, led, candidates, marker>>
  BY DEF ClaimSlot
<1>2. CallFits(p) /\ Prepared(p) /\ c.op = "prepare" /\ a \in SlotIds
  BY <1>1, Knows DEF CallAt, CallFits, Prepared
<1>3. Others(p) /\ Still(c, call'[p], "link")
  BY <1>1, Knows, Moves
<1>4. /\ DOMAIN packages = SlotIds /\ DOMAIN packages' = SlotIds
      /\ packages'[a] = [state |-> "claimed", packet |-> c.made]
      /\ \A b \in SlotIds \ {a} : packages'[b] = packages[b]
  BY <1>1, <1>2 DEF ReadingsInv, Types
<1>5. ~Complete(packages[a]) /\ packages[a].state = "none"
  BY <1>1 DEF Complete, NoPackage
<1>6. StoreKept
  BY <1>1, <1>4, <1>5 DEF StoreKept
<1>7. \A q \in Procs : call[q].pc \in Publishing
        => call[q].attempt \in SlotIds \ {a}
  <2> SUFFICES ASSUME NEW q \in Procs, call[q].pc \in Publishing
               PROVE  call[q].attempt \in SlotIds \ {a}
    OBVIOUS
  <2>1. CallFits(q) /\ Prepared(q)
    BY DEF ReadingsInv, CallAt
  <2>2. /\ call[q].attempt \in SlotIds
        /\ packages[call[q].attempt].state \in {"claimed", "aliased"}
    BY <2>1 DEF CallFits, Prepared, Publishing
  <2> QED
    BY <1>5, <2>2
<1>8. Apart'
  <2>1. Apart
    BY DEF ReadingsInv
  <2> QED
    BY <1>1, <1>3, <1>7, <2>1 DEF Apart, Others, Still, Publishing, Marking
<1>9. CallAt(p)'
  <2>1. CallFits(p)'
    BY <1>1, <1>2, <1>3 DEF CallFits, Still
  <2>2. Prepared(p)'
    BY <1>1, <1>2, <1>3, <1>4 DEF Prepared, Still
  <2>3. Dispatched(p)' /\ Answered(p)'
    BY <1>2, <1>3 DEF Dispatched, Answered, Still
  <2> QED
    BY <2>1, <2>2, <2>3 DEF CallAt
<1> QED
  BY <1>1, <1>3, <1>4, <1>6, <1>7, <1>8, <1>9, Knows, StoreDone DEF Others

LEMMA ReusePackageStep ==
  ASSUME ReadingsInv, NEW p \in Procs, ReusePackage(p)
  PROVE  ReadingsInv'
<1> DEFINE c == call[p]
           a == call[p].attempt
<1>1. /\ c.pc = "claim" /\ Complete(packages[a]) /\ packages[a].packet = c.made
      /\ call' = [call EXCEPT ![p].pc = "finish", ![p].seen.slots[a] = "complete"]
      /\ UNCHANGED <<journal, led, packages, candidates, marker>>
  BY DEF ReusePackage
<1>2. CallFits(p) /\ Prepared(p) /\ c.op = "prepare"
  BY <1>1, Knows DEF CallAt, CallFits, Prepared
<1>3. Others(p) /\ Still(c, call'[p], "finish")
  BY <1>1, Knows, Moves
<1>4. StoreKept
  BY <1>1 DEF StoreKept, ReadingsInv, Types
<1>5. Apart'
  <2>1. Apart
    BY DEF ReadingsInv
  <2> QED
    BY <1>1, <1>3, <2>1 DEF Apart, Others, Still, Publishing, Marking
<1>6. CallAt(p)'
  BY <1>1, <1>2, <1>3
     DEF CallAt, CallFits, Prepared, Dispatched, Answered, Still
<1> QED
  BY <1>1, <1>3, <1>4, <1>5, <1>6, Knows, StoreDone DEF Others

LEMMA LinkIntentStep ==
  ASSUME ReadingsInv, NEW p \in Procs, LinkIntent(p)
  PROVE  ReadingsInv'
<1> DEFINE c == call[p]
           a == call[p].attempt
<1>1. /\ c.pc = "link" /\ To(p, "seal")
      /\ packages' = [packages EXCEPT ![a].state = "aliased"]
      /\ UNCHANGED <<journal, led, candidates, marker>>
  BY DEF LinkIntent
<1>2. /\ CallFits(p) /\ Prepared(p) /\ c.op = "prepare" /\ a \in SlotIds
      /\ packages[a] = [state |-> "claimed", packet |-> c.made]
  BY <1>1, Knows DEF CallAt, CallFits, Prepared
<1>3. Others(p) /\ Still(c, call'[p], "seal")
  BY <1>1, Knows, Moves
<1>4. /\ DOMAIN packages = SlotIds /\ DOMAIN packages' = SlotIds
      /\ packages'[a] = [state |-> "aliased", packet |-> c.made]
      /\ \A b \in SlotIds \ {a} : packages'[b] = packages[b]
  BY <1>1, <1>2 DEF ReadingsInv, Types
<1>5. StoreKept
  BY <1>1, <1>2, <1>4 DEF StoreKept, Complete
<1>6. \A q \in Procs \ {p} : call[q].pc \in Publishing
        => call[q].attempt \in SlotIds \ {a}
  BY <1>1 DEF ReadingsInv, Apart, CallAt, CallFits, Prepared, Publishing
<1>7. Apart'
  <2>1. Apart
    BY DEF ReadingsInv
  <2> QED
    BY <1>1, <1>3, <2>1 DEF Apart, Others, Still, Publishing, Marking
<1>8. CallAt(p)'
  BY <1>1, <1>2, <1>3, <1>4
     DEF CallAt, CallFits, Prepared, Dispatched, Answered, Still
<1> QED
  BY <1>1, <1>3, <1>4, <1>5, <1>6, <1>7, <1>8, Knows, StoreDone DEF Others

LEMMA SealPackageStep ==
  ASSUME ReadingsInv, NEW p \in Procs, SealPackage(p)
  PROVE  ReadingsInv'
<1> DEFINE c == call[p]
           a == call[p].attempt
<1>1. /\ c.pc = "seal"
      /\ packages' = [packages EXCEPT ![a].state = "complete"]
      /\ call' = [call EXCEPT ![p].pc = "finish", ![p].seen.slots[a] = "complete"]
      /\ UNCHANGED <<journal, led, candidates, marker>>
  BY DEF SealPackage
<1>2. /\ CallFits(p) /\ Prepared(p) /\ c.op = "prepare" /\ a \in SlotIds
      /\ packages[a] = [state |-> "aliased", packet |-> c.made]
  BY <1>1, Knows DEF CallAt, CallFits, Prepared
<1>3. Others(p) /\ Still(c, call'[p], "finish")
  BY <1>1, Knows, Moves
<1>4. /\ DOMAIN packages = SlotIds /\ DOMAIN packages' = SlotIds
      /\ packages'[a] = [state |-> "complete", packet |-> c.made]
      /\ \A b \in SlotIds \ {a} : packages'[b] = packages[b]
  BY <1>1, <1>2 DEF ReadingsInv, Types
<1>5. StoreKept
  BY <1>1, <1>2, <1>4 DEF StoreKept, Complete
<1>6. \A q \in Procs \ {p} : call[q].pc \in Publishing
        => call[q].attempt \in SlotIds \ {a}
  BY <1>1 DEF ReadingsInv, Apart, CallAt, CallFits, Prepared, Publishing
<1>7. Apart'
  <2>1. Apart
    BY DEF ReadingsInv
  <2> QED
    BY <1>1, <1>3, <2>1 DEF Apart, Others, Still, Publishing, Marking
<1>8. CallAt(p)'
  BY <1>1, <1>2, <1>3, <1>4
     DEF CallAt, CallFits, Prepared, Dispatched, Answered, Still, Complete
<1> QED
  BY <1>1, <1>3, <1>4, <1>5, <1>6, <1>7, <1>8, Knows, StoreDone DEF Others

LEMMA ReuseCandidateStep ==
  ASSUME ReadingsInv, NEW p \in Procs, ReuseCandidate(p)
  PROVE  ReadingsInv'
<1> DEFINE c == call[p]
           x == c.seen.candidates \cup {c.made}
<1>1. /\ c.pc = "mark" /\ c.made \in candidates
      /\ call' = [call EXCEPT ![p].pc = "finish", ![p].seen.candidates = x]
      /\ UNCHANGED <<journal, led, packages, candidates, marker>>
  BY DEF ReuseCandidate
<1>2. CallFits(p) /\ Answered(p) /\ c.op = "accept"
  BY <1>1, Knows DEF CallAt, CallFits
<1> HIDE DEF x
<1>3. Others(p) /\ Still(c, call'[p], "finish")
  BY <1>1, Knows, Moves
<1>4. StoreKept
  BY <1>1 DEF StoreKept, ReadingsInv, Types
<1>5. Apart'
  <2>1. Apart
    BY DEF ReadingsInv
  <2> QED
    BY <1>1, <1>3, <2>1 DEF Apart, Others, Still, Publishing, Marking
<1>6. CallAt(p)'
  <2>1. CallFits(p)'
    BY <1>1, <1>2, <1>3 DEF CallFits, Still
  <2>2. Prepared(p)' /\ Dispatched(p)'
    BY <1>2, <1>3 DEF Prepared, Dispatched, Still
  <2>3. Answered(p)'
    BY <1>1, <1>2, <1>3 DEF Answered, Still
  <2> QED
    BY <2>1, <2>2, <2>3 DEF CallAt
<1> QED
  BY <1>1, <1>3, <1>4, <1>5, <1>6, Knows, StoreDone DEF Others

LEMMA MarkStep ==
  ASSUME ReadingsInv, NEW p \in Procs, Mark(p)
  PROVE  ReadingsInv'
<1> DEFINE c == call[p]
<1>1. /\ c.pc = "mark" /\ ~marker /\ marker' = TRUE /\ To(p, "count")
      /\ UNCHANGED <<journal, led, packages, candidates>>
  BY DEF Mark, Loadable
<1>2. CallFits(p) /\ Answered(p) /\ c.op = "accept"
  BY <1>1, Knows DEF CallAt, CallFits
<1>3. Others(p) /\ Still(c, call'[p], "count")
  BY <1>1, Knows, Moves
<1>4. StoreKept
  BY <1>1 DEF StoreKept, ReadingsInv, Types
<1>5. Apart'
  <2>1. Apart
    BY DEF ReadingsInv
  <2>2. \A q \in Procs : call[q].pc \notin Marking
    BY <1>1, <2>1 DEF Apart
  <2> QED
    BY <1>1, <1>3, <2>1, <2>2 DEF Apart, Others, Still, Publishing, Marking
<1>6. CallAt(p)'
  <2>1. CallFits(p)'
    BY <1>1, <1>2, <1>3 DEF CallFits, Still
  <2>2. Prepared(p)' /\ Dispatched(p)'
    BY <1>2, <1>3 DEF Prepared, Dispatched, Still
  <2>3. Answered(p)'
    BY <1>1, <1>2, <1>3 DEF Answered, Still
  <2> QED
    BY <2>1, <2>2, <2>3 DEF CallAt
<1> QED
  BY <1>1, <1>3, <1>4, <1>5, <1>6, Knows, StoreDone DEF Others

LEMMA CountStep ==
  ASSUME ReadingsInv, NEW p \in Procs, Count(p)
  PROVE  ReadingsInv'
<1> DEFINE c == call[p]
<1>1. CASE End(p) /\ marker' = FALSE
  <2>1. /\ c.pc = "count" /\ UNCHANGED <<journal, led, packages, candidates>>
    BY DEF Count
  <2> QED
    BY <1>1, <2>1, EndStep DEF Marking
<1>2. CASE ~(End(p) /\ marker' = FALSE)
  <2>1. /\ c.pc = "count" /\ Cardinality(candidates) < MaxCandidates
        /\ To(p, "place") /\ UNCHANGED <<journal, led, packages, candidates, marker>>
    BY <1>2 DEF Count
  <2>2. CallFits(p) /\ Answered(p) /\ c.op = "accept"
    BY <2>1, Knows DEF CallAt, CallFits
  <2>3. Others(p) /\ Still(c, call'[p], "place")
    BY <2>1, Knows, Moves
  <2>4. StoreKept
    BY <2>1 DEF StoreKept, ReadingsInv, Types
  <2>5. Apart'
    <3>1. Apart
      BY DEF ReadingsInv
    <3> QED
      BY <2>1, <2>3, <3>1 DEF Apart, Others, Still, Publishing, Marking
  <2>6. CallAt(p)'
    BY <2>1, <2>2, <2>3
       DEF CallAt, CallFits, Prepared, Dispatched, Answered, Still
  <2> QED
    BY <2>1, <2>3, <2>4, <2>5, <2>6, Knows, StoreDone DEF Others
<1> QED
  BY <1>1, <1>2

LEMMA PlaceStep ==
  ASSUME ReadingsInv, NEW p \in Procs, Place(p)
  PROVE  ReadingsInv'
<1> DEFINE c == call[p]
           x == c.seen.candidates \cup {c.made}
<1>1. /\ c.pc = "place" /\ candidates' = candidates \cup {c.made}
      /\ call' = [call EXCEPT ![p].pc = "finish", ![p].seen.candidates = x]
      /\ UNCHANGED <<journal, led, packages>>
  BY DEF Place
<1>2. CallFits(p) /\ Answered(p) /\ c.op = "accept"
  BY <1>1, Knows DEF CallAt, CallFits
<1> HIDE DEF x
<1>3. Others(p) /\ Still(c, call'[p], "finish")
  BY <1>1, Knows, Moves
<1>4. StoreKept
  BY <1>1 DEF StoreKept, ReadingsInv, Types
<1>5. Apart
  BY DEF ReadingsInv
<1>6. \A q \in Procs \ {p} : call[q].pc \notin Marking
  BY <1>1, <1>5 DEF Apart, Marking
<1>7. Apart'
  BY <1>1, <1>3, <1>5, <1>6 DEF Apart, Others, Still, Publishing, Marking
<1>8. CallAt(p)'
  <2>1. CallFits(p)'
    BY <1>1, <1>2, <1>3 DEF CallFits, Still
  <2>2. Prepared(p)' /\ Dispatched(p)'
    BY <1>2, <1>3 DEF Prepared, Dispatched, Still
  <2>3. Answered(p)'
    BY <1>1, <1>2, <1>3 DEF Answered, Still
  <2> QED
    BY <2>1, <2>2, <2>3 DEF CallAt
<1>9. IsFiniteSet(candidates') /\ Cardinality(candidates') <= MaxCandidates
  <2>1. IsFiniteSet(candidates) /\ Cardinality(candidates) < MaxCandidates
    BY <1>1, <1>5 DEF ReadingsInv, Apart
  <2>2. Cardinality(candidates) \in Nat /\ MaxCandidates \in Nat
    BY <2>1, FS_CardinalityType, PolicyShape
  <2>3. /\ IsFiniteSet(candidates')
        /\ \/ Cardinality(candidates') = Cardinality(candidates)
           \/ Cardinality(candidates') = Cardinality(candidates) + 1
    BY <1>1, <2>1, FS_AddElement
  <2> QED
    BY <2>1, <2>2, <2>3
<1> QED
  BY <1>1, <1>3, <1>4, <1>7, <1>8, <1>9, StoreDone DEF Others

(* What a call begins with is what the journal gives.                      *)
LEMMA BeginStep ==
  ASSUME ReadingsInv, NEW p \in Procs, NEW a \in Attempts, call[p] = Idle,
         \/ BeginDispatch(p, MeaningOf(journal, Len(journal)), a)
         \/ \E n \in Nodes :
              \/ BeginPrepare(p, MeaningOf(journal, Len(journal)), n, a)
              \/ BeginAccept(p, MeaningOf(journal, Len(journal)), n, a)
  PROVE  ReadingsInv'
<1> DEFINE sem == MeaningOf(journal, Len(journal))
           d(op, pc, n, made) ==
             [pc |-> pc, op |-> op, node |-> n, attempt |-> a, made |-> made,
              head |-> Len(journal), seen |-> Inventory]
           Began(op, pc, n, made) ==
             /\ call' = [call EXCEPT ![p] = d(op, pc, n, made)]
             /\ UNCHANGED <<journal, led, packages, candidates, marker>>
<1>0. /\ Types /\ Intact /\ Len(journal) \in Nat
      /\ SlotIds \subseteq Attempts
  BY PolicyShape DEF ReadingsInv, Types, IsJournal
<1>1. ASSUME NEW op, NEW pc \in {"claim", "mark", "finish"}, NEW n, NEW made,
             Began(op, pc, n, made), CallAt(p)'
      PROVE  ReadingsInv'
  <2>1. Others(p) /\ call'[p] = d(op, pc, n, made)
    BY <1>0, <1>1 DEF Others, Types
  <2>2. StoreKept
    BY <1>0, <1>1 DEF StoreKept, Types
  <2>3. call'[p].pc = pc
    BY <2>1
  <2>4. Apart'
    <3>1. Apart
      BY DEF ReadingsInv
    <3> QED
      BY <1>1, <2>1, <2>3, <3>1 DEF Apart, Others, Publishing, Marking
  <2>5. IsFiniteSet(candidates) /\ Cardinality(candidates) <= MaxCandidates
    BY DEF ReadingsInv, Intact
  <2> QED
    BY <1>1, <2>1, <2>2, <2>4, <2>5, StoreDone DEF Others
<1>2. ASSUME BeginDispatch(p, sem, a)
      PROVE  ReadingsInv'
  <2> DEFINE n == packages[a].packet.node
  <2>1. /\ a \in Reserved(led) /\ a \in SlotIds /\ Genuine(sem, packages[a].packet)
        /\ Began("dispatch", "finish", n, None)
    BY <1>2 DEF BeginDispatch, Begin
  <2>2. Complete(packages[a]) /\ n \in Nodes
    <3>1. /\ ~Leaf(led.reservations[a].node)
          /\ led.reservations[a] \in Reservation
      BY <2>1, <1>0 DEF ReadingsInv, Journalled, Types, State, Reserved
    <3> QED
      BY <1>0, <2>1, <3>1 DEF Intact, Reservation
  <2>3. call'[p] = d("dispatch", "finish", n, None)
    BY <1>0, <2>1 DEF Types
  <2>4. CallAt(p)'
    <3>1. /\ call'[p].pc = "finish" /\ call'[p].op = "dispatch"
          /\ call'[p].node = n /\ call'[p].attempt = a
          /\ call'[p].head = Len(journal)
          /\ DOMAIN call'[p] = {"pc", "op", "node", "attempt", "made", "head", "seen"}
      BY <2>3
    <3> HIDE DEF n
    <3> QED
      BY <1>0, <2>1, <2>2, <3>1
         DEF CallAt, CallFits, Prepared, Dispatched, Answered
  <2> QED
    BY <1>1, <2>1, <2>4
<1>3. ASSUME NEW n \in Nodes, BeginPrepare(p, sem, n, a)
      PROVE  ReadingsInv'
  <2> DEFINE packet == PacketFor(sem, n)
  <2>1. /\ ~Leaf(n) /\ a \in SlotIds /\ packet # None
        /\ Began("prepare", "claim", n, packet)
    BY <1>3 DEF BeginPrepare, Begin
  <2>2. packet.node = n
    BY <2>1 DEF PacketFor
  <2>3. call'[p] = d("prepare", "claim", n, packet)
    BY <1>0, <2>1 DEF Types
  <2>4. CallAt(p)'
    <3>1. /\ call'[p].pc = "claim" /\ call'[p].op = "prepare"
          /\ call'[p].node = n /\ call'[p].attempt = a /\ call'[p].made = packet
          /\ call'[p].head = Len(journal)
          /\ DOMAIN call'[p] = {"pc", "op", "node", "attempt", "made", "head", "seen"}
      BY <2>3
    <3> QED
      BY <1>0, <2>1, <2>2, <3>1
         DEF CallAt, CallFits, Prepared, Dispatched, Answered
  <2> QED
    BY <1>1, <2>1, <2>4
<1>4. ASSUME NEW n \in Nodes, BeginAccept(p, sem, n, a)
      PROVE  ReadingsInv'
  <2> DEFINE record == ReadingOf(journal, packages, n, a)
             made == [prior |-> Len(journal), record |-> record]
  <2>1. /\ Reconstructible(led, journal, packages, sem, n, a)
        /\ Began("accept", "mark", n, made)
    BY <1>4 DEF BeginAccept, Begin
  <2>2. record.node = n /\ record.attempt = a
    BY DEF ReadingOf
  <2>3. call'[p] = d("accept", "mark", n, made)
    BY <1>0, <2>1 DEF Types
  <2>4. CallAt(p)'
    <3> HIDE DEF record
    <3>1. /\ call'[p].pc = "mark" /\ call'[p].op = "accept"
          /\ call'[p].node = n /\ call'[p].attempt = a
          /\ call'[p].made.prior = Len(journal) /\ call'[p].made.record = record
          /\ call'[p].head = Len(journal)
          /\ DOMAIN call'[p] = {"pc", "op", "node", "attempt", "made", "head", "seen"}
      BY <2>3
    <3> QED
      BY <1>0, <2>1, <2>2, <3>1
         DEF CallAt, CallFits, Prepared, Dispatched, Answered, record
  <2> QED
    BY <1>1, <2>1, <2>4
<1> QED
  BY <1>2, <1>3, <1>4

-----------------------------------------------------------------------------
(* Steps on the journal.                                                   *)

(* What an event does to the controller, as far as it matters here.        *)
Recorded(e) ==
  /\ led' \in State
  /\ \A a \in Reserved(led) : led'.reservations[a] = led.reservations[a]
  /\ \A a \in Reserved(led') \ Reserved(led) :
       IF a \in SlotIds
       THEN /\ ~Leaf(led'.reservations[a].node) /\ Complete(packages[a])
            /\ packages[a].packet.node = led'.reservations[a].node
       ELSE Leaf(led'.reservations[a].node)
  /\ \A a \in Reconciled(led) : led'.reconciliations[a] = led.reconciliations[a]
  /\ Reconciled(led') = Reconciled(led) \cup
       (IF e.type = "reconciliation" THEN {e.attempt} ELSE {})
  /\ e.type = "reconciliation" => e.attempt \notin Reconciled(led)
  /\ Accepted(led') = Accepted(led) \cup
       (IF e.type = "acceptance" THEN {e.bundle.record.node} ELSE {})

(* What the next reader asks of it, and what was asked of the writer.      *)
Founded(e) ==
  LET sem == MeaningOf(journal, Len(journal)) IN
  /\ e.type \in EventTypes
  /\ e.type \in {"reservation", "dispatch"} /\ e.attempt \in SlotIds =>
       Complete(packages[e.attempt]) /\ Genuine(sem, packages[e.attempt].packet)
  /\ e.type = "reconciliation" => \E n \in Nodes : e.note \in Asks[n]
  /\ e.type = "acceptance" =>
       LET r == e.bundle.record
       IN /\ r.node \in Nodes \ Accepted(led)
          /\ e.bundle \in candidates /\ e.bundle.prior = Len(journal)
          /\ Reconstructible(led, journal, packages, sem, r.node, r.attempt)
          /\ r = ReadingOf(journal, packages, r.node, r.attempt)

Appended(e) ==
  /\ journal' = Append(journal, e)
  /\ UNCHANGED <<packages, candidates, marker>>
  /\ DOMAIN call' = Procs
  /\ \A q \in Procs : call'[q] = call[q] \/ call'[q].pc = "idle"

Written(e) == Appended(e) /\ Recorded(e) /\ Founded(e)

LEMMA Longer ==
  ASSUME IsJournal(journal), NEW e, journal' = Append(journal, e)
  PROVE  /\ IsJournal(journal') /\ Len(journal) \in Nat
         /\ DOMAIN journal = 1..Len(journal)
         /\ Len(journal') = Len(journal) + 1
         /\ DOMAIN journal' = 1..(Len(journal) + 1)
         /\ \A k \in 1..Len(journal) : journal'[k] = journal[k]
         /\ journal'[Len(journal) + 1] = e
<1>1. PICK S : journal \in Seq(S)
  BY DEF IsJournal
<1>2. journal \in Seq(S \cup {e}) /\ e \in S \cup {e}
  BY <1>1
<1>3. journal' \in Seq(S \cup {e})
  BY <1>2
<1> QED
  BY <1>2, <1>3 DEF IsJournal

LEMMA AppendKeeps ==
  ASSUME ReadingsInv, NEW e, Appended(e), Recorded(e)
  PROVE  Kept
<1>1. IsJournal(journal) /\ journal' = Append(journal, e) /\ Journalled
  BY DEF ReadingsInv, Types, Appended
<1>2. /\ Len(journal) \in Nat /\ DOMAIN journal = 1..Len(journal)
      /\ DOMAIN journal' = 1..(Len(journal) + 1)
      /\ \A k \in 1..Len(journal) : journal'[k] = journal[k]
      /\ journal'[Len(journal) + 1] = e
  BY <1>1, Longer
<1>3. ASSUME NEW a \in Attempts, Succeeded(led, a)
      PROVE  /\ Succeeded(led', a)
             /\ led'.reservations[a] = led.reservations[a]
             /\ NoteOf(journal', a) = NoteOf(journal, a)
  <2>1. a \in Reserved(led) /\ a \in Reconciled(led)
    BY <1>3 DEF Succeeded
  <2>2. /\ led'.reservations[a] = led.reservations[a]
        /\ led'.reconciliations[a] = led.reconciliations[a]
    BY <2>1 DEF Recorded
  <2>3. Succeeded(led', a)
    BY <1>3, <2>2 DEF Succeeded, Reserved, Reconciled
  <2>4. PICK k \in DOMAIN journal :
          journal[k].type = "reconciliation" /\ journal[k].attempt = a
    BY <1>1, <2>1 DEF Journalled
  <2>5. \A j \in DOMAIN journal :
          journal[j].type = "reconciliation" /\ journal[j].attempt = a => j = k
    BY <1>1, <2>4 DEF Journalled
  <2>6. \A j \in DOMAIN journal' :
          journal'[j].type = "reconciliation" /\ journal'[j].attempt = a => j = k
    BY <1>2, <2>1, <2>5 DEF Recorded
  <2>7. NoteOf(journal, a) = journal[k].note
    BY <2>4, <2>5, NoteIs
  <2>8. NoteOf(journal', a) = journal'[k].note
    <3>1. /\ k \in DOMAIN journal' /\ journal'[k].type = "reconciliation"
          /\ journal'[k].attempt = a
      BY <1>2, <2>4
    <3> QED
      BY <2>6, <3>1, NoteIs
  <2> QED
    BY <1>2, <2>2, <2>3, <2>4, <2>7, <2>8
<1> QED
  BY <1>2, <1>3 DEF Kept, Appended

LEMMA JournalStep ==
  ASSUME ReadingsInv, NEW e, Written(e)
  PROVE  ReadingsInv'
<1> USE DEF Written
<1> DEFINE end == Len(journal) + 1
<1>1. /\ Types /\ Journalled /\ Apart /\ Intact /\ HistoryVerifies
      /\ \A p \in Procs : CallAt(p)
  BY DEF ReadingsInv
<1>2. /\ IsJournal(journal') /\ Len(journal) \in Nat
      /\ DOMAIN journal = 1..Len(journal) /\ Len(journal') = end
      /\ DOMAIN journal' = 1..end
      /\ \A k \in 1..Len(journal) : journal'[k] = journal[k]
      /\ journal'[end] = e
  BY <1>1, Longer DEF Types, Appended
<1>3. Kept
  BY AppendKeeps
<1>4. Types'
  BY <1>1, <1>2 DEF Types, Appended, Recorded, Founded
<1>5. Reserved(led) \subseteq Reserved(led')
  BY DEF Recorded, Reserved
<1>6. Journalled'
  <2>1. \A a \in Reconciled(led)' : \E k \in DOMAIN journal' :
          journal'[k].type = "reconciliation" /\ journal'[k].attempt = a
    BY <1>1, <1>2 DEF Journalled, Recorded
  <2>2. \A k \in DOMAIN journal' : journal'[k].type = "reconciliation" =>
          journal'[k].attempt \in Reconciled(led)'
    BY <1>1, <1>2 DEF Journalled, Recorded
  <2>3. \A j, k \in DOMAIN journal' :
          journal'[j].type = "reconciliation" /\ journal'[k].type = "reconciliation"
            /\ journal'[j].attempt = journal'[k].attempt => j = k
    <3>1. \A k \in 1..Len(journal) : journal'[k].type = "reconciliation" =>
            journal'[k].attempt \in Reconciled(led)
      BY <1>1, <1>2 DEF Journalled
    <3>2. e.type = "reconciliation" => e.attempt \notin Reconciled(led)
      BY DEF Recorded
    <3>3. \A j, k \in 1..Len(journal) :
            journal'[j].type = "reconciliation" /\ journal'[k].type = "reconciliation"
              /\ journal'[j].attempt = journal'[k].attempt => j = k
      BY <1>1, <1>2 DEF Journalled
    <3> QED
      BY <1>2, <3>1, <3>2, <3>3
  <2>4. \A k \in DOMAIN journal' :
          journal'[k].type \in {"reservation", "dispatch"}
            /\ journal'[k].attempt \in SlotIds
          => Complete(packages[journal'[k].attempt])
    BY <1>1, <1>2 DEF Journalled, Founded
  <2>5. \A a \in Reserved(led)' : a \in SlotIds => ~Leaf(led'.reservations[a].node)
    <3>1. \A a \in Reserved(led) : a \in SlotIds => ~Leaf(led'.reservations[a].node)
      BY <1>1 DEF Journalled, Recorded
    <3> QED
      BY <3>1 DEF Recorded
  <2> QED
    BY <2>1, <2>2, <2>3, <2>4, <2>5 DEF Journalled, Appended
<1>7. Intact'
  <2>1. \A a \in Reserved(led)' : ~Leaf(led'.reservations[a].node) =>
          /\ a \in SlotIds /\ Complete(packages[a])
          /\ packages[a].packet.node = led'.reservations[a].node
    <3>1. \A a \in Reserved(led) : ~Leaf(led'.reservations[a].node) =>
            /\ a \in SlotIds /\ Complete(packages[a])
            /\ packages[a].packet.node = led'.reservations[a].node
      BY <1>1 DEF Intact, Recorded
    <3> QED
      BY <3>1 DEF Recorded
  <2>2. \A k \in DOMAIN journal' : journal'[k].type = "acceptance" =>
          journal'[k].bundle \in candidates /\ journal'[k].bundle.prior = k - 1
    BY <1>1, <1>2 DEF Intact, Founded
  <2> QED
    BY <1>1, <2>1, <2>2 DEF Intact, Appended
<1>8. HistoryVerifies'
  <2>1. \A k \in DOMAIN journal :
          EventVerifies(led', journal', packages', candidates', k)
    BY <1>1, <1>3, EventKept
  <2>2. EventVerifies(led', journal', packages', candidates', end)
    <3> DEFINE sem == MeaningOf(journal, Len(journal))
               n == e.bundle.record.node
               a == e.bundle.record.attempt
    <3>1. MeaningOf(journal', end - 1) = sem
      BY <1>2, MeaningKept
    <3>2. ASSUME e.type = "acceptance"
          PROVE  /\ e.bundle \in candidates'
                 /\ Reconstructible(led', journal', packages', sem, n, a)
                 /\ e.bundle.record = ReadingOf(journal', packages', n, a)
      <4>1. /\ e.bundle \in candidates
            /\ Reconstructible(led, journal, packages, sem, n, a)
            /\ e.bundle.record = ReadingOf(journal, packages, n, a)
        BY <3>2 DEF Founded
      <4>2. Succeeded(led, a) /\ a \in Attempts
        BY <4>1 DEF Reconstructible, Succeeded, Reserved
      <4>3. /\ Succeeded(led', a) /\ led'.reservations[a] = led.reservations[a]
            /\ NoteOf(journal', a) = NoteOf(journal, a)
            /\ a \in SlotIds /\ Complete(packages[a]) => packages'[a] = packages[a]
        BY <1>3, <4>2 DEF Kept
      <4> HIDE DEF sem, n, a
      <4>4. /\ Reconstructible(led', journal', packages', sem, n, a)
            /\ ReadingOf(journal', packages', n, a) = ReadingOf(journal, packages, n, a)
        BY <4>1, <4>3, ReadingKept
      <4> QED
        BY <4>1, <4>4 DEF Appended
    <3>3. e.type \in {"reservation", "dispatch"} /\ e.attempt \in SlotIds =>
            Genuine(sem, packages'[e.attempt].packet)
      BY DEF Founded, Appended
    <3>4. journal'[end] = e /\ e.type \in EventTypes
      BY <1>2 DEF Founded
    <3> HIDE DEF end, sem
    <3> QED
      BY <3>1, <3>2, <3>3, <3>4, EventCases
  <2>3. \A k \in DOMAIN journal' :
          EventVerifies(led', journal', packages', candidates', k)
    BY <1>2, <2>1, <2>2
  <2> QED
    BY <1>7, <2>3 DEF HistoryVerifies, Replays, Intact, Reserved
<1>9. ASSUME NEW p \in Procs PROVE CallAt(p)'
  <2>1. CASE call'[p].pc = "idle"
    BY <2>1 DEF CallAt, CallFits, Prepared, Dispatched, Answered
  <2>2. CASE call'[p] = call[p] /\ call[p].pc # "idle"
    <3>1. call[p].head \in 0..Len(journal) /\ call[p].head # Len(journal')
      BY <1>1, <1>2, <2>2 DEF CallAt, CallFits
    <3>2. CallFits(p)'
      BY <1>1, <1>2, <2>2, <3>1 DEF CallAt, CallFits
    <3>3. Prepared(p)' /\ Dispatched(p)'
      BY <1>1, <2>2, <3>1 DEF CallAt, Prepared, Dispatched, Appended
    <3>4. Answered(p)'
      BY <1>1, <2>2, <3>1 DEF CallAt, Answered, Appended
    <3> QED
      BY <3>2, <3>3, <3>4 DEF CallAt
  <2> QED
    BY <2>1, <2>2 DEF Appended
<1>10. Apart'
  BY <1>1 DEF Apart, Appended, Publishing, Marking
<1> QED
  BY <1>4, <1>6, <1>7, <1>8, <1>9, <1>10 DEF ReadingsInv, Appended

LEMMA NowIsNat == StartAt \in Nat
BY PolicyAssumption

(* What the two writes of the controller leave of its record.              *)
LEMMA ReservationWritten ==
  ASSUME NEW s \in State, NEW a \in Attempts, NEW r \in Reservation,
         NEW t, t = WithReservation(s, a, r, StartAt)
  PROVE  /\ t \in State /\ t.reservations = [s.reservations EXCEPT ![a] = r]
         /\ t.reconciliations = s.reconciliations
         /\ t.acceptances = s.acceptances
<1>1. WithReservation(s, a, r, StartAt) \in State
  BY WithReservationState, NowIsNat
<1> QED
  BY <1>1 DEF WithReservation

LEMMA AcceptanceWritten ==
  ASSUME NEW s \in State, NEW n \in Nodes, NEW x \in Acceptance,
         NEW t, t = WithAcceptance(s, n, x, StartAt)
  PROVE  /\ t \in State /\ t.reservations = s.reservations
         /\ t.reconciliations = s.reconciliations
         /\ t.acceptances = [s.acceptances EXCEPT ![n] = x]
<1>1. WithAcceptance(s, n, x, StartAt) \in State
  BY WithAcceptanceState, NowIsNat
<1> QED
  BY <1>1 DEF WithAcceptance

(* The record of an event whose effect is the controller's own.            *)
LEMMA ReservationRecorded ==
  ASSUME led \in State, NEW n \in Nodes, NEW a \in Attempts,
         ReservationLegal(led, a, Ask(led, n), StartAt),
         led' = WithReservation(led, a, Ask(led, n), StartAt),
         IF a \in SlotIds
         THEN ~Leaf(n) /\ Complete(packages[a]) /\ packages[a].packet.node = n
         ELSE Leaf(n)
  PROVE  Recorded([type |-> "reservation", attempt |-> a])
<1> DEFINE r == Ask(led, n)
<1>1. /\ r.node = n /\ r.output = Biggest(n) /\ r.input = 1 /\ r.spend = 1
      /\ r.until = Deadline /\ r.predecessor = led.latest[n]
      /\ r.notBefore = 0 /\ r.root = None
  BY DEF Ask
<1>2. Biggest(n) \in Nat
  BY <1>1, PolicyAssumption DEF ReservationLegal
<1>3. r \in Reservation
  BY <1>2, PolicyAssumption DEF Ask, Reservation, State
<1>4. /\ led' \in State
      /\ led'.reservations = [led.reservations EXCEPT ![a] = r]
      /\ led'.reconciliations = led.reconciliations
      /\ led'.acceptances = led.acceptances
  <2>1. led' = WithReservation(led, a, r, StartAt)
    OBVIOUS
  <2> HIDE DEF r
  <2> QED
    BY <2>1, <1>3, ReservationWritten
<1>5. a \notin Reserved(led) /\ led.reservations \in [Attempts -> Reservation \cup {None}]
  BY DEF ReservationLegal, State
<1> HIDE DEF r
<1>6. /\ \A b \in Attempts \ {a} : led'.reservations[b] = led.reservations[b]
      /\ led'.reservations[a] = r
  BY <1>4, <1>5
<1>7. Reconciled(led') = Reconciled(led) /\ Accepted(led') = Accepted(led)
  BY <1>4 DEF Reconciled, Accepted
<1>8. \A b \in Reserved(led') \ Reserved(led) : b = a
  BY <1>6 DEF Reserved
<1>9. \A b \in Reserved(led) : led'.reservations[b] = led.reservations[b]
  BY <1>5, <1>6 DEF Reserved
<1> QED
  BY <1>1, <1>4, <1>6, <1>7, <1>8, <1>9 DEF Recorded

LEMMA OtherRecorded ==
  ASSUME NEW e, led' \in State, led'.reservations = led.reservations,
         led'.reconciliations = led.reconciliations, e.type # "reconciliation",
         Accepted(led') = Accepted(led) \cup
           (IF e.type = "acceptance" THEN {e.bundle.record.node} ELSE {})
  PROVE  Recorded(e)
BY DEF Recorded, Reserved, Reconciled

LEMMA SettlementRecorded ==
  ASSUME led \in State, NEW a \in Attempts, NEW note,
         ReconciliationLegal(led, a, Captured0, StartAt),
         led' = WithReconciliation(led, a, Captured0, StartAt)
  PROVE  Recorded([type |-> "reconciliation", attempt |-> a, note |-> note])
<1>1. Captured0 \in Evidence
  BY PolicyAssumption DEF Captured0, Evidence, Captured
<1>2. /\ led' \in State /\ led'.reservations = led.reservations
      /\ led'.acceptances = led.acceptances
      /\ led'.reconciliations = [led.reconciliations EXCEPT ![a] = Captured0]
  BY <1>1, WithReconciliationState, PolicyAssumption
<1>3. a \notin Reconciled(led)
  BY DEF ReconciliationLegal
<1>4. led.reconciliations \in [Attempts -> Evidence \cup {None}]
  BY DEF State
<1>5. Captured0 # None
  BY <1>1, NoneAssumption
<1>6. /\ \A b \in Attempts \ {a} : led'.reconciliations[b] = led.reconciliations[b]
      /\ led'.reconciliations[a] = Captured0
  BY <1>2, <1>4
<1>7. Reconciled(led') = Reconciled(led) \cup {a}
  BY <1>5, <1>6 DEF Reconciled
<1>8. Reserved(led') = Reserved(led) /\ Accepted(led') = Accepted(led)
  BY <1>2 DEF Reserved, Accepted
<1>9. \A b \in Reconciled(led) : led'.reconciliations[b] = led.reconciliations[b]
  BY <1>3, <1>6 DEF Reconciled
<1> QED
  BY <1>2, <1>3, <1>7, <1>8, <1>9 DEF Recorded

LEMMA ReserveLeafStep ==
  ASSUME ReadingsInv, NEW n \in Nodes, NEW a \in Attempts, ReserveLeaf(n, a)
  PROVE  \E e : Written(e)
<1> DEFINE e == [type |-> "reservation", attempt |-> a]
<1>1. led \in State /\ DOMAIN call = Procs
  BY DEF ReadingsInv, Types
<1>2. a \notin SlotIds /\ Leaf(n)
  BY PolicyShape DEF ReserveLeaf
<1>3. Recorded(e)
  BY <1>1, <1>2, ReservationRecorded DEF ReserveLeaf, Publish
<1>4. Appended(e)
  BY <1>1 DEF ReserveLeaf, Publish, Appended
<1>5. Founded(e)
  BY <1>2 DEF Founded, EventTypes
<1> QED
  BY <1>3, <1>4, <1>5 DEF Written

LEMMA DispatchLeafStep ==
  ASSUME ReadingsInv, NEW a \in Attempts, DispatchLeaf(a)
  PROVE  \E e : Written(e)
<1> DEFINE e == [type |-> "dispatch", attempt |-> a]
<1>1. led \in State /\ DOMAIN call = Procs
  BY DEF ReadingsInv, Types
<1>2. a \notin SlotIds
  BY PolicyShape DEF DispatchLeaf
<1>3. Recorded(e)
  <2>1. led' = WithDispatch(led, a, StartAt)
    BY DEF DispatchLeaf, Publish
  <2>2. LET t == WithDispatch(led, a, StartAt)
        IN  /\ t \in State /\ t.reservations = led.reservations
            /\ t.reconciliations = led.reconciliations
            /\ t.acceptances = led.acceptances
    BY <1>1, WithDispatchState, NowIsNat
  <2> QED
    BY <2>1, <2>2, OtherRecorded DEF Accepted
<1>4. Appended(e)
  BY <1>1 DEF DispatchLeaf, Publish, Appended
<1>5. Founded(e)
  BY <1>2 DEF Founded, EventTypes
<1> QED
  BY <1>3, <1>4, <1>5 DEF Written

LEMMA SettleStep ==
  ASSUME ReadingsInv, NEW a \in Attempts, NEW note, Settle(a, note),
         \E n \in Nodes : note \in Asks[n]
  PROVE  \E e : Written(e)
<1> DEFINE e == [type |-> "reconciliation", attempt |-> a, note |-> note]
<1>1. led \in State /\ DOMAIN call = Procs
  BY DEF ReadingsInv, Types
<1>2. Recorded(e)
  BY <1>1, SettlementRecorded DEF Settle, Publish
<1>3. Appended(e)
  BY <1>1 DEF Settle, Publish, Appended
<1>4. Founded(e)
  BY DEF Founded, EventTypes
<1> QED
  BY <1>2, <1>3, <1>4 DEF Written

LEMMA Ending ==
  ASSUME ReadingsInv, NEW p \in Procs, End(p)
  PROVE  /\ DOMAIN call' = Procs
         /\ \A q \in Procs : call'[q] = call[q] \/ call'[q].pc = "idle"
<1>1. DOMAIN call = Procs
  BY DEF ReadingsInv, Types
<1> QED
  BY <1>1 DEF End, Idle

LEMMA AppendReservationStep ==
  ASSUME ReadingsInv, NEW p \in Procs, AppendReservation(p)
  PROVE  \E e : Written(e)
<1> DEFINE n == call[p].node
           a == call[p].attempt
           e == [type |-> "reservation", attempt |-> a]
<1>1. /\ call[p].pc = "finish" /\ call[p].op = "prepare"
      /\ call[p].head = Len(journal) /\ End(p)
      /\ ReservationLegal(led, a, Ask(led, n), StartAt)
      /\ led' = WithReservation(led, a, Ask(led, n), StartAt)
      /\ journal' = Append(journal, e) /\ UNCHANGED <<packages, candidates, marker>>
  BY DEF AppendReservation, Finished, Publish
<1>2. led \in State /\ CallFits(p) /\ Prepared(p)
  BY DEF ReadingsInv, Types, CallAt
<1>3. /\ n \in Nodes /\ a \in Attempts /\ a \in SlotIds /\ ~Leaf(n)
      /\ call[p].made # None /\ call[p].made.node = n
      /\ call[p].made = PacketFor(MeaningOf(journal, Len(journal)), n)
      /\ packages[a].packet = call[p].made /\ Complete(packages[a])
  BY <1>1, <1>2 DEF CallFits, Prepared
<1>4. Recorded(e)
  BY <1>1, <1>2, <1>3, ReservationRecorded
<1>5. Appended(e)
  BY <1>1, Ending DEF Appended
<1>6. Founded(e)
  BY <1>3 DEF Founded, EventTypes, Genuine
<1> QED
  BY <1>4, <1>5, <1>6 DEF Written

LEMMA AppendDispatchStep ==
  ASSUME ReadingsInv, NEW p \in Procs, AppendDispatch(p)
  PROVE  \E e : Written(e)
<1> DEFINE a == call[p].attempt
           e == [type |-> "dispatch", attempt |-> a]
<1>1. /\ call[p].pc = "finish" /\ call[p].op = "dispatch"
      /\ call[p].head = Len(journal) /\ End(p)
      /\ led' = WithDispatch(led, a, StartAt)
      /\ journal' = Append(journal, e) /\ UNCHANGED <<packages, candidates, marker>>
  BY DEF AppendDispatch, Finished, Publish
<1>2. led \in State /\ CallFits(p) /\ Dispatched(p)
  BY DEF ReadingsInv, Types, CallAt
<1>3. /\ a \in Attempts /\ a \in SlotIds /\ Complete(packages[a])
      /\ Genuine(MeaningOf(journal, Len(journal)), packages[a].packet)
  BY <1>1, <1>2 DEF CallFits, Dispatched
<1>4. Recorded(e)
  <2>1. LET t == WithDispatch(led, a, StartAt)
        IN  /\ t \in State /\ t.reservations = led.reservations
            /\ t.reconciliations = led.reconciliations
            /\ t.acceptances = led.acceptances
    BY <1>2, <1>3, WithDispatchState, NowIsNat
  <2> QED
    BY <1>1, <2>1, OtherRecorded DEF Accepted
<1>5. Appended(e)
  BY <1>1, Ending DEF Appended
<1>6. Founded(e)
  BY <1>3 DEF Founded, EventTypes
<1> QED
  BY <1>4, <1>5, <1>6 DEF Written

LEMMA AppendAcceptanceStep ==
  ASSUME ReadingsInv, NEW p \in Procs, AppendAcceptance(p)
  PROVE  \E e : Written(e)
<1> DEFINE n == call[p].node
           x == [attempt |-> call[p].attempt, parents |-> Parents[n]]
           b == call[p].made
           e == [type |-> "acceptance", bundle |-> b]
<1>1. /\ call[p].pc = "finish" /\ call[p].op = "accept"
      /\ call[p].head = Len(journal) /\ End(p) /\ n \notin Accepted(led)
      /\ led' = WithAcceptance(led, n, x, StartAt)
      /\ journal' = Append(journal, e) /\ UNCHANGED <<packages, candidates, marker>>
  BY DEF AppendAcceptance, Finished, Publish, AcceptanceLegal
<1>2. led \in State /\ CallFits(p) /\ Answered(p)
  BY DEF ReadingsInv, Types, CallAt
<1>3. /\ n \in Nodes /\ call[p].attempt \in Attempts
      /\ b.prior = Len(journal) /\ b \in candidates
      /\ b.record.node = n /\ b.record.attempt = call[p].attempt
      /\ Reconstructible(led, journal, packages,
                         MeaningOf(journal, Len(journal)), n, call[p].attempt)
      /\ b.record = ReadingOf(journal, packages, n, call[p].attempt)
  BY <1>1, <1>2 DEF CallFits, Answered
<1>4. Recorded(e)
  <2>1. x \in Acceptance
    BY <1>3, PolicyShape DEF Acceptance
  <2>2. n \in Nodes /\ led' = WithAcceptance(led, n, x, StartAt)
    BY <1>1, <1>3
  <2> HIDE DEF n, x
  <2>3. /\ led' \in State /\ led'.reservations = led.reservations
        /\ led'.reconciliations = led.reconciliations
        /\ led'.acceptances = [led.acceptances EXCEPT ![n] = x]
    BY <1>2, <2>1, <2>2, AcceptanceWritten
  <2>4. Accepted(led') = Accepted(led) \cup {n}
    <3>1. led.acceptances \in [Nodes -> Acceptance \cup {None}] /\ x # None
      BY <1>2, <2>1, NoneAssumption DEF State
    <3> QED
      BY <2>2, <2>3, <3>1 DEF Accepted
  <2>5. e.bundle.record.node = n /\ e.type = "acceptance"
    BY <1>3 DEF n
  <2> HIDE DEF e
  <2> QED
    BY <2>3, <2>4, <2>5, OtherRecorded
<1>5. Appended(e)
  BY <1>1, Ending DEF Appended
<1>6. Founded(e)
  BY <1>1, <1>3 DEF Founded, EventTypes
<1> QED
  BY <1>4, <1>5, <1>6 DEF Written

-----------------------------------------------------------------------------
(* The theorems.                                                           *)

LEMMA ReadingsInit == Init => ReadingsInv
<1> SUFFICES ASSUME Init PROVE ReadingsInv
  OBVIOUS
<1>1. /\ Reserved(led) = {} /\ Reconciled(led) = {}
      /\ \A a \in Attempts : led.reservations[a] = None
  BY DEF Init, Initial, Reserved, Reconciled
<1>2. led \in State
  BY PolicyAssumption DEF Init, Initial, State
<1>3. /\ journal = <<>> /\ IsJournal(journal) /\ DOMAIN journal = {}
  BY DEF Init, IsJournal
<1>4. \A p \in Procs : call[p].pc = "idle"
  BY DEF Init, Idle
<1>5. DOMAIN packages = SlotIds /\ DOMAIN call = Procs /\ candidates = {}
  BY DEF Init
<1>6. IsFiniteSet(candidates) /\ Cardinality(candidates) = 0
  BY <1>5, FS_EmptySet
<1>7. Types /\ Journalled
  BY <1>1, <1>2, <1>3, <1>5 DEF Types, Journalled
<1>8. Apart
  BY <1>4 DEF Apart, Publishing, Marking
<1>9. Intact /\ HistoryVerifies
  BY <1>1, <1>3, <1>6, PolicyShape DEF Intact, HistoryVerifies, Replays
<1>10. \A p \in Procs : CallAt(p)
  BY <1>4 DEF CallAt, CallFits, Prepared, Dispatched, Answered
<1> QED
  BY <1>6, <1>7, <1>8, <1>9, <1>10 DEF ReadingsInv

(* Only an event changes what is on record.                                *)
LEMMA SettleWrites ==
  ASSUME ReadingsInv, NEW a \in Reserved(led) \ Reconciled(led),
         NEW note \in Asks[led.reservations[a].node], Settle(a, note)
  PROVE  \E e : Written(e)
<1>1. a \in Attempts /\ led.reservations[a] \in Reservation
  BY DEF ReadingsInv, Types, State, Reserved
<1>2. led.reservations[a].node \in Nodes
  BY <1>1 DEF Reservation
<1> QED
  BY <1>1, <1>2, SettleStep

LEMMA ReadingsNext == ReadingsInv /\ [Next]_vars => ReadingsInv'
<1> SUFFICES ASSUME ReadingsInv, [Next]_vars PROVE ReadingsInv'
  OBVIOUS
<1>1. CASE UNCHANGED vars
  <2>1. StoreKept /\ UNCHANGED <<packages, candidates, marker, call>>
    BY <1>1 DEF vars, StoreKept, ReadingsInv, Types
  <2>2. /\ DOMAIN call' = Procs
        /\ IsFiniteSet(candidates') /\ Cardinality(candidates') <= MaxCandidates
    BY <2>1 DEF ReadingsInv, Types, Intact
  <2>3. Types' /\ Journalled' /\ HistoryVerifies' /\ Intact'
    BY <2>1, <2>2, StoreStays
  <2>4. \A p \in Procs : CallAt(p)'
    BY <2>1, CallStays
  <2>5. Apart'
    BY <2>1 DEF ReadingsInv, Apart
  <2> QED
    BY <2>2, <2>3, <2>4, <2>5 DEF ReadingsInv
<1>2. CASE \E n \in Nodes, a \in Attempts : ReserveLeaf(n, a)
  BY <1>2, ReserveLeafStep, JournalStep
<1>3. CASE \E a \in Attempts : DispatchLeaf(a)
  BY <1>3, DispatchLeafStep, JournalStep
<1>4. CASE \E a \in Reserved(led) \ Reconciled(led) :
             \E note \in Asks[led.reservations[a].node] : Settle(a, note)
  BY <1>4, SettleWrites, JournalStep
<1>5. CASE BeginCall
  <2>1. PICK p \in Procs, a \in Attempts :
          /\ call[p] = Idle
          /\ \/ BeginDispatch(p, MeaningOf(journal, Len(journal)), a)
             \/ \E n \in Nodes :
                  \/ BeginPrepare(p, MeaningOf(journal, Len(journal)), n, a)
                  \/ BeginAccept(p, MeaningOf(journal, Len(journal)), n, a)
    BY <1>5 DEF BeginCall
  <2> QED
    BY <2>1, BeginStep
<1>6. ASSUME NEW p \in Procs, Work(p) PROVE ReadingsInv'
  BY <1>6, ClaimSlotStep, ReusePackageStep, LinkIntentStep, SealPackageStep,
     ReuseCandidateStep, MarkStep, CountStep, PlaceStep, AppendReservationStep,
     AppendDispatchStep, AppendAcceptanceStep, JournalStep DEF Work
<1>7. ASSUME NEW p \in Procs, GiveUp(p) \/ Crash(p) PROVE ReadingsInv'
  <2>1. /\ End(p) /\ call[p].pc # "idle"
        /\ UNCHANGED <<journal, led, packages, candidates, marker>>
    BY <1>7 DEF GiveUp, Crash
  <2> QED
    BY <2>1, EndStep
<1> QED
  BY <1>1, <1>2, <1>3, <1>4, <1>5, <1>6, <1>7 DEF Next

LEMMA ReadingsAlways == Spec => []ReadingsInv
BY ReadingsInit, ReadingsNext, PTL DEF Spec

-----------------------------------------------------------------------------
(* The marks that close the store.                                         *)

(* A call that publishes nothing sets no mark and tends none.              *)
LEMMA TendedStays ==
  ASSUME Tended, NEW p \in Procs, \A q \in Procs \ {p} : call'[q] = call[q],
         call[p].pc \notin {"count", "place", "seal"}, marker' => marker,
         \A a \in SlotIds :
           packages'[a].state = "aliased" => packages[a].state = "aliased"
  PROVE  Tended'
<1>1. ASSUME marker'
      PROVE  \E q \in Procs : call'[q].pc \in {"count", "place"}
  <2>1. PICK q \in Procs : call[q].pc \in {"count", "place"}
    BY <1>1 DEF Tended
  <2> QED
    BY <2>1
<1>2. ASSUME NEW a \in SlotIds, packages'[a].state = "aliased"
      PROVE  \E q \in Procs : call'[q].pc = "seal" /\ call'[q].attempt = a
  <2>1. PICK q \in Procs : call[q].pc = "seal" /\ call[q].attempt = a
    BY <1>2 DEF Tended
  <2> QED
    BY <2>1
<1> QED
  BY <1>1, <1>2 DEF Tended

(* Who sets a mark tends it, and who stops tending one has removed it.     *)
LEMMA WorkTends ==
  ASSUME ReadingsInv, Tended, NEW p \in Procs, Work(p)
  PROVE  Tended'
<1>1. DOMAIN packages = SlotIds /\ DOMAIN call = Procs
  BY DEF ReadingsInv, Types
<1>2. CASE ClaimSlot(p)
  <2>1. Others(p)
    BY <1>1, <1>2 DEF ClaimSlot, To, Others
  <2>2. \A a \in SlotIds :
          packages'[a].state = "aliased" => packages[a].state = "aliased"
    BY <1>1, <1>2 DEF ClaimSlot
  <2> QED
    BY <1>2, <2>1, <2>2, TendedStays DEF ClaimSlot, Others
<1>3. CASE ReusePackage(p) \/ ReuseCandidate(p)
  <2>1. Others(p)
    BY <1>1, <1>3 DEF ReusePackage, ReuseCandidate, Others
  <2> QED
    BY <1>3, <2>1, TendedStays DEF ReusePackage, ReuseCandidate, Others
<1>4. CASE LinkIntent(p)
  <2> DEFINE b == call[p].attempt
  <2>1. /\ call[p].pc = "link" /\ To(p, "seal") /\ UNCHANGED marker
        /\ packages' = [packages EXCEPT ![b].state = "aliased"]
    BY <1>4 DEF LinkIntent
  <2>2. Others(p) /\ Still(call[p], call'[p], "seal")
    BY <2>1, Knows, Moves
  <2>3. /\ call'[p].pc = "seal" /\ call'[p].attempt = b
        /\ \A q \in Procs \ {p} : call'[q] = call[q]
    BY <2>2 DEF Still, Others
  <2>4. \A a \in SlotIds \ {b} : packages'[a] = packages[a]
    BY <1>1, <2>1
  <2>5. ASSUME NEW a \in SlotIds, packages'[a].state = "aliased"
        PROVE  \E q \in Procs : call'[q].pc = "seal" /\ call'[q].attempt = a
    <3>1. CASE a = b
      BY <2>3, <3>1
    <3>2. CASE a # b
      <4>1. PICK q \in Procs : call[q].pc = "seal" /\ call[q].attempt = a
        BY <2>4, <2>5, <3>2 DEF Tended
      <4>2. q # p
        BY <2>1, <4>1
      <4> QED
        BY <2>3, <4>1, <4>2
    <3> QED
      BY <3>1, <3>2
  <2>6. ASSUME marker'
        PROVE  \E q \in Procs : call'[q].pc \in {"count", "place"}
    <3>1. PICK q \in Procs : call[q].pc \in {"count", "place"}
      BY <2>1, <2>6 DEF Tended
    <3>2. q # p
      BY <2>1, <3>1
    <3> QED
      BY <2>3, <3>1, <3>2
  <2> QED
    BY <2>5, <2>6 DEF Tended
<1>5. CASE SealPackage(p)
  <2> DEFINE b == call[p].attempt
  <2>1. /\ call[p].pc = "seal" /\ UNCHANGED marker
        /\ packages' = [packages EXCEPT ![b].state = "complete"]
        /\ \A q \in Procs \ {p} : call'[q] = call[q]
    BY <1>1, <1>5 DEF SealPackage
  <2>2. \A a \in SlotIds : packages'[a].state = "aliased" =>
          a # b /\ packages[a].state = "aliased"
    <3>1. b \in SlotIds /\ packages[b] = [state |-> "aliased", packet |-> call[p].made]
      BY <2>1, Knows DEF CallAt, CallFits, Prepared
    <3>2. packages'[b] = [state |-> "complete", packet |-> call[p].made]
      BY <1>1, <2>1, <3>1
    <3> QED
      BY <1>1, <2>1, <3>2
  <2>3. ASSUME NEW a \in SlotIds, packages'[a].state = "aliased"
        PROVE  \E q \in Procs : call'[q].pc = "seal" /\ call'[q].attempt = a
    <3>1. PICK q \in Procs : call[q].pc = "seal" /\ call[q].attempt = a
      BY <2>2, <2>3 DEF Tended
    <3>2. q # p
      BY <2>2, <2>3, <3>1
    <3> QED
      BY <2>1, <3>1, <3>2
  <2>4. ASSUME marker'
        PROVE  \E q \in Procs : call'[q].pc \in {"count", "place"}
    <3>1. PICK q \in Procs : call[q].pc \in {"count", "place"}
      BY <2>1, <2>4 DEF Tended
    <3>2. q # p
      BY <2>1, <3>1
    <3> QED
      BY <2>1, <3>1, <3>2
  <2> QED
    BY <2>3, <2>4 DEF Tended
<1>6. ASSUME NEW pc \in {"count", "place"}, To(p, pc), UNCHANGED packages,
             call[p].pc # "seal", call[p].pc # "idle"
      PROVE  Tended'
  <2>1. Others(p) /\ Still(call[p], call'[p], pc)
    BY <1>6, Knows, Moves
  <2>2. call'[p].pc \in {"count", "place"}
    BY <2>1 DEF Still
  <2>3. ASSUME NEW a \in SlotIds, packages'[a].state = "aliased"
        PROVE  \E q \in Procs : call'[q].pc = "seal" /\ call'[q].attempt = a
    <3>1. PICK q \in Procs : call[q].pc = "seal" /\ call[q].attempt = a
      BY <1>6, <2>3 DEF Tended
    <3>2. q # p
      BY <1>6, <3>1
    <3> QED
      BY <2>1, <3>1, <3>2 DEF Others
  <2> QED
    BY <2>2, <2>3 DEF Tended
<1>7. ASSUME ~marker', UNCHANGED packages, call[p].pc # "seal",
             \A q \in Procs \ {p} : call'[q] = call[q]
      PROVE  Tended'
  <2>1. ASSUME NEW a \in SlotIds, packages'[a].state = "aliased"
        PROVE  \E q \in Procs : call'[q].pc = "seal" /\ call'[q].attempt = a
    <3>1. PICK q \in Procs : call[q].pc = "seal" /\ call[q].attempt = a
      BY <1>7, <2>1 DEF Tended
    <3>2. q # p
      BY <1>7, <3>1
    <3> QED
      BY <1>7, <3>1, <3>2
  <2> QED
    BY <1>7, <2>1 DEF Tended
<1>8. CASE Mark(p)
  BY <1>6, <1>8 DEF Mark
<1>9. CASE Count(p)
  <2>1. call[p].pc = "count" /\ UNCHANGED packages
        /\ (To(p, "place") \/ (End(p) /\ ~marker'))
    BY <1>9 DEF Count
  <2>2. CASE To(p, "place")
    BY <1>6, <2>1, <2>2
  <2>3. CASE End(p) /\ ~marker'
    BY <1>1, <1>7, <2>1, <2>3 DEF End
  <2> QED
    BY <2>1, <2>2, <2>3
<1>10. CASE Place(p)
  BY <1>1, <1>7, <1>10 DEF Place
<1>11. CASE AppendReservation(p) \/ AppendDispatch(p) \/ AppendAcceptance(p)
  <2>1. /\ call[p].pc = "finish" /\ End(p) /\ UNCHANGED <<packages, marker>>
    BY <1>11 DEF AppendReservation, AppendDispatch, AppendAcceptance, Finished
  <2> QED
    BY <1>1, <2>1, TendedStays DEF End
<1> QED
  BY <1>2, <1>3, <1>4, <1>5, <1>8, <1>9, <1>10, <1>11 DEF Work

TendedInv == crashes \in Nat /\ (crashes = 0 => Tended)

LEMMA TendedNext == ReadingsInv /\ TendedInv /\ [Next]_vars => TendedInv'
<1> SUFFICES ASSUME ReadingsInv, TendedInv, [Next]_vars PROVE TendedInv'
  OBVIOUS
<1>1. DOMAIN call = Procs
  BY DEF ReadingsInv, Types
<1>2. ASSUME UNCHANGED <<call, marker, packages, crashes>> PROVE TendedInv'
  BY <1>2 DEF TendedInv, Tended
<1>3. CASE \/ \E n \in Nodes, a \in Attempts : ReserveLeaf(n, a)
           \/ \E a \in Attempts : DispatchLeaf(a)
           \/ \E a \in Reserved(led) \ Reconciled(led) :
                \E note \in Asks[led.reservations[a].node] : Settle(a, note)
           \/ UNCHANGED vars
  BY <1>2, <1>3 DEF ReserveLeaf, DispatchLeaf, Settle, vars
<1>4. CASE BeginCall
  <2>1. PICK p \in Procs :
          /\ call[p] = Idle /\ UNCHANGED <<packages, marker, crashes>>
          /\ \E c : call' = [call EXCEPT ![p] = c]
    BY <1>4 DEF BeginCall, BeginDispatch, BeginPrepare, BeginAccept, Begin
  <2>2. call[p].pc = "idle"
    BY <2>1 DEF Idle
  <2> QED
    BY <1>1, <2>1, <2>2, TendedStays DEF TendedInv
<1>5. ASSUME NEW p \in Procs, Work(p) PROVE TendedInv'
  <2>1. UNCHANGED crashes
    BY <1>5 DEF Work, ClaimSlot, ReusePackage, LinkIntent, SealPackage,
       ReuseCandidate, Mark, Count, Place, AppendReservation, AppendDispatch,
       AppendAcceptance
  <2> QED
    BY <1>5, <2>1, WorkTends DEF TendedInv
<1>6. ASSUME NEW p \in Procs, GiveUp(p) PROVE TendedInv'
  BY <1>1, <1>6, TendedStays DEF GiveUp, End, TendedInv
<1>7. ASSUME NEW p \in Procs, Crash(p) PROVE TendedInv'
  BY <1>7 DEF Crash, TendedInv
<1> QED
  BY <1>3, <1>4, <1>5, <1>6, <1>7 DEF Next

(* Whatever coordinators do beside each other, the store holds a package   *)
(* for each reserved successor and a candidate for each acceptance,        *)
(* published at the head before it, and no more than there is room for;    *)
(* and as long as none of them dies, what closes the store to the others   *)
(* is a mark that a living call removes (load, publishReadingCandidate).   *)
THEOREM StoresLoad == Spec => []StoreLoads
<1>1. Init => TendedInv
  BY DEF Init, NoPackage, TendedInv, Tended
<1>2. ReadingsInv /\ TendedInv => StoreLoads
  BY DEF ReadingsInv, TendedInv, StoreLoads
<1> QED
  BY <1>1, <1>2, TendedNext, ReadingsAlways, PTL DEF Spec

(* And the journal is one the next reader can replay (verifyReadingHistory): *)
(* every event means what it meant to the coordinator that wrote it.       *)
THEOREM HistoriesVerify == Spec => []HistoryVerifies
<1>1. ReadingsInv => HistoryVerifies
  BY DEF ReadingsInv
<1> QED
  BY <1>1, ReadingsAlways, PTL

-----------------------------------------------------------------------------
(* What is delivered and what is left (planRereadDelivery).                *)

LEMMA FiniteMax ==
  ASSUME NEW T \in SUBSET Nat, IsFiniteSet(T), T # {}
  PROVE  \E x \in T : \A y \in T : x >= y
<1> DEFINE above == {n \in Nat : \A y \in T : n >= y}
           bad == {n \in Nat : \E U \in SUBSET T : Cardinality(U) = n
                     /\ ~ \E x \in Nat : \A y \in U : x >= y}
<1>1. bad = {}
  <2>1. SUFFICES ASSUME bad # {} PROVE FALSE
    OBVIOUS
  <2>2. PICK n \in bad : \A k \in bad : n <= k
    BY <2>1, LeastNumber
  <2>3. PICK U \in SUBSET T : Cardinality(U) = n
                              /\ ~ \E x \in Nat : \A y \in U : x >= y
    BY <2>2
  <2>4. PICK z \in U : TRUE
    <3>1. 0 \in Nat
      OBVIOUS
    <3> QED
      BY <2>3, <3>1
  <2>5. /\ IsFiniteSet(U \ {z}) /\ Cardinality(U \ {z}) = n - 1
        /\ Cardinality(U \ {z}) \in Nat
    <3>1. IsFiniteSet(U)
      BY FS_Subset
    <3> QED
      BY <2>3, <2>4, <3>1, FS_RemoveElement, FS_CardinalityType
  <2>6. n \in Nat /\ Cardinality(U \ {z}) \notin bad
    BY <2>2, <2>5
  <2>7. PICK x \in Nat : \A y \in U \ {z} : x >= y
    BY <2>5, <2>6
  <2>8. z \in Nat /\ U \subseteq Nat
    BY <2>3, <2>4
  <2>9. CASE x >= z
    BY <2>3, <2>7, <2>9
  <2>10. CASE ~(x >= z)
    <3>1. \A y \in U : z >= y
      BY <2>7, <2>8, <2>10
    <3> QED
      BY <2>3, <2>8, <3>1
  <2> QED
    BY <2>9, <2>10
<1>2. above # {}
  <2>1. Cardinality(T) \in Nat /\ Cardinality(T) \notin bad
    BY <1>1, FS_CardinalityType
  <2>2. \E x \in Nat : \A y \in T : x >= y
    BY <2>1
  <2> QED
    BY <2>2
<1>3. PICK n \in above : \A k \in above : n <= k
  BY <1>2, LeastNumber
<1>4. CASE n \in T
  BY <1>3, <1>4
<1>5. CASE n \notin T
  <2>1. n # 0
    <3>1. PICK y \in T : TRUE
      OBVIOUS
    <3>2. n >= y /\ y \in Nat /\ y # n
      BY <1>3, <1>5, <3>1
    <3> QED
      BY <1>3, <3>2
  <2>2. n - 1 \in Nat /\ \A y \in T : n - 1 >= y
    <3>1. n \in Nat /\ \A y \in T : n >= y /\ n # y /\ y \in Nat
      BY <1>3, <1>5
    <3> QED
      BY <2>1, <3>1
  <2>3. n <= n - 1
    BY <1>3, <2>2
  <2> QED
    BY <1>3, <2>3
<1> QED
  BY <1>4, <1>5

Pieces == {q \in [origin : Nodes, id : Ids, start : Cuts, end : Cuts] : q.start < q.end}

LEMMA HindmostIn ==
  ASSUME NEW t \in SUBSET Pieces, IsFiniteSet(t), t # {}
  PROVE  Hindmost(t) \in t
<1> DEFINE rank(q) == Rank[<<q.origin, q.id>>]
           ranks == {rank(q) : q \in t}
<1>1. \A q \in t : rank(q) \in Nat
  BY PolicyShape DEF Pieces
<1>2. IsFiniteSet(ranks)
  <2> DEFINE f == [q \in t |-> rank(q)]
  <2>1. f \in Surjection(t, ranks)
    BY DEF Surjection
  <2> HIDE DEF f, ranks
  <2> QED
    BY <2>1, FS_Surjection
<1>3. ranks \in SUBSET Nat /\ ranks # {}
  BY <1>1
<1>4. PICK x \in ranks : \A y \in ranks : x >= y
  <2> HIDE DEF ranks
  <2> QED
    BY <1>2, <1>3, FiniteMax
<1>5. PICK r \in t : x = rank(r)
  BY <1>4
<1>6. \A q \in t : rank(q) <= rank(r)
  BY <1>1, <1>4, <1>5
<1> QED
  BY <1>6 DEF Hindmost

(* The fold of Delivery, at every set of requests out of D.                *)
TakeLast(g, t) == Deliver(g[t \ {Hindmost(t)}], Hindmost(t))
Folded(g, D) == [t \in SUBSET D |-> IF t = {} THEN NothingYet ELSE TakeLast(g, t)]

LEMMA DeliveryFolds ==
  ASSUME NEW D
  PROVE  Delivery(D) = (CHOOSE g : g = Folded(g, D))[D]
BY DEF Delivery, MapThenFoldSet, Folded, TakeLast

LEMMA FoldExists ==
  ASSUME NEW D \in SUBSET Pieces, IsFiniteSet(D)
  PROVE  \E g : g = Folded(g, D)
<1> DEFINE At(g, t) == IF t = {} THEN NothingYet ELSE TakeLast(g, t)
           Upto(g, n) == \A t \in SUBSET D : Cardinality(t) <= n => g[t] = At(g, t)
           bad == {n \in Nat : ~ \E f : Upto([t \in SUBSET D |-> f[t]], n)}
<1>1. \A t \in SUBSET D : IsFiniteSet(t) /\ Cardinality(t) \in Nat
                          /\ Cardinality(t) <= Cardinality(D)
                          /\ (t = {} <=> Cardinality(t) = 0)
  BY FS_Subset, FS_CardinalityType, FS_EmptySet
<1>2. \A t \in SUBSET D : t # {} =>
        /\ Hindmost(t) \in t /\ t \ {Hindmost(t)} \in SUBSET D
        /\ Cardinality(t \ {Hindmost(t)}) = Cardinality(t) - 1
  <2> SUFFICES ASSUME NEW t \in SUBSET D, t # {}
               PROVE  /\ Hindmost(t) \in t /\ t \ {Hindmost(t)} \in SUBSET D
                      /\ Cardinality(t \ {Hindmost(t)}) = Cardinality(t) - 1
    OBVIOUS
  <2>1. IsFiniteSet(t)
    BY <1>1
  <2>2. Hindmost(t) \in t
    BY <2>1, HindmostIn
  <2> QED
    BY <2>1, <2>2, FS_RemoveElement
<1>3. bad = {}
  <2>1. SUFFICES ASSUME bad # {} PROVE FALSE
    OBVIOUS
  <2>2. PICK n \in bad : \A k \in bad : n <= k
    BY <2>1, LeastNumber
  <2>3. CASE n = 0
    <3> DEFINE g == [t \in SUBSET D |-> NothingYet]
    <3>1. Upto([t \in SUBSET D |-> g[t]], 0)
      BY <1>1
    <3> HIDE DEF Upto, g
    <3> QED
      BY <2>2, <2>3, <3>1
  <2>4. CASE n # 0
    <3>0. n \in Nat
      OBVIOUS
    <3>1. n - 1 \in Nat /\ n - 1 \notin bad
      <4> HIDE DEF bad
      <4> QED
        BY <2>2, <2>4, <3>0
    <3>2. PICK e : Upto([t \in SUBSET D |-> e[t]], n - 1)
      BY <3>1
    <3> DEFINE f == [t \in SUBSET D |-> e[t]]
               g == [t \in SUBSET D |-> IF Cardinality(t) <= n - 1 THEN f[t]
                                        ELSE At(f, t)]
    <3>3. Upto(f, n - 1)
      BY <3>2
    <3> HIDE DEF f
    <3>4. ASSUME NEW t \in SUBSET D, Cardinality(t) <= n
          PROVE  g[t] = At(g, t)
      <4>1. t # {} => g[t \ {Hindmost(t)}] = f[t \ {Hindmost(t)}]
        <5> SUFFICES ASSUME t # {}
                     PROVE  g[t \ {Hindmost(t)}] = f[t \ {Hindmost(t)}]
          OBVIOUS
        <5> DEFINE u == t \ {Hindmost(t)}
        <5>1. u \in SUBSET D /\ Cardinality(u) <= n - 1
          BY <1>1, <1>2, <3>1, <3>4
        <5> HIDE DEF u
        <5>2. g[u] = f[u]
          BY <5>1
        <5> QED
          BY <5>2 DEF u
      <4>2. At(g, t) = At(f, t)
        <5> HIDE DEF g
        <5> QED
          BY <4>1 DEF TakeLast
      <4>3. g[t] = At(f, t)
        <5> HIDE DEF At
        <5> QED
          BY <3>3, <3>4
      <4> QED
        BY <4>2, <4>3
    <3>5. Upto([t \in SUBSET D |-> g[t]], n)
      <4>1. [t \in SUBSET D |-> g[t]] = g
        OBVIOUS
      <4> HIDE DEF g
      <4>2. Upto(g, n)
        BY <3>4
      <4> QED
        BY <4>1, <4>2
    <3> HIDE DEF Upto, g
    <3> QED
      BY <2>2, <3>5
  <2> QED
    BY <2>3, <2>4
<1>4. PICK f : Upto([t \in SUBSET D |-> f[t]], Cardinality(D))
  BY <1>1, <1>3
<1> DEFINE g == [t \in SUBSET D |-> f[t]]
<1>5. \A t \in SUBSET D : g[t] = At(g, t)
  BY <1>1, <1>4
<1>6. g = Folded(g, D)
  <2> HIDE DEF At
  <2>1. g = [t \in SUBSET D |-> At(g, t)]
    BY <1>5
  <2> QED
    BY <2>1 DEF Folded, At
<1> QED
  BY <1>6

LEMMA SliceEndIn ==
  ASSUME NEW r \in Pieces, NEW room \in Nat
  PROVE  LET e == SliceEnd(r, room)
         IN  /\ e \in Cuts /\ e \in Nat
             /\ r.start <= e /\ e <= r.end /\ e <= r.start + room
<1>1. /\ r.start \in Nat /\ r.end \in Nat /\ r.start \in Cuts /\ r.start < r.end
      /\ Cuts \subseteq Nat
  BY PolicyShape DEF Pieces
<1>2. PICK top \in Nat : /\ top = MinOf(r.end, r.start + room)
                         /\ r.start <= top /\ top <= r.end /\ top <= r.start + room
  <2>1. MinOf(r.end, r.start + room) \in {r.end, r.start + room}
    BY DEF MinOf
  <2>2. /\ MinOf(r.end, r.start + room) <= r.end
        /\ MinOf(r.end, r.start + room) <= r.start + room
    BY <1>1 DEF MinOf
  <2> QED
    BY <1>1, <2>1, <2>2
<1> DEFINE S == {c \in Cuts : r.start <= c /\ c <= top}
<1>3. S \in SUBSET Nat /\ S # {}
  <2>1. r.start \in S
    BY <1>1, <1>2
  <2> QED
    BY <1>1, <2>1
<1>4. IsFiniteSet(S)
  <2>1. ASSUME NEW c \in S PROVE c \in 0..top
    <3>1. c \in Nat /\ c <= top
      BY <1>1
    <3> QED
      BY <1>2, <3>1
  <2>2. IsFiniteSet(0..top)
    <3>1. 0 \in Int /\ top \in Int
      BY <1>2
    <3> QED
      BY <3>1, FS_Interval
  <2> QED
    BY <2>1, <2>2, FS_Subset
<1>5. \E x \in S : \A y \in S : x >= y
  <2> HIDE DEF S
  <2> QED
    BY <1>3, <1>4, FiniteMax
<1>6. Max(S) \in S
  <2> HIDE DEF S
  <2> QED
    BY <1>5 DEF Max
<1>7. SliceEnd(r, room) = Max(S)
  BY <1>2 DEF SliceEnd
<1> HIDE DEF S
<1>8. PICK e : e = SliceEnd(r, room) /\ e \in S
  BY <1>6, <1>7
<1>9. e \in Cuts /\ e \in Nat /\ r.start <= e /\ e <= top
  BY <1>1, <1>8 DEF S
<1>10. e <= r.end /\ e <= r.start + room
  BY <1>1, <1>2, <1>9
<1> QED
  BY <1>8, <1>9, <1>10

(* Each of the requests t is cut in what is delivered and what is left.    *)
CutBy(cut, delivered, left, t) ==
  /\ \A q \in t : q.start <= cut[q] /\ cut[q] <= q.end
  /\ delivered = {[q EXCEPT !.end = cut[q]] : q \in {x \in t : cut[x] > x.start}}
  /\ left = {[q EXCEPT !.start = cut[q]] : q \in {x \in t : cut[x] < x.end}}

LEMMA CutExtends ==
  ASSUME NEW t \in SUBSET Pieces, NEW r \in Pieces \ t,
         NEW cut \in [t -> Cuts], NEW delivered, NEW left,
         CutBy(cut, delivered, left, t),
         NEW c \in Cuts, r.start <= c, c <= r.end
  PROVE  \E cut2 \in [t \cup {r} -> Cuts] :
           CutBy(cut2,
             delivered \cup (IF c > r.start THEN {[r EXCEPT !.end = c]} ELSE {}),
             left \cup (IF c < r.end THEN {[r EXCEPT !.start = c]} ELSE {}),
             t \cup {r})
<1> DEFINE u == t \cup {r}
           cut2 == [q \in u |-> IF q = r THEN c ELSE cut[q]]
           D == IF c > r.start THEN {[r EXCEPT !.end = c]} ELSE {}
           L == IF c < r.end THEN {[r EXCEPT !.start = c]} ELSE {}
<1>1. /\ cut2 \in [u -> Cuts] /\ cut2[r] = c
      /\ \A q \in t : cut2[q] = cut[q]
  OBVIOUS
<1> HIDE DEF cut2
<1>2. \A q \in u : q.start <= cut2[q] /\ cut2[q] <= q.end
  BY <1>1 DEF CutBy
<1>3. {x \in u : cut2[x] > x.start}
        = {x \in t : cut[x] > x.start} \cup (IF c > r.start THEN {r} ELSE {})
  BY <1>1
<1>4. {[q EXCEPT !.end = cut2[q]] : q \in {x \in u : cut2[x] > x.start}}
        = delivered \cup D
  <2>1. delivered = {[q EXCEPT !.end = cut[q]] : q \in {x \in t : cut[x] > x.start}}
    BY DEF CutBy
  <2>2. {[q EXCEPT !.end = cut2[q]] : q \in {x \in t : cut[x] > x.start}} = delivered
    BY <1>1, <2>1
  <2>3. {[q EXCEPT !.end = cut2[q]] : q \in IF c > r.start THEN {r} ELSE {}} = D
    BY <1>1
  <2> QED
    BY <1>3, <2>2, <2>3
<1>5. {x \in u : cut2[x] < x.end}
        = {x \in t : cut[x] < x.end} \cup (IF c < r.end THEN {r} ELSE {})
  BY <1>1
<1>6. {[q EXCEPT !.start = cut2[q]] : q \in {x \in u : cut2[x] < x.end}}
        = left \cup L
  <2>1. left = {[q EXCEPT !.start = cut[q]] : q \in {x \in t : cut[x] < x.end}}
    BY DEF CutBy
  <2>2. {[q EXCEPT !.start = cut2[q]] : q \in {x \in t : cut[x] < x.end}} = left
    BY <1>1, <2>1
  <2>3. {[q EXCEPT !.start = cut2[q]] : q \in IF c < r.end THEN {r} ELSE {}} = L
    BY <1>1
  <2> QED
    BY <1>5, <2>2, <2>3
<1> QED
  BY <1>1, <1>2, <1>4, <1>6 DEF CutBy

Divided(d, t) ==
  /\ DOMAIN d = {"deliveries", "remaining", "bytes", "stopped", "stuck"}
  /\ d.bytes \in 0..MaxDeliveryBytes
  /\ d.deliveries = {} => d.bytes = 0
  /\ t # {} /\ d.deliveries = {} => d.stuck
  /\ t = {} => d = NothingYet
  /\ \E cut \in [t -> Cuts] : CutBy(cut, d.deliveries, d.remaining, t)

LEMMA NothingDivided == Divided(NothingYet, {})
<1>1. 0 \in 0..MaxDeliveryBytes
  BY PolicyShape
<1> DEFINE cut == [q \in {} |-> 0]
<1>2. cut \in [{} -> Cuts] /\ CutBy(cut, {}, {}, {})
  BY DEF CutBy
<1> QED
  BY <1>1, <1>2 DEF Divided, NothingYet

LEMMA DeliverDivides ==
  ASSUME NEW t \in SUBSET Pieces, NEW r \in Pieces \ t, NEW d, Divided(d, t)
  PROVE  Divided(Deliver(d, r), t \cup {r})
<1> DEFINE room == MaxDeliveryBytes - d.bytes
           e == SliceEnd(r, room)
           rest == IF e < r.end THEN {[r EXCEPT !.start = e]} ELSE {}
           u == t \cup {r}
<1>1. /\ MaxDeliveryBytes \in Nat \ {0} /\ MaxDeliveryParts \in Nat \ {0}
      /\ d.bytes \in 0..MaxDeliveryBytes /\ room \in Nat
  BY PolicyShape DEF Divided
<1>2. /\ r.start \in Cuts /\ r.end \in Cuts /\ r.start < r.end
      /\ r.start \in Nat /\ r.end \in Nat
  BY PolicyShape DEF Pieces
<1>3. e \in Cuts /\ e \in Nat /\ r.start <= e /\ e <= r.end /\ e <= r.start + room
  <2> HIDE DEF room
  <2> QED
    BY <1>1, SliceEndIn
<1>4. PICK cut \in [t -> Cuts] : CutBy(cut, d.deliveries, d.remaining, t)
  BY DEF Divided
<1>5. u # {} /\ r \in u
  OBVIOUS
<1>6. [r EXCEPT !.start = r.start] = r
  BY DEF Pieces
<1>7. \E cut2 \in [u -> Cuts] :
         CutBy(cut2, d.deliveries, d.remaining \cup {r}, u)
  <2> DEFINE c == r.start
  <2>1. /\ (IF c > r.start THEN {[r EXCEPT !.end = c]} ELSE {}) = {}
          /\ (IF c < r.end THEN {[r EXCEPT !.start = c]} ELSE {}) = {r}
    BY <1>2, <1>6
  <2>2. c \in Cuts /\ r.start <= c /\ c <= r.end
    BY <1>2
  <2> HIDE DEF c
  <2>3. \E cut2 \in [u -> Cuts] :
            CutBy(cut2,
              d.deliveries \cup (IF c > r.start THEN {[r EXCEPT !.end = c]} ELSE {}),
              d.remaining \cup (IF c < r.end THEN {[r EXCEPT !.start = c]} ELSE {}), u)
    BY <1>4, <2>2, CutExtends
  <2>4. d.deliveries \cup {} = d.deliveries
    OBVIOUS
  <2> QED
    BY <2>1, <2>3, <2>4
<1>8. DOMAIN d = {"deliveries", "remaining", "bytes", "stopped", "stuck"}
  BY DEF Divided
<1> HIDE DEF e
<1>9. CASE NoRoom(d)
  <2>1. t # {}
    <3>1. SUFFICES ASSUME t = {} PROVE FALSE
      OBVIOUS
    <3>2. d = NothingYet
      BY <3>1 DEF Divided
    <3>3. Cardinality(d.deliveries) = 0
      BY <3>2, FS_EmptySet DEF NothingYet
    <3>4. d.bytes = 0 /\ d.stopped = FALSE
      BY <3>2 DEF NothingYet
    <3> QED
      BY <1>1, <1>9, <3>3, <3>4 DEF NoRoom
  <2>2. Deliver(d, r) = Left(d, r)
    BY <1>9 DEF Deliver
  <2> DEFINE f == Left(d, r)
  <2>3. /\ f.deliveries = d.deliveries /\ f.remaining = d.remaining \cup {r}
        /\ f.bytes = d.bytes /\ DOMAIN f = DOMAIN d
    BY <1>8 DEF Left
  <2>4. f.stuck = d.stuck
    BY <1>8 DEF Left
  <2> HIDE DEF f
  <2>5. d.deliveries = {} => f.stuck
    BY <2>1, <2>4 DEF Divided
  <2> QED
    BY <1>1, <1>5, <1>7, <1>8, <2>2, <2>3, <2>5 DEF Divided, f
<1>10. CASE ~NoRoom(d) /\ e = r.start
  <2>1. Deliver(d, r) = [Left(d, r) EXCEPT !.stuck = (d.bytes = 0)]
    BY <1>10 DEF Deliver, e
  <2> DEFINE f == [Left(d, r) EXCEPT !.stuck = (d.bytes = 0)]
  <2>2. /\ f.deliveries = d.deliveries /\ f.remaining = d.remaining \cup {r}
        /\ f.bytes = d.bytes /\ DOMAIN f = DOMAIN d
    BY <1>8 DEF Left
  <2>3. f.stuck = (d.bytes = 0)
    BY <1>8 DEF Left
  <2> HIDE DEF f
  <2>4. d.deliveries = {} => f.stuck
    BY <2>3 DEF Divided
  <2> QED
    BY <1>1, <1>5, <1>7, <1>8, <2>1, <2>2, <2>4 DEF Divided, f
<1>11. CASE ~NoRoom(d) /\ e # r.start
  <2> DEFINE f == [d EXCEPT !.deliveries = @ \cup {[r EXCEPT !.end = e]},
                            !.remaining = @ \cup rest,
                            !.bytes = @ + (e - r.start),
                            !.stopped = e < r.end]
  <2>1. Deliver(d, r) = f
    BY <1>11 DEF Deliver, e
  <2>2. /\ f.deliveries = d.deliveries \cup {[r EXCEPT !.end = e]}
        /\ f.remaining = d.remaining \cup rest
        /\ f.bytes = d.bytes + (e - r.start) /\ DOMAIN f = DOMAIN d
    BY <1>8
  <2> HIDE DEF f
  <2>3. f.bytes \in 0..MaxDeliveryBytes /\ f.deliveries # {}
    <3>1. f.bytes >= 0 /\ f.bytes <= MaxDeliveryBytes /\ f.bytes \in Int
      BY <1>1, <1>2, <1>3, <2>2
    <3>2. f.bytes \in 0..MaxDeliveryBytes
      BY <1>1, <3>1
    <3>3. f.deliveries # {}
      BY <2>2
    <3> QED
      BY <3>2, <3>3
  <2>4. e > r.start
    BY <1>2, <1>3, <1>11
  <2>5. \E cut2 \in [u -> Cuts] : CutBy(cut2, f.deliveries, f.remaining, u)
    <3>1. \E cut2 \in [u -> Cuts] :
            CutBy(cut2,
              d.deliveries \cup (IF e > r.start THEN {[r EXCEPT !.end = e]} ELSE {}),
              d.remaining \cup rest, u)
      BY <1>3, <1>4, CutExtends
    <3> HIDE DEF u, rest
    <3> QED
      BY <2>2, <2>4, <3>1
  <2> QED
    BY <1>5, <1>8, <2>1, <2>2, <2>3, <2>5 DEF Divided
<1> QED
  BY <1>9, <1>10, <1>11

LEMMA FoldDivides ==
  ASSUME NEW D \in SUBSET Pieces, IsFiniteSet(D), NEW g, g = Folded(g, D)
  PROVE  Divided(g[D], D)
<1> DEFINE bad == {n \in Nat : \E t \in SUBSET D : Cardinality(t) = n
                                                   /\ ~Divided(g[t], t)}
<1>1. bad = {}
  <2>1. SUFFICES ASSUME bad # {} PROVE FALSE
    OBVIOUS
  <2>2. PICK n \in bad : \A k \in bad : n <= k
    BY <2>1, LeastNumber
  <2>3. PICK t \in SUBSET D : Cardinality(t) = n /\ ~Divided(g[t], t)
    BY <2>2
  <2>4. IsFiniteSet(t)
    BY FS_Subset
  <2>5. g[t] = IF t = {} THEN NothingYet ELSE TakeLast(g, t)
    BY DEF Folded
  <2>6. CASE t = {}
    BY <2>3, <2>5, <2>6, NothingDivided
  <2>7. CASE t # {}
    <3> DEFINE r == Hindmost(t)
               u == t \ {r}
    <3>1. r \in t
      BY <2>4, <2>7, HindmostIn
    <3> HIDE DEF r
    <3>2. Cardinality(u) = n - 1 /\ Cardinality(u) \in Nat
      BY <2>3, <2>4, <3>1, FS_RemoveElement, FS_CardinalityType
    <3>3. n \in Nat /\ \A k \in bad : n <= k
      BY <2>2
    <3>4. Cardinality(u) \notin bad
      <4> HIDE DEF bad, u
      <4> QED
        BY <3>2, <3>3
    <3>5. Divided(g[u], u)
      BY <3>2, <3>4
    <3>6. u \in SUBSET Pieces /\ r \in Pieces \ u /\ u \cup {r} = t
      BY <3>1
    <3>7. Divided(Deliver(g[u], r), u \cup {r})
      <4> HIDE DEF u
      <4> QED
        BY <3>5, <3>6, DeliverDivides
    <3>8. g[t] = Deliver(g[u], r)
      BY <2>5, <2>7 DEF TakeLast, r
    <3> QED
      BY <2>3, <3>6, <3>7, <3>8
  <2> QED
    BY <2>6, <2>7
<1>2. Cardinality(D) \in Nat /\ Cardinality(D) \notin bad
  BY <1>1, FS_CardinalityType
<1> QED
  BY <1>2

(* What planRereadDelivery promises, if it delivers anything at all.       *)
LEMMA DeliveryDivides ==
  ASSUME NEW D \in SUBSET Pieces, IsFiniteSet(D)
  PROVE  Divided(Delivery(D), D)
<1> DEFINE g == CHOOSE f : f = Folded(f, D)
<1>1. g = Folded(g, D)
  BY FoldExists
<1>2. Delivery(D) = g[D]
  BY DeliveryFolds
<1> HIDE DEF g
<1> QED
  BY <1>1, <1>2, FoldDivides

LEMMA LeftArePieces ==
  ASSUME NEW D \in SUBSET Pieces, IsFiniteSet(D),
         NEW cut \in [D -> Cuts], NEW delivered, NEW left,
         CutBy(cut, delivered, left, D)
  PROVE  left \in SUBSET Pieces /\ IsFiniteSet(left)
<1> DEFINE rest == {x \in D : cut[x] < x.end}
           f == [q \in rest |-> [q EXCEPT !.start = cut[q]]]
<1>1. left = {[q EXCEPT !.start = cut[q]] : q \in rest}
  BY DEF CutBy
<1>2. ASSUME NEW q \in rest PROVE [q EXCEPT !.start = cut[q]] \in Pieces
  BY DEF Pieces
<1>3. IsFiniteSet(rest)
  BY FS_Subset
<1>4. f \in Surjection(rest, left)
  BY <1>1 DEF Surjection
<1>5. IsFiniteSet(left)
  <2> HIDE DEF f, rest
  <2> QED
    BY <1>3, <1>4, FS_Surjection
<1> QED
  BY <1>1, <1>2, <1>5

-----------------------------------------------------------------------------
(* What the acceptances of a journal add up to.                            *)

LEMMA StepWrites ==
  ASSUME ReadingsInv, [Next]_vars
  PROVE  UNCHANGED <<journal, led>> \/ \E e : Written(e)
<1>1. CASE UNCHANGED vars
  BY <1>1 DEF vars
<1>2. CASE \E n \in Nodes, a \in Attempts : ReserveLeaf(n, a)
  BY <1>2, ReserveLeafStep
<1>3. CASE \E a \in Attempts : DispatchLeaf(a)
  BY <1>3, DispatchLeafStep
<1>4. CASE \E a \in Reserved(led) \ Reconciled(led) :
             \E note \in Asks[led.reservations[a].node] : Settle(a, note)
  BY <1>4, SettleWrites
<1>5. CASE BeginCall
  BY <1>5 DEF BeginCall, BeginDispatch, BeginPrepare, BeginAccept, Begin
<1>6. ASSUME NEW p \in Procs, Work(p)
      PROVE  UNCHANGED <<journal, led>> \/ \E e : Written(e)
  <2>1. CASE ClaimSlot(p) \/ ReusePackage(p) \/ LinkIntent(p) \/ SealPackage(p)
    BY <2>1 DEF ClaimSlot, ReusePackage, LinkIntent, SealPackage
  <2>2. CASE ReuseCandidate(p) \/ Mark(p) \/ Count(p) \/ Place(p)
    BY <2>2 DEF ReuseCandidate, Mark, Count, Place
  <2>3. CASE AppendReservation(p) \/ AppendDispatch(p) \/ AppendAcceptance(p)
    BY <2>3, AppendReservationStep, AppendDispatchStep, AppendAcceptanceStep
  <2> QED
    BY <1>6, <2>1, <2>2, <2>3 DEF Work
<1>7. ASSUME NEW p \in Procs, GiveUp(p) \/ Crash(p)
      PROVE  UNCHANGED <<journal, led>>
  BY <1>7 DEF GiveUp, Crash
<1> QED
  BY <1>1, <1>2, <1>3, <1>4, <1>5, <1>6, <1>7 DEF Next

LEMMA WrittenKept ==
  ASSUME ReadingsInv, NEW e, Written(e)
  PROVE  /\ Kept /\ journal' = Append(journal, e)
         /\ Len(journal) \in Nat /\ Len(journal') = Len(journal) + 1
         /\ DOMAIN journal = 1..Len(journal)
         /\ DOMAIN journal' = 1..(Len(journal) + 1)
         /\ \A k \in 1..Len(journal) : journal'[k] = journal[k]
         /\ journal'[Len(journal) + 1] = e
<1>1. IsJournal(journal) /\ journal' = Append(journal, e)
  BY DEF ReadingsInv, Types, Written, Appended
<1> QED
  BY <1>1, Longer, AppendKeeps DEF Written

LEMMA CommittedGrows ==
  ASSUME ReadingsInv, NEW e, Written(e)
  PROVE  Committed' = Committed \cup
           (IF e.type = "acceptance" THEN {e.bundle.record} ELSE {})
<1> DEFINE len == Len(journal)
           before == {j \in 1..len : journal[j].type = "acceptance"}
           after == {j \in 1..(len + 1) : journal'[j].type = "acceptance"}
<1>1. /\ len \in Nat /\ Len(journal') = len + 1
      /\ \A k \in 1..len : journal'[k] = journal[k]
      /\ journal'[len + 1] = e
  BY WrittenKept
<1>2. /\ Committed = {journal[i].bundle.record : i \in before}
      /\ Committed' = {journal'[i].bundle.record : i \in after}
  BY <1>1 DEF Committed, RecordsOf
<1> HIDE DEF len
<1>3. 1..(len + 1) = 1..len \cup {len + 1}
  BY <1>1
<1>4. after = before \cup (IF e.type = "acceptance" THEN {len + 1} ELSE {})
  BY <1>1, <1>3
<1>5. {journal'[i].bundle.record : i \in before} = Committed
  BY <1>1, <1>2
<1> HIDE DEF before, after
<1> QED
  BY <1>1, <1>2, <1>4, <1>5

(* The readings on record are those the journal accepted, one for a node;  *)
(* what they leave are requests of notes, and parts of requests.           *)
Understood ==
  /\ Accepted(led) = {r.node : r \in Committed}
  /\ \A r, s \in Committed : r.node = s.node => r = s
  /\ \A r \in Committed : /\ r.outstanding \in SUBSET Pieces
                          /\ IsFiniteSet(r.outstanding)
  /\ \A k \in DOMAIN journal : journal[k].type = "reconciliation" =>
       \E n \in Nodes : journal[k].note \in Asks[n]

LEMMA NoteAsked ==
  ASSUME ReadingsInv, Understood, NEW a, Succeeded(led, a)
  PROVE  \E n \in Nodes : NoteOf(journal, a) \in Asks[n]
<1>1. Journalled /\ a \in Reconciled(led)
  BY DEF ReadingsInv, Succeeded
<1>2. PICK k \in DOMAIN journal :
        journal[k].type = "reconciliation" /\ journal[k].attempt = a
  BY <1>1 DEF Journalled
<1>3. \A j \in DOMAIN journal :
        journal[j].type = "reconciliation" /\ journal[j].attempt = a => j = k
  BY <1>1, <1>2 DEF Journalled
<1>4. NoteOf(journal, a) = journal[k].note
  BY <1>2, <1>3, NoteIs
<1> QED
  BY <1>2, <1>4 DEF Understood

LEMMA OwnArePieces ==
  ASSUME NEW n \in Nodes, NEW m \in Nodes, NEW note \in Asks[m]
  PROVE  /\ OwnRequests(n, note) \in SUBSET Pieces
         /\ IsFiniteSet(OwnRequests(n, note))
<1> DEFINE own(w) == [origin |-> n, id |-> w.id, start |-> w.start, end |-> w.end]
           f == [w \in note |-> own(w)]
<1>1. note \subseteq Reread /\ IsFiniteSet(note) /\ \A w \in note : w.start < w.end
  BY PolicyShape
<1>2. \A w \in note : own(w) \in Pieces
  BY <1>1 DEF Pieces, Reread
<1>3. f \in Surjection(note, OwnRequests(n, note))
  BY DEF Surjection, OwnRequests
<1>4. IsFiniteSet(OwnRequests(n, note))
  <2> HIDE DEF f
  <2> QED
    BY <1>1, <1>3, FS_Surjection
<1> QED
  BY <1>2, <1>4 DEF OwnRequests

Current == {m \in Accepted(led) : \A k \in Accepted(led) : m \notin Parents[k]}

LEMMA InheritedIsLeft ==
  ASSUME Understood, NEW n \in Nodes,
         Parents[n] \subseteq MeaningOf(journal, Len(journal)).frontier
  PROVE  LET inherited == UNION {LeftBy[m] : m \in Parents[n]}
         IN  /\ Parents[n] \subseteq Current
             /\ InheritedBy(MeaningOf(journal, Len(journal)), n) = inherited
             /\ inherited \in SUBSET Pieces /\ IsFiniteSet(inherited)
<1> DEFINE sem == MeaningOf(journal, Len(journal))
           left == {LeftBy[m] : m \in Parents[n]}
<1>1. sem.frontier = Current
  BY DEF MeaningOf, Committed, Current, Understood
<1>2. \A m \in Accepted(led) :
        sem.accepted[m].outstanding = LeftBy[m] /\ LeftBy[m] \in SUBSET Pieces
          /\ IsFiniteSet(LeftBy[m])
  <2> SUFFICES ASSUME NEW m \in Accepted(led)
               PROVE  /\ sem.accepted[m].outstanding = LeftBy[m]
                      /\ LeftBy[m] \in SUBSET Pieces /\ IsFiniteSet(LeftBy[m])
    OBVIOUS
  <2>1. PICK r \in Committed : r.node = m
    BY DEF Understood
  <2>2. m \in Nodes /\ \A s \in Committed : s.node = m => s = r
    BY <2>1 DEF Understood, Accepted
  <2>3. LeftBy[m] = r.outstanding
    <3>1. {x \in Committed : x.node = m} = {r}
      BY <2>1, <2>2
    <3>2. LeftBy[m] = UNION {x.outstanding : x \in {r}}
      BY <2>2, <3>1 DEF LeftBy
    <3> QED
      BY <3>2
  <2>4. sem.accepted[m] = r
    <3>1. (CHOOSE x \in Committed : x.node = m) = r
      BY <2>1, <2>2
    <3>2. sem.accepted[m] = CHOOSE x \in Committed : x.node = m
      BY <2>1, <2>2 DEF MeaningOf, Committed
    <3> QED
      BY <3>1, <3>2
  <2> QED
    BY <2>1, <2>3, <2>4 DEF Understood
<1>3. Parents[n] \subseteq Accepted(led)
  BY <1>1 DEF Current
<1>4. InheritedBy(sem, n) = UNION left
  <2>1. {sem.accepted[m].outstanding : m \in Parents[n]} = left
    BY <1>2, <1>3
  <2> QED
    BY <2>1 DEF InheritedBy
<1>5. IsFiniteSet(left)
  <2> DEFINE f == [m \in Parents[n] |-> LeftBy[m]]
  <2>1. IsFiniteSet(Parents[n])
    BY PolicyShape, PolicyAssumption, FS_Subset
  <2>2. f \in Surjection(Parents[n], left)
    BY DEF Surjection
  <2> HIDE DEF f, left
  <2> QED
    BY <2>1, <2>2, FS_Surjection
<1>6. \A l \in left : IsFiniteSet(l) /\ l \in SUBSET Pieces
  BY <1>2, <1>3
<1>7. IsFiniteSet(UNION left)
  <2> HIDE DEF left
  <2> QED
    BY <1>5, <1>6, FS_UNION
<1> QED
  BY <1>1, <1>4, <1>6, <1>7

(* What an acceptance says of its reading.                                 *)
Takes(r) ==
  LET n == r.node
      note == NoteOf(journal, r.attempt)
      inherited == UNION {LeftBy[m] : m \in Parents[n]}
  IN  /\ n \in Nodes \ Accepted(led) /\ Parents[n] \subseteq Current
      /\ r.attempt \in Attempts /\ Succeeded(led, r.attempt)
      /\ \E m \in Nodes : note \in Asks[m]
      /\ inherited # {} => r.fulfilled # {}
      /\ \E cut \in [inherited -> Cuts], left \in SUBSET Pieces :
           /\ CutBy(cut, r.fulfilled, left, inherited) /\ IsFiniteSet(left)
           /\ r.outstanding = left \cup OwnRequests(n, note)

LEMMA AcceptanceTakes ==
  ASSUME ReadingsInv, Understood, NEW e, Written(e), e.type = "acceptance"
  PROVE  Takes(e.bundle.record)
<1> DEFINE r == e.bundle.record
           n == r.node
           a == r.attempt
           sem == MeaningOf(journal, Len(journal))
           note == NoteOf(journal, a)
           own == OwnRequests(n, note)
           inherited == UNION {LeftBy[m] : m \in Parents[n]}
<1>1. /\ n \in Nodes \ Accepted(led)
      /\ Reconstructible(led, journal, packages, sem, n, a)
      /\ r = ReadingOf(journal, packages, n, a)
  BY DEF Written, Founded
<1>2. /\ Succeeded(led, a) /\ a \in Attempts /\ Parents[n] \subseteq sem.frontier
      /\ ~Leaf(n) => Genuine(sem, packages[a].packet) /\ packages[a].packet.node = n
  BY <1>1 DEF Reconstructible, Succeeded, Reserved
<1>3. \E m \in Nodes : note \in Asks[m]
  BY <1>2, NoteAsked
<1>4. /\ Parents[n] \subseteq Current /\ InheritedBy(sem, n) = inherited
      /\ inherited \in SUBSET Pieces /\ IsFiniteSet(inherited)
  BY <1>1, <1>2, InheritedIsLeft
<1>5. /\ r.fulfilled = IF Leaf(n) THEN {} ELSE packages[a].packet.deliveries
      /\ r.outstanding = IF Leaf(n) THEN own ELSE packages[a].packet.remaining \cup own
  <2> DEFINE x == ReadingOf(journal, packages, n, a)
  <2>1. /\ x.fulfilled = IF Leaf(n) THEN {} ELSE packages[a].packet.deliveries
        /\ x.outstanding = IF Leaf(n) THEN own ELSE packages[a].packet.remaining \cup own
    BY DEF ReadingOf
  <2>2. r = x
    BY <1>1
  <2> HIDE DEF x, r
  <2> QED
    BY <2>1, <2>2
<1> HIDE DEF r, sem, own, inherited
<1>6. /\ inherited # {} => r.fulfilled # {}
      /\ \E cut \in [inherited -> Cuts], left \in SUBSET Pieces :
           /\ CutBy(cut, r.fulfilled, left, inherited) /\ IsFiniteSet(left)
           /\ r.outstanding = left \cup own
  <2>1. CASE Leaf(n)
    <3>1. inherited = {}
      BY <2>1 DEF inherited, Leaf
    <3> DEFINE cut == [q \in {} |-> 0]
    <3>2. cut \in [{} -> Cuts] /\ CutBy(cut, {}, {}, {})
      BY DEF CutBy
    <3>3. r.fulfilled = {} /\ r.outstanding = {} \cup own
      BY <1>5, <2>1
    <3>4. {} \in SUBSET Pieces /\ IsFiniteSet({})
      BY FS_EmptySet
    <3> QED
      BY <3>1, <3>2, <3>3, <3>4
  <2>2. CASE ~Leaf(n)
    <3> DEFINE packet == packages[a].packet
               d == Delivery(inherited)
    <3>1. packet # None /\ packet = PacketFor(sem, n)
      BY <1>2, <2>2 DEF Genuine
    <3>2. /\ ~d.stuck
          /\ packet = [node |-> n, deliveries |-> d.deliveries,
                       remaining |-> d.remaining]
      BY <1>4, <3>1 DEF PacketFor
    <3>3. packet.deliveries = d.deliveries /\ packet.remaining = d.remaining
      BY <3>2
    <3>4. Divided(d, inherited)
      BY <1>4, DeliveryDivides
    <3>5. r.fulfilled = d.deliveries /\ r.outstanding = d.remaining \cup own
      BY <1>5, <2>2, <3>3
    <3> HIDE DEF d, packet
    <3>6. inherited # {} => d.deliveries # {}
      BY <3>2, <3>4 DEF Divided
    <3>7. PICK cut \in [inherited -> Cuts] :
            CutBy(cut, d.deliveries, d.remaining, inherited)
      BY <3>4 DEF Divided
    <3>8. d.remaining \in SUBSET Pieces /\ IsFiniteSet(d.remaining)
      BY <1>4, <3>7, LeftArePieces
    <3> QED
      BY <3>5, <3>6, <3>7, <3>8
  <2> QED
    BY <2>1, <2>2
<1> QED
  BY <1>1, <1>2, <1>3, <1>4, <1>6 DEF Takes, r, own, inherited

LEMMA UnderstoodNext ==
  ASSUME ReadingsInv, Understood, [Next]_vars
  PROVE  Understood'
<1>1. CASE UNCHANGED <<journal, led>>
  BY <1>1 DEF Understood, Committed
<1>2. ASSUME NEW e, Written(e) PROVE Understood'
  <2> DEFINE r == e.bundle.record
  <2>1. Committed' = Committed \cup (IF e.type = "acceptance" THEN {r} ELSE {})
    BY <1>2, CommittedGrows
  <2>2. Accepted(led)' = Accepted(led) \cup
          (IF e.type = "acceptance" THEN {r.node} ELSE {})
    BY <1>2 DEF Written, Recorded
  <2>3. \A k \in DOMAIN journal' : journal'[k].type = "reconciliation" =>
          \E n \in Nodes : journal'[k].note \in Asks[n]
    <3>1. e.type = "reconciliation" => \E n \in Nodes : e.note \in Asks[n]
      BY <1>2 DEF Written, Founded
    <3>2. /\ DOMAIN journal = 1..Len(journal)
          /\ DOMAIN journal' = 1..(Len(journal) + 1) /\ Len(journal) \in Nat
          /\ \A k \in 1..Len(journal) : journal'[k] = journal[k]
          /\ journal'[Len(journal) + 1] = e
      BY <1>2, WrittenKept
    <3> QED
      BY <3>1, <3>2 DEF Understood
  <2> HIDE DEF r
  <2>4. CASE e.type # "acceptance"
    BY <2>1, <2>2, <2>3, <2>4 DEF Understood
  <2>5. CASE e.type = "acceptance"
    <3>1. Takes(r)
      BY <1>2, <2>5, AcceptanceTakes DEF r
    <3>2. r.node \in Nodes \ Accepted(led)
      BY <3>1 DEF Takes
    <3>3. r.outstanding \in SUBSET Pieces /\ IsFiniteSet(r.outstanding)
      <4> DEFINE own == OwnRequests(r.node, NoteOf(journal, r.attempt))
      <4>1. PICK left \in SUBSET Pieces :
              IsFiniteSet(left) /\ r.outstanding = left \cup own
        BY <3>1 DEF Takes
      <4>2. own \in SUBSET Pieces /\ IsFiniteSet(own)
        BY <3>1, <3>2, OwnArePieces DEF Takes
      <4> HIDE DEF own
      <4> QED
        BY <4>1, <4>2, FS_Union
    <3>4. Committed' = Committed \cup {r} /\ Accepted(led)' = Accepted(led) \cup {r.node}
      BY <2>1, <2>2, <2>5
    <3>5. \A s \in Committed : s.node # r.node
      BY <3>2 DEF Understood
    <3>6. Accepted(led)' = {s.node : s \in Committed'}
      BY <3>4 DEF Understood
    <3>7. \A s, t \in Committed' : s.node = t.node => s = t
      BY <3>4, <3>5 DEF Understood
    <3>8. \A s \in Committed' : s.outstanding \in SUBSET Pieces
                                /\ IsFiniteSet(s.outstanding)
      BY <3>3, <3>4 DEF Understood
    <3> QED
      BY <2>3, <3>6, <3>7, <3>8 DEF Understood
  <2> QED
    BY <2>4, <2>5
<1> QED
  BY <1>1, <1>2, StepWrites

LEMMA UnderstoodInit == Init => Understood
<1> SUFFICES ASSUME Init PROVE Understood
  OBVIOUS
<1>1. journal = <<>> /\ Len(journal) = 0 /\ DOMAIN journal = {}
  BY DEF Init
<1>2. Committed = {}
  BY <1>1 DEF Committed, RecordsOf
<1>3. Accepted(led) = {}
  BY DEF Init, Initial, Accepted
<1> QED
  BY <1>1, <1>2, <1>3 DEF Understood

(* A reading on record has succeeded, and keeps its note.                  *)
LEMMA CommittedSucceeded ==
  ASSUME ReadingsInv, NEW r \in Committed
  PROVE  r.attempt \in Attempts /\ Succeeded(led, r.attempt)
<1>1. Types /\ HistoryVerifies
  BY DEF ReadingsInv
<1>2. Len(journal) \in Nat /\ DOMAIN journal = 1..Len(journal)
  BY <1>1 DEF Types, IsJournal
<1>3. PICK k \in 1..Len(journal) :
        journal[k].type = "acceptance" /\ r = journal[k].bundle.record
  BY DEF Committed, RecordsOf
<1>4. journal[k].type \in EventTypes /\ EventVerifies(led, journal, packages, candidates, k)
  BY <1>1, <1>2, <1>3 DEF HistoryVerifies, Replays, EventTypes
<1>5. Reconstructible(led, journal, packages, MeaningOf(journal, k - 1),
                      r.node, r.attempt)
  BY <1>3, <1>4, EventCases
<1> QED
  BY <1>5 DEF Reconstructible, Succeeded, Reserved

LEMMA OthersMeanTheSame ==
  ASSUME ReadingsInv, NEW e, Written(e), e.type # "acceptance"
  PROVE  UNCHANGED <<Accepted(led), AskedFor, LeftBy, GivenOut>>
<1>1. Committed' = Committed
  BY CommittedGrows
<1>2. Accepted(led)' = Accepted(led)
  BY DEF Written, Recorded
<1>3. \A r \in Committed : NoteOf(journal, r.attempt)' = NoteOf(journal, r.attempt)
  BY CommittedSucceeded, WrittenKept DEF Kept
<1>4. AskedFor' = AskedFor
  <2>1. {OwnRequests(r.node, NoteOf(journal, r.attempt)') : r \in Committed}
          = {OwnRequests(r.node, NoteOf(journal, r.attempt)) : r \in Committed}
    BY <1>3
  <2> QED
    BY <1>1, <2>1 DEF AskedFor
<1>5. LeftBy' = LeftBy /\ GivenOut' = GivenOut
  BY <1>1 DEF LeftBy, GivenOut
<1> QED
  BY <1>2, <1>4, <1>5

LEMMA AcceptanceMeans ==
  ASSUME ReadingsInv, Understood, NEW e, Written(e), e.type = "acceptance",
         NEW r, r = e.bundle.record
  PROVE  /\ Accepted(led)' = Accepted(led) \cup {r.node}
         /\ AskedFor' = AskedFor \cup OwnRequests(r.node, NoteOf(journal, r.attempt))
         /\ LeftBy' = [LeftBy EXCEPT ![r.node] = r.outstanding]
         /\ GivenOut' = GivenOut \cup r.fulfilled
<1>1. Committed' = Committed \cup {r} /\ Accepted(led)' = Accepted(led) \cup {r.node}
  BY CommittedGrows DEF Written, Recorded
<1>2. Takes(r)
  BY AcceptanceTakes
<1>3. /\ r.node \in Nodes /\ \A s \in Committed : s.node # r.node
      /\ r.attempt \in Attempts /\ Succeeded(led, r.attempt)
  BY <1>2 DEF Takes, Understood
<1>4. \A s \in Committed \cup {r} :
        NoteOf(journal, s.attempt)' = NoteOf(journal, s.attempt)
  BY <1>3, CommittedSucceeded, WrittenKept DEF Kept
<1>5. AskedFor' = AskedFor \cup OwnRequests(r.node, NoteOf(journal, r.attempt))
  <2> DEFINE own(s) == OwnRequests(s.node, NoteOf(journal, s.attempt))
  <2>1. AskedFor' = UNION {OwnRequests(s.node, NoteOf(journal, s.attempt)') :
                             s \in Committed \cup {r}}
    BY <1>1 DEF AskedFor
  <2>2. {OwnRequests(s.node, NoteOf(journal, s.attempt)') : s \in Committed \cup {r}}
          = {own(s) : s \in Committed \cup {r}}
    BY <1>4
  <2>3. UNION {own(s) : s \in Committed \cup {r}}
          = (UNION {own(s) : s \in Committed}) \cup own(r)
    <3> HIDE DEF own
    <3> QED
      OBVIOUS
  <2> QED
    BY <2>1, <2>2, <2>3 DEF AskedFor
<1>6. LeftBy' = [LeftBy EXCEPT ![r.node] = r.outstanding]
  <2>1. ASSUME NEW n \in Nodes
        PROVE  LeftBy'[n] = IF n = r.node THEN r.outstanding ELSE LeftBy[n]
    <3>1. LeftBy'[n] = UNION {x.outstanding : x \in {y \in Committed \cup {r} : y.node = n}}
      BY <1>1 DEF LeftBy
    <3>2. CASE n = r.node
      <4>1. {y \in Committed \cup {r} : y.node = n} = {r}
        BY <1>3, <3>2
      <4>2. LeftBy'[n] = UNION {x.outstanding : x \in {r}}
        BY <3>1, <4>1
      <4> QED
        BY <3>2, <4>2
    <3>3. CASE n # r.node
      <4>1. {y \in Committed \cup {r} : y.node = n} = {y \in Committed : y.node = n}
        BY <3>3
      <4> QED
        BY <3>1, <3>3, <4>1 DEF LeftBy
    <3> QED
      BY <3>2, <3>3
  <2>2. LeftBy' = [n \in Nodes |-> LeftBy'[n]] /\ DOMAIN LeftBy = Nodes
    BY DEF LeftBy
  <2> QED
    BY <2>1, <2>2
<1>7. GivenOut' = GivenOut \cup r.fulfilled
  <2>1. GivenOut' = UNION {s.fulfilled : s \in Committed \cup {r}}
    BY <1>1 DEF GivenOut
  <2> QED
    BY <2>1 DEF GivenOut
<1> QED
  BY <1>1, <1>5, <1>6, <1>7

LEMMA AcceptanceAccepts ==
  ASSUME ReadingsInv, Understood, NEW e, Written(e), e.type = "acceptance"
  PROVE  Readings!Next
<1> DEFINE r == e.bundle.record
           n == r.node
           note == NoteOf(journal, r.attempt)
           inherited == Readings!Inherited(n)
           asks == UNION UNION {Asks[m] : m \in Nodes}
<1>1. Takes(r)
  BY AcceptanceTakes
<1>2. /\ Accepted(led)' = Accepted(led) \cup {n}
      /\ AskedFor' = AskedFor \cup OwnRequests(n, note)
      /\ LeftBy' = [LeftBy EXCEPT ![n] = r.outstanding]
      /\ GivenOut' = GivenOut \cup r.fulfilled
  BY AcceptanceMeans
<1> HIDE DEF r
<1>3. /\ n \in Nodes /\ n \notin Accepted(led) /\ Parents[n] \subseteq Current
      /\ inherited # {} => r.fulfilled # {}
  BY <1>1 DEF Takes, Readings!Inherited
<1>4. PICK m \in Nodes : note \in Asks[m]
  BY <1>1 DEF Takes
<1>5. PICK cut \in [inherited -> Cuts], left \in SUBSET Pieces :
        /\ CutBy(cut, r.fulfilled, left, inherited)
        /\ r.outstanding = left \cup OwnRequests(n, note)
  BY <1>1 DEF Takes, Readings!Inherited
<1>6. note \in SUBSET asks /\ \A v, w \in note : v.id = w.id => v = w
  BY <1>4, PolicyShape
<1> HIDE DEF n, note, inherited, asks
<1>7. /\ \A q \in inherited : q.start <= cut[q] /\ cut[q] <= q.end
      /\ r.fulfilled = {[q EXCEPT !.end = cut[q]] :
                          q \in {x \in inherited : cut[x] > x.start}}
      /\ left = {[q EXCEPT !.start = cut[q]] :
                   q \in {x \in inherited : cut[x] < x.end}}
  BY <1>5 DEF CutBy
<1>8. \A q \in inherited : q.start \in Nat /\ q.end \in Nat /\ cut[q] \in Nat
  <2>1. inherited \in SUBSET Pieces
    <3>1. \A m_1 \in Nodes : LeftBy[m_1] \in SUBSET Pieces
      BY DEF LeftBy, Understood
    <3>2. Parents[n] \subseteq Nodes
      BY <1>3, PolicyShape
    <3> QED
      BY <3>1, <3>2 DEF inherited, Readings!Inherited
  <2> QED
    BY <1>5, <2>1, PolicyShape DEF Pieces
<1>9. \A q \in inherited : cut[q] \in q.start .. q.end
  BY <1>7, <1>8
<1>10. cut \in [inherited -> UNION {q.start .. q.end : q \in inherited}]
  BY <1>5, <1>9
<1>11. inherited # {} => \E q \in inherited : cut[q] > q.start
  BY <1>3, <1>7
<1>12. Readings!Frontier = Current
  BY DEF Readings!Frontier, Current
<1>13. OwnRequests(n, note) = Readings!Own(n, note)
  BY DEF OwnRequests, Readings!Own
<1>14. LeftBy' = [LeftBy EXCEPT ![n] = Readings!Own(n, note) \cup left]
  <2>1. r.outstanding = Readings!Own(n, note) \cup left
    BY <1>5, <1>13
  <2> QED
    BY <1>2, <2>1
<1>15. \E wanted \in SUBSET asks :
       \E c \in [inherited -> UNION {q.start .. q.end : q \in inherited}] :
         /\ \A v, w \in wanted : v.id = w.id => v = w
         /\ \A q \in inherited : c[q] \in q.start .. q.end
         /\ inherited # {} => \E q \in inherited : c[q] > q.start
         /\ AskedFor' = AskedFor \cup Readings!Own(n, wanted)
         /\ GivenOut' = GivenOut \cup
              {[q EXCEPT !.end = c[q]] : q \in {x \in inherited : c[x] > x.start}}
         /\ LeftBy' = [LeftBy EXCEPT ![n] = Readings!Own(n, wanted) \cup
              {[q EXCEPT !.start = c[q]] : q \in {x \in inherited : c[x] < x.end}}]
  <2>1. /\ AskedFor' = AskedFor \cup Readings!Own(n, note)
        /\ GivenOut' = GivenOut \cup
             {[q EXCEPT !.end = cut[q]] : q \in {x \in inherited : cut[x] > x.start}}
        /\ LeftBy' = [LeftBy EXCEPT ![n] = Readings!Own(n, note) \cup
             {[q EXCEPT !.start = cut[q]] : q \in {x \in inherited : cut[x] < x.end}}]
    BY <1>2, <1>7, <1>13, <1>14
  <2> QED
    BY <1>6, <1>9, <1>10, <1>11, <2>1
<1>16. Readings!Accept(n)
  BY <1>2, <1>3, <1>12, <1>15 DEF Readings!Accept, asks, inherited
<1> QED
  BY <1>3, <1>16 DEF Readings!Next

LEMMA StepImplements ==
  ASSUME ReadingsInv, Understood, [Next]_vars
  PROVE  [Readings!Next]_(Readings!vars)
<1>1. CASE UNCHANGED <<journal, led>>
  BY <1>1 DEF Readings!vars, AskedFor, LeftBy, GivenOut, Committed
<1>2. ASSUME NEW e, Written(e) PROVE [Readings!Next]_(Readings!vars)
  <2>1. CASE e.type = "acceptance"
    BY <1>2, <2>1, AcceptanceAccepts
  <2>2. CASE e.type # "acceptance"
    BY <1>2, <2>2, OthersMeanTheSame DEF Readings!vars
  <2> QED
    BY <2>1, <2>2
<1> QED
  BY <1>1, <1>2, StepWrites

LEMMA InitImplements == Init => Readings!Init
<1> SUFFICES ASSUME Init PROVE Readings!Init
  OBVIOUS
<1>1. Committed = {}
  <2>1. journal = <<>> /\ Len(journal) = 0
    BY DEF Init
  <2> QED
    BY <2>1 DEF Committed, RecordsOf
<1>2. Accepted(led) = {}
  BY DEF Init, Initial, Accepted
<1>3. AskedFor = {} /\ GivenOut = {} /\ LeftBy = [n \in Nodes |-> {}]
  BY <1>1 DEF AskedFor, GivenOut, LeftBy
<1> QED
  BY <1>2, <1>3 DEF Readings!Init

(* However many coordinators there are and wherever they die, what they    *)
(* commit is what CommittedReadings allows (acceptCommittedReading over    *)
(* packetForReading and planRereadDelivery): a reading once, over parents  *)
(* in the frontier, each request its parents left cut in what the reader   *)
(* was given and what it leaves.                                           *)
THEOREM ReadingsImplemented == Spec => ImplementsReadings
<1>1. ReadingsInv /\ Understood /\ [Next]_vars => Understood'
  BY UnderstoodNext
<1>2. ReadingsInv /\ Understood /\ [Next]_vars => [Readings!Next]_(Readings!vars)
  BY StepImplements
<1> QED
  BY <1>1, <1>2, UnderstoodInit, InitImplements, ReadingsAlways, PTL
     DEF Spec, ImplementsReadings, Readings!Spec

Proved == INSTANCE CommittedReadingsProofs WITH
  Rereads <- UNION UNION {Asks[n] : n \in Nodes},
  Gone <- None,
  accepted <- Accepted(led), asked <- AskedFor,
  pending <- LeftBy, delivered <- GivenOut

\* A reread names bytes of a leaf, from its first to after its last, and no
\* sentinel is one: CommittedReadings' policy.
LEMMA PolicyFits == Readings!ReadingsAssumption
<1>1. \A w \in UNION UNION {Asks[n] : n \in Nodes} :
         w \in Reread /\ w.start < w.end
  BY PolicyShape
<1> QED
  BY <1>1, PolicyShape, PolicyAssumption DEF Readings!ReadingsAssumption, Reread

(* No byte that a note asked for again is lost, and none is given twice    *)
(* (pendingUnion, packetForReading): CommittedReadings' theorem, for the   *)
(* pieces that DerivedReadings computes from its journal.                  *)
THEOREM RereadsConserved == Spec => []Conserved
<1>1. Proved!ReadingsAssumption
  BY PolicyFits DEF Readings!ReadingsAssumption, Proved!ReadingsAssumption
<1>2. Readings!Init <=> Proved!Init
  BY DEF Readings!Init, Proved!Init
<1>3. [Readings!Next]_(Readings!vars) <=> [Proved!Next]_(Proved!vars)
  BY DEF Readings!Next, Proved!Next, Readings!vars, Proved!vars,
         Readings!Accept, Proved!Accept, Readings!Inherited, Proved!Inherited,
         Readings!Own, Proved!Own, Readings!Frontier, Proved!Frontier
<1>4. Proved!Conserved <=> Conserved
  BY DEF Conserved, Readings!Conserved, Proved!Conserved, Readings!Places,
         Proved!Places, Readings!Held, Proved!Held, Readings!Covers,
         Proved!Covers, Readings!Frontier, Proved!Frontier
<1>5. Proved!ReadingsAssumption /\ Proved!Spec => []Proved!Conserved
  BY Proved!NoByteLostOrReadTwice
<1> QED
  BY <1>1, <1>2, <1>3, <1>4, <1>5, ReadingsImplemented, PTL
     DEF ImplementsReadings, Readings!Spec, Proved!Spec
=============================================================================
