----------------------- MODULE ControllerLedgerProofs ------------------------
(***************************************************************************)
(* The controller's ledger keeps its promises for every policy, every set  *)
(* of attempts and every history of events.  One inductive invariant, in   *)
(* three parts:                                                            *)
(*   Chain     what each attempt, acceptance and finalization rests on;    *)
(*             only the latest attempt of a node may be open, and a        *)
(*             success stays the latest;                                   *)
(*   Frozen    what finalization leaves behind;                            *)
(*   Counting  the journal's length, from the sets its events filled.      *)
(***************************************************************************)
EXTENDS ControllerLedger, ControllerStateProofs, FiniteSetTheorems, TLAPS

Chain ==
  /\ led.dispatches \subseteq Reserved(led)
  /\ Reconciled(led) \subseteq Reserved(led)
  /\ \A a \in Reserved(led) :
       (a \notin Reconciled(led) \/ Succeeded(led, a)) =>
         led.latest[led.reservations[a].node] = a
  /\ \A n \in Accepted(led) :
       /\ n \notin Slots
       /\ Succeeded(led, led.acceptances[n].attempt)
       /\ led.reservations[led.acceptances[n].attempt].node = n
  /\ \A n \in Finalized(led) :
       /\ n \in Slots
       /\ Succeeded(led, led.finalizations[n].attempt)
       /\ led.reservations[led.finalizations[n].attempt].node = n
  /\ OnePendingDispatch

Counting ==
  /\ led.calls = Cardinality(Reserved(led))
  /\ led.sequence = Cardinality(Reserved(led)) + Cardinality(led.dispatches)
                    + Cardinality(Reconciled(led))
                    + Cardinality(Accepted(led)) + Cardinality(Finalized(led))
  /\ 3 * led.calls + TerminalCapacity <= MaxEvents
  /\ Version = 1 => Accepted(led) = {} /\ Finalized(led) = {}

IInv == TypeOK /\ Chain /\ FinalizedOwnerFrozen /\ Counting

-----------------------------------------------------------------------------
(* What the actions say, without the sets their inputs come from. *)

ReserveStep(a, r, now) ==
  /\ r \in Reservation /\ now \in Nat
  /\ ReservationLegal(led, a, r, now)
  /\ HasRoom(led) /\ led' = WithReservation(led, a, r, now)

DispatchStep(a, now) ==
  /\ now \in Nat /\ DispatchLegal(led, a, now)
  /\ HasRoom(led) /\ led' = WithDispatch(led, a, now)

ReconcileStep(a, e, now) ==
  /\ e \in Evidence /\ now \in Nat
  /\ ReconciliationLegal(led, a, e, now)
  /\ HasRoom(led) /\ led' = WithReconciliation(led, a, e, now)

AcceptStep(n, x, now) ==
  /\ x \in Acceptance /\ now \in Nat
  /\ AcceptanceLegal(led, n, x, now)
  /\ HasRoom(led) /\ led' = WithAcceptance(led, n, x, now)

FinalizeStep(n, f, now) ==
  /\ f \in Finalization /\ now \in Nat
  /\ FinalizationLegal(led, n, f, now)
  /\ HasRoom(led) /\ led' = WithFinalization(led, n, f, now)

LEMMA TimesAreNatural ==
  ASSUME TypeOK, NEW now \in Times PROVE now \in Nat
<1>1. led.clock \in Nat BY DEF TypeOK, State
<1>2. Horizon \in Nat BY RequestAssumption
<1> QED BY <1>1, <1>2, SMT DEF Times

LEMMA ReserveIsStep ==
  ASSUME TypeOK, NEW a \in Attempts, Reserve(a)
  PROVE  \E r \in Reservation, now \in Nat : ReserveStep(a, r, now)
<1>1. PICK now \in Times, n \in Nodes, i \in Inputs, m \in Spends, l \in Lives,
          p \in Attempts \cup {None}, root \in Nodes \cup {None},
          wait \in 0..Horizon :
        \E v \in Variants[n] :
          LET r == [node |-> n, input |-> i, output |-> v, spend |-> m,
                    until |-> now + l, predecessor |-> p, notBefore |-> wait,
                    root |-> root]
          IN /\ ReservationLegal(led, a, r, now)
             /\ Append(WithReservation(led, a, r, now))
  BY DEF Reserve
<1>2. PICK v \in Variants[n] :
          LET r == [node |-> n, input |-> i, output |-> v, spend |-> m,
                    until |-> now + l, predecessor |-> p, notBefore |-> wait,
                    root |-> root]
          IN /\ ReservationLegal(led, a, r, now)
             /\ Append(WithReservation(led, a, r, now))
  BY <1>1
<1> DEFINE r == [node |-> n, input |-> i, output |-> v, spend |-> m,
                 until |-> now + l, predecessor |-> p, notBefore |-> wait,
                 root |-> root]
<1>3. now \in Nat BY TimesAreNatural
<1>4. i \in Nat /\ m \in Nat /\ l \in Nat BY RequestAssumption
<1>5. v \in Nat BY PolicyAssumption
<1>6. wait \in Nat BY RequestAssumption
<1>7. r \in Reservation BY <1>3, <1>4, <1>5, <1>6 DEF Reservation
<1>8. ReserveStep(a, r, now) BY <1>2, <1>3, <1>7 DEF ReserveStep, Append
<1> QED BY <1>3, <1>7, <1>8

LEMMA DispatchIsStep ==
  ASSUME TypeOK, NEW a \in Attempts, Dispatch(a)
  PROVE  \E now \in Nat : DispatchStep(a, now)
BY TimesAreNatural DEF Dispatch, DispatchStep, Append

LEMMA ReconcileIsStep ==
  ASSUME TypeOK, NEW a \in Attempts, Reconcile(a)
  PROVE  \E e \in Evidence, now \in Nat : ReconcileStep(a, e, now)
<1>1. PICK now \in Times, o \in Outcomes, wait \in Waits :
        /\ ReconciliationLegal(led, a, DatedEvidence(o, wait, now), now)
        /\ Append(WithReconciliation(led, a, DatedEvidence(o, wait, now), now))
  BY DEF Reconcile
<1>2. now \in Nat BY TimesAreNatural
<1>3. o \in Outcome /\ wait \in Nat BY RequestAssumption
<1>4. DatedEvidence(o, wait, now) \in Evidence
  BY <1>2, <1>3 DEF DatedEvidence, Evidence, Outcome
<1> QED BY <1>1, <1>2, <1>4 DEF ReconcileStep, Append

LEMMA AcceptIsStep ==
  ASSUME TypeOK, NEW n \in Nodes, Accept(n)
  PROVE  \E x \in Acceptance, now \in Nat : AcceptStep(n, x, now)
<1>1. PICK now \in Times, a \in Attempts, parents \in SUBSET Accepted(led) :
        /\ AcceptanceLegal(led, n, [attempt |-> a, parents |-> parents], now)
        /\ Append(WithAcceptance(led, n, [attempt |-> a, parents |-> parents],
                                 now))
  BY DEF Accept
<1>2. now \in Nat BY TimesAreNatural
<1>3. [attempt |-> a, parents |-> parents] \in Acceptance
  BY DEF Acceptance, Accepted
<1> QED BY <1>1, <1>2, <1>3 DEF AcceptStep, Append

LEMMA FinalizeIsStep ==
  ASSUME TypeOK, NEW n \in Nodes, Finalize(n)
  PROVE  \E f \in Finalization, now \in Nat : FinalizeStep(n, f, now)
<1>1. PICK now \in Times, a \in Attempts, root \in Nodes :
        /\ FinalizationLegal(led, n, [attempt |-> a, root |-> root], now)
        /\ Append(WithFinalization(led, n, [attempt |-> a, root |-> root], now))
  BY DEF Finalize
<1>2. now \in Nat BY TimesAreNatural
<1>3. [attempt |-> a, root |-> root] \in Finalization BY DEF Finalization
<1> QED BY <1>1, <1>2, <1>3 DEF FinalizeStep, Append

-----------------------------------------------------------------------------
(* The initial state. *)

LEMMA InitialInv == Init => IInv
<1> SUFFICES ASSUME Init PROVE IInv OBVIOUS
<1>1. TypeOK BY PolicyAssumption DEF Init, Initial, TypeOK, State
<1>2. /\ Reserved(led) = {} /\ Reconciled(led) = {} /\ Accepted(led) = {}
      /\ Finalized(led) = {} /\ led.dispatches = {}
      /\ led.calls = 0 /\ led.sequence = 0
  BY DEF Init, Initial, Reserved, Reconciled, Accepted, Finalized
<1>3. Chain BY <1>2 DEF Chain, OnePendingDispatch
<1>4. FinalizedOwnerFrozen BY <1>2 DEF FinalizedOwnerFrozen
<1>5. Counting
  <2>1. Cardinality({}) = 0 BY FS_EmptySet
  <2>2. Cardinality(Nodes) \in Nat BY PolicyAssumption, FS_CardinalityType
  <2>3. TerminalCapacity <= MaxEvents
    <3>1. MaxEvents \in Nat BY PolicyAssumption
    <3>2. CASE Version = 1 BY <3>1, <3>2 DEF TerminalCapacity
    <3>3. CASE Version # 1
      <4>1. Version > 1 BY <3>3, PolicyAssumption
      <4>2. MaxEvents >= Cardinality(Nodes) + 3 BY <4>1, PolicyAssumption
      <4> QED BY <2>2, <3>1, <3>3, <4>2 DEF TerminalCapacity
    <3> QED BY <3>2, <3>3
  <2> QED BY <1>2, <2>1, <2>2, <2>3 DEF Counting, TerminalCapacity
<1> QED BY <1>1, <1>3, <1>4, <1>5 DEF IInv

-----------------------------------------------------------------------------
(* What each step does to the sets the invariants speak of. *)

LEMMA ReserveView ==
  ASSUME TypeOK, NEW a \in Attempts, NEW r, NEW now, ReserveStep(a, r, now)
  PROVE  /\ TypeOK'
         /\ a \notin Reserved(led) /\ Reserved(led') = Reserved(led) \cup {a}
         /\ Reconciled(led') = Reconciled(led)
         /\ Accepted(led') = Accepted(led) /\ Finalized(led') = Finalized(led)
         /\ led'.reservations[a] = r
         /\ \A b \in Attempts \ {a} :
              led'.reservations[b] = led.reservations[b]
         /\ led'.latest = [led.latest EXCEPT ![r.node] = a]
         /\ led'.dispatches = led.dispatches
         /\ led'.reconciliations = led.reconciliations
         /\ led'.acceptances = led.acceptances
         /\ led'.finalizations = led.finalizations
         /\ led'.sequence = led.sequence + 1 /\ led'.calls = led.calls + 1
<1>1. /\ led \in State /\ r \in Reservation /\ now \in Nat
      /\ led' = WithReservation(led, a, r, now) /\ a \notin Reserved(led)
  BY DEF TypeOK, ReserveStep, ReservationLegal
<1>2. /\ led' \in State
      /\ led'.sequence = led.sequence + 1 /\ led'.calls = led.calls + 1
      /\ led'.reservations = [led.reservations EXCEPT ![a] = r]
      /\ led'.latest = [led.latest EXCEPT ![r.node] = a]
      /\ led'.dispatches = led.dispatches
      /\ led'.reconciliations = led.reconciliations
      /\ led'.acceptances = led.acceptances
      /\ led'.finalizations = led.finalizations
  BY <1>1, WithReservationState
<1>3. r # None BY <1>1, NoneAssumption
<1>4. led.reservations \in [Attempts -> Reservation \cup {None}]
  BY <1>1 DEF State
<1>5. Reserved(led') = Reserved(led) \cup {a}
  BY <1>2, <1>3, <1>4 DEF Reserved
<1> QED BY <1>1, <1>2, <1>4, <1>5 DEF TypeOK, Reconciled, Accepted, Finalized

LEMMA DispatchView ==
  ASSUME TypeOK, NEW a \in Attempts, NEW now, DispatchStep(a, now)
  PROVE  /\ TypeOK'
         /\ Reserved(led') = Reserved(led)
         /\ Reconciled(led') = Reconciled(led)
         /\ Accepted(led') = Accepted(led) /\ Finalized(led') = Finalized(led)
         /\ led'.reservations = led.reservations /\ led'.latest = led.latest
         /\ a \in Reserved(led) /\ a \notin led.dispatches
         /\ led.dispatches \subseteq Reconciled(led)
         /\ led'.dispatches = led.dispatches \cup {a}
         /\ led'.reconciliations = led.reconciliations
         /\ led'.acceptances = led.acceptances
         /\ led'.finalizations = led.finalizations
         /\ led'.sequence = led.sequence + 1 /\ led'.calls = led.calls
<1>1. /\ led \in State /\ now \in Nat
      /\ led' = WithDispatch(led, a, now) /\ a \in Reserved(led)
      /\ a \notin led.dispatches /\ led.dispatches \subseteq Reconciled(led)
  BY DEF TypeOK, DispatchStep, DispatchLegal, Dispatchable, DispatchPending
<1>2. /\ led' \in State
      /\ led'.sequence = led.sequence + 1 /\ led'.calls = led.calls
      /\ led'.dispatches = led.dispatches \cup {a}
      /\ led'.reservations = led.reservations /\ led'.latest = led.latest
      /\ led'.reconciliations = led.reconciliations
      /\ led'.acceptances = led.acceptances
      /\ led'.finalizations = led.finalizations
  BY <1>1, WithDispatchState
<1> QED BY <1>1, <1>2 DEF TypeOK, Reserved, Reconciled, Accepted, Finalized

LEMMA ReconcileView ==
  ASSUME TypeOK, NEW a \in Attempts, NEW e, NEW now, ReconcileStep(a, e, now)
  PROVE  /\ TypeOK'
         /\ Reserved(led') = Reserved(led)
         /\ a \in Reserved(led) /\ a \notin Reconciled(led)
         /\ Reconciled(led') = Reconciled(led) \cup {a}
         /\ Accepted(led') = Accepted(led) /\ Finalized(led') = Finalized(led)
         /\ led'.reservations = led.reservations /\ led'.latest = led.latest
         /\ led'.dispatches = led.dispatches
         /\ \A b \in Attempts \ {a} :
              led'.reconciliations[b] = led.reconciliations[b]
         /\ led'.acceptances = led.acceptances
         /\ led'.finalizations = led.finalizations
         /\ led'.sequence = led.sequence + 1 /\ led'.calls = led.calls
<1>1. /\ led \in State /\ e \in Evidence /\ now \in Nat
      /\ led' = WithReconciliation(led, a, e, now)
      /\ a \in Reserved(led) /\ a \notin Reconciled(led)
  BY DEF TypeOK, ReconcileStep, ReconciliationLegal
<1>2. /\ led' \in State
      /\ led'.sequence = led.sequence + 1 /\ led'.calls = led.calls
      /\ led'.reconciliations = [led.reconciliations EXCEPT ![a] = e]
      /\ led'.dispatches = led.dispatches
      /\ led'.reservations = led.reservations /\ led'.latest = led.latest
      /\ led'.acceptances = led.acceptances
      /\ led'.finalizations = led.finalizations
  BY <1>1, WithReconciliationState
<1>3. e # None BY <1>1, NoneAssumption
<1>4. led.reconciliations \in [Attempts -> Evidence \cup {None}]
  BY <1>1 DEF State
<1>5. Reconciled(led') = Reconciled(led) \cup {a}
  BY <1>2, <1>3, <1>4 DEF Reconciled
<1> QED BY <1>1, <1>2, <1>4, <1>5 DEF TypeOK, Reserved, Accepted, Finalized

LEMMA AcceptView ==
  ASSUME TypeOK, NEW n \in Nodes, NEW x, NEW now, AcceptStep(n, x, now)
  PROVE  /\ TypeOK'
         /\ Reserved(led') = Reserved(led)
         /\ Reconciled(led') = Reconciled(led)
         /\ n \notin Accepted(led) /\ Accepted(led') = Accepted(led) \cup {n}
         /\ Finalized(led') = Finalized(led)
         /\ led'.reservations = led.reservations /\ led'.latest = led.latest
         /\ led'.dispatches = led.dispatches
         /\ led'.reconciliations = led.reconciliations
         /\ led'.acceptances[n] = x
         /\ \A m \in Nodes \ {n} : led'.acceptances[m] = led.acceptances[m]
         /\ led'.finalizations = led.finalizations
         /\ led'.sequence = led.sequence + 1 /\ led'.calls = led.calls
<1>1. /\ led \in State /\ x \in Acceptance /\ now \in Nat
      /\ led' = WithAcceptance(led, n, x, now) /\ n \notin Accepted(led)
  BY DEF TypeOK, AcceptStep, AcceptanceLegal
<1>2. /\ led' \in State
      /\ led'.sequence = led.sequence + 1 /\ led'.calls = led.calls
      /\ led'.acceptances = [led.acceptances EXCEPT ![n] = x]
      /\ led'.dispatches = led.dispatches
      /\ led'.reservations = led.reservations /\ led'.latest = led.latest
      /\ led'.reconciliations = led.reconciliations
      /\ led'.finalizations = led.finalizations
  BY <1>1, WithAcceptanceState
<1>3. x # None BY <1>1, NoneAssumption
<1>4. led.acceptances \in [Nodes -> Acceptance \cup {None}]
  BY <1>1 DEF State
<1>5. Accepted(led') = Accepted(led) \cup {n}
  BY <1>2, <1>3, <1>4 DEF Accepted
<1> QED BY <1>1, <1>2, <1>4, <1>5 DEF TypeOK, Reserved, Reconciled, Finalized

LEMMA FinalizeView ==
  ASSUME TypeOK, NEW n \in Nodes, NEW f, NEW now, FinalizeStep(n, f, now)
  PROVE  /\ TypeOK'
         /\ Reserved(led') = Reserved(led)
         /\ Reconciled(led') = Reconciled(led)
         /\ Accepted(led') = Accepted(led)
         /\ n \notin Finalized(led)
         /\ Finalized(led') = Finalized(led) \cup {n}
         /\ led'.reservations = led.reservations /\ led'.latest = led.latest
         /\ led'.dispatches = led.dispatches
         /\ led'.reconciliations = led.reconciliations
         /\ led'.acceptances = led.acceptances
         /\ led'.finalizations[n] = f
         /\ \A m \in Nodes \ {n} :
              led'.finalizations[m] = led.finalizations[m]
         /\ led'.sequence = led.sequence + 1 /\ led'.calls = led.calls
<1>1. /\ led \in State /\ f \in Finalization /\ now \in Nat
      /\ led' = WithFinalization(led, n, f, now) /\ n \notin Finalized(led)
  BY DEF TypeOK, FinalizeStep, FinalizationLegal
<1>2. /\ led' \in State
      /\ led'.sequence = led.sequence + 1 /\ led'.calls = led.calls
      /\ led'.finalizations = [led.finalizations EXCEPT ![n] = f]
      /\ led'.dispatches = led.dispatches
      /\ led'.reservations = led.reservations /\ led'.latest = led.latest
      /\ led'.reconciliations = led.reconciliations
      /\ led'.acceptances = led.acceptances
  BY <1>1, WithFinalizationState
<1>3. f # None BY <1>1, NoneAssumption
<1>4. led.finalizations \in [Nodes -> Finalization \cup {None}]
  BY <1>1 DEF State
<1>5. Finalized(led') = Finalized(led) \cup {n}
  BY <1>2, <1>3, <1>4 DEF Finalized
<1> QED BY <1>1, <1>2, <1>4, <1>5 DEF TypeOK, Reserved, Reconciled, Accepted

-----------------------------------------------------------------------------
(* Each event keeps the chain. *)

LEMMA ReserveChain ==
  ASSUME TypeOK, Chain, NEW a \in Attempts, NEW r, NEW now,
         ReserveStep(a, r, now)
  PROVE  Chain'
<1>0. /\ a \notin Reserved(led) /\ Reserved(led') = Reserved(led) \cup {a}
      /\ Reconciled(led') = Reconciled(led)
      /\ Accepted(led') = Accepted(led) /\ Finalized(led') = Finalized(led)
      /\ led'.reservations[a] = r
      /\ \A b \in Attempts \ {a} :
           led'.reservations[b] = led.reservations[b]
      /\ led'.latest = [led.latest EXCEPT ![r.node] = a]
      /\ led'.dispatches = led.dispatches
      /\ led'.reconciliations = led.reconciliations
      /\ led'.acceptances = led.acceptances
      /\ led'.finalizations = led.finalizations
  BY ReserveView
<1>1. r.node \in Nodes BY DEF ReserveStep, Reservation
<1>2. led.latest \in [Nodes -> Attempts \cup {None}] BY DEF TypeOK, State
<1>3. \A b \in Reserved(led) : Succeeded(led', b) <=> Succeeded(led, b)
  BY <1>0 DEF Succeeded
<1>4. ~Succeeded(led', a) BY <1>0 DEF Succeeded, Chain
<1>5. (led'.dispatches \subseteq Reserved(led'))
        /\ (Reconciled(led') \subseteq Reserved(led'))
  BY <1>0 DEF Chain
<1>6. \A b \in Reserved(led') :
        (b \notin Reconciled(led') \/ Succeeded(led', b)) =>
          led'.latest[led'.reservations[b].node] = b
  <2> SUFFICES ASSUME NEW b \in Reserved(led'),
                      b \notin Reconciled(led') \/ Succeeded(led', b)
               PROVE  led'.latest[led'.reservations[b].node] = b
    OBVIOUS
  <2>1. CASE b = a BY <2>1, <1>0, <1>1, <1>2
  <2>2. CASE b # a
    <3>1. b \in Reserved(led) /\ b \in Attempts /\ b # None
      BY <1>0, <2>2, PolicyAssumption DEF Reserved
    <3>2. led.latest[led.reservations[b].node] = b BY <1>0, <1>3, <3>1 DEF Chain
    <3>3. led'.reservations[b] = led.reservations[b] BY <1>0, <2>2, <3>1
    <3>4. led.reservations[b].node # r.node
      <4> SUFFICES ASSUME led.reservations[b].node = r.node PROVE FALSE
        OBVIOUS
      <4>1. b \in OfNode(led, r.node) BY <3>1 DEF OfNode
      <4>2. PredecessorAllows(led, r, now) BY DEF ReserveStep, ReservationLegal
      <4>3. r.predecessor # None BY <4>1, <4>2 DEF PredecessorAllows
      <4>4. /\ led.latest[r.node] = r.predecessor
            /\ r.predecessor \in Reconciled(led)
            /\ led.reconciliations[r.predecessor].class # "success"
        BY <4>2, <4>3 DEF PredecessorAllows
      <4>5. b = r.predecessor BY <3>2, <4>4
      <4> QED BY <1>0, <1>3, <3>1, <4>4, <4>5 DEF Succeeded
    <3> QED BY <1>0, <1>1, <1>2, <3>2, <3>3, <3>4
  <2> QED BY <2>1, <2>2
<1>7. \A b : Succeeded(led, b) =>
        Succeeded(led', b) /\ led'.reservations[b] = led.reservations[b]
  BY <1>0, <1>3 DEF Succeeded, Reserved
<1> QED BY <1>0, <1>5, <1>6, <1>7 DEF Chain, OnePendingDispatch

LEMMA DispatchChain ==
  ASSUME TypeOK, Chain, NEW a \in Attempts, NEW now, DispatchStep(a, now)
  PROVE  Chain'
<1> USE DispatchView
<1>1. \A b : Succeeded(led', b) <=> Succeeded(led, b) BY DEF Succeeded
<1>2. OnePendingDispatch' BY DEF OnePendingDispatch
<1> QED BY <1>1, <1>2 DEF Chain

LEMMA ReconcileChain ==
  ASSUME TypeOK, Chain, NEW a \in Attempts, NEW e, NEW now,
         ReconcileStep(a, e, now)
  PROVE  Chain'
<1> USE ReconcileView
<1>1. \A b \in Attempts \ {a} : Succeeded(led', b) <=> Succeeded(led, b)
  BY DEF Succeeded
<1>2. \A b : Succeeded(led, b) => Succeeded(led', b)
  BY <1>1 DEF Succeeded, Reserved
<1>3. \A b \in Reserved(led') :
        (b \notin Reconciled(led') \/ Succeeded(led', b)) =>
          led'.latest[led'.reservations[b].node] = b
  BY <1>1 DEF Chain, Reserved
<1>4. OnePendingDispatch' BY DEF OnePendingDispatch, Chain
<1> QED BY <1>2, <1>3, <1>4 DEF Chain

LEMMA AcceptChain ==
  ASSUME TypeOK, Chain, NEW n \in Nodes, NEW x, NEW now, AcceptStep(n, x, now)
  PROVE  Chain'
<1> USE AcceptView
<1>1. \A b : Succeeded(led', b) <=> Succeeded(led, b) BY DEF Succeeded
<1>2. /\ n \notin Slots /\ Succeeded(led, x.attempt)
      /\ led.reservations[x.attempt].node = n
  BY DEF AcceptStep, AcceptanceLegal
<1>3. OnePendingDispatch' BY DEF OnePendingDispatch, Chain
<1>4. \A m \in Accepted(led') :
        /\ m \notin Slots
        /\ Succeeded(led', led'.acceptances[m].attempt)
        /\ led'.reservations[led'.acceptances[m].attempt].node = m
  BY <1>1, <1>2 DEF Chain, Accepted
<1> QED BY <1>1, <1>3, <1>4 DEF Chain

LEMMA FinalizeChain ==
  ASSUME TypeOK, Chain, NEW n \in Nodes, NEW f, NEW now,
         FinalizeStep(n, f, now)
  PROVE  Chain'
<1> USE FinalizeView
<1>1. \A b : Succeeded(led', b) <=> Succeeded(led, b) BY DEF Succeeded
<1>2. /\ n \in Slots /\ Succeeded(led, f.attempt)
      /\ led.reservations[f.attempt].node = n
  BY DEF FinalizeStep, FinalizationLegal
<1>3. OnePendingDispatch' BY DEF OnePendingDispatch, Chain
<1>4. \A m \in Finalized(led') :
        /\ m \in Slots
        /\ Succeeded(led', led'.finalizations[m].attempt)
        /\ led'.reservations[led'.finalizations[m].attempt].node = m
  BY <1>1, <1>2 DEF Chain, Finalized
<1> QED BY <1>1, <1>3, <1>4 DEF Chain

-----------------------------------------------------------------------------
(* Each event leaves finalized owners frozen. *)

LEMMA ReserveFrozen ==
  ASSUME TypeOK, Chain, FinalizedOwnerFrozen, NEW a \in Attempts, NEW r,
         NEW now, ReserveStep(a, r, now)
  PROVE  FinalizedOwnerFrozen'
<1>1. /\ Reserved(led') = Reserved(led) \cup {a}
      /\ Reconciled(led') = Reconciled(led)
      /\ Accepted(led') = Accepted(led) /\ Finalized(led') = Finalized(led)
      /\ led'.reservations[a] = r
      /\ \A b \in Attempts \ {a} :
           led'.reservations[b] = led.reservations[b]
      /\ led'.acceptances = led.acceptances
      /\ led'.finalizations = led.finalizations
  BY ReserveView
<1>2. ~OwnerFinalized(led, OwnerOf[r.node])
  BY DEF ReserveStep, ReservationLegal
<1> SUFFICES ASSUME NEW n \in Finalized(led)
             PROVE  /\ OfOwner(led', OwnerOf[n]) \subseteq Reconciled(led)
                    /\ Frontier(led', OwnerOf[n])
                         = {led.finalizations[n].root}
  BY <1>1 DEF FinalizedOwnerFrozen
<1>3. OwnerOf[n] # OwnerOf[r.node] BY <1>2 DEF OwnerFinalized
<1>4. OfOwner(led', OwnerOf[n]) \subseteq OfOwner(led, OwnerOf[n])
  BY <1>1, <1>3 DEF OfOwner, Reserved
<1>5. Frontier(led', OwnerOf[n]) = Frontier(led, OwnerOf[n])
  BY <1>1 DEF Frontier
<1> QED BY <1>4, <1>5 DEF FinalizedOwnerFrozen

LEMMA DispatchFrozen ==
  ASSUME TypeOK, FinalizedOwnerFrozen, NEW a \in Attempts, NEW now,
         DispatchStep(a, now)
  PROVE  FinalizedOwnerFrozen'
BY DispatchView DEF FinalizedOwnerFrozen, OfOwner, Frontier

LEMMA ReconcileFrozen ==
  ASSUME TypeOK, FinalizedOwnerFrozen, NEW a \in Attempts, NEW e, NEW now,
         ReconcileStep(a, e, now)
  PROVE  FinalizedOwnerFrozen'
<1>1. /\ Reserved(led') = Reserved(led)
      /\ Reconciled(led) \subseteq Reconciled(led')
      /\ Accepted(led') = Accepted(led) /\ Finalized(led') = Finalized(led)
      /\ led'.reservations = led.reservations
      /\ led'.acceptances = led.acceptances
      /\ led'.finalizations = led.finalizations
  BY ReconcileView
<1>2. \A o : OfOwner(led', o) = OfOwner(led, o) BY <1>1 DEF OfOwner
<1>3. \A o : Frontier(led', o) = Frontier(led, o) BY <1>1 DEF Frontier
<1> QED BY <1>1, <1>2, <1>3 DEF FinalizedOwnerFrozen

LEMMA AcceptFrozen ==
  ASSUME TypeOK, FinalizedOwnerFrozen, NEW n \in Nodes, NEW x, NEW now,
         AcceptStep(n, x, now)
  PROVE  FinalizedOwnerFrozen'
<1>1. /\ Reserved(led') = Reserved(led) /\ Reconciled(led') = Reconciled(led)
      /\ Accepted(led') = Accepted(led) \cup {n}
      /\ Finalized(led') = Finalized(led)
      /\ led'.reservations = led.reservations
      /\ \A m \in Nodes \ {n} : led'.acceptances[m] = led.acceptances[m]
      /\ led'.finalizations = led.finalizations
  BY AcceptView
<1>2. ~OwnerFinalized(led, OwnerOf[n]) BY DEF AcceptStep, AcceptanceLegal
<1> SUFFICES ASSUME NEW k \in Finalized(led)
             PROVE  /\ OfOwner(led', OwnerOf[k]) \subseteq Reconciled(led)
                    /\ Frontier(led', OwnerOf[k])
                         = {led.finalizations[k].root}
  BY <1>1 DEF FinalizedOwnerFrozen
<1>3. OwnerOf[k] # OwnerOf[n] BY <1>2 DEF OwnerFinalized
<1>4. OfOwner(led', OwnerOf[k]) = OfOwner(led, OwnerOf[k])
  BY <1>1 DEF OfOwner
<1>5. {m \in Accepted(led') : OwnerOf[m] = OwnerOf[k]}
        = {m \in Accepted(led) : OwnerOf[m] = OwnerOf[k]}
  BY <1>1, <1>3
<1>6. \A m \in Accepted(led) : OwnerOf[m] = OwnerOf[k] =>
        led'.acceptances[m] = led.acceptances[m]
  BY <1>1, <1>3 DEF Accepted
<1>7. Frontier(led', OwnerOf[k]) = Frontier(led, OwnerOf[k])
  BY <1>5, <1>6 DEF Frontier
<1> QED BY <1>4, <1>7 DEF FinalizedOwnerFrozen

LEMMA FinalizeFrozen ==
  ASSUME TypeOK, FinalizedOwnerFrozen, NEW n \in Nodes, NEW f, NEW now,
         FinalizeStep(n, f, now)
  PROVE  FinalizedOwnerFrozen'
<1>1. /\ Reserved(led') = Reserved(led) /\ Reconciled(led') = Reconciled(led)
      /\ Accepted(led') = Accepted(led)
      /\ Finalized(led') = Finalized(led) \cup {n}
      /\ led'.reservations = led.reservations
      /\ led'.acceptances = led.acceptances
      /\ led'.finalizations[n] = f /\ n \notin Finalized(led)
      /\ \A m \in Nodes \ {n} :
           led'.finalizations[m] = led.finalizations[m]
  BY FinalizeView
<1>2. SoleFrontier(led, f.root, OwnerOf[n])
  BY DEF FinalizeStep, FinalizationLegal
<1> SUFFICES ASSUME NEW k \in Finalized(led')
             PROVE  /\ OfOwner(led, OwnerOf[k]) \subseteq Reconciled(led)
                    /\ Frontier(led, OwnerOf[k])
                         = {led'.finalizations[k].root}
  BY <1>1 DEF FinalizedOwnerFrozen, OfOwner, Frontier
<1>3. CASE k = n BY <1>1, <1>2, <1>3 DEF SoleFrontier
<1>4. CASE k # n
  <2>1. k \in Finalized(led) /\ k \in Nodes \ {n}
    BY <1>1, <1>4 DEF Finalized
  <2> QED BY <1>1, <2>1 DEF FinalizedOwnerFrozen
<1> QED BY <1>3, <1>4

-----------------------------------------------------------------------------
(* Each event is counted. *)

LEMMA Finite ==
  ASSUME TypeOK
  PROVE  /\ IsFiniteSet(Reserved(led)) /\ IsFiniteSet(led.dispatches)
         /\ IsFiniteSet(Reconciled(led))
         /\ IsFiniteSet(Accepted(led)) /\ IsFiniteSet(Finalized(led))
         /\ Cardinality(Reserved(led)) \in Nat
         /\ Cardinality(led.dispatches) \in Nat
         /\ Cardinality(Reconciled(led)) \in Nat
         /\ Cardinality(Accepted(led)) \in Nat
         /\ Cardinality(Finalized(led)) \in Nat
         /\ Cardinality(Nodes) \in Nat /\ MaxEvents \in Nat
         /\ TerminalCapacity \in Nat
<1>1. /\ Reserved(led) \subseteq Attempts /\ led.dispatches \subseteq Attempts
      /\ Reconciled(led) \subseteq Attempts
      /\ Accepted(led) \subseteq Nodes /\ Finalized(led) \subseteq Nodes
  BY DEF TypeOK, State, Reserved, Reconciled, Accepted, Finalized
<1>2. IsFiniteSet(Attempts) /\ IsFiniteSet(Nodes) BY PolicyAssumption
<1>3. /\ IsFiniteSet(Reserved(led)) /\ IsFiniteSet(led.dispatches)
      /\ IsFiniteSet(Reconciled(led))
      /\ IsFiniteSet(Accepted(led)) /\ IsFiniteSet(Finalized(led))
  BY <1>1, <1>2, FS_Subset
<1>4. Cardinality(Nodes) \in Nat BY <1>2, FS_CardinalityType
<1>5. /\ Cardinality(Reserved(led)) \in Nat
      /\ Cardinality(led.dispatches) \in Nat
      /\ Cardinality(Reconciled(led)) \in Nat
      /\ Cardinality(Accepted(led)) \in Nat
      /\ Cardinality(Finalized(led)) \in Nat
  BY <1>3, FS_CardinalityType
<1>6. MaxEvents \in Nat BY PolicyAssumption
<1>7. TerminalCapacity \in Nat BY <1>4 DEF TerminalCapacity
<1> QED BY <1>3, <1>4, <1>5, <1>6, <1>7

LEMMA ReserveCounted ==
  ASSUME TypeOK, Counting, NEW a \in Attempts, NEW r, NEW now,
         ReserveStep(a, r, now)
  PROVE  Counting'
<1>1. /\ a \notin Reserved(led) /\ Reserved(led') = Reserved(led) \cup {a}
      /\ Reconciled(led') = Reconciled(led)
      /\ Accepted(led') = Accepted(led) /\ Finalized(led') = Finalized(led)
      /\ led'.dispatches = led.dispatches
      /\ led'.sequence = led.sequence + 1 /\ led'.calls = led.calls + 1
  BY ReserveView
<1>2. Cardinality(Reserved(led')) = Cardinality(Reserved(led)) + 1
  BY <1>1, Finite, FS_AddElement
<1>3. 3 * (led.calls + 1) + TerminalCapacity <= MaxEvents
  BY DEF ReserveStep, ReservationLegal, WithinQuotas
<1> QED BY <1>1, <1>2, <1>3, Finite DEF Counting

LEMMA DispatchCounted ==
  ASSUME TypeOK, Counting, NEW a \in Attempts, NEW now, DispatchStep(a, now)
  PROVE  Counting'
<1>1. /\ Reserved(led') = Reserved(led) /\ Reconciled(led') = Reconciled(led)
      /\ Accepted(led') = Accepted(led) /\ Finalized(led') = Finalized(led)
      /\ a \notin led.dispatches
      /\ led'.dispatches = led.dispatches \cup {a}
      /\ led'.sequence = led.sequence + 1 /\ led'.calls = led.calls
  BY DispatchView
<1>2. Cardinality(led'.dispatches) = Cardinality(led.dispatches) + 1
  BY <1>1, Finite, FS_AddElement
<1> QED BY <1>1, <1>2, Finite DEF Counting

LEMMA ReconcileCounted ==
  ASSUME TypeOK, Counting, NEW a \in Attempts, NEW e, NEW now,
         ReconcileStep(a, e, now)
  PROVE  Counting'
<1>1. /\ Reserved(led') = Reserved(led) /\ led'.dispatches = led.dispatches
      /\ Accepted(led') = Accepted(led) /\ Finalized(led') = Finalized(led)
      /\ a \notin Reconciled(led)
      /\ Reconciled(led') = Reconciled(led) \cup {a}
      /\ led'.sequence = led.sequence + 1 /\ led'.calls = led.calls
  BY ReconcileView
<1>2. Cardinality(Reconciled(led')) = Cardinality(Reconciled(led)) + 1
  BY <1>1, Finite, FS_AddElement
<1> QED BY <1>1, <1>2, Finite DEF Counting

LEMMA AcceptCounted ==
  ASSUME TypeOK, Counting, NEW n \in Nodes, NEW x, NEW now,
         AcceptStep(n, x, now)
  PROVE  Counting'
<1>1. /\ Reserved(led') = Reserved(led) /\ led'.dispatches = led.dispatches
      /\ Reconciled(led') = Reconciled(led)
      /\ Finalized(led') = Finalized(led)
      /\ n \notin Accepted(led) /\ Accepted(led') = Accepted(led) \cup {n}
      /\ led'.sequence = led.sequence + 1 /\ led'.calls = led.calls
  BY AcceptView
<1>2. Cardinality(Accepted(led')) = Cardinality(Accepted(led)) + 1
  BY <1>1, Finite, FS_AddElement
<1>3. Version # 1 BY DEF AcceptStep, AcceptanceLegal
<1> QED BY <1>1, <1>2, <1>3, Finite DEF Counting

LEMMA FinalizeCounted ==
  ASSUME TypeOK, Counting, NEW n \in Nodes, NEW f, NEW now,
         FinalizeStep(n, f, now)
  PROVE  Counting'
<1>1. /\ Reserved(led') = Reserved(led) /\ led'.dispatches = led.dispatches
      /\ Reconciled(led') = Reconciled(led)
      /\ Accepted(led') = Accepted(led)
      /\ n \notin Finalized(led) /\ Finalized(led') = Finalized(led) \cup {n}
      /\ led'.sequence = led.sequence + 1 /\ led'.calls = led.calls
  BY FinalizeView
<1>2. Cardinality(Finalized(led')) = Cardinality(Finalized(led)) + 1
  BY <1>1, Finite, FS_AddElement
<1>3. n \in Slots BY DEF FinalizeStep, FinalizationLegal
<1>4. Version # 1 BY <1>3, PolicyAssumption
<1> QED BY <1>1, <1>2, <1>4, Finite DEF Counting

-----------------------------------------------------------------------------
(* The inductive invariant. *)

LEMMA StepInv == IInv /\ [Next]_led => IInv'
<1> SUFFICES ASSUME IInv, [Next]_led PROVE IInv'
  OBVIOUS
<1> USE DEF IInv
<1>1. ASSUME NEW a \in Attempts, Reserve(a) PROVE IInv'
  <2>1. PICK r \in Reservation, now \in Nat : ReserveStep(a, r, now)
    BY <1>1, ReserveIsStep
  <2> QED BY <2>1, ReserveView, ReserveChain, ReserveFrozen, ReserveCounted
<1>2. ASSUME NEW a \in Attempts, Dispatch(a) PROVE IInv'
  <2>1. PICK now \in Nat : DispatchStep(a, now) BY <1>2, DispatchIsStep
  <2> QED BY <2>1, DispatchView, DispatchChain, DispatchFrozen,
             DispatchCounted
<1>3. ASSUME NEW a \in Attempts, Reconcile(a) PROVE IInv'
  <2>1. PICK e \in Evidence, now \in Nat : ReconcileStep(a, e, now)
    BY <1>3, ReconcileIsStep
  <2> QED BY <2>1, ReconcileView, ReconcileChain, ReconcileFrozen,
             ReconcileCounted
<1>4. ASSUME NEW n \in Nodes, Accept(n) PROVE IInv'
  <2>1. PICK x \in Acceptance, now \in Nat : AcceptStep(n, x, now)
    BY <1>4, AcceptIsStep
  <2> QED BY <2>1, AcceptView, AcceptChain, AcceptFrozen, AcceptCounted
<1>5. ASSUME NEW n \in Nodes, Finalize(n) PROVE IInv'
  <2>1. PICK f \in Finalization, now \in Nat : FinalizeStep(n, f, now)
    BY <1>5, FinalizeIsStep
  <2> QED BY <2>1, FinalizeView, FinalizeChain, FinalizeFrozen,
             FinalizeCounted
<1>6. CASE UNCHANGED led
  BY <1>6 DEF TypeOK, Chain, FinalizedOwnerFrozen, Counting,
              OnePendingDispatch
<1> QED BY <1>1, <1>2, <1>3, <1>4, <1>5, <1>6 DEF Next

LEMMA Invariance == Spec => []IInv
BY InitialInv, StepInv, PTL DEF Spec

\* Every value of the ledger is a state of a controller: no event leaves a
\* total negative or a record in a place of another kind.
THEOREM LedgerTypeCorrect == Spec => []TypeOK
<1>1. IInv => TypeOK BY DEF IInv
<1> QED BY <1>1, Invariance, PTL

\* At most one attempt of a node is open, however its replays are reserved.
THEOREM NodesHaveOneOpenAttempt == Spec => []OneOpenAttempt
<1>1. IInv => OneOpenAttempt BY DEF IInv, Chain, OneOpenAttempt
<1> QED BY <1>1, Invariance, PTL

\* At most one dispatch of the whole controller is unreconciled.
THEOREM DispatchesAreSerial == Spec => []OnePendingDispatch
<1>1. IInv => OnePendingDispatch BY DEF IInv, Chain
<1> QED BY <1>1, Invariance, PTL

\* An accepted or composed node has no open attempt: it rests on a success,
\* and a success stays the node's latest attempt.
THEOREM FinishedNodesStayQuiet == Spec => []FinishedNodeQuiet
<1>1. IInv => FinishedNodeQuiet
  <2> SUFFICES ASSUME IInv, NEW n \in Accepted(led) \cup Finalized(led),
                      NEW b \in OfNode(led, n), b \notin Reconciled(led)
               PROVE  FALSE
    BY DEF FinishedNodeQuiet
  <2>1. b \in Reserved(led) /\ led.reservations[b].node = n BY DEF OfNode
  <2>2. led.latest[n] = b BY <2>1 DEF IInv, Chain
  <2>3. PICK c : Succeeded(led, c) /\ led.reservations[c].node = n
    BY DEF IInv, Chain
  <2>4. led.latest[n] = c BY <2>3 DEF IInv, Chain, Succeeded
  <2> QED BY <2>2, <2>3, <2>4 DEF Succeeded
<1> QED BY <1>1, Invariance, PTL

\* A finalized member reserves and accepts nothing more.
THEOREM FinalizedOwnersStayFrozen == Spec => []FinalizedOwnerFrozen
<1>1. IInv => FinalizedOwnerFrozen BY DEF IInv
<1> QED BY <1>1, Invariance, PTL

\* Reserving charges three records for each attempt and one for each node, and
\* that is enough: whatever happened, the records still owed fit the journal.
THEOREM JournalHasTerminalRoom == Spec => []TerminalRoom
<1>1. IInv => TerminalRoom
  <2> SUFFICES ASSUME IInv PROVE TerminalRoom OBVIOUS
  <2> DEFINE R == Reserved(led)
             D == led.dispatches
             C == Reconciled(led)
             A == Accepted(led)
             F == Finalized(led)
             U == R \ (D \cup C)
             E == R \ C
             M == Nodes \ (A \cup F)
  <2>1. TypeOK BY DEF IInv
  <2>2. D \subseteq R /\ C \subseteq R BY DEF IInv, Chain
  <2>3. A \subseteq Nodes /\ F \subseteq Nodes BY DEF Accepted, Finalized
  <2>4. A \cap F = {} BY DEF IInv, Chain
  <2>5. /\ IsFiniteSet(R) /\ IsFiniteSet(D) /\ IsFiniteSet(C)
        /\ IsFiniteSet(A) /\ IsFiniteSet(F) /\ IsFiniteSet(Nodes)
    BY <2>1, Finite, PolicyAssumption
  <2>6. /\ Cardinality(R) \in Nat /\ Cardinality(D) \in Nat
        /\ Cardinality(C) \in Nat /\ Cardinality(A) \in Nat
        /\ Cardinality(F) \in Nat /\ Cardinality(Nodes) \in Nat
        /\ MaxEvents \in Nat
    BY <2>1, Finite
  <2>7. Cardinality(E) = Cardinality(R) - Cardinality(C)
    <3>1. Cardinality(E) = Cardinality(R) - Cardinality(R \cap C)
      BY <2>5, FS_Difference
    <3>2. R \cap C = C BY <2>2
    <3> QED BY <3>1, <3>2
  <2>8. Cardinality(U) <= Cardinality(R) - Cardinality(D)
    <3>1. /\ IsFiniteSet(R \ D)
          /\ Cardinality(R \ D) = Cardinality(R) - Cardinality(R \cap D)
      BY <2>5, FS_Difference
    <3>2. R \cap D = D BY <2>2
    <3>3. U \subseteq R \ D OBVIOUS
    <3>4. Cardinality(U) <= Cardinality(R \ D) BY <3>1, <3>3, FS_Subset
    <3>5. Cardinality(R \ D) = Cardinality(R) - Cardinality(D)
      BY <3>1, <3>2
    <3>6. Cardinality(U) \in Nat BY <3>1, <3>3, FS_Subset, FS_CardinalityType
    <3> QED BY <3>4, <3>5, <3>6, <2>6
  <2>9. Cardinality(M) = Cardinality(Nodes) - Cardinality(A) - Cardinality(F)
    <3>1. Cardinality(A \cup F) = Cardinality(A) + Cardinality(F)
                                    - Cardinality(A \cap F)
      BY <2>5, FS_Union
    <3>2. Cardinality(A \cap F) = 0 BY <2>4, FS_EmptySet
    <3>3. Cardinality(M) = Cardinality(Nodes)
                           - Cardinality(Nodes \cap (A \cup F))
      BY <2>5, FS_Difference
    <3>4. Nodes \cap (A \cup F) = A \cup F BY <2>3
    <3>5. Cardinality(M) = Cardinality(Nodes) - Cardinality(A \cup F)
      BY <3>3, <3>4
    <3> QED BY <3>1, <3>2, <3>5, <2>6
  <2>10. Cardinality(U) \in Nat
    BY <2>5, FS_Subset, FS_CardinalityType
  <2>11. /\ led.calls = Cardinality(R)
         /\ led.sequence = Cardinality(R) + Cardinality(D) + Cardinality(C)
                           + Cardinality(A) + Cardinality(F)
         /\ 3 * led.calls + TerminalCapacity <= MaxEvents
         /\ Version = 1 => A = {} /\ F = {}
    BY DEF IInv, Counting
  <2> HIDE DEF R, D, C, A, F, U, E, M
  <2>12. Owed(led) = Cardinality(U) + Cardinality(E)
                     + (IF Version = 1 THEN 0 ELSE Cardinality(M))
    BY DEF Owed, R, D, C, A, F, U, E, M
  <2>13. CASE Version = 1
    <3>1. Cardinality(A) = 0 /\ Cardinality(F) = 0
      BY <2>11, <2>13, FS_EmptySet
    <3>2. TerminalCapacity = 0 BY <2>13 DEF TerminalCapacity
    <3> QED BY <3>1, <3>2, <2>6, <2>7, <2>8, <2>10, <2>11, <2>12, <2>13
            DEF TerminalRoom
  <2>14. CASE Version # 1
    <3>1. TerminalCapacity = Cardinality(Nodes)
      BY <2>14 DEF TerminalCapacity
    <3> QED BY <3>1, <2>6, <2>7, <2>8, <2>9, <2>10, <2>11, <2>12, <2>14
            DEF TerminalRoom
  <2> QED BY <2>13, <2>14
<1> QED BY <1>1, Invariance, PTL
=============================================================================
