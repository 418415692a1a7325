------------------------ MODULE ControllerStateProofs ------------------------
(***************************************************************************)
(* Facts about a controller's state that every proof about its journal     *)
(* needs: how long a retry waits, what an event changes, and that what it  *)
(* leaves is a state.                                                      *)
(***************************************************************************)
EXTENDS ControllerState, WellFoundedInduction, TLAPS

\* Induction, said with a set.
LEMMA LeastNumber ==
  ASSUME NEW T \in SUBSET Nat, T # {}
  PROVE  \E n \in T : \A m \in T : n <= m
<1> DEFINE below == {x \in Nat \X Nat : x[1] < x[2]}
<1>1. IsWellFoundedOn(below, Nat)
  BY NatLessThanWellFounded, Zenon DEF OpToRel
<1> HIDE DEF below
<1>2. PICK n \in T : \A m \in T : <<m, n>> \notin below
  BY <1>1, WFMin
<1> USE DEF below
<1>3. ASSUME NEW m \in T PROVE n <= m
  <2>1. m \in Nat /\ n \in Nat /\ <<m, n>> \notin below
    BY <1>2
  <2> QED
    BY <2>1
<1> QED
  BY <1>3

-----------------------------------------------------------------------------
(* The retry delay: its recursion defines a function, and never exceeds     *)
(* what the policy allows.                                                  *)

Doubled(d) == MinOf(MaxDelay, 2 * d)

Delays == 0 .. MaxDelay

LEMMA DoubledIsDelay == \A d \in Delays : Doubled(d) \in Delays
  BY PolicyAssumption DEF Doubled, Delays, MinOf

\* The recursion's values up to n.
UpTo(n, g) ==
  /\ g \in [0..n -> Delays]
  /\ \A i \in 0..n : g[i] = IF i <= 1 THEN BaseDelay ELSE Doubled(g[i - 1])

LEMMA SomeUpTo == \A n \in Nat : \E g : UpTo(n, g)
<1> DEFINE T == {n \in Nat : ~ \E g : UpTo(n, g)}
<1>1. SUFFICES ASSUME T # {} PROVE FALSE
  OBVIOUS
<1>2. PICK n \in T : \A m \in T : n <= m
  BY <1>1, LeastNumber
<1>3. BaseDelay \in Delays
  BY PolicyAssumption DEF Delays
<1>4. CASE n = 0
  <2>1. UpTo(0, [i \in 0..0 |-> BaseDelay])
    BY <1>3 DEF UpTo
  <2> QED
    BY <1>2, <1>4, <2>1
<1>5. CASE n > 0
  <2>1. n \in Nat /\ n - 1 \in Nat /\ n - 1 \notin T
    BY <1>2, <1>5
  <2>2. PICK g : UpTo(n - 1, g)
    BY <2>1
  <2> DEFINE last == IF n <= 1 THEN BaseDelay ELSE Doubled(g[n - 1])
             h == [i \in 0..n |-> IF i = n THEN last ELSE g[i]]
  <2>3. /\ g \in [0..n - 1 -> Delays]
        /\ \A i \in 0..n - 1 :
             g[i] = IF i <= 1 THEN BaseDelay ELSE Doubled(g[i - 1])
    BY <2>2 DEF UpTo
  <2>4. last \in Delays
    BY <1>3, <1>5, <2>1, <2>3, DoubledIsDelay
  <2>5. h \in [0..n -> Delays]
    BY <2>1, <2>3, <2>4
  <2>6. ASSUME NEW i \in 0..n
        PROVE  h[i] = IF i <= 1 THEN BaseDelay ELSE Doubled(h[i - 1])
    <3>1. CASE i = n
      BY <2>1, <3>1, <1>5
    <3>2. CASE i # n
      BY <2>1, <2>3, <3>2
    <3> QED
      BY <3>1, <3>2
  <2>7. UpTo(n, h)
    BY <2>5, <2>6 DEF UpTo
  <2> QED
    BY <1>2, <2>7
<1> QED
  BY <1>2, <1>4, <1>5

LEMMA UpToAgree ==
  ASSUME NEW n \in Nat, NEW g, UpTo(n, g), NEW h, UpTo(n + 1, h)
  PROVE  g[n] = h[n]
<1> DEFINE T == {i \in 0..n : g[i] # h[i]}
<1>1. SUFFICES ASSUME T # {} PROVE FALSE
  OBVIOUS
<1>0. T \in SUBSET Nat
  OBVIOUS
<1>2. PICK i \in T : \A j \in T : i <= j
  BY <1>0, <1>1, LeastNumber
<1>3. /\ g[i] = IF i <= 1 THEN BaseDelay ELSE Doubled(g[i - 1])
      /\ h[i] = IF i <= 1 THEN BaseDelay ELSE Doubled(h[i - 1])
  BY <1>2 DEF UpTo
<1>4. CASE i <= 1
  BY <1>2, <1>3, <1>4
<1>5. CASE i > 1
  <2>1. i - 1 \in 0..n /\ i - 1 \notin T
    BY <1>2, <1>5
  <2> QED
    BY <1>2, <1>3, <1>5, <2>1
<1> QED
  BY <1>2, <1>4, <1>5

LEMMA RetryDelayRecursion ==
  RetryDelay = [count \in Nat |-> IF count <= 1 THEN BaseDelay
                                  ELSE MinOf(MaxDelay, 2 * RetryDelay[count - 1])]
<1> DEFINE G(n) == CHOOSE g : UpTo(n, g)
           F == [n \in Nat |-> G(n)[n]]
<1>1. \A n \in Nat : UpTo(n, G(n))
  BY SomeUpTo
<1> HIDE DEF G
<1>2. ASSUME NEW n \in Nat
      PROVE  F[n] = IF n <= 1 THEN BaseDelay ELSE Doubled(F[n - 1])
  <2>0. UpTo(n, G(n))
    BY <1>1
  <2>1. F[n] = IF n <= 1 THEN BaseDelay ELSE Doubled(G(n)[n - 1])
    BY <2>0 DEF UpTo
  <2>2. CASE n > 1
    <3>1. n - 1 \in Nat /\ (n - 1) + 1 = n
      BY <2>2
    <3>2. UpTo(n - 1, G(n - 1)) /\ UpTo((n - 1) + 1, G(n))
      BY <1>1, <3>1
    <3>3. G(n - 1)[n - 1] = G(n)[n - 1]
      BY <3>1, <3>2, UpToAgree
    <3> QED
      BY <2>1, <3>1, <3>3
  <2> QED
    BY <2>1, <2>2
<1> DEFINE step(f) == [count \in Nat |-> IF count <= 1 THEN BaseDelay
                                    ELSE MinOf(MaxDelay, 2 * f[count - 1])]
<1>3. F = step(F)
  <2>1. \A n \in Nat : F[n] = step(F)[n]
    BY <1>2 DEF Doubled
  <2>2. F = [n \in Nat |-> F[n]]
    OBVIOUS
  <2> HIDE DEF F
  <2> QED
    BY <2>1, <2>2
<1> HIDE DEF F
<1> QED
  BY <1>3 DEF RetryDelay

\* Doubling stops at the policy's longest delay.
LEMMA RetryDelayBounded == \A n \in Nat : RetryDelay[n] \in Delays
<1> DEFINE T == {n \in Nat : RetryDelay[n] \notin Delays}
<1>1. SUFFICES ASSUME T # {} PROVE FALSE
  OBVIOUS
<1>2. PICK n \in T : \A m \in T : n <= m
  BY <1>1, LeastNumber
<1>3. RetryDelay[n] = IF n <= 1 THEN BaseDelay ELSE Doubled(RetryDelay[n - 1])
  BY <1>2, RetryDelayRecursion DEF Doubled
<1>4. CASE n <= 1
  BY <1>2, <1>3, <1>4, PolicyAssumption DEF Delays
<1>5. CASE n > 1
  <2>1. n - 1 \in Nat /\ n - 1 \notin T
    BY <1>2, <1>5
  <2> QED
    BY <1>2, <1>3, <1>5, <2>1, DoubledIsDelay
<1> QED
  BY <1>2, <1>4, <1>5

-----------------------------------------------------------------------------
(* What each event changes, and that what it leaves is a state.  The new    *)
(* values are named first: the provers take a record's update apart best    *)
(* when its values are atoms.                                               *)

LEMMA DispatchUpdate ==
  ASSUME NEW s \in State, NEW q \in Nat, NEW t \in Nat,
         NEW d \in SUBSET Attempts
  PROVE  [s EXCEPT !.sequence = q, !.clock = t, !.dispatches = d] \in State
BY DEF State

LEMMA ReconciliationUpdate ==
  ASSUME NEW s \in State, NEW q \in Nat, NEW t \in Nat,
         NEW f \in [Attempts -> Evidence \cup {None}], NEW b \in BOOLEAN
  PROVE  [s EXCEPT !.sequence = q, !.clock = t, !.reconciliations = f,
                   !.stopped = b] \in State
BY DEF State

LEMMA AcceptanceUpdate ==
  ASSUME NEW s \in State, NEW q \in Nat, NEW t \in Nat,
         NEW f \in [Nodes -> Acceptance \cup {None}]
  PROVE  [s EXCEPT !.sequence = q, !.clock = t, !.acceptances = f] \in State
BY DEF State

LEMMA FinalizationUpdate ==
  ASSUME NEW s \in State, NEW q \in Nat, NEW t \in Nat,
         NEW f \in [Nodes -> Finalization \cup {None}]
  PROVE  [s EXCEPT !.sequence = q, !.clock = t, !.finalizations = f] \in State
BY DEF State

LEMMA WithReservationState ==
  ASSUME NEW s \in State, NEW a \in Attempts, NEW r \in Reservation,
         NEW now \in Nat
  PROVE  /\ WithReservation(s, a, r, now) \in State
         /\ LET t == WithReservation(s, a, r, now)
            IN /\ t.sequence = s.sequence + 1 /\ t.calls = s.calls + 1
               /\ t.reservations = [s.reservations EXCEPT ![a] = r]
               /\ t.latest = [s.latest EXCEPT ![r.node] = a]
               /\ t.dispatches = s.dispatches
               /\ t.reconciliations = s.reconciliations
               /\ t.acceptances = s.acceptances
               /\ t.finalizations = s.finalizations
<1>1. /\ r.node \in Nodes /\ r.input \in Nat /\ r.output \in Nat
      /\ r.spend \in Nat
  BY DEF Reservation
<1>2. /\ s.sequence + 1 \in Nat /\ s.calls + 1 \in Nat
      /\ s.input + r.input \in Nat /\ s.output + r.output \in Nat
      /\ s.spend + r.spend \in Nat
  BY <1>1 DEF State
<1>3. [s.reservations EXCEPT ![a] = r]
        \in [Attempts -> Reservation \cup {None}]
  BY DEF State
<1>4. [s.latest EXCEPT ![r.node] = a] \in [Nodes -> Attempts \cup {None}]
  BY <1>1 DEF State
<1> DEFINE q == s.sequence + 1
           f == [s.reservations EXCEPT ![a] = r]
           g == [s.latest EXCEPT ![r.node] = a]
           c == s.calls + 1
           i == s.input + r.input
           o == s.output + r.output
           m == s.spend + r.spend
           u == [s EXCEPT !.sequence = q, !.clock = now, !.reservations = f,
                          !.latest = g]
<1>5. /\ q \in Nat /\ c \in Nat /\ i \in Nat /\ o \in Nat /\ m \in Nat
      /\ f \in [Attempts -> Reservation \cup {None}]
      /\ g \in [Nodes -> Attempts \cup {None}]
  BY <1>2, <1>3, <1>4
<1>6. WithReservation(s, a, r, now) =
        [u EXCEPT !.calls = c, !.input = i, !.output = o, !.spend = m]
  BY DEF WithReservation
<1> HIDE DEF q, f, g, c, i, o, m
<1>7. /\ u \in State
      /\ u.sequence = q /\ u.reservations = f /\ u.latest = g
      /\ u.dispatches = s.dispatches
      /\ u.reconciliations = s.reconciliations
      /\ u.acceptances = s.acceptances
      /\ u.finalizations = s.finalizations
  BY <1>5 DEF u, State
<1> HIDE DEF u
<1>8. WithReservation(s, a, r, now) \in State
  BY <1>5, <1>6, <1>7, ZenonT(40) DEF State
<1>9. LET t == WithReservation(s, a, r, now)
      IN /\ t.sequence = q /\ t.calls = c
         /\ t.reservations = f /\ t.latest = g
         /\ t.dispatches = s.dispatches
         /\ t.reconciliations = s.reconciliations
         /\ t.acceptances = s.acceptances
         /\ t.finalizations = s.finalizations
  BY <1>5, <1>6, <1>7 DEF State
<1> USE DEF q, f, g, c
<1> QED BY <1>8, <1>9

LEMMA WithDispatchState ==
  ASSUME NEW s \in State, NEW a \in Attempts, NEW now \in Nat
  PROVE  /\ WithDispatch(s, a, now) \in State
         /\ LET t == WithDispatch(s, a, now)
            IN /\ t.sequence = s.sequence + 1 /\ t.calls = s.calls
               /\ t.dispatches = s.dispatches \cup {a}
               /\ t.reservations = s.reservations /\ t.latest = s.latest
               /\ t.reconciliations = s.reconciliations
               /\ t.acceptances = s.acceptances
               /\ t.finalizations = s.finalizations
<1>1. s.sequence + 1 \in Nat BY DEF State
<1>2. s.dispatches \cup {a} \in SUBSET Attempts BY DEF State
<1>3. WithDispatch(s, a, now) \in State
  BY <1>1, <1>2, DispatchUpdate DEF WithDispatch
<1> QED BY <1>3 DEF WithDispatch, State

LEMMA WithReconciliationState ==
  ASSUME NEW s \in State, NEW a \in Attempts, NEW e \in Evidence,
         NEW now \in Nat
  PROVE  /\ WithReconciliation(s, a, e, now) \in State
         /\ LET t == WithReconciliation(s, a, e, now)
            IN /\ t.sequence = s.sequence + 1 /\ t.calls = s.calls
               /\ t.reconciliations = [s.reconciliations EXCEPT ![a] = e]
               /\ t.dispatches = s.dispatches
               /\ t.reservations = s.reservations /\ t.latest = s.latest
               /\ t.acceptances = s.acceptances
               /\ t.finalizations = s.finalizations
<1>1. s.sequence + 1 \in Nat BY DEF State
<1>2. [s.reconciliations EXCEPT ![a] = e]
        \in [Attempts -> Evidence \cup {None}]
  BY DEF State
<1>3. (s.stopped \/ e.invalid \/ e.overrun) \in BOOLEAN BY DEF State, Evidence
<1>4. WithReconciliation(s, a, e, now) \in State
  BY <1>1, <1>2, <1>3, ReconciliationUpdate DEF WithReconciliation
<1> QED BY <1>4 DEF WithReconciliation, State

LEMMA WithAcceptanceState ==
  ASSUME NEW s \in State, NEW n \in Nodes, NEW x \in Acceptance,
         NEW now \in Nat
  PROVE  /\ WithAcceptance(s, n, x, now) \in State
         /\ LET t == WithAcceptance(s, n, x, now)
            IN /\ t.sequence = s.sequence + 1 /\ t.calls = s.calls
               /\ t.acceptances = [s.acceptances EXCEPT ![n] = x]
               /\ t.dispatches = s.dispatches
               /\ t.reservations = s.reservations /\ t.latest = s.latest
               /\ t.reconciliations = s.reconciliations
               /\ t.finalizations = s.finalizations
<1>1. s.sequence + 1 \in Nat BY DEF State
<1>2. [s.acceptances EXCEPT ![n] = x] \in [Nodes -> Acceptance \cup {None}]
  BY DEF State
<1>3. WithAcceptance(s, n, x, now) \in State
  BY <1>1, <1>2, AcceptanceUpdate DEF WithAcceptance
<1> QED BY <1>3 DEF WithAcceptance, State

LEMMA WithFinalizationState ==
  ASSUME NEW s \in State, NEW n \in Nodes, NEW f \in Finalization,
         NEW now \in Nat
  PROVE  /\ WithFinalization(s, n, f, now) \in State
         /\ LET t == WithFinalization(s, n, f, now)
            IN /\ t.sequence = s.sequence + 1 /\ t.calls = s.calls
               /\ t.finalizations = [s.finalizations EXCEPT ![n] = f]
               /\ t.dispatches = s.dispatches
               /\ t.reservations = s.reservations /\ t.latest = s.latest
               /\ t.reconciliations = s.reconciliations
               /\ t.acceptances = s.acceptances
<1>1. s.sequence + 1 \in Nat BY DEF State
<1>2. [s.finalizations EXCEPT ![n] = f]
        \in [Nodes -> Finalization \cup {None}]
  BY DEF State
<1>3. WithFinalization(s, n, f, now) \in State
  BY <1>1, <1>2, FinalizationUpdate DEF WithFinalization
<1> QED BY <1>3 DEF WithFinalization, State
=============================================================================
