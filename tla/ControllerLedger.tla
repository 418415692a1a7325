--------------------------- MODULE ControllerLedger --------------------------
(***************************************************************************)
(* What the council controller's journal promises, whoever writes it: its  *)
(* events as atomic steps.  Each action is one `type` of event `apply`     *)
(* accepts; callers are free to append any legal event at any time.        *)
(* StagedController, with its processes, files and crashes, is shown to    *)
(* implement this specification.                                           *)
(***************************************************************************)
EXTENDS ControllerState

CONSTANTS Inputs, Spends, Lives,  \* what callers ask for: token and spend
                                  \* bounds, and how long a quote stays valid
          Outcomes, Waits,        \* what evidence they bring, and the provider's
                                  \* Retry-After
          Horizon                 \* the last instant of the run

\* An outcome is evidence before it is dated.
Outcome == [class : Captured \cup Unfinished, captured : BOOLEAN,
            invalid : BOOLEAN, overrun : BOOLEAN]

ASSUME RequestAssumption ==
  /\ Inputs \subseteq Nat /\ Spends \subseteq Nat /\ Lives \subseteq Nat
  /\ Outcomes \subseteq Outcome /\ Waits \subseteq Nat
  /\ Horizon \in Nat

VARIABLE led

Init == led = Initial

Append(next) == HasRoom(led) /\ led' = next

Times == led.clock .. Horizon

\* The caller names its predecessor and a not-before time; the guard decides.
Reserve(a) ==
  \E now \in Times, n \in Nodes, i \in Inputs, m \in Spends, l \in Lives,
     p \in Attempts \cup {None}, root \in Nodes \cup {None},
     wait \in 0..Horizon :
   \E v \in Variants[n] :
    LET r == [node |-> n, input |-> i, output |-> v, spend |-> m,
              until |-> now + l, predecessor |-> p, notBefore |-> wait,
              root |-> root]
    IN /\ ReservationLegal(led, a, r, now)
       /\ Append(WithReservation(led, a, r, now))

Dispatch(a) ==
  \E now \in Times :
    /\ DispatchLegal(led, a, now)
    /\ Append(WithDispatch(led, a, now))

DatedEvidence(o, wait, now) ==
  [class |-> o.class, captured |-> o.captured, invalid |-> o.invalid,
   overrun |-> o.overrun, notBefore |-> now + wait, at |-> now]

\* A reconciliation, an acceptance and a finalization may come at or after the
\* deadline.
Reconcile(a) ==
  \E now \in Times, o \in Outcomes, wait \in Waits :
    LET e == DatedEvidence(o, wait, now)
    IN /\ ReconciliationLegal(led, a, e, now)
       /\ Append(WithReconciliation(led, a, e, now))

Accept(n) ==
  \E now \in Times, a \in Attempts, parents \in SUBSET Accepted(led) :
    LET x == [attempt |-> a, parents |-> parents]
    IN /\ AcceptanceLegal(led, n, x, now)
       /\ Append(WithAcceptance(led, n, x, now))

Finalize(n) ==
  \E now \in Times, a \in Attempts, root \in Nodes :
    LET f == [attempt |-> a, root |-> root]
    IN /\ FinalizationLegal(led, n, f, now)
       /\ Append(WithFinalization(led, n, f, now))

Next ==
  \/ \E a \in Attempts : Reserve(a) \/ Dispatch(a) \/ Reconcile(a)
  \/ \E n \in Nodes : Accept(n) \/ Finalize(n)

Spec == Init /\ [][Next]_led

-----------------------------------------------------------------------------
TypeOK == led \in State

\* Attempts of a node form one chain, and only its last may still be open: a
\* node never has two attempts that could both be dispatched, whatever order
\* its replays were reserved and reconciled in (checkReservation).
OneOpenAttempt ==
  \A a, b \in Reserved(led) \ Reconciled(led) :
    led.reservations[a].node = led.reservations[b].node => a = b

\* At most one dispatch is unreconciled: no call is started while an earlier
\* one could still overrun its bounds.
OnePendingDispatch ==
  \A a, b \in led.dispatches \ Reconciled(led) : a = b

\* What every reservation may still have to record: its dispatch and its
\* reconciliation, and one terminal record per node.
Owed(s) ==
  Cardinality(Reserved(s) \ (s.dispatches \cup Reconciled(s)))
  + Cardinality(Reserved(s) \ Reconciled(s))
  + (IF Version = 1 THEN 0
     ELSE Cardinality(Nodes \ (Accepted(s) \cup Finalized(s))))

\* The journal never runs out of records for work it has charged: every
\* reserved attempt can still be dispatched and reconciled, and every node
\* accepted or finalized ("reserve enough event capacity").
TerminalRoom == led.sequence + Owed(led) <= MaxEvents

\* Once a node's reading is accepted, or its composition finalized, none of
\* the node's attempts is open: nothing can be spent on finished work.
FinishedNodeQuiet ==
  \A n \in Accepted(led) \cup Finalized(led) :
    OfNode(led, n) \subseteq Reconciled(led)

\* "A finalized member cannot reserve or accept further work": all attempts of
\* a finalized owner stay reconciled, and the composition's root stays the
\* only reading of that owner nothing has consumed.
FinalizedOwnerFrozen ==
  \A n \in Finalized(led) :
    /\ OfOwner(led, OwnerOf[n]) \subseteq Reconciled(led)
    /\ Frontier(led, OwnerOf[n]) = {led.finalizations[n].root}

=============================================================================
