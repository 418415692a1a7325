----------------------- MODULE StagedControllerProofs ------------------------
(***************************************************************************)
(* The staged council's commands, for every policy, every number of them   *)
(* and any number of crashes: they implement the controller's ledger, and  *)
(* calls, settlements and directories agree.  The inductive invariant says *)
(* of each command what its steps so far have established (Local), of the  *)
(* slot whose event is pending there (SlotHolds), of two commands what     *)
(* they never do at once (Apart), and of the journal against the           *)
(* directories what settling rests on (Settled).                           *)
(***************************************************************************)
EXTENDS StagedController, ControllerStateProofs, FiniteSetTheorems

-----------------------------------------------------------------------------
(* The program counters, by what they mean.                                *)

Requesting == {"decided", "priced", "reserving"}
Making == {"reserved", "made"}
Sent == {"authorized", "claiming", "claimed", "calling", "answered", "saved"}
Marking == {"capture", "marking", "marked", "linked", "recheck"}
Concluding == {"account", "append", "appending"}
Writing == {"reserving", "authorizing", "appending"}

Preparing == Requesting \cup Making
Invoking == {"started", "verified", "authorizing"} \cup Sent
Settling == {"review", "inspect", "evidence"} \cup Concluding

Findings == {"captured", "invalid_evidence", "incomplete", "not_dispatched"}

Counters == {"idle", "proved"} \cup Preparing \cup Invoking \cup Marking
              \cup Settling

Command ==
  [pc : Counters,
   op : {"prepare", "run", "reconcile", "accept", None},
   a : Attempts \cup {None}, n : Nodes \cup {None},
   head : Nat \cup {None}, at : Nat,
   todo : Reservation \cup Evidence \cup Acceptance \cup {None},
   seen : {"captured", "invalid_evidence", "incomplete", "not_dispatched",
           None},
   prior : Evidence \cup {None}, dispatched : BOOLEAN, ack : BOOLEAN]

Types ==
  /\ led \in State
  /\ slot.file \in {"absent", "torn", "open"}
  /\ result \in [Attempts -> Results \cup {None}]
  /\ calls \in [Attempts -> Nat]
  /\ now \in StartAt .. Horizon
  /\ proc \in [Procs -> Command]

-----------------------------------------------------------------------------
(* The attempt directories: their names come in one order, the first after  *)
(* the reservation, the claim after the dispatch, the artifacts after the   *)
(* answer.                                                                  *)

Stages ==
  {{}, {"directory"}, {"directory", "intent"},
   {"directory", "intent", "dispatch-part"},
   {"directory", "intent", "dispatch"},
   {"directory", "intent", "dispatch", "provenance"},
   {"directory", "intent", "dispatch", "provenance", "capture"}}

Directories ==
  /\ files \in [Attempts -> Stages]
  /\ \A a \in Attempts :
       /\ a \notin Reserved(led) => files[a] = {}
       /\ a \notin led.dispatches =>
            files[a] \subseteq {"directory", "intent"} /\ calls[a] = 0
       /\ calls[a] <= 1
       /\ "provenance" \in files[a] => result[a] # None

-----------------------------------------------------------------------------
(* What one command has established.                                        *)

OpFits(c) ==
  /\ c.pc = "idle" => c = Idle
  /\ c.pc \in Preparing => c.op = "prepare"
  /\ c.pc \in Invoking => c.op = "run"
  /\ c.pc \in Marking => c.op \in {"run", "reconcile"}
  /\ c.pc \in Settling \ {"appending"} => c.op = "reconcile"
  /\ c.pc = "appending" => c.op \in {"reconcile", "accept"}
  /\ c.pc = "proved" => c.op = "accept"
  /\ c.op \in {"prepare", "run", "reconcile"} => c.a \in Attempts
  /\ c.ack => c.op = "reconcile"

\* A reservation is what a caller may ask for, from when it was decided.
Requested(c) ==
  c.pc \in Requesting =>
    /\ c.todo \in Reservation
    /\ c.todo.input \in Inputs /\ c.todo.spend \in Spends
    /\ c.todo.output \in Variants[c.todo.node] /\ c.todo.root = None
    /\ \E l \in Lives : c.todo.until <= now + l

\* Only the command that reserved the attempt creates its directory.
Made(c) ==
  /\ c.pc \in Making => c.a \in Reserved(led)
  /\ c.pc = "reserved" => files[c.a] = {}
  /\ c.pc = "made" => files[c.a] = {"directory"}

\* From its dispatch to its artifacts an attempt is not settled.
SentHolds(c) ==
  /\ c.pc \in Sent => /\ c.a \in led.dispatches /\ c.a \notin Reconciled(led)
                      /\ "provenance" \notin files[c.a]
  /\ c.pc = "claiming" => "dispatch-part" \in files[c.a]
  /\ c.pc \in {"claimed", "calling", "answered", "saved"} =>
       "dispatch" \in files[c.a]
  /\ c.pc \in {"authorized", "claiming", "claimed"} => calls[c.a] = 0
  /\ c.pc \in {"answered", "saved"} => result[c.a] # None

\* What a reconciler read, saw and will append still holds.
ReviewHolds(c) ==
  c.op = "reconcile" /\ c.pc # "review" =>
    /\ c.prior # None => c.a \in Reconciled(led)
    /\ c.ack => (c.dispatched <=> c.a \in led.dispatches)

SeenHolds(c) ==
  /\ c.pc \in {"evidence"} \cup Marking => "provenance" \in files[c.a]
  /\ c.op = "reconcile" /\ c.pc \in Concluding =>
       /\ c.seen \in Findings
       /\ c.seen \in {"captured", "invalid_evidence"} =>
            "provenance" \in files[c.a]
       /\ c.seen = "captured" => "capture" \in files[c.a]

Concluded(c) ==
  c.op = "reconcile" /\ c.pc \in {"append", "appending"} =>
    /\ c.todo \in Evidence /\ c.todo.at = c.at /\ c.at <= now
    /\ LET o == OutcomeSeen(c)
       IN /\ c.todo.class = o.class /\ c.todo.captured = o.captured
          /\ c.todo.invalid = o.invalid /\ c.todo.overrun = o.overrun
    /\ c.prior = None =>
         /\ c.ack \/ c.seen \in {"captured", "invalid_evidence"}
         /\ \E wait \in Waits \cup Delays : c.todo.notBefore = c.at + wait

Accepting(c) ==
  c.op = "accept" => c.n \in Nodes /\ c.todo \in Acceptance

Local(c) == /\ OpFits(c) /\ Requested(c) /\ Made(c) /\ SentHolds(c)
            /\ ReviewHolds(c) /\ SeenHolds(c) /\ Concluded(c) /\ Accepting(c)

-----------------------------------------------------------------------------
(* The slot, two commands, and the journal.                                 *)

\* The event being written: legal in the journal it follows, which `next` is.
Pending(c, t, next) ==
  \/ /\ c.pc = "reserving" /\ ReservationLegal(led, c.a, c.todo, t)
     /\ \E l \in Lives : c.todo.until <= t + l
     /\ next = WithReservation(led, c.a, c.todo, t)
  \/ /\ c.pc = "authorizing" /\ DispatchLegal(led, c.a, t)
     /\ next = WithDispatch(led, c.a, t)
  \/ /\ c.pc = "appending" /\ c.op = "reconcile" /\ c.at = t
     /\ ReconciliationLegal(led, c.a, c.todo, t)
     /\ next = WithReconciliation(led, c.a, c.todo, t)
  \/ /\ c.pc = "appending" /\ c.op = "accept"
     /\ AcceptanceLegal(led, c.n, c.todo, t)
     /\ next = WithAcceptance(led, c.n, c.todo, t)

SlotHolds ==
  /\ \A p \in Procs :
       proc[p].pc \in Writing <=> slot.file = "open" /\ slot.by = p
  /\ slot.file = "open" =>
       /\ slot.by \in Procs /\ HasRoom(led)
       /\ \E t \in 0 .. now : Pending(proc[slot.by], t, slot.next)

Apart ==
  \A p, q \in Procs : proc[p].a = proc[q].a =>
    /\ proc[p].pc \in Sent /\ proc[q].pc \in Sent => p = q
    /\ proc[p].pc \in Making /\ proc[q].pc \in Making => p = q
    /\ ~(proc[p].op = "run" /\ proc[q].ack)

Settled ==
  /\ \A a, b \in led.dispatches \ Reconciled(led) : a = b
  /\ \A a \in Reconciled(led) :
       led.reconciliations[a].class = "not_dispatched" =>
         a \notin led.dispatches
  /\ SettledFromCapture

IInv == /\ Types /\ Directories /\ (\A p \in Procs : Local(proc[p]))
        /\ SlotHolds /\ Apart /\ Settled

-----------------------------------------------------------------------------
(* Steps that change one command and nothing the others rely on.            *)

LEMMA LocalSame ==
  ASSUME NEW c, UNCHANGED <<led, files, result, calls, now>>
  PROVE  Local(c)' <=> Local(c)
<1>1. OutcomeSeen(c)' = OutcomeSeen(c)
  BY DEF OutcomeSeen
<1> QED
  BY <1>1
  DEF Local, OpFits, Requested, Made, SentHolds, ReviewHolds, SeenHolds,
      Concluded, Accepting

\* Two commands stay apart when the one that moves keeps its distance.
LEMMA ApartStep ==
  ASSUME Apart, NEW p \in Procs, NEW c, proc \in [Procs -> Command],
         proc' = [proc EXCEPT ![p] = c],
         \A q \in Procs \ {p} : proc[q].a = c.a =>
           /\ ~(c.pc \in Sent /\ proc[q].pc \in Sent)
           /\ ~(c.pc \in Making /\ proc[q].pc \in Making)
           /\ ~(c.op = "run" /\ proc[q].ack)
           /\ ~(c.ack /\ proc[q].op = "run"),
         c.ack => c.op # "run"
  PROVE  Apart'
<1>1. proc'[p] = c /\ \A q \in Procs \ {p} : proc'[q] = proc[q]
  OBVIOUS
<1> SUFFICES ASSUME NEW x \in Procs, NEW y \in Procs, proc'[x].a = proc'[y].a
             PROVE  /\ proc'[x].pc \in Sent /\ proc'[y].pc \in Sent => x = y
                    /\ proc'[x].pc \in Making /\ proc'[y].pc \in Making
                         => x = y
                    /\ ~(proc'[x].op = "run" /\ proc'[y].ack)
  BY DEF Apart
<1>2. CASE x = p /\ y = p
  BY <1>1, <1>2
<1>3. CASE x = p /\ y # p
  BY <1>1, <1>3
<1>4. CASE x # p /\ y = p
  BY <1>1, <1>4
<1>5. CASE x # p /\ y # p
  BY <1>1, <1>5 DEF Apart
<1> QED
  BY <1>2, <1>3, <1>4, <1>5

\* Whatever a command does that writes nothing, it stays apart if it starts or
\* goes on as one that may.
LEMMA QuietStep ==
  ASSUME IInv, NEW p \in Procs, NEW c \in Command,
         proc' = [proc EXCEPT ![p] = c],
         UNCHANGED <<led, slot, files, result, calls, now>>,
         proc[p].pc \notin Writing, c.pc \notin Writing \cup Making,
         Local(c),
         c.pc \in Sent => proc[p].pc \in Sent /\ c.a = proc[p].a,
         c.op = "run" => \/ proc[p].op = "run" /\ c.a = proc[p].a
                         \/ ~Stopping(c.a),
         c.ack => \/ proc[p].ack /\ c.a = proc[p].a
                  \/ ~Executing(c.a)
  PROVE  IInv'
<1>1. /\ proc \in [Procs -> Command] /\ proc' \in [Procs -> Command]
      /\ proc'[p] = c /\ \A q \in Procs \ {p} : proc'[q] = proc[q]
  BY DEF IInv, Types
<1>2. Types'
  BY <1>1 DEF IInv, Types
<1>3. Directories'
  BY DEF IInv, Directories, Reserved
<1>4. ASSUME NEW q \in Procs PROVE Local(proc[q])'
  BY <1>1, LocalSame DEF IInv
<1>5. SlotHolds'
  BY <1>1 DEF IInv, SlotHolds, Pending
<1>6. Apart'
  <2>1. c.ack => c.op = "reconcile"
    BY DEF Local, OpFits
  <2> QED
    BY <1>1, <2>1, ApartStep DEF IInv, Apart, Stopping, Executing
<1>7. Settled'
  BY DEF IInv, Settled, SettledFromCapture, Reconciled
<1> QED
  BY <1>2, <1>3, <1>4, <1>5, <1>6, <1>7 DEF IInv

-----------------------------------------------------------------------------
(* The moves quiet steps make.                                              *)

Unmoved == UNCHANGED <<led, slot, files, result, calls, now>>

LEMMA IdleIsLocal == Idle \in Command /\ Local(Idle)
  BY StagedAssumption
  DEF Idle, Command, Counters, Local, OpFits, Requested, Made, SentHolds,
      ReviewHolds, SeenHolds, Concluded, Accepting, Requesting, Making, Sent,
      Marking, Concluding, Preparing, Invoking, Settling

LEMMA QuitQuietly ==
  ASSUME IInv, NEW p \in Procs, Quit(p), Unmoved, proc[p].pc \notin Writing
  PROVE  IInv'
<1>1. /\ Idle.pc \notin Writing \cup Making \cup Sent /\ ~Idle.ack
      /\ Idle.op # "run"
  BY StagedAssumption DEF Idle, Writing, Making, Sent
<1>2. proc' = [proc EXCEPT ![p] = Idle]
  BY DEF Quit
<1> QED
  BY <1>1, <1>2, IdleIsLocal, QuietStep DEF Unmoved

LEMMA GotoQuietly ==
  ASSUME IInv, NEW p \in Procs, NEW pc, Goto(p, pc), Unmoved,
         [proc[p] EXCEPT !.pc = pc] \in Command,
         Local([proc[p] EXCEPT !.pc = pc]),
         proc[p].pc \notin Writing, pc \notin Writing \cup Making,
         pc \in Sent => proc[p].pc \in Sent
  PROVE  IInv'
<1> DEFINE c == [proc[p] EXCEPT !.pc = pc]
<1>1. proc \in [Procs -> Command]
  BY DEF IInv, Types
<1>2. proc' = [proc EXCEPT ![p] = c]
  BY <1>1 DEF Goto
<1>3. c.pc = pc /\ c.op = proc[p].op /\ c.a = proc[p].a /\ c.ack = proc[p].ack
  BY <1>1 DEF Command, Counters
<1>4. c \in Command /\ Local(c)
  OBVIOUS
<1> HIDE DEF c
<1> QED
  BY <1>2, <1>3, <1>4, QuietStep DEF Unmoved

\* A failed invocation goes on to reconcile; every other command ends.
LEMMA ToReviewQuietly ==
  ASSUME IInv, NEW p \in Procs, Unmoved, proc[p].pc \notin Writing,
         proc[p].op = "run",
         proc' = [proc EXCEPT ![p].pc = "review", ![p].op = "reconcile"]
  PROVE  IInv'
<1> DEFINE c == [proc[p] EXCEPT !.pc = "review", !.op = "reconcile"]
<1>1. proc \in [Procs -> Command] /\ proc[p] \in Command /\ Local(proc[p])
  BY DEF IInv, Types
<1>2. proc' = [proc EXCEPT ![p] = c]
  BY <1>1
<1>3. /\ c \in Command /\ c.pc = "review" /\ c.op = "reconcile"
      /\ c.a = proc[p].a /\ c.ack = proc[p].ack
  BY <1>1 DEF Command, Counters, Settling
<1>4. c.a \in Attempts /\ ~c.ack
  BY <1>1, <1>3 DEF Local, OpFits
<1> HIDE DEF c
<1>5. Local(c)
  BY <1>3, <1>4
  DEF Local, OpFits, Requested, Made, SentHolds, ReviewHolds, SeenHolds,
      Concluded, Accepting, Requesting, Making, Sent, Marking, Concluding,
      Preparing, Invoking, Settling
<1>6. c.pc \notin Writing \cup Making \cup Sent
  BY <1>3 DEF Writing, Making, Sent
<1> QED
  BY <1>2, <1>3, <1>4, <1>5, <1>6, QuietStep DEF Unmoved

LEMMA FailQuietly ==
  ASSUME IInv, NEW p \in Procs, Fail(p), Unmoved, proc[p].pc \notin Writing
  PROVE  IInv'
  BY QuitQuietly, ToReviewQuietly DEF Fail

-----------------------------------------------------------------------------
(* The quiet steps.                                                         *)

\* Along the marking, and back to the inspection.
LEMMA MarkingGoto ==
  ASSUME IInv, NEW p \in Procs,
         NEW pc \in {"marking", "marked", "linked", "recheck", "inspect"},
         proc[p].pc \in Marking, Goto(p, pc), Unmoved,
         pc = "inspect" => proc[p].op # "run"
  PROVE  IInv'
<1> DEFINE c == [proc[p] EXCEPT !.pc = pc]
<1>1. proc[p] \in Command /\ Local(proc[p])
  BY DEF IInv, Types
<1>2. /\ c \in Command /\ c.pc = pc /\ c.op = proc[p].op /\ c.a = proc[p].a
      /\ c.ack = proc[p].ack /\ c.prior = proc[p].prior
      /\ c.dispatched = proc[p].dispatched
  BY <1>1 DEF Command, Counters, Marking, Settling
<1>3. /\ proc[p].op \in {"run", "reconcile"} /\ proc[p].a \in Attempts
      /\ proc[p].ack => proc[p].op = "reconcile"
      /\ "provenance" \in files[proc[p].a]
      /\ ReviewHolds(proc[p]) /\ proc[p].pc # "review"
  BY <1>1 DEF Local, OpFits, SeenHolds, Marking
<1> HIDE DEF c
<1>4. ReviewHolds(c)
  BY <1>2, <1>3 DEF ReviewHolds
<1>5. Local(c)
  BY <1>2, <1>3, <1>4
  DEF Local, OpFits, Requested, Made, SentHolds, SeenHolds, Concluded,
      Accepting, Requesting, Making, Sent, Marking, Concluding, Preparing,
      Invoking, Settling
<1>6. pc \notin Writing \cup Making \cup Sent /\ proc[p].pc \notin Writing
  BY DEF Writing, Making, Sent, Marking
<1> QED
  BY <1>2, <1>5, <1>6, GotoQuietly DEF c

LEMMA MarkingQuiet ==
  ASSUME IInv, NEW p \in Procs,
         Capture(p) \/ MarkTemporary(p) \/ MarkUnlink(p) \/ Recheck(p)
  PROVE  IInv'
<1>1. ASSUME Unmoved, Back(p), proc[p].pc \in Marking PROVE IInv'
  <2>1. proc[p].pc \notin Writing
    BY <1>1 DEF Writing, Marking
  <2> QED
    BY <1>1, <2>1, ToReviewQuietly, MarkingGoto DEF Back
<1>2. ASSUME Unmoved, Fail(p), proc[p].pc \in Marking PROVE IInv'
  <2>1. proc[p].pc \notin Writing
    BY <1>2 DEF Writing, Marking
  <2> QED
    BY <1>2, <2>1, FailQuietly
<1>3. CASE Capture(p)
  BY <1>1, <1>2, <1>3, MarkingGoto DEF Capture, At, Unmoved, Marking
<1>4. CASE MarkTemporary(p)
  BY <1>4, MarkingGoto DEF MarkTemporary, At, Unmoved, Marking
<1>5. CASE MarkUnlink(p)
  BY <1>5, MarkingGoto DEF MarkUnlink, At, Unmoved, Marking
<1>6. CASE Recheck(p)
  BY <1>1, <1>2, <1>6 DEF Recheck, At, Unmoved, Marking
<1> QED
  BY <1>3, <1>4, <1>5, <1>6

LEMMA SaveTemporaryQuiet ==
  ASSUME IInv, NEW p \in Procs, SaveTemporary(p)
  PROVE  IInv'
<1> DEFINE c == [proc[p] EXCEPT !.pc = "saved"]
<1>1. proc[p] \in Command /\ Local(proc[p]) /\ proc[p].pc = "answered"
  BY DEF IInv, Types, SaveTemporary, At
<1>2. /\ c \in Command /\ c.pc = "saved" /\ c.op = proc[p].op
      /\ c.a = proc[p].a /\ c.ack = proc[p].ack
  BY <1>1 DEF Command, Counters, Invoking, Sent
<1> HIDE DEF c
<1>3. Local(c)
  BY <1>1, <1>2 DEF Local, OpFits, Requested, Made, SentHolds, ReviewHolds,
      SeenHolds, Concluded, Accepting, Requesting, Making, Sent, Marking,
      Concluding, Preparing, Invoking, Settling
<1> QED
  BY <1>1, <1>2, <1>3, GotoQuietly
  DEF c, SaveTemporary, Unmoved, Writing, Making, Sent

LEMMA GiveUpQuiet ==
  ASSUME IInv, NEW p \in Procs, GiveUp(p)
  PROVE  IInv'
  BY FailQuietly DEF GiveUp, Unmoved, Writing

\* A run starts on an attempt nobody declares stopped, and a reconciler
\* declares none stopped that runs.
LEMMA StartQuiet ==
  ASSUME IInv, NEW p \in Procs, NEW a \in Attempts, Run(p, a) \/ Reconcile(p, a)
  PROVE  IInv'
<1>1. proc[p] = Idle
  BY DEF IInv, Types, Local, OpFits, Run, Reconcile, At
<1>2. Idle \in Command /\ Idle.pc \notin Writing
  BY IdleIsLocal DEF Idle, Writing
<1>3. CASE Run(p, a)
  <2> DEFINE c == [Idle EXCEPT !.pc = "started", !.op = "run", !.a = a]
  <2>1. proc' = [proc EXCEPT ![p] = c] /\ ~Stopping(a) /\ Unmoved
    BY <1>1, <1>3 DEF Run, IInv, Types, Unmoved
  <2>2. /\ c \in Command /\ c.pc = "started" /\ c.op = "run" /\ c.a = a
        /\ ~c.ack
    BY <1>2 DEF Command, Counters, Invoking, Idle
  <2> HIDE DEF c
  <2>3. Local(c)
    BY <2>2, StagedAssumption
    DEF Local, OpFits, Requested, Made, SentHolds, ReviewHolds, SeenHolds,
        Concluded, Accepting, Requesting, Making, Sent, Marking, Concluding,
        Preparing, Invoking, Settling
  <2>4. c.pc \notin Writing \cup Making \cup Sent
    BY <2>2 DEF Writing, Making, Sent
  <2> QED
    BY <1>1, <1>2, <2>1, <2>2, <2>3, <2>4, QuietStep DEF Unmoved
<1>4. CASE Reconcile(p, a)
  <2>1. PICK ack \in BOOLEAN :
          /\ ack => ~Executing(a)
          /\ proc' = [proc EXCEPT ![p].pc = "review", ![p].op = "reconcile",
                                  ![p].a = a, ![p].ack = ack]
    BY <1>4 DEF Reconcile
  <2> DEFINE c == [Idle EXCEPT !.pc = "review", !.op = "reconcile", !.a = a,
                               !.ack = ack]
  <2>2. proc' = [proc EXCEPT ![p] = c] /\ Unmoved
    BY <1>1, <1>4, <2>1 DEF Reconcile, IInv, Types, Unmoved
  <2>3. /\ c \in Command /\ c.pc = "review" /\ c.op = "reconcile" /\ c.a = a
        /\ c.ack = ack
    BY <1>2 DEF Command, Counters, Settling, Idle
  <2> HIDE DEF c
  <2>4. Local(c)
    BY <2>3, StagedAssumption
    DEF Local, OpFits, Requested, Made, SentHolds, ReviewHolds, SeenHolds,
        Concluded, Accepting, Requesting, Making, Sent, Marking, Concluding,
        Preparing, Invoking, Settling
  <2>5. c.pc \notin Writing \cup Making \cup Sent
    BY <2>3 DEF Writing, Making, Sent
  <2> QED
    BY <1>1, <1>2, <2>1, <2>2, <2>3, <2>4, <2>5, QuietStep DEF Unmoved
<1> QED
  BY <1>3, <1>4

LEMMA ReverifyQuiet ==
  ASSUME IInv, NEW p \in Procs, Reverify(p)
  PROVE  IInv'
<1>1. /\ proc[p] \in Command /\ Local(proc[p]) /\ proc[p].pc = "started"
      /\ proc \in [Procs -> Command] /\ led \in State /\ Unmoved
  BY DEF IInv, Types, Reverify, At, Unmoved
<1>2. proc[p].pc \notin Writing
  BY <1>1 DEF Writing
<1>3. CASE Fail(p)
  BY <1>1, <1>2, <1>3, FailQuietly
<1>4. CASE ~Fail(p)
  <2> DEFINE h == IF Version = 1 THEN None ELSE led.sequence
             c == [proc[p] EXCEPT !.pc = "verified", !.head = h]
  <2>1. proc' = [proc EXCEPT ![p] = c]
    BY <1>1, <1>4 DEF Reverify
  <2>2. h \in Nat \cup {None}
    BY <1>1 DEF State
  <2> HIDE DEF h
  <2>3. /\ c \in Command /\ c.pc = "verified" /\ c.op = proc[p].op
        /\ c.a = proc[p].a /\ c.ack = proc[p].ack
    BY <1>1, <2>2 DEF Command, Counters, Invoking
  <2> HIDE DEF c
  <2>4. Local(c)
    BY <1>1, <2>3, StagedAssumption
    DEF Local, OpFits, Requested, Made, SentHolds, ReviewHolds, SeenHolds,
        Concluded, Accepting, Requesting, Making, Sent, Marking, Concluding,
        Preparing, Invoking, Settling
  <2>5. c.pc \notin Writing \cup Making \cup Sent
    BY <2>3 DEF Writing, Making, Sent
  <2> QED
    BY <1>1, <1>2, <2>1, <2>3, <2>4, <2>5, QuietStep
    DEF Unmoved, Local, OpFits
<1> QED
  BY <1>3, <1>4

\* The head a reservation will be compared with.
LEMMA SnapshotQuiet ==
  ASSUME IInv, NEW p \in Procs, Snapshot(p)
  PROVE  IInv'
<1>1. /\ proc[p] \in Command /\ Local(proc[p]) /\ proc[p].pc = "decided"
      /\ proc \in [Procs -> Command] /\ led \in State /\ Unmoved
  BY DEF IInv, Types, Snapshot, At, Unmoved
<1> DEFINE h == IF Version = 1 THEN None ELSE led.sequence
           c == [proc[p] EXCEPT !.pc = "priced", !.head = h]
<1>2. proc' = [proc EXCEPT ![p] = c]
  BY <1>1 DEF Snapshot
<1>3. h \in Nat \cup {None}
  BY <1>1 DEF State
<1> HIDE DEF h
<1>4. /\ c \in Command /\ c.pc = "priced" /\ c.op = proc[p].op
      /\ c.a = proc[p].a /\ c.ack = proc[p].ack /\ c.todo = proc[p].todo
  BY <1>1, <1>3 DEF Command, Counters, Preparing, Requesting
<1> HIDE DEF c
<1>5. Local(c)
  BY <1>1, <1>4, StagedAssumption
  DEF Local, OpFits, Requested, Made, SentHolds, ReviewHolds, SeenHolds,
      Concluded, Accepting, Requesting, Making, Sent, Marking, Concluding,
      Preparing, Invoking, Settling
<1>6. c.pc \notin Writing \cup Making \cup Sent /\ proc[p].pc \notin Writing
  BY <1>1, <1>4 DEF Writing, Making, Sent
<1>7. c.op = "prepare" /\ ~c.ack
  BY <1>1, <1>4 DEF Local, OpFits, Preparing, Requesting
<1> QED
  BY <1>1, <1>2, <1>4, <1>5, <1>6, <1>7, QuietStep DEF Unmoved

\* What a reconciler reads stays true until it appends: a settlement is never
\* taken back, and no dispatch joins one the operator declared stopped.
LEMMA ReviewQuiet ==
  ASSUME IInv, NEW p \in Procs, Review(p)
  PROVE  IInv'
<1>1. /\ proc[p] \in Command /\ Local(proc[p]) /\ proc[p].pc = "review"
      /\ proc \in [Procs -> Command] /\ led \in State /\ Unmoved
  BY DEF IInv, Types, Review, At, Unmoved
<1>2. proc[p].op = "reconcile" /\ proc[p].a \in Attempts
  BY <1>1 DEF Local, OpFits, Settling
<1> DEFINE e == led.reconciliations[proc[p].a]
           read(d) == [proc[p] EXCEPT !.pc = "inspect", !.head = None,
                                      !.prior = e, !.dispatched = d]
<1>3. proc' = [proc EXCEPT ![p] = read(proc[p].a \in led.dispatches)]
  BY <1>1 DEF Review
<1>4. led.reconciliations \in [Attempts -> Evidence \cup {None}]
  BY <1>1 DEF State
<1>5. e \in Evidence \cup {None} /\ (e # None => proc[p].a \in Reconciled(led))
  BY <1>2, <1>4 DEF Reconciled
<1>6. PICK d \in BOOLEAN : d <=> proc[p].a \in led.dispatches
  BY Zenon
<1>7. d = (proc[p].a \in led.dispatches)
  BY <1>6, SMT
<1> DEFINE c == read(d)
<1>8. proc' = [proc EXCEPT ![p] = c]
  BY <1>3, <1>7, Zenon
<1> HIDE DEF e
<1>9. /\ c \in Command /\ c.pc = "inspect" /\ c.op = proc[p].op
      /\ c.a = proc[p].a /\ (c.ack <=> proc[p].ack) /\ c.prior = e
      /\ (c.dispatched <=> d)
  BY <1>1, <1>5, ZenonT(40) DEF Command, Counters, Settling
<1> HIDE DEF c
<1>10. Local(c)
  BY <1>1, <1>2, <1>5, <1>9, <1>6, StagedAssumption
  DEF Local, OpFits, Requested, Made, SentHolds, ReviewHolds, SeenHolds,
      Concluded, Accepting, Requesting, Making, Sent, Marking, Concluding,
      Preparing, Invoking, Settling
<1>11. c.pc \notin Writing \cup Making \cup Sent /\ proc[p].pc \notin Writing
  BY <1>1, <1>9 DEF Writing, Making, Sent
<1> QED
  BY <1>1, <1>2, <1>9, <1>10, <1>11, <1>8, QuietStep DEF Unmoved

\* What an inspection sees is so.
LEMMA SeeQuiet ==
  ASSUME IInv, NEW p \in Procs, Unmoved,
         NEW what \in Findings,
         proc[p].pc \in {"inspect", "evidence"}, See(p, what),
         what \in {"captured", "invalid_evidence"} =>
           "provenance" \in files[proc[p].a],
         what = "captured" => "capture" \in files[proc[p].a]
  PROVE  IInv'
<1> DEFINE c == [proc[p] EXCEPT !.pc = "account", !.seen = what]
<1>1. /\ proc[p] \in Command /\ Local(proc[p])
      /\ proc \in [Procs -> Command]
  BY DEF IInv, Types
<1>2. proc' = [proc EXCEPT ![p] = c]
  BY <1>1 DEF See
<1>3. /\ c \in Command /\ c.pc = "account" /\ c.op = proc[p].op
      /\ c.a = proc[p].a /\ c.ack = proc[p].ack /\ c.prior = proc[p].prior
      /\ c.dispatched = proc[p].dispatched /\ c.seen = what
  BY <1>1, ZenonT(40) DEF Command, Counters, Settling, Concluding, Findings
<1> HIDE DEF c
<1>4. /\ c.op = "reconcile" /\ c.a \in Attempts /\ ReviewHolds(proc[p])
      /\ proc[p].pc # "review"
  BY <1>1, <1>3 DEF Local, OpFits, Settling
<1>5. ReviewHolds(c)
  BY <1>3, <1>4 DEF ReviewHolds
<1>6. Local(c)
  BY <1>3, <1>4, <1>5
  DEF Local, OpFits, Requested, Made, SentHolds, SeenHolds, Concluded,
      Accepting, Requesting, Making, Sent, Marking, Concluding, Preparing,
      Invoking, Settling
<1>7. c.pc \notin Writing \cup Making \cup Sent /\ proc[p].pc \notin Writing
  BY <1>3 DEF Writing, Making, Sent
<1> QED
  BY <1>2, <1>3, <1>4, <1>6, <1>7, QuietStep DEF Unmoved

\* Finding artifacts, and going to mark them.
LEMMA FindQuiet ==
  ASSUME IInv, NEW p \in Procs, Unmoved,
         NEW pc \in {"evidence", "capture"},
         proc[p].pc \in {"inspect", "evidence"}, Goto(p, pc),
         "provenance" \in files[proc[p].a]
  PROVE  IInv'
<1> DEFINE c == [proc[p] EXCEPT !.pc = pc]
<1>1. proc[p] \in Command /\ Local(proc[p])
  BY DEF IInv, Types
<1>2. /\ c \in Command /\ c.pc = pc /\ c.op = proc[p].op /\ c.a = proc[p].a
      /\ (c.ack <=> proc[p].ack) /\ c.prior = proc[p].prior
      /\ (c.dispatched <=> proc[p].dispatched)
  BY <1>1 DEF Command, Counters, Marking, Settling
<1> HIDE DEF c
<1>3. /\ c.op = "reconcile" /\ c.a \in Attempts /\ ReviewHolds(proc[p])
      /\ proc[p].pc # "review"
  BY <1>1, <1>2 DEF Local, OpFits, Settling
<1>4. ReviewHolds(c)
  BY <1>2, <1>3 DEF ReviewHolds
<1>5. Local(c)
  BY <1>2, <1>3, <1>4
  DEF Local, OpFits, Requested, Made, SentHolds, SeenHolds, Concluded,
      Accepting, Requesting, Making, Sent, Marking, Concluding, Preparing,
      Invoking, Settling
<1>6. pc \notin Writing \cup Making \cup Sent /\ proc[p].pc \notin Writing
  BY DEF Writing, Making, Sent
<1> QED
  BY <1>2, <1>5, <1>6, GotoQuietly DEF c

\* What an inspection finds in the directory stays there.
LEMMA InspectQuiet ==
  ASSUME IInv, NEW p \in Procs, Inspect(p) \/ CaptureEvidence(p)
  PROVE  IInv'
<1>1. Unmoved /\ proc[p].pc \in {"inspect", "evidence"}
  BY DEF Inspect, CaptureEvidence, At, Unmoved
<1>2. proc[p].pc \notin Writing
  BY <1>1 DEF Writing
<1>3. CASE Inspect(p)
  BY <1>1, <1>2, <1>3, QuitQuietly, SeeQuiet, FindQuiet
  DEF Inspect, Findings
<1>4. CASE CaptureEvidence(p)
  <2>1. "provenance" \in files[proc[p].a]
    BY <1>4 DEF IInv, Local, SeenHolds, CaptureEvidence, At
  <2> QED
    BY <1>1, <1>2, <1>4, <2>1, QuitQuietly, SeeQuiet, FindQuiet
    DEF CaptureEvidence, Findings
<1> QED
  BY <1>3, <1>4

\* What a command has seen is an outcome.
LEMMA SeenIsOutcome ==
  ASSUME IInv, NEW c, Local(c), c.a \in Attempts, c.op = "reconcile",
         c.pc \in Concluding
  PROVE  /\ OutcomeSeen(c) \in Outcomes
         /\ c.seen = "captured" => OutcomeSeen(c) \in Results
<1>1. ASSUME c.seen = "captured" PROVE OutcomeSeen(c) \in Results
  <2>1. "provenance" \in files[c.a]
    BY <1>1 DEF Local, SeenHolds
  <2>2. result[c.a] \in Results
    BY <2>1 DEF IInv, Directories, Types
  <2> QED
    BY <1>1, <2>2 DEF OutcomeSeen
<1>2. ASSUME c.seen # "captured" PROVE OutcomeSeen(c) \in Outcomes
  BY <1>2, StagedAssumption DEF OutcomeSeen
<1> QED
  BY <1>1, <1>2, StagedAssumption

LEMMA OfNodeCounted ==
  ASSUME NEW s \in State, NEW n
  PROVE  RetryDelay[Cardinality(OfNode(s, n))] \in Delays
<1>1. OfNode(s, n) \subseteq Attempts
  BY DEF OfNode, Reserved
<1> QED
  BY <1>1, PolicyAssumption, FS_Subset, FS_CardinalityType, RetryDelayBounded

\* The evidence has the class of what was seen, and the operator's word where
\* nothing was.
LEMMA AccountQuiet ==
  ASSUME IInv, NEW p \in Procs, Account(p)
  PROVE  IInv'
<1> DEFINE o == OutcomeSeen(proc[p])
           dated(before) == [class |-> o.class, captured |-> o.captured,
                             invalid |-> o.invalid, overrun |-> o.overrun,
                             notBefore |-> before, at |-> now]
           before(wait) == IF proc[p].prior = None THEN now + wait
                           ELSE proc[p].prior.notBefore
<1>1. /\ proc[p] \in Command /\ Local(proc[p]) /\ proc[p].pc = "account"
      /\ proc \in [Procs -> Command] /\ led \in State /\ Unmoved
  BY DEF IInv, Types, Account, At, Unmoved
<1>2. /\ proc[p].op = "reconcile" /\ proc[p].a \in Attempts
      /\ proc[p].pc \in Concluding /\ proc[p].pc \notin Writing
      /\ proc[p].seen \in Findings
  BY <1>1 DEF Local, OpFits, SeenHolds, Settling, Concluding, Writing
<1>3. now \in Nat /\ 0 \in Delays /\ Waits \subseteq Nat /\ Delays \subseteq Nat
  BY PolicyAssumption, StagedAssumption DEF IInv, Types, Delays
<1>4. PICK wait \in Waits \cup Delays :
        IF /\ proc[p].prior = None /\ ~proc[p].ack
           /\ proc[p].seen \in {"incomplete", "not_dispatched"}
        THEN Quit(p)
        ELSE proc' = [proc EXCEPT ![p].pc = "append",
                                  ![p].todo = dated(before(wait)),
                                  ![p].at = now]
  <2> DEFINE node == led.reservations[proc[p].a].node
  <2>1. RetryDelay[Cardinality(OfNode(led, node))] \in Delays
    BY <1>1, OfNodeCounted
  <2> QED
    BY <1>3, <2>1 DEF Account
<1>5. CASE Quit(p)
  BY <1>1, <1>2, <1>5, QuitQuietly
<1>6. CASE ~Quit(p)
  <2>1. o \in Outcomes
    BY <1>1, <1>2, SeenIsOutcome
  <2>2. /\ o.class \in Captured \cup Unfinished /\ o.captured \in BOOLEAN
        /\ o.invalid \in BOOLEAN /\ o.overrun \in BOOLEAN
    BY <2>1, StagedAssumption
  <2>3. before(wait) \in Nat
    BY <1>1, <1>3, <1>4 DEF Command, Counters, Evidence
  <2> DEFINE b == before(wait)
             e == dated(b)
  <2>4. proc[p].prior = None => b = now + wait
    OBVIOUS
  <2>5. b \in Nat
    BY <2>3
  <2> HIDE DEF b, o
  <2>6. /\ e \in Evidence /\ e.at = now /\ e.notBefore = b
        /\ e.class = o.class /\ e.captured = o.captured
        /\ e.invalid = o.invalid /\ e.overrun = o.overrun
    BY <1>3, <2>2, <2>5 DEF Evidence
  <2> HIDE DEF e
  <2> DEFINE c == [proc[p] EXCEPT !.pc = "append", !.todo = e, !.at = now]
  <2>7. proc' = [proc EXCEPT ![p] = c]
    BY <1>1, <1>4, <1>6 DEF e, b
  <2>8. /\ c \in Command /\ c.pc = "append" /\ c.op = proc[p].op
        /\ c.a = proc[p].a /\ c.ack = proc[p].ack /\ c.prior = proc[p].prior
        /\ c.dispatched = proc[p].dispatched /\ c.seen = proc[p].seen
        /\ c.todo = e /\ c.at = now
    BY <1>1, <1>3, <2>6, ZenonT(40) DEF Command, Counters, Settling, Concluding
  <2> HIDE DEF c
  <2>9. OutcomeSeen(c) = o
    BY <2>8 DEF OutcomeSeen, o
  <2>10. proc[p].prior = None =>
           /\ proc[p].ack \/ proc[p].seen \in {"captured", "invalid_evidence"}
           /\ \E w \in Waits \cup Delays : e.notBefore = now + w
    BY <1>2, <1>4, <1>6, <2>4, <2>6 DEF Findings
  <2>11. Concluded(c)
    BY <1>3, <2>6, <2>8, <2>9, <2>10 DEF Concluded
  <2>12. ReviewHolds(c)
    BY <1>1, <2>8 DEF Local, ReviewHolds
  <2>13. SeenHolds(c)
    BY <1>1, <1>2, <2>8 DEF Local, SeenHolds, Concluding, Marking
  <2>14. Local(c)
    BY <1>2, <2>8, <2>11, <2>12, <2>13
    DEF Local, OpFits, Requested, Made, SentHolds, Accepting, Requesting,
        Making, Sent, Marking, Concluding, Preparing, Invoking, Settling
  <2>15. c.pc \notin Writing \cup Making \cup Sent
    BY <2>8 DEF Writing, Making, Sent
  <2> QED
    BY <1>1, <1>2, <2>7, <2>8, <2>14, <2>15, QuietStep DEF Unmoved
<1> QED
  BY <1>5, <1>6

LEMMA VerifyReadingQuiet ==
  ASSUME IInv, NEW p \in Procs, NEW n \in Nodes, VerifyReading(p, n)
  PROVE  IInv'
<1>1. /\ proc[p] = Idle /\ proc \in [Procs -> Command] /\ led \in State
      /\ Unmoved
  BY DEF IInv, Types, Local, OpFits, VerifyReading, At, Unmoved
<1>2. Idle \in Command /\ Idle.pc \notin Writing
  BY IdleIsLocal DEF Idle, Writing
<1>3. PICK a \in Attempts, parents \in SUBSET Accepted(led) :
        proc' = [proc EXCEPT ![p].pc = "proved", ![p].op = "accept",
                     ![p].n = n, ![p].head = led.sequence,
                     ![p].todo = [attempt |-> a, parents |-> parents]]
  BY DEF VerifyReading
<1> DEFINE x == [attempt |-> a, parents |-> parents]
           h == led.sequence
           c == [Idle EXCEPT !.pc = "proved", !.op = "accept", !.n = n,
                             !.head = h, !.todo = x]
<1>4. proc' = [proc EXCEPT ![p] = c]
  BY <1>1, <1>3
<1>5. x \in Acceptance /\ h \in Nat
  BY <1>1 DEF Acceptance, Accepted, State
<1> HIDE DEF x, h
<1>6. /\ c \in Command /\ c.pc = "proved" /\ c.op = "accept" /\ c.n = n
      /\ c.todo = x /\ ~c.ack
  BY <1>2, <1>5 DEF Command, Counters, Idle
<1> HIDE DEF c
<1>7. Local(c)
  BY <1>5, <1>6 DEF Local, OpFits, Requested, Made, SentHolds, ReviewHolds,
      SeenHolds, Concluded, Accepting, Requesting, Making, Sent, Marking,
      Concluding, Preparing, Invoking, Settling
<1>8. c.pc \notin Writing \cup Making \cup Sent
  BY <1>6 DEF Writing, Making, Sent
<1> QED
  BY <1>1, <1>2, <1>4, <1>6, <1>7, <1>8, QuietStep DEF Unmoved

\* A reservation asks for what the policy offers.
LEMMA DecideQuiet ==
  ASSUME IInv, NEW p \in Procs, NEW a \in Attempts, Decide(p, a)
  PROVE  IInv'
<1>1. /\ proc[p] = Idle /\ proc \in [Procs -> Command] /\ led \in State
      /\ Unmoved
  BY DEF IInv, Types, Local, OpFits, Decide, At, Unmoved
<1>2. Idle \in Command /\ Idle.pc \notin Writing
  BY IdleIsLocal DEF Idle, Writing
<1> DEFINE ask(n, i, m, l, v) ==
             [node |-> n, input |-> i, output |-> v, spend |-> m,
              until |-> now + l, predecessor |-> led.latest[n],
              root |-> None, notBefore |-> NextNotBefore(n)]
<1>3. PICK n \in Nodes, i \in Inputs, m \in Spends, l \in Lives :
       \E v \in Variants[n] :
         /\ MayAsk(n, v)
         /\ proc' = [proc EXCEPT ![p].pc = "decided", ![p].op = "prepare",
                                 ![p].a = a, ![p].todo = ask(n, i, m, l, v)]
  BY Zenon DEF Decide
<1>4. PICK v \in Variants[n] :
         /\ MayAsk(n, v)
         /\ proc' = [proc EXCEPT ![p].pc = "decided", ![p].op = "prepare",
                                 ![p].a = a, ![p].todo = ask(n, i, m, l, v)]
  BY <1>3
<1>5. /\ now \in Nat /\ i \in Nat /\ m \in Nat /\ l \in Nat /\ v \in Nat
  BY PolicyAssumption, StagedAssumption DEF IInv, Types
<1>6. led.latest[n] \in Attempts \cup {None}
  BY <1>1 DEF State
<1>7. NextNotBefore(n) \in Nat
  <2> DEFINE prev == led.latest[n]
             end == led.reconciliations[prev]
             delay == RetryDelay[Cardinality(OfNode(led, n))]
  <2>1. CASE prev = None
    BY <2>1 DEF NextNotBefore
  <2>2. CASE prev # None
    <3>1. led.reconciliations \in [Attempts -> Evidence \cup {None}]
      BY <1>1 DEF State
    <3>2. end \in Evidence
      BY <1>4, <2>2, <3>1 DEF MayAsk, Reconciled
    <3>3. end.at \in Nat /\ end.notBefore \in Nat
      BY <3>2 DEF Evidence
    <3>4. delay \in Nat
      BY <1>1, OfNodeCounted, PolicyAssumption DEF Delays
    <3>5. NextNotBefore(n) = IF end.at + delay > end.notBefore
                             THEN end.at + delay ELSE end.notBefore
      BY <2>2 DEF NextNotBefore
    <3> HIDE DEF end, delay
    <3> QED
      BY <3>3, <3>4, <3>5
  <2> QED
    BY <2>1, <2>2
<1> DEFINE r == ask(n, i, m, l, v)
           c == [Idle EXCEPT !.pc = "decided", !.op = "prepare", !.a = a,
                             !.todo = r]
<1>8. proc' = [proc EXCEPT ![p] = c]
  BY <1>1, <1>4
<1>10. r \in Reservation
  BY <1>5, <1>6, <1>7 DEF Reservation
<1>15. /\ r.node = n /\ r.input = i /\ r.output = v
       /\ r.spend = m /\ r.until = now + l /\ r.root = None
  OBVIOUS
<1> HIDE DEF r
<1>11. /\ c \in Command /\ c.pc = "decided" /\ c.op = "prepare" /\ c.a = a
       /\ c.todo = r /\ ~c.ack
  BY <1>2, <1>10 DEF Command, Counters, Idle, Preparing, Requesting
<1> HIDE DEF c
<1>12. Requested(c)
  BY <1>5, <1>10, <1>11, <1>15 DEF Requested
<1>13. Local(c)
  BY <1>11, <1>12
  DEF Local, OpFits, Made, SentHolds, ReviewHolds, SeenHolds, Concluded,
      Accepting, Requesting, Making, Sent, Marking, Concluding, Preparing,
      Invoking, Settling
<1>14. c.pc \notin Writing \cup Making \cup Sent
  BY <1>11 DEF Writing, Making, Sent
<1> QED
  BY <1>1, <1>2, <1>8, <1>11, <1>13, <1>14, QuietStep DEF Unmoved

-----------------------------------------------------------------------------
(* A slot is opened for an event that is legal there and then.              *)

LEMMA ClaimStep ==
  ASSUME IInv, NEW p \in Procs, NEW next, NEW pc \in Writing, Loaded,
         Claim(p, next, pc), UNCHANGED <<led, files, result, calls, now>>,
         NEW c \in Command, c = [proc[p] EXCEPT !.pc = pc], c.pc = pc,
         c.op = proc[p].op, c.a = proc[p].a, c.ack <=> proc[p].ack,
         Local(c), NEW t \in 0 .. now, Pending(c, t, next)
  PROVE  IInv'
<1>1. /\ proc \in [Procs -> Command] /\ proc' = [proc EXCEPT ![p] = c]
      /\ slot' = [file |-> "open", by |-> p, next |-> next] /\ HasRoom(led)
      /\ slot = Free
  BY DEF IInv, Types, Claim, Goto, Loaded
<1>2. /\ proc' \in [Procs -> Command] /\ proc'[p] = c
      /\ \A q \in Procs \ {p} : proc'[q] = proc[q]
  BY <1>1
<1>3. Types'
  BY <1>1, <1>2 DEF IInv, Types
<1>4. Directories'
  BY DEF IInv, Directories, Reserved
<1>5. ASSUME NEW q \in Procs PROVE Local(proc[q])'
  BY <1>2, LocalSame DEF IInv
<1>6. \A q \in Procs : proc[q].pc \notin Writing
  BY <1>1 DEF IInv, SlotHolds, Free
<1>7. slot'.file = "open" /\ slot'.by = p /\ slot'.next = next
  BY <1>1
<1>8. Pending(c, t, next)' /\ HasRoom(led)'
  BY <1>1 DEF Pending
<1>9. SlotHolds'
  <2>1. \A q \in Procs : proc'[q].pc \in Writing <=> q = p
    BY <1>2, <1>6, ZenonT(40)
  <2>2. now' = now /\ Pending(proc[slot.by], t, slot.next)'
    BY <1>2, <1>7, <1>8
  <2>3. \E u \in 0 .. now' : Pending(proc[slot.by], u, slot.next)'
    BY <2>2
  <2> QED
    BY <1>7, <1>8, <2>1, <2>3 DEF SlotHolds
<1>10. Apart'
  <2>1. c.pc \notin Sent \cup Making
    BY DEF Writing, Sent, Making
  <2>2. c.ack => c.op # "run"
    BY DEF Local, OpFits
  <2> QED
    BY <1>1, <2>1, <2>2, ApartStep DEF IInv, Apart
<1>11. Settled'
  BY DEF IInv, Settled, SettledFromCapture, Reconciled
<1> QED
  BY <1>3, <1>4, <1>5, <1>9, <1>10, <1>11 DEF IInv

\* A claimed slot holds an event that is legal in the journal it follows.
LEMMA ReserveAttemptStep ==
  ASSUME IInv, NEW p \in Procs, ReserveAttempt(p)
  PROVE  IInv'
<1> DEFINE a == proc[p].a
           r == proc[p].todo
<1>1. /\ proc[p] \in Command /\ Local(proc[p]) /\ proc[p].pc = "priced"
      /\ Loaded /\ UNCHANGED <<led, files, result, calls, now>>
  BY DEF IInv, Types, ReserveAttempt, At
<1>2. CASE Quit(p) /\ slot' = slot
  BY <1>1, <1>2, QuitQuietly DEF Unmoved, Writing
<1>3. CASE /\ ReservationLegal(led, a, r, now)
           /\ Claim(p, WithReservation(led, a, r, now), "reserving")
  <2> DEFINE next == WithReservation(led, a, r, now)
             c == [proc[p] EXCEPT !.pc = "reserving"]
  <2>1. /\ c \in Command /\ c.pc = "reserving" /\ c.op = proc[p].op
        /\ c.a = a /\ (c.ack <=> proc[p].ack) /\ c.todo = r
    BY <1>1 DEF Command, Counters, Preparing, Requesting
  <2> HIDE DEF c
  <2>2. Requested(proc[p]) /\ proc[p].op = "prepare" /\ a \in Attempts
    BY <1>1 DEF Local, OpFits, Preparing, Requesting
  <2>3. \E l \in Lives : r.until <= now + l
    BY <1>1, <2>2 DEF Requested, Requesting
  <2>4. Pending(c, now, next)
    BY <1>3, <2>1, <2>3 DEF Pending
  <2>5. Local(c)
    BY <1>1, <2>1, <2>2
    DEF Local, OpFits, Requested, Made, SentHolds, ReviewHolds, SeenHolds,
        Concluded, Accepting, Requesting, Making, Sent, Marking, Concluding,
        Preparing, Invoking, Settling
  <2>6. now \in 0 .. now /\ "reserving" \in Writing
    BY PolicyAssumption, StagedAssumption DEF IInv, Types, Writing
  <2> QED
    BY <1>1, <1>3, <2>1, <2>4, <2>5, <2>6, ClaimStep DEF c
<1> QED
  BY <1>2, <1>3 DEF ReserveAttempt

LEMMA ClaimControllerDispatchStep ==
  ASSUME IInv, NEW p \in Procs, ClaimControllerDispatch(p)
  PROVE  IInv'
<1> DEFINE a == proc[p].a
<1>1. /\ proc[p] \in Command /\ Local(proc[p]) /\ proc[p].pc = "verified"
      /\ Loaded /\ UNCHANGED <<led, files, result, calls, now>>
  BY DEF IInv, Types, ClaimControllerDispatch, At
<1>2. CASE Fail(p) /\ slot' = slot
  BY <1>1, <1>2, FailQuietly DEF Unmoved, Writing
<1>3. CASE /\ DispatchLegal(led, a, now)
           /\ Claim(p, WithDispatch(led, a, now), "authorizing")
  <2> DEFINE next == WithDispatch(led, a, now)
             c == [proc[p] EXCEPT !.pc = "authorizing"]
  <2>1. /\ c \in Command /\ c.pc = "authorizing" /\ c.op = proc[p].op
        /\ c.a = a /\ (c.ack <=> proc[p].ack)
    BY <1>1 DEF Command, Counters, Invoking
  <2> HIDE DEF c
  <2>2. proc[p].op = "run" /\ a \in Attempts /\ ~proc[p].ack
    BY <1>1 DEF Local, OpFits, Invoking
  <2>3. Pending(c, now, next)
    BY <1>3, <2>1 DEF Pending
  <2>4. Local(c)
    BY <2>1, <2>2 DEF Local, OpFits, Requested, Made, SentHolds, ReviewHolds,
      SeenHolds, Concluded, Accepting, Requesting, Making, Sent, Marking,
      Concluding, Preparing, Invoking, Settling
  <2>5. now \in 0 .. now /\ "authorizing" \in Writing
    BY PolicyAssumption, StagedAssumption DEF IInv, Types, Writing
  <2> QED
    BY <1>1, <1>3, <2>1, <2>3, <2>4, <2>5, ClaimStep DEF c
<1> QED
  BY <1>2, <1>3 DEF ClaimControllerDispatch

LEMMA ReconcileAttemptStep ==
  ASSUME IInv, NEW p \in Procs, ReconcileAttempt(p)
  PROVE  IInv'
<1> DEFINE a == proc[p].a
           e == proc[p].todo
           t == proc[p].at
<1>1. /\ proc[p] \in Command /\ Local(proc[p]) /\ proc[p].pc = "append"
      /\ Loaded /\ UNCHANGED <<led, files, result, calls, now>>
  BY DEF IInv, Types, ReconcileAttempt, At
<1>2. CASE Quit(p) /\ slot' = slot
  BY <1>1, <1>2, QuitQuietly DEF Unmoved, Writing
<1>3. CASE /\ ReconciliationLegal(led, a, e, t)
           /\ Claim(p, WithReconciliation(led, a, e, t), "appending")
  <2> DEFINE next == WithReconciliation(led, a, e, t)
             c == [proc[p] EXCEPT !.pc = "appending"]
  <2>1. /\ c \in Command /\ c.pc = "appending" /\ c.op = proc[p].op
        /\ c.a = a /\ c.ack = proc[p].ack /\ c.prior = proc[p].prior
        /\ c.dispatched = proc[p].dispatched /\ c.seen = proc[p].seen
        /\ c.todo = e /\ c.at = t
    BY <1>1 DEF Command, Counters, Settling, Concluding
  <2> HIDE DEF c
  <2>2. /\ proc[p].op = "reconcile" /\ a \in Attempts /\ ReviewHolds(proc[p])
        /\ SeenHolds(proc[p]) /\ Concluded(proc[p])
    BY <1>1 DEF Local, OpFits, Settling, Concluding
  <2>3. Pending(c, t, next)
    BY <1>3, <2>1, <2>2 DEF Pending
  <2>4. ReviewHolds(c)
    BY <1>1, <2>1, <2>2 DEF ReviewHolds
  <2>5. SeenHolds(c)
    BY <1>1, <2>1, <2>2 DEF SeenHolds, Concluding, Marking
  <2>6. OutcomeSeen(c) = OutcomeSeen(proc[p])
    BY <2>1 DEF OutcomeSeen
  <2>7. Concluded(c)
    BY <1>1, <2>1, <2>2, <2>6 DEF Concluded
  <2>8. Local(c)
    BY <2>1, <2>2, <2>4, <2>5, <2>7
    DEF Local, OpFits, Requested, Made, SentHolds, Accepting, Requesting,
        Making, Sent, Marking, Concluding, Preparing, Invoking, Settling
  <2>9. t \in 0 .. now /\ "appending" \in Writing
    BY <1>1, <2>2, PolicyAssumption
    DEF IInv, Types, Writing, Concluded, Command, Counters
  <2> QED
    BY <1>1, <1>3, <2>1, <2>3, <2>8, <2>9, ClaimStep DEF c
<1> QED
  BY <1>2, <1>3 DEF ReconcileAttempt

LEMMA CommitReadingStep ==
  ASSUME IInv, NEW p \in Procs, CommitReading(p)
  PROVE  IInv'
<1> DEFINE n == proc[p].n
           x == proc[p].todo
<1>1. /\ proc[p] \in Command /\ Local(proc[p]) /\ proc[p].pc = "proved"
      /\ Loaded /\ UNCHANGED <<led, files, result, calls, now>>
  BY DEF IInv, Types, CommitReading, At
<1>2. CASE Quit(p) /\ slot' = slot
  BY <1>1, <1>2, QuitQuietly DEF Unmoved, Writing
<1>3. CASE /\ AcceptanceLegal(led, n, x, now)
           /\ Claim(p, WithAcceptance(led, n, x, now), "appending")
  <2> DEFINE next == WithAcceptance(led, n, x, now)
             c == [proc[p] EXCEPT !.pc = "appending"]
  <2>1. /\ c \in Command /\ c.pc = "appending" /\ c.op = proc[p].op
        /\ c.a = proc[p].a /\ c.ack = proc[p].ack /\ c.n = n /\ c.todo = x
    BY <1>1 DEF Command, Counters, Settling, Concluding
  <2> HIDE DEF c
  <2>2. proc[p].op = "accept" /\ Accepting(proc[p]) /\ ~proc[p].ack
    BY <1>1 DEF Local, OpFits
  <2>3. Pending(c, now, next)
    BY <1>3, <2>1, <2>2 DEF Pending
  <2>4. Local(c)
    BY <2>1, <2>2 DEF Local, OpFits, Requested, Made, SentHolds, ReviewHolds,
      SeenHolds, Concluded, Accepting, Requesting, Making, Sent, Marking,
      Concluding, Preparing, Invoking, Settling
  <2>5. now \in 0 .. now /\ "appending" \in Writing
    BY PolicyAssumption, StagedAssumption DEF IInv, Types, Writing
  <2> QED
    BY <1>1, <1>3, <2>1, <2>3, <2>4, <2>5, ClaimStep DEF c
<1> QED
  BY <1>2, <1>3 DEF CommitReading

-----------------------------------------------------------------------------
(* An event whose bytes are complete enters the journal.                    *)

LEMMA PendingEvent ==
  ASSUME IInv, NEW p \in Procs, Written(p), proc[p].pc \in Writing
  PROVE  /\ HasRoom(led) /\ led' = slot.next
         /\ \E t \in 0 .. now : Pending(proc[p], t, slot.next)
         /\ \A q \in Procs \ {p} : proc[q].pc \notin Writing
  BY DEF IInv, SlotHolds, Written

\* Nobody writes when the slot is free again.
LEMMA SlotFreed ==
  ASSUME IInv, NEW p \in Procs, Written(p), proc[p].pc \in Writing, NEW c,
         proc' = [proc EXCEPT ![p] = c], c.pc \notin Writing
  PROVE  SlotHolds' /\ slot'.file \in {"absent", "torn", "open"}
<1>1. proc \in [Procs -> Command] /\ slot' = Free
  BY DEF IInv, Types, Written
<1>2. \A q \in Procs : proc'[q].pc \notin Writing
  BY <1>1, PendingEvent
<1>3. slot'.file = "absent"
  BY <1>1 DEF Free
<1> QED
  BY <1>2, <1>3 DEF SlotHolds

\* A command that only moves on.
LEMMA GotoCommand ==
  ASSUME IInv, NEW p \in Procs, NEW pc \in Counters, Goto(p, pc)
  PROVE  \E c \in Command :
           /\ proc' = [proc EXCEPT ![p] = c] /\ c.pc = pc
           /\ c.op = proc[p].op /\ c.a = proc[p].a /\ c.n = proc[p].n
           /\ c.ack = proc[p].ack /\ c.todo = proc[p].todo
           /\ c.at = proc[p].at /\ c.seen = proc[p].seen
           /\ c.prior = proc[p].prior /\ c.dispatched = proc[p].dispatched
<1> DEFINE c == [proc[p] EXCEPT !.pc = pc]
<1>1. proc \in [Procs -> Command] /\ proc[p] \in Command
  BY DEF IInv, Types
<1>2. proc' = [proc EXCEPT ![p] = c]
  BY <1>1 DEF Goto
<1>3. /\ c \in Command /\ c.pc = pc
      /\ c.op = proc[p].op /\ c.a = proc[p].a /\ c.n = proc[p].n
      /\ c.ack = proc[p].ack /\ c.todo = proc[p].todo
      /\ c.at = proc[p].at /\ c.seen = proc[p].seen
      /\ c.prior = proc[p].prior /\ c.dispatched = proc[p].dispatched
  BY <1>1 DEF Command
<1> HIDE DEF c
<1> QED
  BY <1>2, <1>3

\* The new attempt has no directory, no dispatch and no other command.
LEMMA ReservingStep ==
  ASSUME IInv, NEW p \in Procs, Reserving(p)
  PROVE  IInv'
<1>1. /\ proc[p] \in Command /\ Local(proc[p]) /\ proc[p].pc = "reserving"
      /\ proc \in [Procs -> Command] /\ led \in State /\ Written(p)
      /\ UNCHANGED <<files, result, calls, now>> /\ Goto(p, "reserved")
  BY DEF IInv, Types, Reserving, At
<1>2. "reserving" \in Writing /\ "reserved" \in Counters
  BY DEF Writing, Counters, Preparing, Making
<1>3. PICK a \in Attempts, r \in Reservation :
        /\ a = proc[p].a /\ r = proc[p].todo
        /\ proc[p].op = "prepare" /\ ~proc[p].ack
  BY <1>1 DEF Local, OpFits, Requested, Preparing, Requesting
<1>4. PICK t \in 0 .. now : Pending(proc[p], t, slot.next)
  BY <1>1, <1>2, PendingEvent
<1>5. ReservationLegal(led, a, r, t) /\ led' = WithReservation(led, a, r, t)
  BY <1>1, <1>2, <1>3, <1>4, PendingEvent DEF Pending
<1>6. now \in Nat /\ t \in Nat
  BY <1>4, PolicyAssumption, StagedAssumption DEF IInv, Types
<1>7. /\ led' \in State
      /\ led'.sequence = led.sequence + 1 /\ led'.calls = led.calls + 1
      /\ led'.reservations = [led.reservations EXCEPT ![a] = r]
      /\ led'.latest = [led.latest EXCEPT ![r.node] = a]
      /\ led'.dispatches = led.dispatches
      /\ led'.reconciliations = led.reconciliations
      /\ led'.acceptances = led.acceptances
      /\ led'.finalizations = led.finalizations
  BY <1>1, <1>5, <1>6, WithReservationState
<1>8. led.reservations \in [Attempts -> Reservation \cup {None}]
  BY <1>1 DEF State
<1>9. /\ Reserved(led') = Reserved(led) \cup {a} /\ a \notin Reserved(led)
      /\ Reconciled(led') = Reconciled(led)
  BY <1>5, <1>7, <1>8, NoneAssumption
  DEF Reserved, Reconciled, ReservationLegal
<1>10. files[a] = {}
  BY <1>9 DEF IInv, Directories
<1>11. PICK c \in Command :
         /\ proc' = [proc EXCEPT ![p] = c] /\ c.pc = "reserved"
         /\ c.op = "prepare" /\ c.a = a /\ ~c.ack
  BY <1>1, <1>2, <1>3, GotoCommand
<1>12. Local(c)'
  BY <1>1, <1>9, <1>10, <1>11
  DEF Local, OpFits, Requested, Made, SentHolds, ReviewHolds, SeenHolds,
      Concluded, Accepting, Requesting, Making, Sent, Marking, Concluding,
      Preparing, Invoking, Settling
<1>13. ASSUME NEW q \in Procs PROVE Local(proc[q])'
  <2>1. CASE q = p
    BY <1>1, <1>11, <1>12, <2>1
  <2>2. CASE q # p
    <3>1. Local(proc[q]) /\ proc'[q] = proc[q]
      BY <1>1, <1>11, <2>2 DEF IInv
    <3>2. OutcomeSeen(proc[q])' = OutcomeSeen(proc[q])
      BY <1>1, <3>1 DEF OutcomeSeen
    <3> QED
      BY <1>1, <1>7, <1>9, <3>1, <3>2
      DEF Local, OpFits, Requested, Made, SentHolds, ReviewHolds, SeenHolds,
          Concluded, Accepting
  <2> QED
    BY <2>1, <2>2
<1>14. c.pc \notin Writing \cup Sent
  BY <1>11 DEF Writing, Sent
<1>15. Types'
  BY <1>1, <1>2, <1>7, <1>11, <1>14, SlotFreed DEF IInv, Types
<1>16. Directories'
  BY <1>1, <1>7, <1>9 DEF IInv, Directories
<1>17. SlotHolds'
  BY <1>1, <1>2, <1>11, <1>14, SlotFreed
<1>18. Apart'
  <2>1. \A q \in Procs : proc[q].pc \in Making => proc[q].a # a
    BY <1>9 DEF IInv, Local, Made
  <2> QED
    BY <1>1, <1>11, <1>14, <2>1, ApartStep DEF IInv
<1>19. Settled'
  BY <1>1, <1>7, <1>9 DEF IInv, Settled, SettledFromCapture
<1> QED
  BY <1>13, <1>15, <1>16, <1>17, <1>18, <1>19 DEF IInv

\* A dispatch is journalled when no other is unsettled, so it is the only one;
\* whoever settles the same attempt has the operator's word or sees a capture.
LEMMA AuthorizingStep ==
  ASSUME IInv, NEW p \in Procs, Authorizing(p)
  PROVE  IInv'
<1>1. /\ proc[p] \in Command /\ Local(proc[p]) /\ proc[p].pc = "authorizing"
      /\ proc \in [Procs -> Command] /\ led \in State /\ Written(p)
      /\ UNCHANGED <<files, result, calls, now>> /\ Goto(p, "authorized")
  BY DEF IInv, Types, Authorizing, At
<1>2. "authorizing" \in Writing /\ "authorized" \in Counters
  BY DEF Writing, Counters, Invoking, Sent
<1>3. PICK a \in Attempts :
        a = proc[p].a /\ proc[p].op = "run" /\ ~proc[p].ack
  BY <1>1 DEF Local, OpFits, Invoking
<1>4. PICK t \in 0 .. now : Pending(proc[p], t, slot.next)
  BY <1>1, <1>2, PendingEvent
<1>5. DispatchLegal(led, a, t) /\ led' = WithDispatch(led, a, t)
  BY <1>1, <1>2, <1>3, <1>4, PendingEvent DEF Pending
<1>6. now \in Nat /\ t \in Nat
  BY <1>4, PolicyAssumption, StagedAssumption DEF IInv, Types
<1>7. /\ led' \in State /\ led'.dispatches = led.dispatches \cup {a}
      /\ led'.reservations = led.reservations
      /\ led'.reconciliations = led.reconciliations
  BY <1>1, <1>5, <1>6, WithDispatchState
<1>8. /\ Reserved(led') = Reserved(led) /\ Reconciled(led') = Reconciled(led)
      /\ a \notin Reconciled(led) /\ a \notin led.dispatches
      /\ led.dispatches \subseteq Reconciled(led)
  BY <1>5, <1>7
  DEF Reserved, Reconciled, DispatchLegal, Dispatchable, DispatchPending
<1>9. files[a] \subseteq {"directory", "intent"} /\ calls[a] = 0
  BY <1>8 DEF IInv, Directories
<1>10. PICK c \in Command :
         /\ proc' = [proc EXCEPT ![p] = c] /\ c.pc = "authorized"
         /\ c.op = "run" /\ c.a = a /\ ~c.ack
  BY <1>1, <1>2, <1>3, GotoCommand
<1>11. Local(c)'
  BY <1>1, <1>7, <1>8, <1>9, <1>10
  DEF Local, OpFits, Requested, Made, SentHolds, ReviewHolds, SeenHolds,
      Concluded, Accepting, Requesting, Making, Sent, Marking, Concluding,
      Preparing, Invoking, Settling
<1>12. \A q \in Procs : proc[q].ack => proc[q].a # a
  BY <1>3 DEF IInv, Apart
<1>13. ASSUME NEW q \in Procs PROVE Local(proc[q])'
  <2>1. CASE q = p
    BY <1>1, <1>10, <1>11, <2>1
  <2>2. CASE q # p
    <3>1. Local(proc[q]) /\ proc'[q] = proc[q]
      BY <1>1, <1>10, <2>2 DEF IInv
    <3>2. OutcomeSeen(proc[q])' = OutcomeSeen(proc[q])
      BY <1>1, <3>1 DEF OutcomeSeen
    <3>3. ReviewHolds(proc[q])'
      BY <1>7, <1>8, <1>12, <3>1 DEF Local, ReviewHolds
    <3> QED
      BY <1>1, <1>7, <1>8, <3>1, <3>2, <3>3
      DEF Local, OpFits, Requested, Made, SentHolds, SeenHolds, Concluded,
          Accepting
  <2> QED
    BY <2>1, <2>2
<1>14. c.pc \notin Writing \cup Making
  BY <1>10 DEF Writing, Making
<1>15. Types'
  BY <1>1, <1>2, <1>7, <1>10, <1>14, SlotFreed DEF IInv, Types
<1>16. Directories'
  BY <1>1, <1>7, <1>8 DEF IInv, Directories
<1>17. SlotHolds'
  BY <1>1, <1>2, <1>10, <1>14, SlotFreed
<1>18. Apart'
  <2>1. \A q \in Procs : proc[q].pc \in Sent => proc[q].a # a
    BY <1>8 DEF IInv, Local, SentHolds
  <2> QED
    BY <1>1, <1>10, <1>12, <1>14, <2>1, ApartStep DEF IInv
<1>19. Settled'
  BY <1>1, <1>7, <1>8 DEF IInv, Settled, SettledFromCapture
<1> QED
  BY <1>13, <1>15, <1>16, <1>17, <1>18, <1>19 DEF IInv

\* Whoever settles an attempt, no command is still sending it: the operator
\* has stopped it, or its artifacts are there.
LEMMA SettledAlone ==
  ASSUME IInv, NEW p \in Procs, proc[p].pc = "appending",
         proc[p].op = "reconcile", proc[p].a \notin Reconciled(led)
  PROVE  \A q \in Procs : proc[q].pc \in Sent => proc[q].a # proc[p].a
<1> SUFFICES ASSUME NEW q \in Procs, proc[q].pc \in Sent,
                    proc[q].a = proc[p].a
             PROVE  FALSE
  OBVIOUS
<1>1. /\ ReviewHolds(proc[p]) /\ SeenHolds(proc[p]) /\ Concluded(proc[p])
      /\ SentHolds(proc[q]) /\ OpFits(proc[q])
  BY DEF IInv, Local
<1>2. proc[q].op = "run" /\ "provenance" \notin files[proc[p].a]
  BY <1>1 DEF OpFits, SentHolds, Invoking
<1>3. proc[p].prior = None
  BY <1>1 DEF ReviewHolds
<1>4. CASE proc[p].ack
  BY <1>2, <1>4 DEF IInv, Apart
<1>5. CASE proc[p].seen \in {"captured", "invalid_evidence"}
  BY <1>1, <1>2, <1>5 DEF SeenHolds, Concluding
<1> QED
  BY <1>1, <1>3, <1>4, <1>5 DEF Concluded

\* The evidence appended is what the attempt's directory shows.
LEMMA EvidenceFits ==
  ASSUME IInv, NEW p \in Procs, proc[p].pc = "appending",
         proc[p].op = "reconcile", proc[p].a \in Attempts,
         ReconciliationLegal(led, proc[p].a, proc[p].todo, proc[p].at)
  PROVE  /\ proc[p].todo.class = "not_dispatched" =>
              proc[p].a \notin led.dispatches
         /\ proc[p].todo.captured =>
              /\ {"dispatch", "provenance", "capture"} \subseteq files[proc[p].a]
              /\ result[proc[p].a] # None
              /\ proc[p].todo.class = result[proc[p].a].class
              /\ proc[p].todo.overrun = result[proc[p].a].overrun
<1> DEFINE c == proc[p]
           e == proc[p].todo
           o == OutcomeSeen(proc[p])
<1>1. /\ Local(c) /\ ReviewHolds(c) /\ SeenHolds(c) /\ Concluded(c)
      /\ c.pc \in Concluding /\ c.a \notin Reconciled(led)
  BY DEF IInv, Local, Concluding, ReconciliationLegal
<1>2. /\ e \in Evidence /\ e.class = o.class /\ e.captured = o.captured
      /\ e.overrun = o.overrun
      /\ c.prior = None =>
           c.ack \/ c.seen \in {"captured", "invalid_evidence"}
  BY <1>1 DEF Concluded
<1>3. c.prior = None /\ (c.ack => (c.dispatched <=> c.a \in led.dispatches))
  BY <1>1 DEF ReviewHolds
<1>4. c.seen \in Findings
  BY <1>1 DEF SeenHolds
<1>5. CASE c.seen = "captured"
  <2>1. "provenance" \in files[c.a] /\ "capture" \in files[c.a]
    BY <1>1, <1>5 DEF SeenHolds
  <2>2. result[c.a] # None /\ result[c.a] \in Results /\ o = result[c.a]
    BY <1>5, <2>1 DEF IInv, Directories, Types, OutcomeSeen
  <2>3. o.captured
    BY <2>2, StagedAssumption
  <2>4. files[c.a] \in Stages
    BY DEF IInv, Directories
  <2>5. {"dispatch", "provenance", "capture"} \subseteq files[c.a]
    BY <2>1, <2>4 DEF Stages
  <2>6. e.class \in Captured
    BY <1>2, <2>3 DEF ReconciliationLegal, EvidenceValid
  <2>7. e.class # "not_dispatched"
    BY <2>6 DEF Captured
  <2> QED
    BY <1>2, <2>2, <2>5, <2>7
<1>6. CASE c.seen = "invalid_evidence"
  <2>1. o = Damaged
    BY <1>6 DEF OutcomeSeen
  <2>2. o.class = "nonretryable" /\ ~o.captured
    BY <2>1 DEF Damaged
  <2> QED
    BY <1>2, <2>2
<1>7. CASE c.seen \in {"incomplete", "not_dispatched"}
  <2>1. c.ack
    BY <1>2, <1>3, <1>7
  <2>2. o = Uncaptured(IF c.seen = "incomplete" \/ c.dispatched
                       THEN "ambiguous" ELSE "not_dispatched")
    BY <1>7 DEF OutcomeSeen
  <2>3. ~o.captured /\ (o.class = "not_dispatched" => ~c.dispatched)
    BY <2>2 DEF Uncaptured
  <2> QED
    BY <1>2, <1>3, <2>1, <2>3
<1> QED
  BY <1>4, <1>5, <1>6, <1>7 DEF Findings

\* A settlement is by evidence that still holds: nobody sends the attempt.
LEMMA AppendingReconciliationStep ==
  ASSUME IInv, NEW p \in Procs, Appending(p), proc[p].op = "reconcile"
  PROVE  IInv'
<1>1. /\ proc[p] \in Command /\ Local(proc[p]) /\ proc[p].pc = "appending"
      /\ proc \in [Procs -> Command] /\ led \in State /\ Written(p)
      /\ UNCHANGED <<files, result, calls, now>>
      /\ proc' = [proc EXCEPT ![p] = Idle]
  BY DEF IInv, Types, Appending, At, Quit
<1>2. "appending" \in Writing
  BY DEF Writing
<1>3. PICK a \in Attempts, e \in Evidence : a = proc[p].a /\ e = proc[p].todo
  BY <1>1 DEF Local, OpFits, Concluded
<1>4. PICK t \in 0 .. now : Pending(proc[p], t, slot.next)
  BY <1>1, <1>2, PendingEvent
<1>5. /\ ReconciliationLegal(led, a, e, t) /\ proc[p].at = t
      /\ led' = WithReconciliation(led, a, e, t)
  BY <1>1, <1>2, <1>3, <1>4, PendingEvent DEF Pending
<1>6. now \in Nat /\ t \in Nat
  BY <1>4, PolicyAssumption, StagedAssumption DEF IInv, Types
<1>7. /\ led' \in State
      /\ led'.sequence = led.sequence + 1 /\ led'.calls = led.calls
      /\ led'.reconciliations = [led.reconciliations EXCEPT ![a] = e]
      /\ led'.dispatches = led.dispatches
      /\ led'.reservations = led.reservations /\ led'.latest = led.latest
      /\ led'.acceptances = led.acceptances
      /\ led'.finalizations = led.finalizations
  BY <1>1, <1>5, <1>6, WithReconciliationState
<1>8. led.reconciliations \in [Attempts -> Evidence \cup {None}]
  BY <1>1 DEF State
<1>9. /\ Reserved(led') = Reserved(led) /\ a \notin Reconciled(led)
      /\ Reconciled(led') = Reconciled(led) \cup {a}
  BY <1>5, <1>7, <1>8, NoneAssumption
  DEF Reserved, Reconciled, ReconciliationLegal
<1>10. \A q \in Procs : proc[q].pc \in Sent => proc[q].a # a
  BY <1>1, <1>3, <1>9, SettledAlone
<1>11. Local(Idle)'
  BY StagedAssumption
  DEF Idle, Local, OpFits, Requested, Made, SentHolds, ReviewHolds, SeenHolds,
      Concluded, Accepting, Requesting, Making, Sent, Marking, Concluding,
      Preparing, Invoking, Settling
<1>12. ASSUME NEW q \in Procs PROVE Local(proc[q])'
  <2>1. CASE q = p
    BY <1>1, <1>11, <2>1
  <2>2. CASE q # p
    <3>1. Local(proc[q]) /\ proc'[q] = proc[q]
      BY <1>1, <2>2 DEF IInv
    <3>2. OutcomeSeen(proc[q])' = OutcomeSeen(proc[q])
      BY <1>1, <3>1 DEF OutcomeSeen
    <3>3. SentHolds(proc[q])'
      BY <1>1, <1>7, <1>9, <1>10, <3>1 DEF Local, SentHolds
    <3> QED
      BY <1>1, <1>7, <1>9, <3>1, <3>2, <3>3
      DEF Local, OpFits, Requested, Made, ReviewHolds, SeenHolds, Concluded,
          Accepting
  <2> QED
    BY <2>1, <2>2
<1>13. /\ Idle.pc \notin Writing \cup Making \cup Sent /\ ~Idle.ack
       /\ Idle.op # "run" /\ Idle \in Command
  BY StagedAssumption, IdleIsLocal DEF Idle, Writing, Making, Sent
<1>14. Types'
  BY <1>1, <1>2, <1>7, <1>13, SlotFreed DEF IInv, Types
<1>15. Directories'
  BY <1>1, <1>7, <1>9 DEF IInv, Directories
<1>16. SlotHolds'
  BY <1>1, <1>2, <1>13, SlotFreed
<1>17. Apart'
  BY <1>1, <1>13, ApartStep DEF IInv
<1>18. Settled'
  <2>1. /\ e.class = "not_dispatched" => a \notin led.dispatches
        /\ e.captured =>
             /\ {"dispatch", "provenance", "capture"} \subseteq files[a]
             /\ result[a] # None /\ e.class = result[a].class
             /\ e.overrun = result[a].overrun
    BY <1>1, <1>3, <1>5, EvidenceFits
  <2>2. led'.reconciliations[a] = e
    BY <1>7, <1>8
  <2>3. \A b \in Reconciled(led) :
          b # a /\ led'.reconciliations[b] = led.reconciliations[b]
    BY <1>7, <1>8, <1>9 DEF Reconciled
  <2>4. Settled
    BY DEF IInv
  <2>5. SettledFromCapture'
    BY <1>1, <1>9, <2>1, <2>2, <2>3, <2>4 DEF Settled, SettledFromCapture
  <2> QED
    BY <1>7, <1>9, <2>1, <2>2, <2>3, <2>4, <2>5 DEF Settled
<1> QED
  BY <1>12, <1>14, <1>15, <1>16, <1>17, <1>18 DEF IInv

\* An acceptance concerns no attempt's dispatch or settlement.
LEMMA AppendingAcceptanceStep ==
  ASSUME IInv, NEW p \in Procs, Appending(p), proc[p].op = "accept"
  PROVE  IInv'
<1>1. /\ proc[p] \in Command /\ Local(proc[p]) /\ proc[p].pc = "appending"
      /\ proc \in [Procs -> Command] /\ led \in State /\ Written(p)
      /\ UNCHANGED <<files, result, calls, now>>
      /\ proc' = [proc EXCEPT ![p] = Idle]
  BY DEF IInv, Types, Appending, At, Quit
<1>2. "appending" \in Writing
  BY DEF Writing
<1>3. PICK n \in Nodes, x \in Acceptance : n = proc[p].n /\ x = proc[p].todo
  BY <1>1 DEF Local, Accepting
<1>4. PICK t \in 0 .. now : Pending(proc[p], t, slot.next)
  BY <1>1, <1>2, PendingEvent
<1>5. led' = WithAcceptance(led, n, x, t)
  BY <1>1, <1>2, <1>3, <1>4, PendingEvent DEF Pending
<1>6. now \in Nat /\ t \in Nat
  BY <1>4, PolicyAssumption, StagedAssumption DEF IInv, Types
<1>7. /\ led' \in State
      /\ led'.sequence = led.sequence + 1 /\ led'.calls = led.calls
      /\ led'.acceptances = [led.acceptances EXCEPT ![n] = x]
      /\ led'.dispatches = led.dispatches
      /\ led'.reservations = led.reservations /\ led'.latest = led.latest
      /\ led'.reconciliations = led.reconciliations
      /\ led'.finalizations = led.finalizations
  BY <1>1, <1>5, <1>6, WithAcceptanceState
<1>8. Reserved(led') = Reserved(led) /\ Reconciled(led') = Reconciled(led)
  BY <1>7 DEF Reserved, Reconciled
<1>9. Local(Idle)'
  BY StagedAssumption
  DEF Idle, Local, OpFits, Requested, Made, SentHolds, ReviewHolds, SeenHolds,
      Concluded, Accepting, Requesting, Making, Sent, Marking, Concluding,
      Preparing, Invoking, Settling
<1>10. ASSUME NEW q \in Procs PROVE Local(proc[q])'
  <2>1. CASE q = p
    BY <1>1, <1>9, <2>1
  <2>2. CASE q # p
    <3>1. Local(proc[q]) /\ proc'[q] = proc[q]
      BY <1>1, <2>2 DEF IInv
    <3>2. OutcomeSeen(proc[q])' = OutcomeSeen(proc[q])
      BY <1>1, <3>1 DEF OutcomeSeen
    <3> QED
      BY <1>1, <1>7, <1>8, <3>1, <3>2
      DEF Local, OpFits, Requested, Made, SentHolds, ReviewHolds, SeenHolds,
          Concluded, Accepting
  <2> QED
    BY <2>1, <2>2
<1>11. /\ Idle.pc \notin Writing \cup Making \cup Sent /\ ~Idle.ack
       /\ Idle.op # "run" /\ Idle \in Command
  BY StagedAssumption, IdleIsLocal DEF Idle, Writing, Making, Sent
<1>12. Types'
  BY <1>1, <1>2, <1>7, <1>11, SlotFreed DEF IInv, Types
<1>13. Directories'
  BY <1>1, <1>7, <1>8 DEF IInv, Directories
<1>14. SlotHolds'
  BY <1>1, <1>2, <1>11, SlotFreed
<1>15. Apart'
  BY <1>1, <1>11, ApartStep DEF IInv
<1>16. Settled'
  BY <1>1, <1>7, <1>8 DEF IInv, Settled, SettledFromCapture
<1> QED
  BY <1>10, <1>12, <1>13, <1>14, <1>15, <1>16 DEF IInv

LEMMA AppendingStep ==
  ASSUME IInv, NEW p \in Procs, Appending(p)
  PROVE  IInv'
<1>1. proc[p].pc = "appending" /\ OpFits(proc[p])
  BY DEF IInv, Local, Appending, At
<1> QED
  BY <1>1, AppendingReconciliationStep, AppendingAcceptanceStep DEF OpFits

-----------------------------------------------------------------------------
(* A step that changes one attempt's directory.                             *)

LEMMA OthersKeepLocal ==
  ASSUME IInv, NEW q \in Procs, NEW a \in Attempts, NEW f \in Stages,
         UNCHANGED <<led, result, calls, now>>, proc'[q] = proc[q],
         files' = [files EXCEPT ![a] = f],
         files[a] \ {"dispatch-part"} \subseteq f,
         proc[q].a = a =>
           /\ proc[q].pc \notin Making
           /\ proc[q].pc \in Sent =>
                "provenance" \notin f /\ proc[q].pc # "claiming"
  PROVE  Local(proc[q])'
<1>1. Local(proc[q]) /\ files \in [Attempts -> Stages]
  BY DEF IInv, Directories
<1>2. \A b \in Attempts :
        /\ files[b] \ {"dispatch-part"} \subseteq files'[b]
        /\ b # a => files'[b] = files[b]
        /\ b = a => files'[b] = f
  BY <1>1
<1>3. /\ proc[q].pc \in {"evidence"} \cup Preparing \cup Invoking \cup Marking
           => proc[q].a \in Attempts
      /\ proc[q].op = "reconcile" => proc[q].a \in Attempts
  BY <1>1 DEF Local, OpFits, Settling
<1>4. OutcomeSeen(proc[q])' = OutcomeSeen(proc[q])
  BY DEF OutcomeSeen
<1>5. OpFits(proc[q])' /\ Requested(proc[q])' /\ Accepting(proc[q])'
  BY <1>1 DEF Local, OpFits, Requested, Accepting
<1>6. Made(proc[q])'
  BY <1>1, <1>2, <1>3 DEF Local, Made, Making, Preparing
<1>7. SentHolds(proc[q])'
  BY <1>1, <1>2, <1>3 DEF Local, SentHolds, Sent, Invoking
<1>8. SeenHolds(proc[q])'
  BY <1>1, <1>2, <1>3 DEF Local, SeenHolds
<1>9. ReviewHolds(proc[q])' /\ Concluded(proc[q])'
  BY <1>1, <1>4 DEF Local, ReviewHolds, Concluded
<1> QED
  BY <1>5, <1>6, <1>7, <1>8, <1>9 DEF Local

\* No other command relies on what the directory loses, or on what it lacks.
Clear(p, a, f) ==
  \A q \in Procs \ {p} : proc[q].a = a =>
    /\ proc[q].pc \notin Making
    /\ proc[q].pc \in Sent => "provenance" \notin f /\ proc[q].pc # "claiming"

\* A directory gains a name; commands on other attempts do not notice, and
\* those on this one rely on nothing it loses.
LEMMA FilesStep ==
  ASSUME IInv, NEW p \in Procs, NEW c \in Command,
         proc' = [proc EXCEPT ![p] = c],
         UNCHANGED <<led, slot, result, calls, now>>,
         NEW a \in Attempts, a = proc[p].a, a \in Reserved(led),
         NEW f \in Stages, files' = [files EXCEPT ![a] = f],
         files[a] \ {"dispatch-part"} \subseteq f,
         f \subseteq {"directory", "intent"} \/ a \in led.dispatches,
         "provenance" \in f => result[a] # None,
         Clear(p, a, f),
         Local(c)', proc[p].pc \notin Writing, c.pc \notin Writing,
         c.pc \in Sent => proc[p].pc \in Sent /\ c.a = a,
         c.pc \in Making => proc[p].pc \in Making /\ c.a = a,
         c.op = "run" => proc[p].op = "run" /\ c.a = a,
         c.ack => proc[p].ack /\ c.a = a
  PROVE  IInv'
<1>1. /\ proc \in [Procs -> Command] /\ proc' \in [Procs -> Command]
      /\ proc'[p] = c /\ \A q \in Procs \ {p} : proc'[q] = proc[q]
      /\ files \in [Attempts -> Stages]
  BY DEF IInv, Types, Directories
<1>2. Types'
  BY <1>1 DEF IInv, Types
<1>3. Directories'
  BY <1>1 DEF IInv, Directories, Reserved
<1>4. ASSUME NEW q \in Procs PROVE Local(proc[q])'
  <2>1. CASE q = p
    BY <1>1, <2>1
  <2>2. CASE q # p
    BY <1>1, <2>2, OthersKeepLocal DEF Clear
  <2> QED
    BY <2>1, <2>2
<1>5. SlotHolds'
  BY <1>1 DEF IInv, SlotHolds, Pending
<1>6. Apart'
  <2>1. c.ack => c.op # "run"
    <3>1. OpFits(c)
      BY DEF Local, OpFits
    <3> QED
      BY <3>1 DEF OpFits
  <2>2. Apart
    BY DEF IInv
  <2>3. \A q \in Procs \ {p} : proc[q].a = c.a =>
          /\ ~(c.pc \in Sent /\ proc[q].pc \in Sent)
          /\ ~(c.pc \in Making /\ proc[q].pc \in Making)
          /\ ~(c.op = "run" /\ proc[q].ack)
          /\ ~(c.ack /\ proc[q].op = "run")
    BY <2>2 DEF Apart
  <2> QED
    BY <1>1, <2>1, <2>2, <2>3, ApartStep
<1>7. Settled'
  <2>1. SettledFromCapture'
    BY <1>1 DEF IInv, Settled, SettledFromCapture, Reconciled
  <2> QED
    BY <2>1 DEF IInv, Settled, Reconciled
<1> QED
  BY <1>2, <1>3, <1>4, <1>5, <1>6, <1>7 DEF IInv

LEMMA MakeDirectoryStep ==
  ASSUME IInv, NEW p \in Procs, MakeDirectory(p)
  PROVE  IInv'
<1>1. /\ proc[p] \in Command /\ Local(proc[p]) /\ proc[p].pc = "reserved"
      /\ UNCHANGED <<led, slot, result, calls, now>> /\ Goto(p, "made")
  BY DEF IInv, Types, MakeDirectory, At
<1>2. PICK a \in Attempts :
        /\ a = proc[p].a /\ proc[p].op = "prepare" /\ ~proc[p].ack
        /\ a \in Reserved(led) /\ files[a] = {}
  BY <1>1 DEF Local, OpFits, Made, Preparing, Making
<1>3. "made" \in Counters
  BY DEF Counters, Preparing, Making
<1>4. PICK c \in Command :
        /\ proc' = [proc EXCEPT ![p] = c] /\ c.pc = "made"
        /\ c.op = "prepare" /\ c.a = a /\ ~c.ack
  BY <1>1, <1>2, <1>3, GotoCommand
<1>5. PICK f \in Stages :
        f = {"directory"} /\ files' = [files EXCEPT ![a] = f]
  BY <1>2 DEF MakeDirectory, Stages
<1>6. files'[a] = {"directory"}
  BY <1>5 DEF IInv, Directories
<1>7. Local(c)'
  BY <1>1, <1>2, <1>4, <1>6
  DEF Local, OpFits, Requested, Made, SentHolds, ReviewHolds, SeenHolds,
      Concluded, Accepting, Requesting, Making, Sent, Marking, Concluding,
      Preparing, Invoking, Settling
<1>8. /\ proc[p].pc \in Making /\ proc[p].pc \notin Writing
      /\ c.pc \notin Writing \cup Sent
  BY <1>1, <1>4 DEF Making, Writing, Sent
<1>9. ASSUME NEW q \in Procs \ {p}, proc[q].a = a
      PROVE  proc[q].pc \notin Making /\ proc[q].pc # "claiming"
  <2>1. proc[q].pc \notin Making
    BY <1>2, <1>8, <1>9 DEF IInv, Apart
  <2>2. SentHolds(proc[q]) /\ "dispatch-part" \notin files[a]
    BY <1>2 DEF IInv, Local
  <2> QED
    BY <1>9, <2>1, <2>2 DEF SentHolds
<1>10. /\ files[a] \ {"dispatch-part"} \subseteq f /\ "provenance" \notin f
       /\ f \subseteq {"directory", "intent"}
  BY <1>2, <1>5
<1>11. Clear(p, a, f)
  BY <1>9, <1>10 DEF Clear
<1>12. /\ c.pc \in Sent => proc[p].pc \in Sent /\ c.a = a
       /\ c.pc \in Making => proc[p].pc \in Making /\ c.a = a
       /\ c.op = "run" => proc[p].op = "run" /\ c.a = a
       /\ c.ack => proc[p].ack /\ c.a = a
       /\ "provenance" \in f => result[a] # None
  BY <1>4, <1>8, <1>10
<1> QED
  BY <1>1, <1>2, <1>4, <1>5, <1>7, <1>8, <1>10, <1>11, <1>12, FilesStep

LEMMA PublishIntentStep ==
  ASSUME IInv, NEW p \in Procs, PublishIntent(p)
  PROVE  IInv'
<1>1. /\ proc[p] \in Command /\ Local(proc[p]) /\ proc[p].pc = "made"
      /\ UNCHANGED <<led, slot, result, calls, now>>
      /\ proc' = [proc EXCEPT ![p] = Idle]
  BY DEF IInv, Types, PublishIntent, At, Quit
<1>2. PICK a \in Attempts :
        a = proc[p].a /\ a \in Reserved(led) /\ files[a] = {"directory"}
  BY <1>1 DEF Local, OpFits, Made, Preparing, Making
<1>3. PICK f \in Stages :
        f = {"directory", "intent"} /\ files' = [files EXCEPT ![a] = f]
  <2>1. files[a] \cup {"intent"} = {"directory", "intent"}
    BY <1>2
  <2> QED
    BY <1>2, <2>1 DEF PublishIntent, Stages
<1>4. Local(Idle)'
  BY StagedAssumption
  DEF Idle, Local, OpFits, Requested, Made, SentHolds, ReviewHolds, SeenHolds,
      Concluded, Accepting, Requesting, Making, Sent, Marking, Concluding,
      Preparing, Invoking, Settling
<1>5. /\ Idle.pc \notin Writing \cup Making \cup Sent /\ ~Idle.ack
      /\ Idle.op # "run" /\ Idle \in Command
  BY StagedAssumption, IdleIsLocal DEF Idle, Writing, Making, Sent
<1>6. proc[p].pc \in Making /\ proc[p].pc \notin Writing
  BY <1>1 DEF Making, Writing
<1>7. ASSUME NEW q \in Procs \ {p}, proc[q].a = a
      PROVE  proc[q].pc \notin Making /\ proc[q].pc # "claiming"
  <2>1. proc[q].pc \notin Making
    BY <1>2, <1>6, <1>7 DEF IInv, Apart
  <2>2. SentHolds(proc[q]) /\ "dispatch-part" \notin files[a]
    BY <1>2 DEF IInv, Local
  <2> QED
    BY <1>7, <2>1, <2>2 DEF SentHolds
<1>8. /\ files[a] \ {"dispatch-part"} \subseteq f /\ "provenance" \notin f
      /\ f \subseteq {"directory", "intent"}
  BY <1>2, <1>3
<1>9. Clear(p, a, f)
  BY <1>7, <1>8 DEF Clear
<1> QED
  BY <1>1, <1>2, <1>3, <1>4, <1>5, <1>6, <1>8, <1>9, FilesStep

\* The claim is made where nothing but the intent is, by the one sender.
LEMMA ClaimDispatchStep ==
  ASSUME IInv, NEW p \in Procs, ClaimDispatch(p)
  PROVE  IInv'
<1>1. /\ proc[p] \in Command /\ Local(proc[p]) /\ proc[p].pc = "authorized"
      /\ UNCHANGED <<led, slot, result, calls, now>>
  BY DEF IInv, Types, ClaimDispatch, At
<1>2. CASE Fail(p) /\ files' = files
  BY <1>1, <1>2, FailQuietly DEF Unmoved, Writing
<1>3. CASE /\ Stored(proc[p].a)
           /\ files[proc[p].a] \subseteq {"directory", "intent"}
           /\ files' = [files EXCEPT ![proc[p].a] = @ \cup {"dispatch-part"}]
           /\ Goto(p, "claiming")
  <2>1. PICK a \in Attempts :
          /\ a = proc[p].a /\ proc[p].op = "run" /\ ~proc[p].ack
          /\ a \in led.dispatches /\ a \notin Reconciled(led)
          /\ calls[a] = 0 /\ files[a] \in Stages
    BY <1>1 DEF IInv, Directories, Local, OpFits, SentHolds, Invoking, Sent
  <2>2. a \in Reserved(led)
    BY <1>3, <2>1 DEF IInv, Directories, Stored
  <2>3. "claiming" \in Counters
    BY DEF Counters, Invoking, Sent
  <2>4. PICK c \in Command :
          /\ proc' = [proc EXCEPT ![p] = c] /\ c.pc = "claiming"
          /\ c.op = "run" /\ c.a = a /\ ~c.ack
    BY <1>3, <2>1, <2>3, GotoCommand
  <2>5. files[a] = {"directory", "intent"}
    BY <1>3, <2>1 DEF Stored, Stages
  <2>6. files[a] \cup {"dispatch-part"} = {"directory", "intent", "dispatch-part"}
    BY <2>5
  <2>7. PICK f \in Stages :
          /\ f = {"directory", "intent", "dispatch-part"}
          /\ files' = [files EXCEPT ![a] = f]
    BY <1>3, <2>1, <2>6 DEF Stages
  <2>8. files'[a] = f /\ "provenance" \notin f /\ "dispatch-part" \in f
    BY <2>7 DEF IInv, Directories
  <2>9. Local(c)'
    BY <1>1, <2>1, <2>4, <2>8
    DEF Local, OpFits, Requested, Made, SentHolds, ReviewHolds, SeenHolds,
        Concluded, Accepting, Requesting, Making, Sent, Marking, Concluding,
        Preparing, Invoking, Settling
  <2>10. /\ proc[p].pc \in Sent /\ proc[p].pc \notin Writing
         /\ c.pc \notin Writing \cup Making
    BY <1>1, <2>4 DEF Making, Writing, Sent
  <2>11. ASSUME NEW q \in Procs \ {p}, proc[q].a = a
         PROVE  proc[q].pc \notin Making /\ proc[q].pc \notin Sent
    <3>1. proc[q].pc \notin Sent
      BY <2>1, <2>10, <2>11 DEF IInv, Apart
    <3>2. Made(proc[q])
      BY DEF IInv, Local
    <3>3. "intent" \in files[a]
      BY <2>5
    <3> QED
      BY <2>11, <3>1, <3>2, <3>3 DEF Made, Making
  <2>12. Clear(p, a, f)
    BY <2>8, <2>11 DEF Clear
  <2>13. files[a] \ {"dispatch-part"} \subseteq f
    BY <2>5, <2>7
  <2> QED
    BY <1>1, <2>1, <2>2, <2>4, <2>7, <2>8, <2>9, <2>10, <2>12, <2>13, FilesStep
<1> QED
  BY <1>2, <1>3 DEF ClaimDispatch

LEMMA ClaimingStep ==
  ASSUME IInv, NEW p \in Procs, Claiming(p)
  PROVE  IInv'
<1>1. /\ proc[p] \in Command /\ Local(proc[p]) /\ proc[p].pc = "claiming"
      /\ UNCHANGED <<led, slot, result, calls, now>> /\ Goto(p, "claimed")
  BY DEF IInv, Types, Claiming, At
<1>2. PICK a \in Attempts :
        /\ a = proc[p].a /\ proc[p].op = "run" /\ ~proc[p].ack
        /\ a \in led.dispatches /\ a \notin Reconciled(led)
        /\ calls[a] = 0 /\ files[a] \in Stages /\ "dispatch-part" \in files[a]
  BY <1>1 DEF IInv, Directories, Local, OpFits, SentHolds, Invoking, Sent
<1>3. a \in Reserved(led)
  BY <1>2 DEF IInv, Directories
<1>4. "claimed" \in Counters
  BY DEF Counters, Invoking, Sent
<1>5. PICK c \in Command :
        /\ proc' = [proc EXCEPT ![p] = c] /\ c.pc = "claimed"
        /\ c.op = "run" /\ c.a = a /\ ~c.ack
  BY <1>1, <1>2, <1>4, GotoCommand
<1>6. files[a] = {"directory", "intent", "dispatch-part"}
  BY <1>2 DEF Stages
<1>7. (files[a] \ {"dispatch-part"}) \cup {"dispatch"}
        = {"directory", "intent", "dispatch"}
  BY <1>6
<1>8. PICK f \in Stages :
        /\ f = {"directory", "intent", "dispatch"}
        /\ files' = [files EXCEPT ![a] = f]
  BY <1>2, <1>7 DEF Claiming, Stages
<1>9. files'[a] = f /\ "provenance" \notin f /\ "dispatch" \in f
  BY <1>8 DEF IInv, Directories
<1>10. Local(c)'
  BY <1>1, <1>2, <1>5, <1>9
  DEF Local, OpFits, Requested, Made, SentHolds, ReviewHolds, SeenHolds,
      Concluded, Accepting, Requesting, Making, Sent, Marking, Concluding,
      Preparing, Invoking, Settling
<1>11. /\ proc[p].pc \in Sent /\ proc[p].pc \notin Writing
       /\ c.pc \notin Writing \cup Making
  BY <1>1, <1>5 DEF Making, Writing, Sent
<1>12. ASSUME NEW q \in Procs \ {p}, proc[q].a = a
       PROVE  proc[q].pc \notin Making /\ proc[q].pc \notin Sent
  <2>1. proc[q].pc \notin Sent
    BY <1>2, <1>11, <1>12 DEF IInv, Apart
  <2>2. Made(proc[q])
    BY DEF IInv, Local
  <2>3. "intent" \in files[a]
    BY <1>6
  <2> QED
    BY <1>12, <2>1, <2>2, <2>3 DEF Made, Making
<1>13. Clear(p, a, f)
  BY <1>12 DEF Clear
<1>14. files[a] \ {"dispatch-part"} \subseteq f
  BY <1>6, <1>8
<1> QED
  BY <1>1, <1>2, <1>3, <1>5, <1>8, <1>9, <1>10, <1>11, <1>13, <1>14, FilesStep

\* The artifacts are saved when the answer is in, by the one sender.
LEMMA SaveArtifactsStep ==
  ASSUME IInv, NEW p \in Procs, SaveArtifacts(p)
  PROVE  IInv'
<1>1. /\ proc[p] \in Command /\ Local(proc[p]) /\ proc[p].pc = "saved"
      /\ UNCHANGED <<led, slot, result, calls, now>> /\ Goto(p, "capture")
  BY DEF IInv, Types, SaveArtifacts, At
<1>2. PICK a \in Attempts :
        /\ a = proc[p].a /\ proc[p].op = "run" /\ ~proc[p].ack
        /\ a \in led.dispatches /\ result[a] # None
        /\ files[a] \in Stages /\ "dispatch" \in files[a]
        /\ "provenance" \notin files[a]
  BY <1>1 DEF IInv, Directories, Local, OpFits, SentHolds, Invoking, Sent
<1>3. a \in Reserved(led)
  BY <1>2 DEF IInv, Directories
<1>4. "capture" \in Counters
  BY DEF Counters, Marking
<1>5. PICK c \in Command :
        /\ proc' = [proc EXCEPT ![p] = c] /\ c.pc = "capture"
        /\ c.op = "run" /\ c.a = a /\ ~c.ack
  BY <1>1, <1>2, <1>4, GotoCommand
<1>6. files[a] = {"directory", "intent", "dispatch"}
  BY <1>2 DEF Stages
<1>7. files[a] \cup {"provenance"}
        = {"directory", "intent", "dispatch", "provenance"}
  BY <1>6
<1>8. PICK f \in Stages :
        /\ f = {"directory", "intent", "dispatch", "provenance"}
        /\ files' = [files EXCEPT ![a] = f]
  BY <1>2, <1>7 DEF SaveArtifacts, Stages
<1>9. files'[a] = f /\ "provenance" \in f
  BY <1>8 DEF IInv, Directories
<1>10. Local(c)'
  BY <1>1, <1>2, <1>5, <1>9
  DEF Local, OpFits, Requested, Made, SentHolds, ReviewHolds, SeenHolds,
      Concluded, Accepting, Requesting, Making, Sent, Marking, Concluding,
      Preparing, Invoking, Settling
<1>11. /\ proc[p].pc \in Sent /\ proc[p].pc \notin Writing
       /\ c.pc \notin Writing \cup Making \cup Sent
  BY <1>1, <1>5 DEF Making, Writing, Sent
<1>12. ASSUME NEW q \in Procs \ {p}, proc[q].a = a
       PROVE  proc[q].pc \notin Making /\ proc[q].pc \notin Sent
  <2>1. proc[q].pc \notin Sent
    BY <1>2, <1>11, <1>12 DEF IInv, Apart
  <2>2. Made(proc[q])
    BY DEF IInv, Local
  <2>3. "intent" \in files[a]
    BY <1>6
  <2> QED
    BY <1>12, <2>1, <2>2, <2>3 DEF Made, Making
<1>13. Clear(p, a, f)
  BY <1>12 DEF Clear
<1>14. files[a] \ {"dispatch-part"} \subseteq f
  BY <1>6, <1>8
<1> QED
  BY <1>1, <1>2, <1>3, <1>5, <1>8, <1>9, <1>10, <1>11, <1>13, <1>14, FilesStep

\* The marker joins complete artifacts, whoever links it first.
LEMMA MarkLinkStep ==
  ASSUME IInv, NEW p \in Procs, MarkLink(p)
  PROVE  IInv'
<1>1. /\ proc[p] \in Command /\ Local(proc[p]) /\ proc[p].pc = "marked"
      /\ UNCHANGED <<led, slot, result, calls, now>>
  BY DEF IInv, Types, MarkLink, At
<1>2. PICK a \in Attempts :
        /\ a = proc[p].a /\ proc[p].op \in {"run", "reconcile"}
        /\ proc[p].ack => proc[p].op = "reconcile"
        /\ files[a] \in Stages /\ "provenance" \in files[a]
  BY <1>1 DEF IInv, Directories, Local, OpFits, SeenHolds, Marking
<1>3. /\ a \in Reserved(led) /\ a \in led.dispatches /\ result[a] # None
      /\ "intent" \in files[a]
  <2>1. "intent" \in files[a]
    BY <1>2 DEF Stages
  <2> QED
    BY <1>2, <2>1 DEF IInv, Directories
<1>4. PICK pc \in {"recheck", "linked"} : Goto(p, pc)
  BY DEF MarkLink
<1>5. pc \in Counters
  BY DEF Counters, Marking
<1>6. PICK c \in Command :
        /\ proc' = [proc EXCEPT ![p] = c] /\ c.pc = pc
        /\ c.op = proc[p].op /\ c.a = a /\ c.ack = proc[p].ack
        /\ c.prior = proc[p].prior /\ c.dispatched = proc[p].dispatched
  BY <1>2, <1>4, <1>5, GotoCommand
<1>7. files[a] \cup {"capture"}
        = {"directory", "intent", "dispatch", "provenance", "capture"}
  BY <1>2 DEF Stages
<1>8. PICK f \in Stages :
        /\ f = {"directory", "intent", "dispatch", "provenance", "capture"}
        /\ files' = [files EXCEPT ![a] = f]
  BY <1>2, <1>7 DEF MarkLink, Stages
<1>9. files'[a] = f /\ "provenance" \in f
  BY <1>8 DEF IInv, Directories
<1>10. ReviewHolds(c)'
  BY <1>1, <1>2, <1>6 DEF Local, ReviewHolds, Reconciled
<1>11. Local(c)'
  BY <1>1, <1>2, <1>6, <1>9, <1>10
  DEF Local, OpFits, Requested, Made, SentHolds, SeenHolds, Concluded,
      Accepting, Requesting, Making, Sent, Marking, Concluding, Preparing,
      Invoking, Settling
<1>12. /\ proc[p].pc \notin Writing
       /\ c.pc \notin Writing \cup Making \cup Sent
  BY <1>1, <1>6 DEF Making, Writing, Sent
<1>13. ASSUME NEW q \in Procs \ {p}, proc[q].a = a
       PROVE  proc[q].pc \notin Making /\ proc[q].pc \notin Sent
  <2>1. Made(proc[q]) /\ SentHolds(proc[q])
    BY DEF IInv, Local
  <2>2. proc[q].pc \notin Sent
    BY <1>2, <1>13, <2>1 DEF SentHolds
  <2> QED
    BY <1>3, <1>13, <2>1, <2>2 DEF Made, Making
<1>14. Clear(p, a, f)
  BY <1>13 DEF Clear
<1>15. files[a] \ {"dispatch-part"} \subseteq f
  BY <1>7, <1>8
<1> QED
  BY <1>1, <1>2, <1>3, <1>6, <1>8, <1>9, <1>11, <1>12, <1>14, <1>15, FilesStep

-----------------------------------------------------------------------------
(* The one provider call.                                                   *)

\* Whoever else works on an attempt that is being sent saw no capture of it.
LEMMA NothingSeen ==
  ASSUME IInv, NEW p \in Procs, proc[p].pc \in Sent, NEW q \in Procs \ {p},
         proc[q].a = proc[p].a
  PROVE  /\ proc[q].pc \notin Sent
         /\ proc[q].op = "reconcile" /\ proc[q].pc \in Concluding =>
              proc[q].seen # "captured"
<1>1. Local(proc[p]) /\ Local(proc[q])
  BY DEF IInv
<1>2. "provenance" \notin files[proc[p].a]
  BY <1>1 DEF Local, SentHolds
<1> QED
  BY <1>1, <1>2 DEF IInv, Apart, Local, SeenHolds

\* The sender's call is the attempt's first.
LEMMA CallStep ==
  ASSUME IInv, NEW p \in Procs, Call(p)
  PROVE  IInv'
<1>1. /\ proc[p] \in Command /\ Local(proc[p]) /\ proc[p].pc = "claimed"
      /\ UNCHANGED <<led, slot, files, result, now>>
      /\ proc \in [Procs -> Command] /\ calls \in [Attempts -> Nat]
  BY DEF IInv, Types, Call, At
<1>2. CASE Fail(p) /\ calls' = calls
  BY <1>1, <1>2, FailQuietly DEF Unmoved, Writing
<1>3. CASE calls' = [calls EXCEPT ![proc[p].a] = @ + 1] /\ Goto(p, "calling")
  <2>1. PICK a \in Attempts :
          /\ a = proc[p].a /\ proc[p].op = "run" /\ ~proc[p].ack
          /\ a \in led.dispatches /\ a \notin Reconciled(led)
          /\ calls[a] = 0 /\ "provenance" \notin files[a]
          /\ "dispatch" \in files[a]
    BY <1>1 DEF Local, OpFits, SentHolds, Invoking, Sent
  <2>2. "calling" \in Counters
    BY DEF Counters, Invoking, Sent
  <2>3. PICK c \in Command :
          /\ proc' = [proc EXCEPT ![p] = c] /\ c.pc = "calling"
          /\ c.op = "run" /\ c.a = a /\ ~c.ack
    BY <1>3, <2>1, <2>2, GotoCommand
  <2>4. /\ proc'[p] = c /\ \A q \in Procs \ {p} : proc'[q] = proc[q]
        /\ proc' \in [Procs -> Command]
    BY <1>1, <2>3
  <2>5. /\ calls'[a] = 1 /\ \A b \in Attempts \ {a} : calls'[b] = calls[b]
        /\ calls' \in [Attempts -> Nat]
    BY <1>1, <1>3, <2>1
  <2>6. Types' /\ Directories'
    <3>1. Types'
      BY <1>1, <2>4, <2>5 DEF IInv, Types
    <3>2. Directories'
      BY <1>1, <2>1, <2>5 DEF IInv, Directories, Reserved
    <3> QED
      BY <3>1, <3>2
  <2>7. Local(c)'
    BY <1>1, <2>1, <2>3
    DEF Local, OpFits, Requested, Made, SentHolds, ReviewHolds, SeenHolds,
        Concluded, Accepting, Requesting, Making, Sent, Marking, Concluding,
        Preparing, Invoking, Settling, Reconciled
  <2>8. ASSUME NEW q \in Procs \ {p} PROVE Local(proc[q])'
    <3>0. proc'[q] = proc[q]
      BY <2>4
    <3>1. Local(proc[q]) /\ OutcomeSeen(proc[q])' = OutcomeSeen(proc[q])
      BY <1>1, <3>0 DEF IInv, OutcomeSeen
    <3>2. SentHolds(proc[q])'
      <4>1. proc[q].pc \in Sent => proc[q].a # a /\ proc[q].a \in Attempts
        BY <1>1, <2>1, <3>1, NothingSeen DEF Sent, Local, OpFits, Invoking
      <4> QED
        BY <1>1, <2>5, <3>0, <3>1, <4>1 DEF Local, SentHolds, Sent, Reconciled
    <3> QED
      BY <1>1, <3>0, <3>1, <3>2
      DEF Local, OpFits, Requested, Made, ReviewHolds, SeenHolds, Concluded,
          Accepting, Reserved, Reconciled
  <2>9. SlotHolds'
    BY <1>1, <2>3, <2>4 DEF IInv, SlotHolds, Pending, Writing
  <2>10. Apart'
    <3>1. proc[p].pc \in Sent /\ c.pc \notin Making
      BY <1>1, <2>3 DEF Sent, Making
    <3> QED
      BY <1>1, <2>1, <2>3, <3>1, ApartStep DEF IInv, Apart
  <2>11. Settled'
    BY <1>1 DEF IInv, Settled, SettledFromCapture, Reconciled
  <2> QED
    BY <2>4, <2>6, <2>7, <2>8, <2>9, <2>10, <2>11 DEF IInv
<1> QED
  BY <1>2, <1>3 DEF Call

\* The answer changes no settlement: nobody saw a capture of it yet.
LEMMA AnswerStep ==
  ASSUME IInv, NEW p \in Procs, Answer(p)
  PROVE  IInv'
<1>1. /\ proc[p] \in Command /\ Local(proc[p]) /\ proc[p].pc = "calling"
      /\ UNCHANGED <<led, slot, files, calls, now>> /\ Goto(p, "answered")
      /\ proc \in [Procs -> Command]
      /\ result \in [Attempts -> Results \cup {None}]
  BY DEF IInv, Types, Answer, At
<1>2. PICK a \in Attempts :
        /\ a = proc[p].a /\ proc[p].op = "run" /\ ~proc[p].ack
        /\ a \in led.dispatches /\ a \notin Reconciled(led)
        /\ "provenance" \notin files[a] /\ "dispatch" \in files[a]
  BY <1>1 DEF Local, OpFits, SentHolds, Invoking, Sent
<1>3. PICK o \in Results : result' = [result EXCEPT ![a] = o]
  BY <1>2 DEF Answer
<1>4. /\ result'[a] # None
      /\ \A b \in Attempts \ {a} : result'[b] = result[b]
      /\ result' \in [Attempts -> Results \cup {None}]
  BY <1>1, <1>3, StagedAssumption
<1>5. "answered" \in Counters
  BY DEF Counters, Invoking, Sent
<1>6. PICK c \in Command :
        /\ proc' = [proc EXCEPT ![p] = c] /\ c.pc = "answered"
        /\ c.op = "run" /\ c.a = a /\ ~c.ack
  BY <1>1, <1>2, <1>5, GotoCommand
<1>7. /\ proc'[p] = c /\ \A q \in Procs \ {p} : proc'[q] = proc[q]
      /\ proc' \in [Procs -> Command]
  BY <1>1, <1>6
<1>8. Types'
  BY <1>1, <1>4, <1>7 DEF IInv, Types
<1>9. Directories'
  BY <1>1, <1>4 DEF IInv, Directories, Reserved
<1>10. Local(c)'
  BY <1>1, <1>2, <1>4, <1>6
  DEF Local, OpFits, Requested, Made, SentHolds, ReviewHolds, SeenHolds,
      Concluded, Accepting, Requesting, Making, Sent, Marking, Concluding,
      Preparing, Invoking, Settling, Reconciled
<1>11. ASSUME NEW q \in Procs \ {p} PROVE Local(proc[q])'
  <2>1. Local(proc[q]) /\ proc[p].pc \in Sent /\ proc'[q] = proc[q]
    BY <1>1, <1>7 DEF IInv, Sent
  <2>2. SentHolds(proc[q])'
    <3>1. proc[q].pc \in Sent => proc[q].a # a /\ proc[q].a \in Attempts
      BY <1>2, <2>1, NothingSeen DEF Sent, Local, OpFits, Invoking
    <3> QED
      BY <1>1, <1>4, <2>1, <3>1 DEF Local, SentHolds, Sent, Reconciled
  <2>3. Concluded(proc[q])'
    <3>1. CASE proc[q].op = "reconcile" /\ proc[q].pc \in {"append", "appending"}
      <4>1. proc[q].a \in Attempts /\ proc[q].pc \in Concluding
        BY <2>1, <3>1 DEF Local, OpFits, Concluding
      <4>2. proc[q].seen = "captured" => proc[q].a # a
        BY <1>2, <2>1, <3>1, <4>1, NothingSeen
      <4>3. OutcomeSeen(proc[q])' = OutcomeSeen(proc[q])
        BY <1>4, <2>1, <4>1, <4>2 DEF OutcomeSeen
      <4> QED
        BY <1>1, <2>1, <4>3 DEF Local, Concluded
    <3>2. CASE ~(proc[q].op = "reconcile" /\ proc[q].pc \in {"append", "appending"})
      BY <2>1, <3>2 DEF Concluded
    <3> QED
      BY <3>1, <3>2
  <2> QED
    BY <1>1, <2>1, <2>2, <2>3
    DEF Local, OpFits, Requested, Made, ReviewHolds, SeenHolds,
        Accepting, Reserved, Reconciled
<1>12. SlotHolds'
  BY <1>1, <1>6, <1>7 DEF IInv, SlotHolds, Pending, Writing
<1>13. Apart'
  <2>1. proc[p].pc \in Sent /\ c.pc \notin Making
    BY <1>1, <1>6 DEF Sent, Making
  <2> QED
    BY <1>1, <1>2, <1>6, <2>1, ApartStep DEF IInv, Apart
<1>14. Settled'
  BY <1>1, <1>2, <1>4 DEF IInv, Settled, SettledFromCapture, Reconciled
<1> QED
  BY <1>7, <1>8, <1>9, <1>10, <1>11, <1>12, <1>13, <1>14 DEF IInv

-----------------------------------------------------------------------------
(* The environment, and the invariant.                                      *)

LEMMA CrashStep ==
  ASSUME IInv, NEW p \in Procs, Crash(p)
  PROVE  IInv'
<1>1. /\ UNCHANGED <<led, files, result, calls, now>> /\ Quit(p)
      /\ proc \in [Procs -> Command] /\ slot.file \in {"absent", "torn", "open"}
  BY DEF IInv, Types, Crash
<1>2. CASE slot.by # p
  <2>1. UNCHANGED slot /\ proc[p].pc \notin Writing
    BY <1>2 DEF Crash, IInv, SlotHolds
  <2> QED
    BY <1>1, <2>1, QuitQuietly DEF Unmoved
<1>3. CASE slot.by = p
  <2>1. slot'.file = "torn"
    BY <1>3 DEF Crash, Torn
  <2>2. /\ proc' \in [Procs -> Command] /\ proc'[p] = Idle
        /\ \A q \in Procs \ {p} : proc'[q] = proc[q]
    BY <1>1, IdleIsLocal DEF Quit
  <2>3. Types' /\ Directories'
    BY <1>1, <2>1, <2>2 DEF IInv, Types, Directories, Reserved
  <2>4. ASSUME NEW q \in Procs PROVE Local(proc[q])'
    BY <1>1, <2>2, LocalSame, IdleIsLocal DEF IInv
  <2>5. SlotHolds'
    <3>1. \A q \in Procs : proc'[q].pc \notin Writing
      BY <1>3, <2>2 DEF IInv, SlotHolds, Idle, Writing
    <3> QED
      BY <2>1, <3>1 DEF SlotHolds
  <2>6. Apart'
    <3>1. /\ Idle.pc \notin Making \cup Sent /\ ~Idle.ack /\ Idle.op # "run"
      BY StagedAssumption DEF Idle, Making, Sent
    <3>2. proc' = [proc EXCEPT ![p] = Idle]
      BY <1>1 DEF Quit
    <3> QED
      BY <1>1, <3>1, <3>2, ApartStep DEF IInv
  <2>7. Settled'
    BY <1>1 DEF IInv, Settled, SettledFromCapture, Reconciled
  <2> QED
    BY <2>3, <2>4, <2>5, <2>6, <2>7 DEF IInv
<1> QED
  BY <1>2, <1>3

\* Time only moves the bounds that earlier times satisfied.
LEMMA TickStep ==
  ASSUME IInv, Tick
  PROVE  IInv'
<1>1. /\ UNCHANGED <<led, slot, files, result, calls, proc>>
      /\ now' = now + 1 /\ now < Horizon /\ now \in Nat /\ now' \in Nat
      /\ now \in StartAt .. Horizon
  BY PolicyAssumption DEF IInv, Types, Tick
<1>2. Types' /\ Directories'
  BY <1>1, StagedAssumption, PolicyAssumption
  DEF IInv, Types, Directories, Reserved
<1>3. ASSUME NEW q \in Procs PROVE Local(proc[q])'
  <2>1. Local(proc[q]) /\ proc[q] \in Command
    BY DEF IInv, Types
  <2>2. OutcomeSeen(proc[q])' = OutcomeSeen(proc[q])
    BY <1>1 DEF OutcomeSeen
  <2>3. Requested(proc[q])'
    <3> SUFFICES ASSUME proc[q].pc \in Requesting
                 PROVE  Requested(proc[q])'
      BY <1>1 DEF Requested
    <3>1. proc[q].todo \in Reservation /\ Requested(proc[q])
      BY <2>1 DEF Local, Requested
    <3>2. PICK l \in Lives : proc[q].todo.until <= now + l
      BY <3>1 DEF Requested
    <3>3. l \in Nat /\ proc[q].todo.until \in Nat
      BY <3>1, StagedAssumption DEF Reservation
    <3>4. proc[q].todo.until <= now' + l
      BY <1>1, <3>2, <3>3
    <3> QED
      BY <1>1, <3>1, <3>4 DEF Requested
  <2>4. Concluded(proc[q])'
    <3>1. proc[q].at \in Nat
      BY <2>1 DEF Command
    <3> QED
      BY <1>1, <2>1, <2>2, <3>1 DEF Local, Concluded
  <2> QED
    BY <1>1, <2>1, <2>3, <2>4
    DEF Local, OpFits, Made, SentHolds, ReviewHolds, SeenHolds, Accepting,
        Reserved, Reconciled
<1>4. SlotHolds'
  <2>1. ASSUME slot.file = "open"
        PROVE  /\ slot.by \in Procs /\ HasRoom(led)
               /\ \E t \in 0 .. now' : Pending(proc[slot.by], t, slot.next)
    <3>1. PICK t \in 0 .. now : Pending(proc[slot.by], t, slot.next)
      BY <2>1 DEF IInv, SlotHolds
    <3>2. t \in 0 .. now'
      BY <1>1
    <3> QED
      BY <2>1, <3>1, <3>2 DEF IInv, SlotHolds
  <2> QED
    BY <1>1, <2>1 DEF IInv, SlotHolds, HasRoom, Pending
<1>5. Apart' /\ Settled'
  BY <1>1 DEF IInv, Apart, Settled, SettledFromCapture, Reconciled
<1> QED
  BY <1>2, <1>3, <1>4, <1>5 DEF IInv

LEMMA StutterStep ==
  ASSUME IInv, UNCHANGED vars
  PROVE  IInv'
<1>1. UNCHANGED <<led, slot, files, result, calls, now, proc>>
  BY DEF vars
<1>2. \A q \in Procs : Local(proc[q])'
  BY <1>1, LocalSame DEF IInv
<1>3. Types' /\ Directories'
  BY <1>1 DEF IInv, Types, Directories, Reserved
<1>4. SlotHolds' /\ Apart'
  BY <1>1 DEF IInv, SlotHolds, Pending, HasRoom, Apart
<1>5. Settled'
  BY <1>1 DEF IInv, Settled, SettledFromCapture, Reconciled
<1> QED
  BY <1>1, <1>2, <1>3, <1>4, <1>5 DEF IInv

LEMMA InitInv == Init => IInv
<1> SUFFICES ASSUME Init
             PROVE  IInv
  OBVIOUS
<1>1. Initial \in State
  BY PolicyAssumption DEF Initial, State
<1>2. /\ Reserved(led) = {} /\ Reconciled(led) = {} /\ led.dispatches = {}
  BY DEF Init, Initial, Reserved, Reconciled
<1>3. \A p \in Procs : proc[p] = Idle
  BY DEF Init
<1>4. Types
  BY <1>1, IdleIsLocal, StagedAssumption, PolicyAssumption
  DEF Init, Types, Free
<1>5. Directories
  BY <1>2, StagedAssumption DEF Init, Directories, Stages
<1>6. \A p \in Procs : Local(proc[p])
  BY <1>3, IdleIsLocal
<1>7. SlotHolds
  BY <1>3, StagedAssumption DEF Init, SlotHolds, Free, Idle, Writing
<1>8. Apart
  BY <1>3, StagedAssumption DEF Apart, Idle, Sent, Making
<1>9. Settled
  BY <1>2 DEF Settled, SettledFromCapture
<1> QED
  BY <1>4, <1>5, <1>6, <1>7, <1>8, <1>9 DEF IInv

\* Every step keeps the invariant.
LEMMA NextInv == IInv /\ [Next]_vars => IInv'
<1> SUFFICES ASSUME IInv, [Next]_vars
             PROVE  IInv'
  OBVIOUS
<1>1. ASSUME NEW p \in Procs, Prepare(p) PROVE IInv'
  BY <1>1, SnapshotQuiet, ReserveAttemptStep, ReservingStep, MakeDirectoryStep,
     PublishIntentStep DEF Prepare
<1>2. ASSUME NEW p \in Procs, Invoke(p) PROVE IInv'
  BY <1>2, ReverifyQuiet, ClaimControllerDispatchStep, AuthorizingStep,
     ClaimDispatchStep, ClaimingStep, CallStep, AnswerStep, SaveTemporaryQuiet,
     SaveArtifactsStep DEF Invoke
<1>3. ASSUME NEW p \in Procs, Mark(p) PROVE IInv'
  BY <1>3, MarkingQuiet, MarkLinkStep DEF Mark
<1>4. ASSUME NEW p \in Procs, Settle(p) PROVE IInv'
  BY <1>4, ReviewQuiet, InspectQuiet, AccountQuiet, ReconcileAttemptStep,
     AppendingStep DEF Settle
<1>5. ASSUME NEW p \in Procs, Step(p) PROVE IInv'
  BY <1>1, <1>2, <1>3, <1>4, <1>5, CommitReadingStep DEF Step
<1>6. ASSUME NEW p \in Procs, NEW a \in Attempts,
             Decide(p, a) \/ Run(p, a) \/ Reconcile(p, a)
      PROVE  IInv'
  BY <1>6, DecideQuiet, StartQuiet
<1>7. ASSUME NEW p \in Procs, NEW n \in Nodes, VerifyReading(p, n) PROVE IInv'
  BY <1>7, VerifyReadingQuiet
<1> QED
  BY <1>5, <1>6, <1>7, CrashStep, GiveUpQuiet, TickStep, StutterStep DEF Next

LEMMA Invariance == Spec => []IInv
  BY InitInv, NextInv, PTL DEF Spec

-----------------------------------------------------------------------------
(* What the invariant gives.                                                *)

\* While a call is out its attempt is dispatched, claimed and not settled; at
\* most one dispatch is unsettled, and one command sends it.
LEMMA CallsAreSerial == IInv => CallsSerialised
<1> SUFFICES ASSUME IInv
             PROVE  CallsSerialised
  OBVIOUS
<1>1. ASSUME NEW p \in Procs, At(p, "calling")
      PROVE  /\ proc[p].pc \in Sent
             /\ proc[p].a \in led.dispatches /\ proc[p].a \notin Reconciled(led)
             /\ "dispatch" \in files[proc[p].a]
  BY <1>1 DEF IInv, Local, SentHolds, Sent, At
<1>2. ASSUME NEW p \in Procs, NEW q \in Procs, At(p, "calling"),
             At(q, "calling")
      PROVE  p = q
  BY <1>1, <1>2 DEF IInv, Settled, Apart
<1> QED
  BY <1>1, <1>2 DEF CallsSerialised, IInv, Directories

\* A dispatch waiting in the slot is of an unsettled attempt, like every later
\* stage of sending it.
LEMMA SettledIsOver == IInv => ReleasedIsOver
<1> SUFFICES ASSUME IInv, NEW a \in Reconciled(led)
             PROVE  /\ led.reconciliations[a].class = "not_dispatched" =>
                         calls[a] = 0 /\ a \notin led.dispatches
                    /\ \A p \in Procs :
                         ~(proc[p].a = a /\ proc[p].pc \in Underway)
  BY DEF ReleasedIsOver
<1>1. led.reconciliations[a].class = "not_dispatched" =>
        calls[a] = 0 /\ a \notin led.dispatches
  BY DEF IInv, Settled, Directories, Reconciled
<1>2. ASSUME NEW p \in Procs, proc[p].a = a, proc[p].pc \in Sent
      PROVE  FALSE
  BY <1>2 DEF IInv, Local, SentHolds
<1>3. ASSUME NEW p \in Procs, proc[p].a = a, proc[p].pc = "authorizing"
      PROVE  FALSE
  <2>1. slot.file = "open" /\ slot.by = p
    BY <1>3 DEF IInv, SlotHolds, Writing
  <2>2. PICK t \in 0 .. now : Pending(proc[p], t, slot.next)
    BY <2>1 DEF IInv, SlotHolds
  <2> QED
    BY <1>3, <2>2 DEF Pending, DispatchLegal, Dispatchable
<1> QED
  BY <1>1, <1>2, <1>3 DEF Underway, Sent

\* At most one provider call at a time in the whole controller, whatever
\* processes run, crash or race (claimControllerDispatch, claimDispatch).
THEOREM OneCallAtATime == Spec => []CallsSerialised
  BY Invariance, CallsAreSerial, PTL

\* What was settled without an answer is not, and never will be, sent again
\* (reconcileControlledAttempt against claimControllerDispatch).
THEOREM NothingSentAfterRelease == Spec => []ReleasedIsOver
  BY Invariance, SettledIsOver, PTL

\* A settled capture is on disk and has the outcome of the provider's answer
\* (inspectAttemptRecovery, captureEvidence).
THEOREM SettlementsHaveCaptures == Spec => []SettledFromCapture
<1>1. IInv => SettledFromCapture
  BY DEF IInv, Settled
<1> QED
  BY <1>1, Invariance, PTL

-----------------------------------------------------------------------------
(* What may stop the controller, where no one judges what another is still   *)
(* publishing, or reads a journal that another is appending to.              *)

\* A command that has seen damage saw a dead process's leftovers, or a torn
\* event after which nothing is ever recorded.
Judged(c) ==
  c.op = "reconcile" /\ c.pc \in Concluding /\ c.seen = "invalid_evidence"
    => c.a \in strays \/ slot = Torn

\* Only a living command has a slot open.
SlotShut == slot.by = None => slot \in {Free, Torn}

StopInv == /\ StopOnlyOnBadEvidence /\ SlotShut
           /\ \A p \in Procs : Judged(proc[p])

\* A torn event stays the journal's last (stableLoad repairs nothing).
LEMMA TornStays ==
  ASSUME SlotShut, [Next]_vars
  PROVE  SlotShut' /\ (slot = Torn => slot' = Torn)
<1>1. None \notin Procs /\ Free # Torn /\ Torn.by = None
  BY StagedAssumption DEF Free, Torn
<1>2. CASE UNCHANGED slot
  BY <1>2 DEF SlotShut
<1>3. ASSUME NEW p \in Procs, NEW next, Loaded,
             slot' = [file |-> "open", by |-> p, next |-> next]
      PROVE  SlotShut' /\ (slot = Torn => slot' = Torn)
  BY <1>1, <1>3 DEF SlotShut, Loaded
<1>4. ASSUME NEW p \in Procs, slot.by = p, slot' \in {Free, Torn}
      PROVE  SlotShut' /\ (slot = Torn => slot' = Torn)
  BY <1>1, <1>4 DEF SlotShut
<1>5. ASSUME NEW p \in Procs, Prepare(p) \/ Invoke(p)
      PROVE  SlotShut' /\ (slot = Torn => slot' = Torn)
  BY <1>2, <1>3, <1>4, <1>5
  DEF Prepare, Snapshot, ReserveAttempt, Claim, Reserving, Written,
      MakeDirectory, PublishIntent, Invoke, Reverify,
      ClaimControllerDispatch, Authorizing, ClaimDispatch, Claiming, Call,
      Answer, SaveTemporary, SaveArtifacts
<1>6. ASSUME NEW p \in Procs, Mark(p) \/ Settle(p) \/ CommitReading(p)
      PROVE  SlotShut' /\ (slot = Torn => slot' = Torn)
  BY <1>2, <1>3, <1>4, <1>6
  DEF Mark, Capture, MarkTemporary, MarkLink, MarkUnlink, Recheck, Settle,
      Review, Inspect, CaptureEvidence, Account, ReconcileAttempt, Claim,
      Appending, Written, CommitReading
<1>7. ASSUME NEW p \in Procs, Crash(p) \/ GiveUp(p)
      PROVE  SlotShut' /\ (slot = Torn => slot' = Torn)
  BY <1>2, <1>4, <1>7 DEF Crash, GiveUp
<1>8. ASSUME NEW p \in Procs,
             \/ \E a \in Attempts : Decide(p, a) \/ Run(p, a) \/ Reconcile(p, a)
             \/ \E n \in Nodes : VerifyReading(p, n)
      PROVE  UNCHANGED slot
  BY <1>8 DEF Decide, Run, Reconcile, VerifyReading
<1>9. Tick \/ UNCHANGED vars => UNCHANGED slot
  BY DEF Tick, vars
<1> QED
  BY <1>2, <1>5, <1>6, <1>7, <1>8, <1>9 DEF Next, Step

\* Leftovers stay, and an answer is in before its attempt is settled.
LEMMA StopKept ==
  ASSUME StopOnlyOnBadEvidence, UNCHANGED led, strays \subseteq strays',
         \A a \in Reconciled(led) : result'[a] = result[a]
  PROVE  StopOnlyOnBadEvidence'
  BY DEF StopOnlyOnBadEvidence, Reconciled

LEMMA JudgedKept ==
  ASSUME StopInv, [Next]_vars, NEW p \in Procs, strays \subseteq strays',
         \A q \in Procs \ {p} : proc'[q] = proc[q], Judged(proc[p])'
  PROVE  SlotShut' /\ \A q \in Procs : Judged(proc[q])'
<1> SUFFICES ASSUME NEW q \in Procs PROVE Judged(proc[q])'
  BY TornStays DEF StopInv
<1>1. CASE q # p
  BY <1>1, TornStays DEF StopInv, Judged
<1> QED
  BY <1>1

\* Where a command goes when nothing it has seen is at stake.
LEMMA GoesTo ==
  ASSUME proc \in [Procs -> Command], NEW p \in Procs, NEW pc
  PROVE  /\ Goto(p, pc) => /\ proc'[p].pc = pc
                           /\ \A q \in Procs \ {p} : proc'[q] = proc[q]
         /\ Quit(p) => /\ proc'[p].pc = "idle"
                       /\ \A q \in Procs \ {p} : proc'[q] = proc[q]
         /\ Fail(p) => /\ proc'[p].pc \in {"idle", "review"}
                       /\ \A q \in Procs \ {p} : proc'[q] = proc[q]
         /\ Back(p) => /\ proc'[p].pc \in {"review", "inspect"}
                       /\ \A q \in Procs \ {p} : proc'[q] = proc[q]
<1>1. Goto(p, pc) => /\ proc'[p].pc = pc
                     /\ \A q \in Procs \ {p} : proc'[q] = proc[q]
  BY DEF Goto, Command
<1>2. Quit(p) => /\ proc'[p].pc = "idle"
                 /\ \A q \in Procs \ {p} : proc'[q] = proc[q]
  BY DEF Quit, Idle
<1>3. ASSUME proc' = [proc EXCEPT ![p].pc = "review", ![p].op = "reconcile"]
      PROVE  /\ proc'[p].pc = "review"
             /\ \A q \in Procs \ {p} : proc'[q] = proc[q]
  BY <1>3 DEF Command
<1>4. Goto(p, "inspect") => /\ proc'[p].pc = "inspect"
                            /\ \A q \in Procs \ {p} : proc'[q] = proc[q]
  BY DEF Goto, Command
<1> QED
  BY <1>1, <1>2, <1>3, <1>4 DEF Fail, Back

\* Preparing, calling and marking concern no evidence, and answer for attempts
\* that are not settled.
LEMMA UnseenSteps ==
  ASSUME IInv, StopInv, [Next]_vars, NEW p \in Procs, Prepare(p) \/ Invoke(p) \/ Mark(p),
         ~Reserving(p), ~Authorizing(p)
  PROVE  StopInv'
<1>1. proc \in [Procs -> Command] /\ result \in [Attempts -> Results \cup {None}]
  BY DEF IInv, Types
<1>2. UNCHANGED <<led, strays>>
  BY DEF Prepare, Snapshot, ReserveAttempt, MakeDirectory, PublishIntent,
         Invoke, Reverify, ClaimControllerDispatch, ClaimDispatch, Claiming,
         Call, Answer, SaveTemporary, SaveArtifacts,
         Mark, Capture, MarkTemporary, MarkLink, MarkUnlink, Recheck
<1>3. /\ proc'[p].pc \notin Concluding
      /\ \A q \in Procs \ {p} : proc'[q] = proc[q]
  <2>1. CASE Prepare(p)
    <3>1. CASE Snapshot(p)
      BY <1>1, <3>1 DEF Snapshot, Command, Concluding
    <3> QED
      BY <1>1, <2>1, <3>1, GoesTo
      DEF Prepare, ReserveAttempt, Claim, MakeDirectory, PublishIntent,
          Concluding
  <2>2. CASE Invoke(p)
    <3>1. CASE Reverify(p)
      <4>1. CASE proc' = [proc EXCEPT ![p].pc = "verified",
                     ![p].head = IF Version = 1 THEN None ELSE led.sequence]
        BY <1>1, <4>1 DEF Command, Concluding
      <4>2. CASE Fail(p)
        BY <1>1, <4>2, GoesTo DEF Concluding
      <4> QED
        BY <3>1, <4>1, <4>2 DEF Reverify
    <3> QED
      BY <1>1, <2>2, <3>1, GoesTo
      DEF Invoke, ClaimControllerDispatch, Claim, ClaimDispatch, Claiming,
          Call, Answer, SaveTemporary, SaveArtifacts, Concluding
  <2>3. CASE Mark(p)
    BY <1>1, <2>3, GoesTo
    DEF Mark, Capture, MarkTemporary, MarkLink, MarkUnlink, Recheck, Concluding
  <2> QED
    BY <2>1, <2>2, <2>3
<1>4. \A a \in Reconciled(led) : result'[a] = result[a]
  <2>1. CASE Answer(p)
    <3>1. proc[p].a \notin Reconciled(led)
      BY <2>1 DEF IInv, Local, SentHolds, Sent, Answer, At
    <3> QED
      BY <1>1, <2>1, <3>1 DEF Answer, Reconciled
  <2>2. CASE ~Answer(p)
    BY <2>2
    DEF Prepare, Snapshot, ReserveAttempt, MakeDirectory, PublishIntent,
        Invoke, Reverify, ClaimControllerDispatch, ClaimDispatch, Claiming,
        Call, SaveTemporary, SaveArtifacts,
        Mark, Capture, MarkTemporary, MarkLink, MarkUnlink, Recheck
  <2> QED
    BY <2>1, <2>2
<1>5. Judged(proc[p])'
  BY <1>3 DEF Judged
<1> QED
  BY <1>2, <1>3, <1>4, <1>5, StopKept, JudgedKept DEF StopInv

\* Only leftovers of the dead spoil a tree in which no one is publishing, and
\* only a torn event a journal to which no one is appending.
LEMMA JudgingSteps ==
  ASSUME IInv, StopInv, Undisturbed, [Next]_vars, NEW p \in Procs,
         \/ Review(p) \/ Inspect(p) \/ CaptureEvidence(p) \/ Account(p)
         \/ ReconcileAttempt(p) \/ CommitReading(p)
  PROVE  StopInv'
<1>1. /\ proc \in [Procs -> Command] /\ Judged(proc[p])
      /\ slot = Torn => slot' = Torn
  BY TornStays DEF IInv, Types, StopInv
<1>2. UNCHANGED <<led, strays, result>>
  BY DEF Review, Inspect, CaptureEvidence, Account, ReconcileAttempt,
         CommitReading
<1>3. ASSUME NEW what, See(p, what),
             what = "invalid_evidence" => proc[p].a \in strays \/ slot = Torn
      PROVE  /\ \A q \in Procs \ {p} : proc'[q] = proc[q]
             /\ Judged(proc[p])'
  BY <1>1, <1>2, <1>3 DEF See, Command, Judged
<1>4. ASSUME NEW pc, Goto(p, pc), pc \in Concluding => proc[p].pc \in Concluding
      PROVE  /\ \A q \in Procs \ {p} : proc'[q] = proc[q]
             /\ Judged(proc[p])'
  BY <1>1, <1>2, <1>4 DEF Goto, Command, Judged
<1>5. ASSUME Quit(p)
      PROVE  /\ \A q \in Procs \ {p} : proc'[q] = proc[q]
             /\ Judged(proc[p])'
  BY <1>1, <1>2, <1>5, GoesTo DEF Judged, Concluding
<1>6. ASSUME Review(p)
      PROVE  /\ \A q \in Procs \ {p} : proc'[q] = proc[q]
             /\ Judged(proc[p])'
  BY <1>1, <1>2, <1>6 DEF Review, Command, Judged, Concluding
<1>7. ASSUME Inspect(p)
      PROVE  /\ \A q \in Procs \ {p} : proc'[q] = proc[q]
             /\ Judged(proc[p])'
  BY <1>3, <1>4, <1>5, <1>7 DEF Inspect, Concluding
<1>8. ASSUME CaptureEvidence(p)
      PROVE  /\ \A q \in Procs \ {p} : proc'[q] = proc[q]
             /\ Judged(proc[p])'
  <2>1. proc[p].pc = "evidence" /\ "intent" \in files[proc[p].a]
    BY <1>8
    DEF IInv, Local, OpFits, SeenHolds, Settling, Directories, Stages,
        CaptureEvidence, At
  <2>2. ~Clean(proc[p].a) => proc[p].a \in strays
    BY <2>1 DEF At, Undisturbed, Clean
  <2>3. ~Loaded => slot = Torn
    BY <2>1 DEF At, Undisturbed, Loaded, StopInv, SlotShut
  <2>4. ~Verified(proc[p].a) => proc[p].a \in strays \/ slot = Torn
    BY <2>1, <2>2, <2>3 DEF Verified, Stored
  <2> QED
    BY <1>3, <1>4, <1>5, <1>8, <2>4 DEF CaptureEvidence, Concluding
<1>9. ASSUME Account(p)
      PROVE  /\ \A q \in Procs \ {p} : proc'[q] = proc[q]
             /\ Judged(proc[p])'
  <2>1. CASE \E e : proc' = [proc EXCEPT ![p].pc = "append", ![p].todo = e,
                                       ![p].at = now]
    <3>1. proc[p].pc = "account"
      BY <1>9 DEF Account, At
    <3> QED
      BY <1>1, <1>2, <2>1, <3>1 DEF Command, Judged, Concluding
  <2>2. CASE Quit(p)
    BY <1>5, <2>2
  <2> QED
    BY <1>9, <2>1, <2>2 DEF Account
<1>10. ASSUME ReconcileAttempt(p)
      PROVE  /\ \A q \in Procs \ {p} : proc'[q] = proc[q]
             /\ Judged(proc[p])'
  BY <1>4, <1>5, <1>10 DEF ReconcileAttempt, Claim, At, Concluding
<1>11. ASSUME CommitReading(p)
      PROVE  /\ \A q \in Procs \ {p} : proc'[q] = proc[q]
             /\ Judged(proc[p])'
  <2>1. proc[p].op = "accept"
    BY <1>11 DEF IInv, Local, OpFits, CommitReading, At
  <2>2. Goto(p, "appending") => /\ \A q \in Procs \ {p} : proc'[q] = proc[q]
                                /\ proc'[p].op = "accept"
    BY <1>1, <2>1 DEF Goto, Command
  <2> QED
    BY <1>5, <1>11, <2>2 DEF CommitReading, Claim, Judged
<1> QED
  BY <1>2, <1>6, <1>7, <1>8, <1>9, <1>10, <1>11, StopKept, JudgedKept
  DEF StopInv

\* The slot's event stops the controller only by evidence it settles with: an
\* answer out of bounds, or damage that the dead have left.
LEMMA WritingSteps ==
  ASSUME IInv, StopInv, [Next]_vars, NEW p \in Procs,
         Reserving(p) \/ Authorizing(p) \/ Appending(p)
  PROVE  StopInv'
<1>1. /\ proc \in [Procs -> Command] /\ led \in State /\ Local(proc[p])
      /\ Written(p) /\ UNCHANGED <<strays, result>>
      /\ proc[p].pc \in Writing
  BY DEF IInv, Types, Reserving, Authorizing, Appending, At, Writing
<1>2. PICK t \in 0 .. now : led' = slot.next /\ Pending(proc[p], t, slot.next)
  BY <1>1, PendingEvent
<1>3. /\ \A q \in Procs \ {p} : proc'[q] = proc[q]
      /\ Judged(proc[p])'
  BY <1>1, GoesTo DEF Reserving, Authorizing, Appending, Judged, Concluding
<1>4. CASE /\ proc[p].pc = "appending" /\ proc[p].op = "reconcile"
           /\ ReconciliationLegal(led, proc[p].a, proc[p].todo, t)
           /\ led' = WithReconciliation(led, proc[p].a, proc[p].todo, t)
  <2>1. PICK a \in Attempts : a = proc[p].a
    BY <1>1, <1>4 DEF Local, OpFits
  <2>2. PICK e \in Evidence :
          /\ e = proc[p].todo /\ e.invalid = OutcomeSeen(proc[p]).invalid
          /\ e.overrun = OutcomeSeen(proc[p]).overrun
    BY <1>1, <1>4 DEF Local, Concluded
  <2>3. /\ led'.stopped = (led.stopped \/ e.invalid \/ e.overrun)
        /\ led'.reconciliations = [led.reconciliations EXCEPT ![a] = e]
    BY <1>1, <1>4, <2>1, <2>2 DEF WithReconciliation, State
  <2>4. /\ Reconciled(led) \subseteq Reconciled(led') /\ a \in Reconciled(led')
    BY <1>1, <2>3, NoneAssumption DEF State, Reconciled
  <2>5. ASSUME e.invalid \/ e.overrun
        PROVE  \/ a \in strays
               \/ result[a] # None /\ (result[a].overrun \/ result[a].invalid)
    <3>1. CASE proc[p].seen = "captured"
      <4>1. result[a] # None
        BY <1>1, <1>4, <2>1, <3>1
        DEF IInv, Directories, Local, SeenHolds, Concluding
      <4> QED
        BY <2>1, <2>2, <2>5, <3>1, <4>1 DEF OutcomeSeen
    <3>2. CASE proc[p].seen = "invalid_evidence"
      <4>1. slot # Torn
        BY <1>1, StagedAssumption DEF Written, Torn
      <4> QED
        BY <1>4, <2>1, <3>2, <4>1 DEF StopInv, Judged, Concluding
    <3>3. CASE proc[p].seen \notin {"captured", "invalid_evidence"}
      BY <2>2, <2>5, <3>3 DEF OutcomeSeen, Uncaptured
    <3> QED
      BY <3>1, <3>2, <3>3
  <2>6. StopOnlyOnBadEvidence'
    <3>1. CASE led.stopped
      BY <1>1, <2>4, <3>1 DEF StopInv, StopOnlyOnBadEvidence
    <3>2. CASE ~led.stopped
      BY <1>1, <2>3, <2>4, <2>5, <3>2 DEF StopOnlyOnBadEvidence
    <3> QED
      BY <3>1, <3>2
  <2> QED
    BY <1>1, <1>3, <2>6, JudgedKept DEF StopInv
<1>5. CASE ~ /\ proc[p].pc = "appending" /\ proc[p].op = "reconcile"
             /\ ReconciliationLegal(led, proc[p].a, proc[p].todo, t)
             /\ led' = WithReconciliation(led, proc[p].a, proc[p].todo, t)
  <2>1. led'.stopped = led.stopped /\ led'.reconciliations = led.reconciliations
    BY <1>1, <1>2, <1>5
    DEF Pending, State, WithReservation, WithDispatch, WithAcceptance
  <2>2. led'.stopped = led.stopped /\ Reconciled(led') = Reconciled(led)
    BY <2>1 DEF Reconciled
  <2>3. StopOnlyOnBadEvidence'
    BY <1>1, <2>2 DEF StopInv, StopOnlyOnBadEvidence
  <2> QED
    BY <1>1, <1>3, <2>3, JudgedKept DEF StopInv
<1> QED
  BY <1>4, <1>5

\* What is started has seen nothing yet; what ends takes nothing with it.
LEMMA OutsideSteps ==
  ASSUME IInv, StopInv, [Next]_vars, NEW p \in Procs,
         \/ \E a \in Attempts : Decide(p, a) \/ Run(p, a) \/ Reconcile(p, a)
         \/ \E n \in Nodes : VerifyReading(p, n)
         \/ Crash(p) \/ GiveUp(p)
  PROVE  StopInv'
<1>1. proc \in [Procs -> Command]
  BY DEF IInv, Types
<1>2. UNCHANGED <<led, result>> /\ strays \subseteq strays'
  BY DEF Decide, Run, Reconcile, VerifyReading, Crash, GiveUp
<1>3. ASSUME Crash(p) \/ GiveUp(p)
      PROVE  /\ \A q \in Procs \ {p} : proc'[q] = proc[q]
             /\ Judged(proc[p])'
  BY <1>1, <1>3, GoesTo DEF Crash, GiveUp, Judged, Concluding
<1>4. ASSUME NEW a \in Attempts, Decide(p, a) \/ Run(p, a) \/ Reconcile(p, a)
      PROVE  /\ \A q \in Procs \ {p} : proc'[q] = proc[q]
             /\ Judged(proc[p])'
  <2>1. CASE Decide(p, a)
    <3>1. PICK r : proc' = [proc EXCEPT ![p].pc = "decided", ![p].op = "prepare",
                                        ![p].a = a, ![p].todo = r]
      BY <2>1 DEF Decide
    <3> QED
      BY <1>1, <3>1 DEF Command, Judged, Concluding
  <2>2. CASE Run(p, a)
    BY <1>1, <2>2 DEF Run, Command, Judged, Concluding
  <2>3. CASE Reconcile(p, a)
    <3>1. PICK ack \in BOOLEAN :
            proc' = [proc EXCEPT ![p].pc = "review", ![p].op = "reconcile",
                                 ![p].a = a, ![p].ack = ack]
      BY <2>3 DEF Reconcile
    <3> QED
      BY <1>1, <3>1 DEF Command, Judged, Concluding
  <2> QED
    BY <1>4, <2>1, <2>2, <2>3
<1>5. ASSUME NEW n \in Nodes, VerifyReading(p, n)
      PROVE  /\ \A q \in Procs \ {p} : proc'[q] = proc[q]
             /\ Judged(proc[p])'
  <2>1. PICK x : proc' = [proc EXCEPT ![p].pc = "proved", ![p].op = "accept",
                     ![p].n = n, ![p].head = led.sequence, ![p].todo = x]
    BY <1>5 DEF VerifyReading
  <2> QED
    BY <1>1, <2>1 DEF Command, Judged, Concluding
<1> QED
  BY <1>2, <1>3, <1>4, <1>5, StopKept, JudgedKept DEF StopInv

LEMMA NextStop == IInv /\ StopInv /\ Undisturbed /\ [Next]_vars => StopInv'
<1> SUFFICES ASSUME IInv, StopInv, Undisturbed, [Next]_vars
             PROVE  StopInv'
  OBVIOUS
<1>1. ASSUME NEW p \in Procs, Step(p) PROVE StopInv'
  BY <1>1, UnseenSteps, JudgingSteps, WritingSteps DEF Step, Settle
<1>2. CASE Tick \/ UNCHANGED vars
  BY <1>2, StopKept, TornStays DEF Tick, vars, StopInv, Judged
<1> QED
  BY <1>1, <1>2, OutsideSteps DEF Next

\* As long as no command judges an attempt's artifacts while another publishes
\* one there or appends to the journal, the controller is stopped only by an
\* answer that broke its bounds or by what a dead process left in a directory
\* (captureEvidence, which reads both).  MCStagedRace shows what happens
\* otherwise.
THEOREM StopsOnBadEvidence ==
  Spec /\ []Undisturbed => []StopOnlyOnBadEvidence
<1>1. Init => StopInv
  <2> SUFFICES ASSUME Init
               PROVE  StopInv
    OBVIOUS
  <2>1. ~led.stopped
    BY DEF Init, Initial
  <2>2. ASSUME NEW p \in Procs PROVE Judged(proc[p])
    BY DEF Init, Idle, Judged, Concluding
  <2> QED
    BY <2>1, <2>2 DEF StopInv, StopOnlyOnBadEvidence, SlotShut, Init
<1>2. StopInv => StopOnlyOnBadEvidence
  BY DEF StopInv
<1> QED
  BY <1>1, <1>2, NextStop, Invariance, PTL DEF Spec

-----------------------------------------------------------------------------
(* The commands implement the ledger.                                       *)

\* The ledger's operators are the controller's.
LEMMA LedgerViews ==
  /\ \A s : /\ Ledger!Reserved(s) = Reserved(s)
            /\ Ledger!Reconciled(s) = Reconciled(s)
            /\ Ledger!Accepted(s) = Accepted(s)
            /\ Ledger!Finalized(s) = Finalized(s)
            /\ Ledger!DispatchPending(s) <=> DispatchPending(s)
            /\ Ledger!HasRoom(s) <=> HasRoom(s)
            /\ \A t : Ledger!Live(s, t) <=> Live(s, t)
            /\ \A o : /\ Ledger!OfOwner(s, o) = OfOwner(s, o)
                      /\ Ledger!OwnerFinalized(s, o) <=> OwnerFinalized(s, o)
                      /\ Ledger!Frontier(s, o) = Frontier(s, o)
            /\ \A n : Ledger!OfNode(s, n) = OfNode(s, n)
            /\ \A a : Ledger!Succeeded(s, a) <=> Succeeded(s, a)
  BY DEF Ledger!Reserved, Reserved, Ledger!Reconciled, Reconciled,
         Ledger!Accepted, Accepted, Ledger!Finalized, Finalized,
         Ledger!DispatchPending, DispatchPending, Ledger!HasRoom, HasRoom,
         Ledger!Live, Live, Ledger!OfOwner, OfOwner, Ledger!OfNode, OfNode,
         Ledger!OwnerFinalized, OwnerFinalized, Ledger!Frontier, Frontier,
         Ledger!Succeeded, Succeeded

LEMMA LedgerDelay == Ledger!RetryDelay = RetryDelay
  BY DEF Ledger!RetryDelay, RetryDelay, Ledger!MinOf, MinOf

LEMMA LedgerCardinality == \A S : Ledger!Cardinality(S) = Cardinality(S)
  BY DEF Ledger!Cardinality, Cardinality

\* The ledger's rules and effects are the controller's.
LEMMA LedgerReservation ==
  ASSUME NEW s, NEW a, NEW r, NEW t
  PROVE  /\ Ledger!ReservationLegal(s, a, r, t) <=> ReservationLegal(s, a, r, t)
         /\ Ledger!WithReservation(s, a, r, t) = WithReservation(s, a, r, t)
<1>1. Ledger!PredecessorAllows(s, r, t) <=> PredecessorAllows(s, r, t)
  BY LedgerViews, LedgerDelay, LedgerCardinality
  DEF Ledger!PredecessorAllows, PredecessorAllows, Ledger!NextOutput,
      NextOutput, Ledger!Biggest, Biggest, Ledger!MinOf, MinOf
<1>2. Ledger!WithinQuotas(s, r) <=> WithinQuotas(s, r)
  BY LedgerViews, LedgerCardinality
  DEF Ledger!WithinQuotas, WithinQuotas, Ledger!TerminalCapacity,
      TerminalCapacity
<1>3. \A root, o : Ledger!SoleFrontier(s, root, o) <=> SoleFrontier(s, root, o)
  BY LedgerViews DEF Ledger!SoleFrontier, SoleFrontier
<1>4. Ledger!ReservationLegal(s, a, r, t) <=> ReservationLegal(s, a, r, t)
  BY <1>1, <1>2, <1>3, LedgerViews
  DEF Ledger!ReservationLegal, ReservationLegal
<1> QED
  BY <1>4 DEF Ledger!WithReservation, WithReservation

LEMMA LedgerDispatch ==
  ASSUME NEW s, NEW a, NEW t
  PROVE  /\ Ledger!DispatchLegal(s, a, t) <=> DispatchLegal(s, a, t)
         /\ Ledger!WithDispatch(s, a, t) = WithDispatch(s, a, t)
  BY LedgerViews
  DEF Ledger!DispatchLegal, DispatchLegal, Ledger!Dispatchable, Dispatchable,
      Ledger!WithDispatch, WithDispatch

LEMMA LedgerReconciliation ==
  ASSUME NEW s, NEW a, NEW e, NEW t
  PROVE  /\ Ledger!ReconciliationLegal(s, a, e, t)
              <=> ReconciliationLegal(s, a, e, t)
         /\ Ledger!WithReconciliation(s, a, e, t)
              = WithReconciliation(s, a, e, t)
<1>1. Ledger!EvidenceValid(e) <=> EvidenceValid(e)
  BY DEF Ledger!EvidenceValid, EvidenceValid, Ledger!Captured, Captured,
         Ledger!Unfinished, Unfinished
<1> QED
  BY <1>1, LedgerViews
  DEF Ledger!ReconciliationLegal, ReconciliationLegal,
      Ledger!WithReconciliation, WithReconciliation

LEMMA LedgerAcceptance ==
  ASSUME NEW s, NEW n, NEW x, NEW t
  PROVE  /\ Ledger!AcceptanceLegal(s, n, x, t) <=> AcceptanceLegal(s, n, x, t)
         /\ Ledger!WithAcceptance(s, n, x, t) = WithAcceptance(s, n, x, t)
  BY LedgerViews
  DEF Ledger!AcceptanceLegal, AcceptanceLegal, Ledger!WithAcceptance,
      WithAcceptance

\* A journal with one more event is another journal.
LEMMA EventsCount ==
  ASSUME NEW s \in State, NEW t
  PROVE  /\ \A a, r : WithReservation(s, a, r, t) # s
         /\ \A a : WithDispatch(s, a, t) # s
         /\ \A a, e : WithReconciliation(s, a, e, t) # s
         /\ \A n, x : WithAcceptance(s, n, x, t) # s
<1>1. s.sequence \in Nat /\ s.sequence + 1 # s.sequence
  BY DEF State
<1>2. \A a, r : WithReservation(s, a, r, t).sequence = s.sequence + 1
  BY DEF WithReservation, State
<1>3. \A a : WithDispatch(s, a, t).sequence = s.sequence + 1
  BY DEF WithDispatch, State
<1>4. \A a, e : WithReconciliation(s, a, e, t).sequence = s.sequence + 1
  BY DEF WithReconciliation, State
<1>5. \A n, x : WithAcceptance(s, n, x, t).sequence = s.sequence + 1
  BY DEF WithAcceptance, State
<1> QED
  BY <1>1, <1>2, <1>3, <1>4, <1>5

LedgerStep == led' # led /\ Ledger!Next

\* A reservation that was decided and priced earlier is one the ledger allows
\* now, with what is left of its quote's life.
LEMMA ReservingRefines ==
  ASSUME IInv, NEW p \in Procs, Reserving(p)
  PROVE  LedgerStep
<1>1. /\ proc[p] \in Command /\ Local(proc[p]) /\ proc[p].pc = "reserving"
      /\ proc[p].pc \in Writing /\ led \in State /\ now \in StartAt .. Horizon
  BY DEF IInv, Types, Reserving, At, Writing
<1>2. PICK a, r : a = proc[p].a /\ r = proc[p].todo
  OBVIOUS
<1>3. /\ a \in Attempts /\ r \in Reservation
      /\ r.input \in Inputs /\ r.spend \in Spends
      /\ r.output \in Variants[r.node] /\ r.root = None
  BY <1>1, <1>2 DEF Local, OpFits, Requested, Requesting, Preparing
<1>4. HasRoom(led) /\ led' = slot.next
      /\ \E t \in 0 .. now : Pending(proc[p], t, slot.next)
  BY <1>1, PendingEvent DEF Reserving
<1>5. PICK t \in 0 .. now :
        /\ ReservationLegal(led, a, r, t) /\ led' = WithReservation(led, a, r, t)
        /\ \E l \in Lives : r.until <= t + l
  BY <1>1, <1>2, <1>4 DEF Pending
<1>6. t \in Ledger!Times /\ t \in Nat /\ t \in 0 .. Horizon
  BY <1>1, <1>5, StagedAssumption, PolicyAssumption
  DEF Ledger!Times, ReservationLegal, Live, State
<1>7. PICK l \in Lives : r.until <= t + l
  BY <1>5
<1>8. /\ r.until - t \in 0 .. l /\ l \in Nat
      /\ r.until = t + (r.until - t)
  <2>1. r.until \in Nat /\ r.until > t /\ l \in Nat
    BY <1>3, <1>5, StagedAssumption DEF Reservation, ReservationLegal
  <2> QED
    BY <1>6, <1>7, <2>1
<1>9. r.notBefore \in 0 .. Horizon
  BY <1>3, <1>5, <1>6, StagedAssumption
  DEF Reservation, ReservationLegal, PredecessorAllows
<1>10. PICK m : m = r.until - t
  OBVIOUS
<1>11. m \in UNION {0 .. k : k \in Lives} /\ r.until = t + m
  BY <1>7, <1>8, <1>10
<1>12. r = [node |-> r.node, input |-> r.input, output |-> r.output,
            spend |-> r.spend, until |-> t + m,
            predecessor |-> r.predecessor, notBefore |-> r.notBefore,
            root |-> r.root]
  BY <1>3, <1>11 DEF Reservation
<1>13. /\ r.node \in Nodes /\ r.predecessor \in Attempts \cup {None}
       /\ r.root \in Nodes \cup {None}
  BY <1>3 DEF Reservation
<1>14. Ledger!ReservationLegal(led, a, r, t)
       /\ Ledger!Append(Ledger!WithReservation(led, a, r, t))
  BY <1>4, <1>5, LedgerReservation, LedgerViews DEF Ledger!Append
<1>15. Ledger!Reserve(a)
  BY <1>3, <1>6, <1>9, <1>11, <1>12, <1>13, <1>14, ZenonT(40) DEF Ledger!Reserve
<1> QED
  BY <1>1, <1>3, <1>5, <1>15, EventsCount DEF LedgerStep, Ledger!Next

\* A dispatch, by the head it was verified at or the rules at its writing.
LEMMA AuthorizingRefines ==
  ASSUME IInv, NEW p \in Procs, Authorizing(p)
  PROVE  LedgerStep
<1>1. /\ proc[p] \in Command /\ Local(proc[p]) /\ proc[p].pc = "authorizing"
      /\ proc[p].pc \in Writing /\ led \in State /\ now \in StartAt .. Horizon
  BY DEF IInv, Types, Authorizing, At, Writing
<1>2. PICK a \in Attempts : a = proc[p].a
  BY <1>1 DEF Local, OpFits, Invoking
<1>3. HasRoom(led) /\ led' = slot.next
      /\ \E t \in 0 .. now : Pending(proc[p], t, slot.next)
  BY <1>1, PendingEvent DEF Authorizing
<1>4. PICK t \in 0 .. now :
        DispatchLegal(led, a, t) /\ led' = WithDispatch(led, a, t)
  BY <1>1, <1>2, <1>3 DEF Pending
<1>5. t \in Ledger!Times
  BY <1>1, <1>4, StagedAssumption, PolicyAssumption
  DEF Ledger!Times, DispatchLegal, Dispatchable, Live, State
<1>6. Ledger!Dispatch(a)
  BY <1>3, <1>4, <1>5, LedgerDispatch, LedgerViews
  DEF Ledger!Dispatch, Ledger!Append
<1> QED
  BY <1>1, <1>4, <1>6, EventsCount DEF LedgerStep, Ledger!Next

\* A settlement or an acceptance.
LEMMA AppendingRefines ==
  ASSUME IInv, NEW p \in Procs, Appending(p)
  PROVE  LedgerStep
<1>1. /\ proc[p] \in Command /\ Local(proc[p]) /\ proc[p].pc = "appending"
      /\ proc[p].pc \in Writing /\ led \in State /\ now \in StartAt .. Horizon
  BY DEF IInv, Types, Appending, At, Writing
<1>2. HasRoom(led) /\ led' = slot.next
      /\ \E t \in 0 .. now : Pending(proc[p], t, slot.next)
  BY <1>1, PendingEvent DEF Appending
<1>3. PICK t \in 0 .. now : Pending(proc[p], t, slot.next)
  BY <1>2
<1>4. CASE proc[p].op = "reconcile"
  <2>1. PICK a \in Attempts, e \in Evidence :
          /\ a = proc[p].a /\ e = proc[p].todo
          /\ ReconciliationLegal(led, a, e, t) /\ e.at = t
          /\ led' = WithReconciliation(led, a, e, t)
    BY <1>1, <1>2, <1>3, <1>4
    DEF Pending, Local, OpFits, Concluded
  <2>2. PICK o \in Outcomes :
          /\ e.class = o.class /\ e.captured = o.captured
          /\ e.invalid = o.invalid /\ e.overrun = o.overrun
    BY <1>1, <1>4, <2>1, SeenIsOutcome DEF Local, Concluded, Concluding
  <2>3. PICK wait \in Waits \cup 0 .. MaxDelay : e.notBefore = t + wait
    <3>1. proc[p].prior = None
      BY <1>1, <1>4, <2>1
      DEF Local, ReviewHolds, ReconciliationLegal, Reconciled
    <3> QED
      BY <1>1, <1>4, <2>1, <3>1 DEF Local, Concluded, Delays
  <2>4. e = [class |-> o.class, captured |-> o.captured, invalid |-> o.invalid,
             overrun |-> o.overrun, notBefore |-> t + wait, at |-> t]
    BY <2>1, <2>2, <2>3 DEF Evidence
  <2>5. t \in Ledger!Times
    BY <1>1, <2>1, StagedAssumption, PolicyAssumption
    DEF Ledger!Times, ReconciliationLegal, State
  <2>6. Ledger!Reconcile(a)
    BY <1>2, <2>1, <2>4, <2>5, LedgerReconciliation, LedgerViews
    DEF Ledger!Reconcile, Ledger!DatedEvidence, Ledger!Append
  <2> QED
    BY <1>1, <2>1, <2>6, EventsCount DEF LedgerStep, Ledger!Next
<1>5. CASE proc[p].op = "accept"
  <2>1. PICK n \in Nodes, x \in Acceptance :
          /\ n = proc[p].n /\ x = proc[p].todo
          /\ AcceptanceLegal(led, n, x, t)
          /\ led' = WithAcceptance(led, n, x, t)
    BY <1>1, <1>2, <1>3, <1>5 DEF Pending, Local, Accepting
  <2>2. x = [attempt |-> x.attempt, parents |-> x.parents]
        /\ x.attempt \in Attempts /\ x.parents \in SUBSET Ledger!Accepted(led)
    BY <2>1, LedgerViews DEF Acceptance, AcceptanceLegal
  <2>3. t \in Ledger!Times
    BY <1>1, <2>1, StagedAssumption, PolicyAssumption
    DEF Ledger!Times, AcceptanceLegal, State
  <2>4. Ledger!Accept(n)
    BY <1>2, <2>1, <2>2, <2>3, LedgerAcceptance, LedgerViews, ZenonT(40)
    DEF Ledger!Accept, Ledger!Append
  <2> QED
    BY <1>1, <2>1, <2>4, EventsCount DEF LedgerStep, Ledger!Next
<1> QED
  BY <1>1, <1>4, <1>5 DEF Local, OpFits

\* Every other step leaves the journal alone.
LEMMA NextRefines == IInv /\ [Next]_vars => [LedgerStep]_led
<1> SUFFICES ASSUME IInv, [Next]_vars, led' # led
             PROVE  LedgerStep
  OBVIOUS
<1>1. ASSUME NEW p \in Procs, Step(p)
      PROVE  Reserving(p) \/ Authorizing(p) \/ Appending(p)
  BY <1>1
  DEF Step, Prepare, Invoke, Mark, Settle, Snapshot, ReserveAttempt,
      MakeDirectory, PublishIntent, Reverify, ClaimControllerDispatch,
      ClaimDispatch, Claiming, Call, Answer, SaveTemporary, SaveArtifacts,
      Capture, MarkTemporary, MarkLink, MarkUnlink, Recheck, Review, Inspect,
      CaptureEvidence, Account, ReconcileAttempt, CommitReading
<1>2. \A p \in Procs : ~Crash(p) /\ ~GiveUp(p)
  BY DEF Crash, GiveUp
<1>3. \A p \in Procs, a \in Attempts :
        ~Decide(p, a) /\ ~Run(p, a) /\ ~Reconcile(p, a)
  BY DEF Decide, Run, Reconcile
<1>4. \A p \in Procs, n \in Nodes : ~VerifyReading(p, n)
  BY DEF VerifyReading
<1>5. ~Tick /\ ~UNCHANGED vars
  BY DEF Tick, vars
<1>6. \E p \in Procs : Step(p)
  BY <1>2, <1>3, <1>4, <1>5 DEF Next
<1> QED
  BY <1>1, <1>6, ReservingRefines, AuthorizingRefines, AppendingRefines

LEMMA InitRefines == Init => Ledger!Init
  BY DEF Init, Ledger!Init, Initial, Ledger!Initial

\* Whatever the processes do, and wherever they die, the journal changes by
\* legal events only, one at a time (append, apply): the staged council
\* implements the controller's ledger.
THEOREM JournalImplementsLedger == Spec => ImplementsLedger
<1>1. IInv /\ [Next]_vars => [led' # led /\ Ledger!Next]_led
  BY NextRefines DEF LedgerStep
<1> QED
  BY <1>1, Invariance, InitRefines, PTL DEF Spec, ImplementsLedger

-----------------------------------------------------------------------------
(* What the ledger promises, the commands keep: its theorems hold of the    *)
(* journal the processes write.                                             *)

Proved == INSTANCE ControllerLedgerProofs
            WITH Lives <- UNION {0..l : l \in Lives},
                 Waits <- Waits \cup 0..MaxDelay

LEMMA PolicyKept == Proved!PolicyAssumption /\ Proved!NoneAssumption
<1>1. /\ Proved!IsFiniteSet(Nodes) /\ Proved!IsFiniteSet(Attempts)
      /\ Proved!Cardinality(Nodes) = Cardinality(Nodes)
  BY PolicyAssumption
  DEF IsFiniteSet, Proved!IsFiniteSet, Cardinality, Proved!Cardinality
<1>2. Proved!PolicyAssumption
  BY <1>1, PolicyAssumption DEF Proved!PolicyAssumption
<1>3. Proved!NoneAssumption
  BY NoneAssumption
  DEF Proved!NoneAssumption, Proved!Reservation, Reservation,
      Proved!Evidence, Evidence, Proved!Acceptance, Acceptance,
      Proved!Finalization, Finalization, Proved!Captured, Captured,
      Proved!Unfinished, Unfinished
<1> QED
  BY <1>2, <1>3

\* What the commands ask for is what the ledger's callers may ask for.
LEMMA RequestKept == Proved!RequestAssumption
<1>1. UNION {0..l : l \in Lives} \subseteq Nat
  OBVIOUS
<1> QED
  BY <1>1, StagedAssumption, PolicyAssumption
  DEF Proved!RequestAssumption, Proved!Outcome, Proved!Captured, Captured,
      Proved!Unfinished, Unfinished

LEMMA SameNext == [Ledger!Next]_led <=> [Proved!Next]_led
  BY DEF Ledger!Next, Proved!Next, Ledger!Reserve, Proved!Reserve,
         Ledger!Dispatch, Proved!Dispatch, Ledger!Reconcile, Proved!Reconcile,
         Ledger!Accept, Proved!Accept, Ledger!Finalize, Proved!Finalize,
         Ledger!Append, Proved!Append, Ledger!Times, Proved!Times,
         Ledger!HasRoom, Proved!HasRoom, Ledger!DatedEvidence,
         Proved!DatedEvidence, Ledger!ReservationLegal,
         Proved!ReservationLegal, Ledger!DispatchLegal, Proved!DispatchLegal,
         Ledger!ReconciliationLegal, Proved!ReconciliationLegal,
         Ledger!AcceptanceLegal, Proved!AcceptanceLegal,
         Ledger!FinalizationLegal, Proved!FinalizationLegal,
         Ledger!WithReservation, Proved!WithReservation, Ledger!WithDispatch,
         Proved!WithDispatch, Ledger!WithReconciliation,
         Proved!WithReconciliation, Ledger!WithAcceptance,
         Proved!WithAcceptance, Ledger!WithFinalization,
         Proved!WithFinalization, Ledger!Live, Proved!Live,
         Ledger!Dispatchable, Proved!Dispatchable, Ledger!DispatchPending,
         Proved!DispatchPending, Ledger!EvidenceValid, Proved!EvidenceValid,
         Ledger!Succeeded, Proved!Succeeded, Ledger!SoleFrontier,
         Proved!SoleFrontier, Ledger!Frontier, Proved!Frontier,
         Ledger!OfOwner, Proved!OfOwner, Ledger!OfNode, Proved!OfNode,
         Ledger!OwnerFinalized, Proved!OwnerFinalized, Ledger!Reserved,
         Proved!Reserved, Ledger!Reconciled, Proved!Reconciled,
         Ledger!Accepted, Proved!Accepted, Ledger!Finalized, Proved!Finalized,
         Ledger!WithinQuotas, Proved!WithinQuotas, Ledger!TerminalCapacity,
         Proved!TerminalCapacity, Ledger!PredecessorAllows,
         Proved!PredecessorAllows, Ledger!NextOutput, Proved!NextOutput,
         Ledger!Biggest, Proved!Biggest, Ledger!MinOf, Proved!MinOf,
         Ledger!RetryDelay, Proved!RetryDelay, Ledger!Captured,
         Proved!Captured, Ledger!Unfinished, Proved!Unfinished,
         Ledger!Cardinality, Proved!Cardinality

LEMMA SameInit == Ledger!Init <=> Proved!Init
  BY DEF Ledger!Init, Proved!Init, Ledger!Initial, Proved!Initial

LedgerPromises ==
  /\ Ledger!OneOpenAttempt /\ Ledger!OnePendingDispatch
  /\ Ledger!FinishedNodeQuiet /\ Ledger!TerminalRoom

ProvedPromises ==
  /\ Proved!OneOpenAttempt /\ Proved!OnePendingDispatch
  /\ Proved!FinishedNodeQuiet /\ Proved!TerminalRoom

LEMMA SamePromises == ProvedPromises <=> LedgerPromises
  BY DEF LedgerPromises, ProvedPromises,
         Ledger!OneOpenAttempt, Proved!OneOpenAttempt,
         Ledger!OnePendingDispatch, Proved!OnePendingDispatch,
         Ledger!TerminalRoom, Proved!TerminalRoom, Ledger!Owed, Proved!Owed,
         Ledger!FinishedNodeQuiet, Proved!FinishedNodeQuiet, Ledger!OfNode,
         Proved!OfNode, Ledger!OfOwner, Proved!OfOwner, Ledger!Reserved,
         Proved!Reserved, Ledger!Reconciled, Proved!Reconciled,
         Ledger!Accepted, Proved!Accepted, Ledger!Finalized, Proved!Finalized,
         Ledger!Cardinality, Proved!Cardinality

\* Under races, crashes and torn events alike: a node has one open attempt, one
\* dispatch is unsettled, finished nodes are quiet, and the journal keeps room
\* for what every charged attempt has still to record.
THEOREM JournalKeepsPromises == Spec => []LedgerPromises
<1>1. [led' # led /\ Ledger!Next]_led => [Ledger!Next]_led
  OBVIOUS
<1>2. ImplementsLedger => Proved!Spec
  BY <1>1, SameInit, SameNext, PTL DEF ImplementsLedger, Proved!Spec
<1>3. Proved!Spec => []Proved!OneOpenAttempt
  BY PolicyKept, RequestKept, Proved!NodesHaveOneOpenAttempt
<1>4. Proved!Spec => []Proved!OnePendingDispatch
  BY PolicyKept, RequestKept, Proved!DispatchesAreSerial
<1>5. Proved!Spec => []Proved!FinishedNodeQuiet
  BY PolicyKept, RequestKept, Proved!FinishedNodesStayQuiet
<1>6. Proved!Spec => []Proved!TerminalRoom
  BY PolicyKept, RequestKept, Proved!JournalHasTerminalRoom
<1>7. Proved!Spec => []ProvedPromises
  BY <1>3, <1>4, <1>5, <1>6, PTL DEF ProvedPromises
<1> QED
  BY <1>2, <1>7, SamePromises, JournalImplementsLedger, PTL
=============================================================================
