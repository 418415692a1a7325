--------------------------- MODULE StagedController --------------------------
(***************************************************************************)
(* The staged council's commands as processes over one file system:        *)
(*   prepare, run, reconcile    scripts/lib/council-staged-controller.ts   *)
(*   the acceptance commit      scripts/lib/council-staged-derived-runtime *)
(*   the journal                scripts/lib/council-staged-controller-store*)
(*   the attempt directories    scripts/lib/council-staged-attempt-store   *)
(*   the one provider call      scripts/council-invoke.ts                  *)
(* A step is what happens between two points where another process, or a   *)
(* crash, can come in.  `led` is what replaying the complete events gives. *)
(***************************************************************************)
EXTENDS ControllerState

CONSTANTS
  Procs,        \* command invocations that may run at once
  Inputs, Spends, Lives, Outcomes, Waits,
  Results,      \* what a provider call can come back with (a subset of
                \* Outcomes: the captured ones)
  Horizon,      \* the run's last instant
  MaxCrashes    \* the run's crashes

\* What a reconciler concludes without a capture.
Damaged == [class |-> "nonretryable", captured |-> FALSE, invalid |-> TRUE,
            overrun |-> FALSE]
Uncaptured(class) == [class |-> class, captured |-> FALSE, invalid |-> FALSE,
                      overrun |-> FALSE]

\* The semantic runtime refuses v3 controllers: no composition is prepared.
\* Bounds and delays are numbers; outcomes are those of calls and inspections.
ASSUME StagedAssumption ==
  /\ Version \in 1..2
  /\ \A numbers \in {Inputs, Spends, Lives, Waits} : numbers \subseteq Nat
  /\ Outcomes \subseteq [class : Captured \cup Unfinished, captured : BOOLEAN,
                         invalid : BOOLEAN, overrun : BOOLEAN]
  /\ Results \subseteq {o \in Outcomes : o.captured} 
  /\ None \notin Results \cup Procs
  /\ None \notin {"prepare", "run", "reconcile", "accept"}
  /\ {Damaged, Uncaptured("ambiguous"), Uncaptured("not_dispatched")}
       \subseteq Outcomes
  /\ Horizon \in Nat /\ StartAt <= Horizon /\ MaxCrashes \in Nat

VARIABLES
  led,      \* the controller every reader of the complete journal sees
  slot,     \* the next event file: Free, Torn, or being written
  files,    \* [Attempts -> the complete names in the attempt directory]
  strays,   \* attempts whose directory holds a dead process's leftovers
  result,   \* [Attempts -> what the provider answered, None before]
  calls,    \* [Attempts -> provider calls started]
  now,      \* the host clock
  crashes,
  proc      \* [Procs -> where a command stands and what it has read]

vars == <<led, slot, files, strays, result, calls, now, crashes, proc>>

Free == [file |-> "absent", by |-> None, next |-> None]
Torn == [file |-> "torn", by |-> None, next |-> None]

\* head: the journal head its work was verified at.  at: the time it passes to
\* `append`.  todo: the reservation, evidence or acceptance it will append.
\* seen: what an inspection found.  ack: --acknowledge-stopped.
Idle == [pc |-> "idle", op |-> None, a |-> None, n |-> None, head |-> None,
         at |-> 0, todo |-> None, seen |-> None, prior |-> None,
         dispatched |-> FALSE, ack |-> FALSE]

Init ==
  /\ led = Initial /\ slot = Free
  /\ files = [a \in Attempts |-> {}] /\ strays = {}
  /\ result = [a \in Attempts |-> None]
  /\ calls = [a \in Attempts |-> 0]
  /\ now = StartAt /\ crashes = 0
  /\ proc = [p \in Procs |-> Idle]

-----------------------------------------------------------------------------
Goto(p, pc) == proc' = [proc EXCEPT ![p].pc = pc]
Quit(p) == proc' = [proc EXCEPT ![p] = Idle]

At(p, pc) == proc[p].pc = pc

\* stableLoad waits a moment for a slot another process is writing, and throws
\* if it stays unreadable; a torn one never becomes readable.
Loaded == slot = Free

Temporaries(a) ==
  {p \in Procs : proc[p].a = a /\ proc[p].pc \in {"saved", "marked", "linked"}}

\* verifyTree: nothing but the complete artifacts, none of them linked twice.
Clean(a) == a \notin strays /\ Temporaries(a) = {}

\* verifyStored, which every operation on an attempt directory begins with.
Stored(a) == "intent" \in files[a] /\ Clean(a)

\* A command whose invocation fails: `run` still reconciles, without any
\* acknowledgement; the others report the error.
Fail(p) ==
  IF proc[p].op = "run"
  THEN proc' = [proc EXCEPT ![p].pc = "review", ![p].op = "reconcile"]
  ELSE Quit(p)

-----------------------------------------------------------------------------
(* The journal: append(handle, nowMs, build, expectedCurrentHead).          *)
(* A reload after EEXIST is the same step taken later.                      *)

Fresh(p) == proc[p].head # None => proc[p].head = led.sequence

\* An event whose slot file now exists but whose bytes are incomplete.
Claim(p, next, pc) ==
  /\ HasRoom(led)
  /\ slot' = [file |-> "open", by |-> p, next |-> next]
  /\ Goto(p, pc)

\* The bytes are written and flushed: every reader sees the event.
Written(p) ==
  /\ slot.by = p
  /\ led' = slot.next /\ slot' = Free

-----------------------------------------------------------------------------
(* prepareControlledAttempt *)

\* When a node's next attempt may start: the evidence's time, and the backoff.
NextNotBefore(n) ==
  LET prev == led.latest[n]
      end == led.reconciliations[prev]
      due == end.at + RetryDelay[Cardinality(OfNode(led, n))]
  IN IF prev = None THEN 0
     ELSE IF due > end.notBefore THEN due ELSE end.notBefore

\* decideNextControlledAttempt: the node's first attempt, with its smallest
\* output, or the successor of its latest one, when that has ended and is due.
MayAsk(n, v) ==
  LET prev == led.latest[n]
      end == led.reconciliations[prev]
  IN IF prev = None THEN \A w \in Variants[n] : v <= w
     ELSE /\ prev \in Reconciled(led)
          /\ end.class \notin {"success", "nonretryable"}
          /\ now >= NextNotBefore(n)
          /\ v = NextOutput(n, led.reservations[prev].output, end.class)

Decide(p, a) ==
  /\ At(p, "idle") /\ Loaded
  /\ a \notin Reserved(led)
  /\ \E n \in Nodes, i \in Inputs, m \in Spends, l \in Lives :
     \E v \in Variants[n] :
      LET r == [node |-> n, input |-> i, output |-> v, spend |-> m,
                until |-> now + l, predecessor |-> led.latest[n],
                root |-> None, notBefore |-> NextNotBefore(n)]
      IN /\ MayAsk(n, v)
         /\ proc' = [proc EXCEPT ![p].pc = "decided", ![p].op = "prepare",
                                 ![p].a = a, ![p].todo = r]
  /\ UNCHANGED <<led, slot, files, strays, result, calls, now, crashes>>

\* A v2 controller's head is read before the request is counted and priced.
Snapshot(p) ==
  /\ At(p, "decided") /\ Loaded
  /\ proc' = [proc EXCEPT ![p].pc = "priced",
                ![p].head = IF Version = 1 THEN None ELSE led.sequence]
  /\ UNCHANGED <<led, slot, files, strays, result, calls, now, crashes>>

\* Mutant: only the head is compared; the rules were checked when deciding.
ReserveAttempt_M(p) ==
  /\ At(p, "priced") /\ Loaded
  /\ LET a == proc[p].a
         r == proc[p].todo
     IN IF Fresh(p) /\ HasRoom(led)
        THEN Claim(p, WithReservation(led, a, r, now), "reserving")
        ELSE Quit(p) /\ slot' = slot
  /\ UNCHANGED <<led, files, strays, result, calls, now, crashes>>

ReserveAttempt(p) ==
  /\ At(p, "priced") /\ Loaded
  /\ LET a == proc[p].a
         r == proc[p].todo
     IN IF Fresh(p) /\ HasRoom(led) /\ ReservationLegal(led, a, r, now)
        THEN Claim(p, WithReservation(led, a, r, now), "reserving")
        ELSE Quit(p) /\ slot' = slot
  /\ UNCHANGED <<led, files, strays, result, calls, now, crashes>>

Reserving(p) ==
  /\ At(p, "reserving") /\ Written(p) /\ Goto(p, "reserved")
  /\ UNCHANGED <<files, strays, result, calls, now, crashes>>

\* createAttemptIntent: an exclusive directory, then its intent.
MakeDirectory(p) ==
  /\ At(p, "reserved")
  /\ files' = [files EXCEPT ![proc[p].a] = {"directory"}]
  /\ Goto(p, "made")
  /\ UNCHANGED <<led, slot, strays, result, calls, now, crashes>>

PublishIntent(p) ==
  /\ At(p, "made")
  /\ files' = [files EXCEPT ![proc[p].a] = @ \cup {"intent"}]
  /\ Quit(p)
  /\ UNCHANGED <<led, slot, strays, result, calls, now, crashes>>

-----------------------------------------------------------------------------
(* runControlledAttempt: the invoker, its two claims and its one call.       *)

\* The operator never starts a run while declaring that attempt stopped.
Stopping(a) == \E q \in Procs : proc[q].a = a /\ proc[q].ack
Executing(a) == \E q \in Procs : proc[q].a = a /\ proc[q].op = "run"

Run(p, a) ==
  /\ At(p, "idle") /\ Loaded
  /\ a \in Reserved(led) /\ Stored(a) /\ ~Stopping(a)
  /\ proc' = [proc EXCEPT ![p].pc = "started", ![p].op = "run", ![p].a = a]
  /\ UNCHANGED <<led, slot, files, strays, result, calls, now, crashes>>

\* guard.claim: the head, then the reservation afresh.
Reverify(p) ==
  /\ At(p, "started") /\ Loaded
  /\ IF Dispatchable(led, proc[p].a, now) /\ Stored(proc[p].a)
     THEN proc' = [proc EXCEPT ![p].pc = "verified",
                     ![p].head = IF Version = 1 THEN None ELSE led.sequence]
     ELSE Fail(p)
  /\ UNCHANGED <<led, slot, files, strays, result, calls, now, crashes>>

ClaimControllerDispatch(p) ==
  /\ At(p, "verified") /\ Loaded
  /\ IF Fresh(p) /\ HasRoom(led) /\ DispatchLegal(led, proc[p].a, now)
     THEN Claim(p, WithDispatch(led, proc[p].a, now), "authorizing")
     ELSE Fail(p) /\ slot' = slot
  /\ UNCHANGED <<led, files, strays, result, calls, now, crashes>>

Authorizing(p) ==
  /\ At(p, "authorizing") /\ Written(p) /\ Goto(p, "authorized")
  /\ UNCHANGED <<files, strays, result, calls, now, crashes>>

\* claimDispatch of the attempt store: no result may exist, and the claim file
\* is created before its bytes are complete.
ClaimDispatch(p) ==
  /\ At(p, "authorized")
  /\ LET a == proc[p].a
     IN IF Stored(a) /\ files[a] \subseteq {"directory", "intent"}
        THEN /\ files' = [files EXCEPT ![a] = @ \cup {"dispatch-part"}]
             /\ Goto(p, "claiming")
        ELSE Fail(p) /\ files' = files
  /\ UNCHANGED <<led, slot, strays, result, calls, now, crashes>>

Claiming(p) ==
  /\ At(p, "claiming")
  /\ files' = [files EXCEPT ![proc[p].a] = (@ \ {"dispatch-part"})
                                             \cup {"dispatch"}]
  /\ Goto(p, "claimed")
  /\ UNCHANGED <<led, slot, strays, result, calls, now, crashes>>

\* remaining(): the quote and the deadline once more, then the request leaves.
Call(p) ==
  /\ At(p, "claimed")
  /\ LET a == proc[p].a
     IN IF now < led.reservations[a].until /\ now < Deadline
        THEN calls' = [calls EXCEPT ![a] = @ + 1] /\ Goto(p, "calling")
        ELSE Fail(p) /\ calls' = calls
  /\ UNCHANGED <<led, slot, files, strays, result, now, crashes>>

Answer(p) ==
  /\ At(p, "calling")
  /\ \E o \in Results : result' = [result EXCEPT ![proc[p].a] = o]
  /\ Goto(p, "answered")
  /\ UNCHANGED <<led, slot, files, strays, calls, now, crashes>>

\* writeAttemptArtifactExclusive, output then provenance: a temporary that
\* makes the tree unreadable until its name is linked and it is unlinked.
SaveTemporary(p) ==
  /\ At(p, "answered") /\ Goto(p, "saved")
  /\ UNCHANGED <<led, slot, files, strays, result, calls, now, crashes>>

SaveArtifacts(p) ==
  /\ At(p, "saved")
  /\ files' = [files EXCEPT ![proc[p].a] = @ \cup {"provenance"}]
  /\ Goto(p, "capture")
  /\ UNCHANGED <<led, slot, strays, result, calls, now, crashes>>

-----------------------------------------------------------------------------
(* captureAttempt: by the invoker, or by a reconciler that finds complete    *)
(* artifacts without a marker.                                               *)

\* captureEvidence succeeds: between its looks at the files it reads the journal
\* for the attempt's reservation and dispatch, and it ends with verifyTree.
Verified(a) == Loaded /\ Stored(a)

Back(p) ==
  IF proc[p].op = "run"
  THEN proc' = [proc EXCEPT ![p].pc = "review", ![p].op = "reconcile"]
  ELSE Goto(p, "inspect")

Capture(p) ==
  /\ At(p, "capture")
  /\ LET a == proc[p].a
     IN \/ ~Stored(a) /\ Fail(p)
        \/ Verified(a) /\ "capture" \in files[a] /\ Back(p)
        \/ Verified(a) /\ "capture" \notin files[a] /\ Goto(p, "marking")
  /\ UNCHANGED <<led, slot, files, strays, result, calls, now, crashes>>

\* publishRecord: a complete private temporary, a link that never replaces,
\* and the temporary's removal.
MarkTemporary(p) ==
  /\ At(p, "marking") /\ Goto(p, "marked")
  /\ UNCHANGED <<led, slot, files, strays, result, calls, now, crashes>>

MarkLink(p) ==
  /\ At(p, "marked")
  /\ files' = [files EXCEPT ![proc[p].a] = @ \cup {"capture"}]
  /\ Goto(p, IF "capture" \in files[proc[p].a] THEN "recheck" ELSE "linked")
  /\ UNCHANGED <<led, slot, strays, result, calls, now, crashes>>

MarkUnlink(p) ==
  /\ At(p, "linked") /\ Goto(p, "recheck")
  /\ UNCHANGED <<led, slot, files, strays, result, calls, now, crashes>>

\* verifyCapture, after one's own publication or the other's.
Recheck(p) ==
  /\ At(p, "recheck")
  /\ \/ Verified(proc[p].a) /\ Back(p)
     \/ ~Stored(proc[p].a) /\ Fail(p)
  /\ UNCHANGED <<led, slot, files, strays, result, calls, now, crashes>>

-----------------------------------------------------------------------------
(* reconcileControlledAttempt *)

Reconcile(p, a) ==
  /\ At(p, "idle")
  /\ a \in Reserved(led)
  /\ \E ack \in BOOLEAN :
       /\ ack => ~Executing(a)
       /\ proc' = [proc EXCEPT ![p].pc = "review", ![p].op = "reconcile",
                               ![p].a = a, ![p].ack = ack]
  /\ UNCHANGED <<led, slot, files, strays, result, calls, now, crashes>>

\* The events are read once, before any artifact is looked at.
Review(p) ==
  /\ At(p, "review") /\ Loaded
  /\ LET a == proc[p].a
     IN proc' = [proc EXCEPT ![p].pc = "inspect", ![p].head = None,
                   ![p].prior = led.reconciliations[a],
                   ![p].dispatched = a \in led.dispatches]
  /\ UNCHANGED <<led, slot, files, strays, result, calls, now, crashes>>

See(p, what) == proc' = [proc EXCEPT ![p].pc = "account", ![p].seen = what]

\* inspectAttemptRecovery up to the provenance; only a wholly absent directory
\* stands for an attempt that never started.
Inspect(p) ==
  /\ At(p, "inspect")
  /\ LET f == files[proc[p].a]
         whole == Stored(proc[p].a) /\ "dispatch-part" \notin f
     IN \/ f = {} /\ See(p, "not_dispatched")
        \/ f # {} /\ ~whole /\ Quit(p)
        \/ whole /\ f = {"directory", "intent"} /\ See(p, "not_dispatched")
        \/ whole /\ f = {"directory", "intent", "dispatch"}
             /\ See(p, "incomplete")
        \/ whole /\ "provenance" \in f /\ Goto(p, "evidence")
  /\ UNCHANGED <<led, slot, files, strays, result, calls, now, crashes>>

\* Mutant: complete artifacts count as captured before they are marked so.
CaptureEvidence_M(p) ==
  /\ At(p, "evidence")
  /\ LET a == proc[p].a
     IN \/ ~Verified(a) /\ See(p, "invalid_evidence")
        \/ Verified(a) /\ See(p, "captured")
  /\ UNCHANGED <<led, slot, files, strays, result, calls, now, crashes>>

\* Any refusal but an unsafe path becomes invalid evidence, and so do both ways
\* the journal fails its reader while an event is written: a slot that stays
\* partial for all of stableLoad's retries, and an event that is complete but
\* later than the clock taken before the load.  A wait that succeeds is the same
\* step taken later.  A marker linked but not yet unlinked is either refusal.
CaptureEvidence(p) ==
  /\ At(p, "evidence")
  /\ LET a == proc[p].a
     IN \/ ~Verified(a) /\ See(p, "invalid_evidence")
        \/ (\E q \in Temporaries(a) : At(q, "linked")) /\ Quit(p)
        \/ Verified(a) /\ "capture" \in files[a] /\ See(p, "captured")
        \/ Verified(a) /\ "capture" \notin files[a] /\ Goto(p, "capture")
  /\ UNCHANGED <<led, slot, files, strays, result, calls, now, crashes>>

\* Mutant: an attempt without a claim in its directory was not dispatched.
OutcomeSeen_M(c) ==
  IF c.seen = "captured" THEN result[c.a]
  ELSE IF c.seen = "invalid_evidence" THEN Damaged
  ELSE Uncaptured(IF c.seen = "incomplete" THEN "ambiguous"
                  ELSE "not_dispatched")

\* The classification of what a command has seen.
OutcomeSeen(c) ==
  IF c.seen = "captured" THEN result[c.a]
  ELSE IF c.seen = "invalid_evidence" THEN Damaged
  ELSE Uncaptured(IF c.seen = "incomplete" \/ c.dispatched
                  THEN "ambiguous" ELSE "not_dispatched")

\* Evidence of absence needs the operator's word; the not-before time is the
\* recorded one, or counted from now.
Account(p) ==
  /\ At(p, "account")
  /\ LET a == proc[p].a
         o == OutcomeSeen(proc[p])
         n == led.reservations[a].node
         retry == o.class \in {"retryable_transport", "retryable_output"}
     IN \E wait \in IF retry THEN {RetryDelay[Cardinality(OfNode(led, n))]} \cup Waits
                             ELSE {0} :
          LET e == [class |-> o.class, captured |-> o.captured,
                    invalid |-> o.invalid, overrun |-> o.overrun,
                    notBefore |-> IF proc[p].prior = None THEN now + wait
                                  ELSE proc[p].prior.notBefore,
                    at |-> now]
          IN IF /\ proc[p].prior = None /\ ~proc[p].ack
                /\ proc[p].seen \in {"incomplete", "not_dispatched"}
             THEN Quit(p)
             ELSE proc' = [proc EXCEPT ![p].pc = "append", ![p].todo = e,
                                       ![p].at = now]
  /\ UNCHANGED <<led, slot, files, strays, result, calls, now, crashes>>

\* reconcileAttempt: no expected head.  The same evidence again is a success,
\* other evidence a conflict; a time older than the journal's is refused.
ReconcileAttempt(p) ==
  /\ At(p, "append") /\ Loaded
  /\ LET a == proc[p].a
         e == proc[p].todo
     IN IF HasRoom(led) /\ ReconciliationLegal(led, a, e, proc[p].at)
        THEN Claim(p, WithReconciliation(led, a, e, proc[p].at), "appending")
        ELSE Quit(p) /\ slot' = slot
  /\ UNCHANGED <<led, files, strays, result, calls, now, crashes>>

Appending(p) ==
  /\ At(p, "appending") /\ Written(p) /\ Quit(p)
  /\ UNCHANGED <<files, strays, result, calls, now, crashes>>

-----------------------------------------------------------------------------
(* acceptCommittedReading: verified at a head, committed at that head.       *)

VerifyReading(p, n) ==
  /\ At(p, "idle") /\ Loaded /\ Version > 1
  /\ \E a \in Attempts, parents \in SUBSET Accepted(led) :
       /\ Succeeded(led, a) /\ led.reservations[a].node = n
       /\ Stored(a) /\ "capture" \in files[a]
       /\ proc' = [proc EXCEPT ![p].pc = "proved", ![p].op = "accept",
                     ![p].n = n, ![p].head = led.sequence,
                     ![p].todo = [attempt |-> a, parents |-> parents]]
  /\ UNCHANGED <<led, slot, files, strays, result, calls, now, crashes>>

CommitReading(p) ==
  /\ At(p, "proved") /\ Loaded
  /\ LET n == proc[p].n
         x == proc[p].todo
     IN IF Fresh(p) /\ HasRoom(led) /\ AcceptanceLegal(led, n, x, now)
        THEN Claim(p, WithAcceptance(led, n, x, now), "appending")
        ELSE Quit(p) /\ slot' = slot
  /\ UNCHANGED <<led, files, strays, result, calls, now, crashes>>

-----------------------------------------------------------------------------
(* The environment. *)

\* A process dies.  Its event stays torn, its temporaries and partial files
\* stay where they are; nothing repairs them.
Crash(p) ==
  /\ ~At(p, "idle") /\ crashes < MaxCrashes
  /\ crashes' = crashes + 1
  /\ slot' = IF slot.by = p THEN Torn ELSE slot
  /\ strays' = IF proc[p].pc \in {"saved", "marked", "linked"}
               THEN strays \cup {proc[p].a} ELSE strays
  /\ Quit(p)
  /\ UNCHANGED <<led, files, result, calls, now>>

\* A load gives up: the slot it cannot read did not become readable in time, or
\* the event it then shows is later than the clock the reader had taken.
GiveUp(p) ==
  /\ ~Loaded
  /\ proc[p].pc \in {"decided", "priced", "started", "verified", "review",
                     "append", "proved", "capture", "recheck"}
  /\ Fail(p)
  /\ UNCHANGED <<led, slot, files, strays, result, calls, now, crashes>>

Tick ==
  /\ now < Horizon /\ now' = now + 1
  /\ UNCHANGED <<led, slot, files, strays, result, calls, crashes, proc>>

Prepare(p) == Snapshot(p) \/ ReserveAttempt(p) \/ Reserving(p)
              \/ MakeDirectory(p) \/ PublishIntent(p)
Invoke(p) == Reverify(p) \/ ClaimControllerDispatch(p) \/ Authorizing(p)
             \/ ClaimDispatch(p) \/ Claiming(p) \/ Call(p) \/ Answer(p)
             \/ SaveTemporary(p) \/ SaveArtifacts(p)
Mark(p) == Capture(p) \/ MarkTemporary(p) \/ MarkLink(p) \/ MarkUnlink(p)
           \/ Recheck(p)
Settle(p) == Review(p) \/ Inspect(p) \/ CaptureEvidence(p) \/ Account(p)
             \/ ReconcileAttempt(p) \/ Appending(p)
Step(p) == Prepare(p) \/ Invoke(p) \/ Mark(p) \/ Settle(p) \/ CommitReading(p)

Next ==
  \/ \E p \in Procs : \/ Step(p) \/ Crash(p) \/ GiveUp(p)
                      \/ \E a \in Attempts : Decide(p, a) \/ Run(p, a)
                                             \/ Reconcile(p, a)
                      \/ \E n \in Nodes : VerifyReading(p, n)
  \/ Tick

Spec == Init /\ [][Next]_vars

\* A command that was started keeps running unless it dies, the clock does not
\* matter to it, and the operator reconciles an attempt again and again.
Fairness ==
  /\ \A p \in Procs : WF_vars(Step(p))
  /\ \A p \in Procs, a \in Attempts : SF_vars(Reconcile(p, a))

FairSpec == Spec /\ Fairness

-----------------------------------------------------------------------------
\* One provider call at a time in the whole controller, at most one per
\* attempt, and only under a dispatch that is journalled, claimed in the
\* attempt's directory and not yet settled by anyone.
CallsSerialised ==
  /\ \A p, q \in Procs : At(p, "calling") /\ At(q, "calling") => p = q
  /\ \A a \in Attempts : calls[a] <= 1
  /\ \A p \in Procs : At(p, "calling") =>
       LET a == proc[p].a
       IN /\ a \in led.dispatches /\ a \notin Reconciled(led)
          /\ "dispatch" \in files[a]

Underway == {"authorizing", "authorized", "claiming", "claimed", "calling",
             "answered", "saved"}

\* An attempt settled as never dispatched was not, and never is, sent; one
\* settled as ambiguous has no invoker that could still send it or save its
\* answer.  Absence is only recorded on the operator's word, and never from
\* events older than a dispatch.
ReleasedIsOver ==
  \A a \in Reconciled(led) :
    /\ led.reconciliations[a].class = "not_dispatched" =>
         calls[a] = 0 /\ a \notin led.dispatches
    /\ led.reconciliations[a].class \in Unfinished =>
         \A p \in Procs : ~(proc[p].a = a /\ proc[p].pc \in Underway)

\* What the journal settles as captured is in the attempt's directory, with
\* the outcome the provider's answer had; an accepted reading rests on one.
SettledFromCapture ==
  \A a \in Reconciled(led) :
    led.reconciliations[a].captured =>
      /\ {"dispatch", "provenance", "capture"} \subseteq files[a]
      /\ result[a] # None
      /\ led.reconciliations[a].class = result[a].class
      /\ led.reconciliations[a].overrun = result[a].overrun

\* "An identical complete capture is idempotent": the controller is stopped
\* only for an answer that broke its bounds, or for artifacts that are damaged.
StopOnlyOnBadEvidence ==
  led.stopped =>
    \E a \in Reconciled(led) :
      \/ a \in strays
      \/ result[a] # None /\ (result[a].overrun \/ result[a].invalid)

\* Nobody judges an attempt's artifacts while another command publishes one
\* there, or appends any event to the journal.
Undisturbed ==
  \A p \in Procs : At(p, "evidence") =>
    Temporaries(proc[p].a) = {} /\ slot.by = None

\* The journal's events, whoever writes them and wherever a process dies, are
\* steps of the controller's ledger.
Ledger == INSTANCE ControllerLedger
            WITH Lives <- UNION {0..l : l \in Lives},
                 Waits <- Waits \cup 0..MaxDelay
ImplementsLedger == Ledger!Init /\ [][led' # led /\ Ledger!Next]_led

\* A complete capture is settled in the end, whichever process left it and
\* wherever it died, unless the journal itself was torn or the directory left
\* with a dead process's temporary: an interruption loses no accounting.
CaptureAccounted ==
  \A a \in Attempts :
    ("capture" \in files[a]) ~>
      (a \in Reconciled(led) \/ slot = Torn \/ a \in strays)
=============================================================================
