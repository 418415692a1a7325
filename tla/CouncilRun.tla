------------------------------ MODULE CouncilRun ------------------------------
(***************************************************************************)
(* A standalone council run: its directory and the commands that work in it *)
(* at the same time.                                                        *)
(*   run-start   council-run-start.ts: genesis, anchor branch, receipt      *)
(*   invoke      council-invoke.ts with lib/council-run-preflight.ts        *)
(*   seal        write-step-seal.ts                                         *)
(*   the checks  lint-council-run.ts, verify-chain.ts, verify-seals.ts over *)
(*               lib/council-verification.ts                                *)
(* A step is what happens between two points where another process, or a    *)
(* crash, can come in.  A hash names what it is computed from.              *)
(***************************************************************************)
EXTENDS ProviderCall, FiniteSets

CONSTANTS
  Outputs, StepOf, LastStep,  \* the manifest's declared outputs and their steps
  Probes,                     \* artifacts under _probes/
  LastCall,                   \* invocations are 1..LastCall, in starting order
  Requests,                   \* what each may be asked for: one of these
  Sealers, Starters,
  MaxRetries,
  Exchanges,                  \* what a provider can do with a request
  MaxMishaps,                 \* the run's crashes and contract changes
  Torn                        \* a file a process died writing

Steps == 1..LastStep
Artifacts == Outputs \cup Probes
Invocations == 1..LastCall

Record ==
  [artifact : Artifacts, by : Invocations, outcome : FinalOutcomes,
   verification : {"PASS", "FAIL", "UNVERIFIABLE"}, evidence : BOOLEAN,
   prev : Invocations \cup {None}]

ASSUME RunAssumption ==
  /\ LastStep \in Nat \ {0} /\ LastCall \in Nat /\ MaxRetries \in Nat
  /\ StepOf \in [Outputs -> Steps] /\ Outputs \cap Probes = {}
  /\ \A s \in Steps : \E o \in Outputs : StepOf[o] = s
  /\ IsFiniteSet(Outputs)
  /\ Requests \subseteq [Invocations -> Artifacts]
  /\ Exchanges \subseteq Exchange
  /\ MaxMishaps \in Nat
  /\ None # Torn /\ {None, Torn} \cap (Nat \cup Record) = {}

VARIABLES
  contract,  \* the version of manifest, roster and pins that is installed
  genesis,   \* the version verification/genesis.json binds
  anchor,    \* the anchor branch here and on the remote, and the receipt
  outputs,   \* [Artifacts -> the invocation whose content the file holds]
  sidecars,  \* [Artifacts -> the provenance beside it]
  ledger, torn,  \* ledger.jsonl, and whether a line of it is incomplete
  lock,      \* who created ledger.jsonl.lock
  seals,     \* [Steps -> the seal]
  call, job, start,  \* where invocations, sealers and starters stand
  crashes

vars == <<contract, genesis, anchor, outputs, sidecars, ledger, torn, lock,
          seals, call, job, start, crashes>>

Seal == [count : Nat, terminal : Invocations]

\* fresh: the ledger was empty when the preflight read it.  breached: an
\* attempt before the last was served by a provider outside the pin.
NewCall == [pc |-> "new", artifact |-> None, fresh |-> FALSE, bound |-> None,
            attempt |-> 0, breached |-> FALSE, outcome |-> None,
            verification |-> None, evidence |-> FALSE]
Ended == [NewCall EXCEPT !.pc = "ended"]

Init ==
  /\ contract = 0 /\ genesis = None
  /\ anchor = [ref |-> FALSE, remote |-> FALSE, receipt |-> "absent"]
  /\ outputs = [a \in Artifacts |-> None]
  /\ sidecars = [a \in Artifacts |-> None]
  /\ ledger = <<>> /\ torn = FALSE /\ lock = None
  /\ seals = [s \in Steps |-> None]
  /\ \E r \in Requests :
       call = [i \in Invocations |-> [NewCall EXCEPT !.artifact = r[i]]]
  /\ job = [j \in Sealers |-> [pc |-> "idle", step |-> None, seal |-> None]]
  /\ start = [s \in Starters |-> [pc |-> "new", push |-> FALSE, keep |-> FALSE]]
  /\ crashes = 0

-----------------------------------------------------------------------------
(* The checks, each over the files as they are.                             *)

Success(r) == r.outcome = "success" /\ r.verification = "PASS" /\ r.evidence

Entries(a) == {i \in DOMAIN ledger : ledger[i].artifact = a}

\* assertGenesis, assertRunRoster: the installed contract is the anchored one.
Installed == genesis = contract

\* lintArtifact: file, sidecar and the latest ledger entry agree on a success.
LintArtifact(a) ==
  /\ outputs[a] \notin {None, Torn} /\ sidecars[a] \notin {None, Torn}
  /\ Success(sidecars[a]) /\ sidecars[a].by = outputs[a]
  /\ Entries(a) # {} /\ ledger[Max(Entries(a))] = sidecars[a]

\* lintRun --at-step s [--before-seal]
LintRun(s, beforeSeal) ==
  /\ Installed /\ ~torn /\ ledger # <<>>
  /\ \A o \in Outputs : StepOf[o] <= s => LintArtifact(o)
  /\ \A t \in 1..s : seals[t] = None => beforeSeal /\ t = s

\* verifyChain
Chained ==
  \A i \in DOMAIN ledger :
    ledger[i].prev = IF i = 1 THEN None ELSE ledger[i - 1].by

VerifyChain == Installed /\ ~torn /\ ledger # <<>> /\ Chained

\* completedVerdictCount: null unless the latest entry of every output through
\* the step is a success.
Through(s) == {o \in Outputs : StepOf[o] <= s}
Completed(s) ==
  \A o \in Through(s) :
    Entries(o) # {} /\ ledger[Max(Entries(o))].outcome = "success"
CompletedCount(s) == Max({Max(Entries(o)) : o \in Through(s)})

SealOf(s) == LET n == CompletedCount(s)
             IN  [count |-> n, terminal |-> ledger[n].by]

\* verifySeals, skipping at most the seal about to be written.
SealHolds(s) == seals[s] # Torn /\ Completed(s) /\ seals[s] = SealOf(s)
VerifySeals(before) ==
  /\ Installed /\ ~torn
  /\ \A s \in Steps : IF seals[s] = None THEN Completed(s) => s = before
                                         ELSE SealHolds(s)

-----------------------------------------------------------------------------
(* run-start *)

StartGo(s, pc) == start' = [start EXCEPT ![s].pc = pc]

StartRun(s) ==
  /\ start[s].pc = "new"
  /\ \E push \in BOOLEAN :
       start' = [start EXCEPT ![s].pc = "genesis", ![s].push = push]
  /\ UNCHANGED <<contract, genesis, anchor, outputs, sidecars, ledger, torn,
                 lock, seals, call, job, crashes>>

\* The key and the genesis are created once; another identity is refused.
EnsureGenesis(s) ==
  /\ start[s].pc = "genesis"
  /\ genesis' = IF genesis = None THEN contract ELSE genesis
  /\ StartGo(s, IF genesis \in {None, contract} THEN "ref" ELSE "ended")
  /\ UNCHANGED <<contract, anchor, outputs, sidecars, ledger, torn, lock,
                 seals, call, job, crashes>>

\* commit-tree and update-ref, unless the branch holds this genesis already.
EnsureRef(s) ==
  /\ start[s].pc = "ref"
  /\ anchor' = [anchor EXCEPT !.ref = TRUE]
  /\ StartGo(s, IF start[s].push THEN "push" ELSE "receipts")
  /\ UNCHANGED <<contract, genesis, outputs, sidecars, ledger, torn, lock,
                 seals, call, job, crashes>>

\* A push can fail after it took effect, or report a success it had not.
Push(s) ==
  /\ start[s].pc = "push"
  /\ \E landed \in {anchor.remote, TRUE} :
       anchor' = [anchor EXCEPT !.remote = landed]
  /\ \E pc \in {"readback", "ended"} : StartGo(s, pc)
  /\ UNCHANGED <<contract, genesis, outputs, sidecars, ledger, torn, lock,
                 seals, call, job, crashes>>

\* Mutant: the push's exit status is trusted.
ReadBack_M(s) ==
  /\ start[s].pc = "readback"
  /\ StartGo(s, "receipt")
  /\ UNCHANGED <<contract, genesis, anchor, outputs, sidecars, ledger, torn,
                 lock, seals, call, job, crashes>>

\* ls-remote
ReadBack(s) ==
  /\ start[s].pc = "readback"
  /\ StartGo(s, IF anchor.remote THEN "receipt" ELSE "ended")
  /\ UNCHANGED <<contract, genesis, anchor, outputs, sidecars, ledger, torn,
                 lock, seals, call, job, crashes>>

\* --no-push keeps a receipt of an earlier push.
ReadReceipt(s) ==
  /\ start[s].pc = "receipts"
  /\ start' = [start EXCEPT ![s].pc = IF anchor.receipt = "torn" THEN "ended"
                                                               ELSE "receipt",
                            ![s].keep = anchor.receipt = "pushed"]
  /\ UNCHANGED <<contract, genesis, anchor, outputs, sidecars, ledger, torn,
                 lock, seals, call, job, crashes>>

WriteReceipt(s) ==
  /\ start[s].pc = "receipt"
  /\ anchor' = [anchor EXCEPT !.receipt = IF start[s].push \/ start[s].keep
                                          THEN "pushed" ELSE "local-only"]
  /\ StartGo(s, "ended")
  /\ UNCHANGED <<contract, genesis, outputs, sidecars, ledger, torn, lock,
                 seals, call, job, crashes>>

-----------------------------------------------------------------------------
(* invoke: the preflight, in two readings of the directory.                 *)

Go(i, pc) == call' = [call EXCEPT ![i].pc = pc]
At(i, pc) == call[i].pc = pc
End(i) == call' = [call EXCEPT ![i] = Ended]

\* Everything up to verifyChain: the anchor is published, no file of the
\* artifact exists, and every verdict so far is a success that lints.
Begin(i) ==
  /\ At(i, "new") /\ \A j \in 1..(i - 1) : ~At(j, "new")
  /\ Installed /\ anchor.ref /\ anchor.receipt = "pushed" /\ ~torn
  /\ \A k \in DOMAIN ledger :
       Success(ledger[k]) /\ LintArtifact(ledger[k].artifact)
  /\ ledger # <<>> => VerifyChain
  /\ outputs[call[i].artifact] = None /\ sidecars[call[i].artifact] = None
  /\ call' = [call EXCEPT ![i].pc = "begun", ![i].fresh = ledger = <<>>]
  /\ UNCHANGED <<contract, genesis, anchor, outputs, sidecars, ledger, torn,
                 lock, seals, job, start, crashes>>

\* Mutant: the preceding step is not looked at.
Bind_M(i) ==
  /\ At(i, "begun")
  /\ IF call[i].fresh \/ VerifySeals(None)
     THEN call' = [call EXCEPT ![i].pc = "ready", ![i].fresh = FALSE,
                               ![i].bound = contract]
     ELSE End(i)
  /\ UNCHANGED <<contract, genesis, anchor, outputs, sidecars, ledger, torn,
                 lock, seals, job, start, crashes>>

\* verifySeals and the preceding step, then the binding.
Bind(i) ==
  /\ At(i, "begun")
  /\ LET a == call[i].artifact
     IN IF /\ call[i].fresh \/ VerifySeals(None)
           /\ a \in Outputs /\ StepOf[a] > 1 => LintRun(StepOf[a] - 1, FALSE)
        THEN call' = [call EXCEPT ![i].pc = "ready", ![i].fresh = FALSE,
                                  ![i].bound = contract]
        ELSE End(i)
  /\ UNCHANGED <<contract, genesis, anchor, outputs, sidecars, ledger, torn,
                 lock, seals, job, start, crashes>>

-----------------------------------------------------------------------------
(* invoke: the retry loop. *)

Dispatch(i) ==
  /\ At(i, "ready")
  /\ call' = [call EXCEPT ![i].pc = "calling", ![i].attempt = @ + 1]
  /\ UNCHANGED <<contract, genesis, anchor, outputs, sidecars, ledger, torn,
                 lock, seals, job, start, crashes>>

Final(i, outcome, verification, evidence) ==
  call' = [call EXCEPT ![i].pc = "finish", ![i].outcome = outcome,
                       ![i].verification = verification,
                       ![i].evidence = evidence]

Results == {Fetched(x) : x \in Exchanges}

Answer(i) ==
  /\ At(i, "calling")
  /\ \E r \in Results :
       LET reason == ClassifyAttempt(r)
       IN IF reason \in Retryable /\ call[i].attempt <= MaxRetries
          THEN call' = [call EXCEPT
                 ![i].pc = "ready",
                 ![i].breached = @ \/ "outside" \in r.providers]
          ELSE Final(i, FinalOutcome(reason), FinalVerification(reason, r),
                     FinalEvidence(reason, r))
  /\ UNCHANGED <<contract, genesis, anchor, outputs, sidecars, ledger, torn,
                 lock, seals, job, start, crashes>>

\* The total wall-clock guard, before a retry.
OutOfTime(i) ==
  /\ At(i, "ready") /\ call[i].attempt > 0
  /\ Final(i, "retries_exhausted_transient", "UNVERIFIABLE", FALSE)
  /\ UNCHANGED <<contract, genesis, anchor, outputs, sidecars, ledger, torn,
                 lock, seals, job, start, crashes>>

-----------------------------------------------------------------------------
(* invoke: what the call leaves behind. *)

\* assertRunBindingUnchanged
CheckBinding(i) ==
  /\ At(i, "finish")
  /\ call' = [call EXCEPT
       ![i].pc = IF call[i].outcome = "success" THEN "output" ELSE "lock",
       ![i].verification = IF contract = call[i].bound THEN @
                                                       ELSE "UNVERIFIABLE"]
  /\ UNCHANGED <<contract, genesis, anchor, outputs, sidecars, ledger, torn,
                 lock, seals, job, start, crashes>>

\* Mutant: the content is written over what is there.
WriteOutput_M(i) ==
  /\ At(i, "output")
  /\ outputs' = [outputs EXCEPT ![call[i].artifact] = i]
  /\ Go(i, "lock")
  /\ UNCHANGED <<contract, genesis, anchor, sidecars, ledger, torn, lock,
                 seals, job, start, crashes>>

\* flag wx: a file in its place ends the command without a record.
WriteOutput(i) ==
  /\ At(i, "output")
  /\ LET a == call[i].artifact
     IN IF outputs[a] = None
        THEN outputs' = [outputs EXCEPT ![a] = i] /\ Go(i, "lock")
        ELSE End(i) /\ outputs' = outputs
  /\ UNCHANGED <<contract, genesis, anchor, sidecars, ledger, torn, lock,
                 seals, job, start, crashes>>

\* Mutant: the lock file is created whether or not it exists.
LockLedger_M(i) ==
  /\ At(i, "lock")
  /\ lock' = i /\ Go(i, "locked")
  /\ UNCHANGED <<contract, genesis, anchor, outputs, sidecars, ledger, torn,
                 seals, job, start, crashes>>

LockLedger(i) ==
  /\ At(i, "lock") /\ lock = None
  /\ lock' = i /\ Go(i, "locked")
  /\ UNCHANGED <<contract, genesis, anchor, outputs, sidecars, ledger, torn,
                 seals, job, start, crashes>>

\* Mutant: a held lock is waited for without a deadline.
LockTimeout_M(i) ==
  /\ At(i, "lock") /\ lock = i
  /\ End(i)
  /\ UNCHANGED <<contract, genesis, anchor, outputs, sidecars, ledger, torn,
                 lock, seals, job, start, crashes>>

\* The thirty seconds are over; nobody looks whether the owner lives.
LockTimeout(i) ==
  /\ At(i, "lock") /\ lock # None
  /\ End(i)
  /\ UNCHANGED <<contract, genesis, anchor, outputs, sidecars, ledger, torn,
                 lock, seals, job, start, crashes>>

Verdict(i) ==
  [artifact |-> call[i].artifact, by |-> i, outcome |-> call[i].outcome,
   verification |-> call[i].verification, evidence |-> call[i].evidence,
   prev |-> IF ledger = <<>> THEN None ELSE ledger[Len(ledger)].by]

\* Mutant: the sidecar is written over what is there.
WriteSidecar_M(i) ==
  /\ At(i, "locked")
  /\ IF torn
     THEN End(i) /\ lock' = None /\ UNCHANGED sidecars
     ELSE /\ sidecars' = [sidecars EXCEPT ![call[i].artifact] = Verdict(i)]
          /\ Go(i, "append") /\ lock' = lock
  /\ UNCHANGED <<contract, genesis, anchor, outputs, ledger, torn, seals, job,
                 start, crashes>>

\* The last line gives the chain its link; an unreadable one, or a sidecar
\* already there, ends the command and frees the lock.
WriteSidecar(i) ==
  /\ At(i, "locked")
  /\ LET a == call[i].artifact
     IN IF torn \/ sidecars[a] # None
        THEN End(i) /\ lock' = None /\ UNCHANGED sidecars
        ELSE /\ sidecars' = [sidecars EXCEPT ![a] = Verdict(i)]
             /\ Go(i, "append") /\ lock' = lock
  /\ UNCHANGED <<contract, genesis, anchor, outputs, ledger, torn, seals, job,
                 start, crashes>>

AppendVerdict(i) ==
  /\ At(i, "append")
  /\ ledger' = Append(ledger, sidecars[call[i].artifact])
  /\ Go(i, "unlock")
  /\ UNCHANGED <<contract, genesis, anchor, outputs, sidecars, torn, lock,
                 seals, job, start, crashes>>

Unlock(i) ==
  /\ At(i, "unlock")
  /\ lock' = None /\ End(i)
  /\ UNCHANGED <<contract, genesis, anchor, outputs, sidecars, ledger, torn,
                 seals, job, start, crashes>>

-----------------------------------------------------------------------------
(* seal *)

SealPreflight(j, s) ==
  /\ job[j].pc = "idle"
  /\ LintRun(s, TRUE) /\ VerifyChain /\ VerifySeals(s)
  /\ job' = [job EXCEPT ![j].pc = "checked", ![j].step = s]
  /\ UNCHANGED <<contract, genesis, anchor, outputs, sidecars, ledger, torn,
                 lock, seals, call, start, crashes>>

\* The ledger is read again and the seal computed from this reading.
ComputeSeal(j) ==
  /\ job[j].pc = "checked"
  /\ job' = IF ~torn /\ Completed(job[j].step)
            THEN [job EXCEPT ![j].pc = "computed", ![j].seal = SealOf(job[j].step)]
            ELSE [job EXCEPT ![j].pc = "idle"]
  /\ UNCHANGED <<contract, genesis, anchor, outputs, sidecars, ledger, torn,
                 lock, seals, call, start, crashes>>

\* An existing seal is left alone: the same one is a success, another refused.
WriteSeal(j) ==
  /\ job[j].pc = "computed"
  /\ seals' = IF seals[job[j].step] = None
              THEN [seals EXCEPT ![job[j].step] = job[j].seal] ELSE seals
  /\ job' = [job EXCEPT ![j] = [pc |-> "idle", step |-> None, seal |-> None]]
  /\ UNCHANGED <<contract, genesis, anchor, outputs, sidecars, ledger, torn,
                 lock, call, start, crashes>>

-----------------------------------------------------------------------------
(* The environment. *)

\* Someone installs another roster, pin or manifest.
ChangeContract ==
  /\ crashes + contract < MaxMishaps /\ contract' = contract + 1
  /\ UNCHANGED <<genesis, anchor, outputs, sidecars, ledger, torn, lock, seals,
                 call, job, start, crashes>>

\* The file a process was writing when it died is complete, torn or absent.
CrashCall(i) ==
  /\ crashes + contract < MaxMishaps /\ crashes' = crashes + 1
  /\ call[i].pc \notin {"new", "ended"} /\ End(i)
  /\ LET a == call[i].artifact
     IN /\ outputs' \in {outputs} \cup
             (IF At(i, "output") /\ outputs[a] = None
              THEN {[outputs EXCEPT ![a] = Torn]} ELSE {})
        /\ sidecars' \in {sidecars} \cup
             (IF At(i, "locked") /\ ~torn /\ sidecars[a] = None
              THEN {[sidecars EXCEPT ![a] = Torn]} ELSE {})
        /\ torn' \in {torn} \cup (IF At(i, "append") THEN {TRUE} ELSE {})
  /\ UNCHANGED <<contract, genesis, anchor, ledger, lock, seals, job, start>>

CrashSeal(j) ==
  /\ crashes + contract < MaxMishaps /\ crashes' = crashes + 1
  /\ job[j].pc = "computed"
  /\ seals' \in {seals} \cup (IF seals[job[j].step] = None
                              THEN {[seals EXCEPT ![job[j].step] = Torn]}
                              ELSE {})
  /\ job' = [job EXCEPT ![j] = [pc |-> "idle", step |-> None, seal |-> None]]
  /\ UNCHANGED <<contract, genesis, anchor, outputs, sidecars, ledger, torn,
                 lock, call, start>>

CrashStart(s) ==
  /\ crashes + contract < MaxMishaps /\ crashes' = crashes + 1
  /\ start[s].pc \notin {"new", "ended"} /\ StartGo(s, "ended")
  /\ genesis' \in {genesis} \cup
       (IF start[s].pc = "genesis" /\ genesis = None THEN {Torn} ELSE {})
  /\ anchor' \in {anchor} \cup
       (IF start[s].pc = "receipt" THEN {[anchor EXCEPT !.receipt = "torn"]}
                                   ELSE {})
  /\ UNCHANGED <<contract, outputs, sidecars, ledger, torn, lock, seals, call,
                 job>>

Starting(s) == EnsureGenesis(s) \/ EnsureRef(s) \/ Push(s) \/ ReadBack(s)
               \/ ReadReceipt(s) \/ WriteReceipt(s)
Invoke(i) == Bind(i) \/ Dispatch(i) \/ Answer(i) \/ OutOfTime(i)
             \/ CheckBinding(i) \/ WriteOutput(i) \/ LockLedger(i)
             \/ LockTimeout(i) \/ WriteSidecar(i) \/ AppendVerdict(i)
             \/ Unlock(i)
Sealing(j) == ComputeSeal(j) \/ WriteSeal(j)

Next ==
  \/ \E s \in Starters : StartRun(s) \/ Starting(s) \/ CrashStart(s)
  \/ \E i \in Invocations : Begin(i) \/ Invoke(i) \/ CrashCall(i)
  \/ \E j \in Sealers : Sealing(j) \/ CrashSeal(j)
                        \/ \E s \in Steps : SealPreflight(j, s)
  \/ ChangeContract

Spec == Init /\ [][Next]_vars

\* A command that was started keeps running unless it dies; a provider answers
\* or the attempt times out.
FairSpec == Spec /\ \A i \in Invocations : WF_vars(Invoke(i))

-----------------------------------------------------------------------------
\* Every verdict is linked to the one before it, whatever invocations record
\* theirs at the same time and wherever one dies (withLedgerLock).
LedgerChained == Chained

\* A verdict that counts rests on its own file and its own sidecar, is the
\* artifact's only one (a duplicate invocation never replaces evidence), and no
\* attempt of its call was served outside the seat's pin, not even one whose
\* stream broke or which an admitted provider finished.
PassMatchesEvidence ==
  \A k \in DOMAIN ledger :
    LET r == ledger[k]
    IN Success(r) => /\ outputs[r.artifact] = r.by
                     /\ sidecars[r.artifact] = r
                     /\ Entries(r.artifact) = {k}
                     /\ ~call[r.by].breached

\* A verdict of a later step stands after everything the preceding step's seal
\* covers, and no such call is made before that seal.
StepsFollowSeals ==
  /\ \A k \in DOMAIN ledger :
       LET a == ledger[k].artifact
       IN a \in Outputs /\ StepOf[a] > 1 =>
            LET before == seals[StepOf[a] - 1]
            IN before # None /\ (before # Torn => k > before.count)
  /\ \A i \in Invocations : At(i, "calling") =>
       LET a == call[i].artifact
       IN a \in Outputs /\ StepOf[a] > 1 => seals[StepOf[a] - 1] # None

\* What was once verified, linted and sealed stays so, while calls begun
\* earlier still finish, unless a line of the ledger is torn or the installed
\* contract changes.
StepVerified(s) ==
  LintRun(s, FALSE) /\ Chained /\ \A t \in 1..s : SealHolds(t)
VerifiedForGood ==
  [][\A s \in Steps :
       StepVerified(s) => StepVerified(s)' \/ torn' \/ contract' # contract]_vars

\* No request leaves before the run's anchor is on the remote.
CallsAnchored ==
  \A i \in Invocations : At(i, "calling") => anchor.ref /\ anchor.remote

\* In the end no invocation is under way, also when one died holding the
\* ledger's lock: the others give up on it.
InvocationsEnd == <>[](\A i \in Invocations : call[i].pc \in {"new", "ended"})
=============================================================================
