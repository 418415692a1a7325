--------------------------- MODULE CouncilRunProofs ---------------------------
(***************************************************************************)
(* A standalone council run, for every number of invocations, artifacts,    *)
(* steps, sealers and starters: its ledger stays chained, a verdict that    *)
(* counts keeps its evidence, steps follow seals, and what was verified and *)
(* sealed stays so.                                                         *)
(***************************************************************************)
EXTENDS CouncilRun, WellFoundedInduction, TLAPS

Verifications == {"PASS", "FAIL", "UNVERIFIABLE"}

CallState ==
  [pc : {"new", "begun", "ready", "calling", "finish", "output", "lock",
         "locked", "append", "unlock", "ended"},
   artifact : Artifacts \cup {None}, fresh : BOOLEAN,
   bound : Nat \cup {None}, attempt : Nat, breached : BOOLEAN,
   outcome : FinalOutcomes \cup {None},
   verification : Verifications \cup {None}, evidence : BOOLEAN]

JobState == [pc : {"idle", "checked", "computed"}, step : Steps \cup {None},
             seal : Seal \cup {None}]

StartState ==
  [pc : {"new", "genesis", "ref", "push", "readback", "receipts", "receipt",
         "ended"},
   push : BOOLEAN, keep : BOOLEAN]

AnchorState == [ref : BOOLEAN, remote : BOOLEAN,
                receipt : {"absent", "local-only", "pushed", "torn"}]

TypeOK ==
  /\ contract \in Nat /\ genesis \in Nat \cup {None, Torn}
  /\ anchor \in AnchorState
  /\ outputs \in [Artifacts -> Invocations \cup {None, Torn}]
  /\ sidecars \in [Artifacts -> Record \cup {None, Torn}]
  /\ ledger \in Seq(Record) /\ torn \in BOOLEAN
  /\ lock \in Invocations \cup {None}
  /\ seals \in [Steps -> Seal \cup {None, Torn}]
  /\ call \in [Invocations -> CallState]
  /\ job \in [Sealers -> JobState] /\ start \in [Starters -> StartState]
  /\ crashes \in Nat

-----------------------------------------------------------------------------
(* The inductive invariant. *)

\* A receipt that says so was written after the branch was seen on the remote.
StartSound(s) ==
  /\ start[s].pc = "receipt" /\ start[s].push => anchor.remote
  /\ start[s].pc = "receipts" => ~start[s].push
  /\ start[s].keep => anchor.remote
ReceiptSound ==
  /\ anchor.receipt = "pushed" => anchor.remote
  /\ \A s \in Starters : StartSound(s)

Preceded(a) == a \in Outputs /\ StepOf[a] > 1 => seals[StepOf[a] - 1] # None

Deciding == {"finish", "output", "lock", "locked", "append", "unlock"}
Recording == {"locked", "append", "unlock"}

\* Where an invocation stands, and what it has found or done by then.
CallSound(i) ==
  LET c == call[i]
  IN /\ ~c.breached
     /\ c.pc # "ended" => c.artifact \in Artifacts
     /\ c.pc \in {"begun", "ready", "calling"} => anchor.ref /\ anchor.remote
     /\ c.pc \in {"ready", "calling"} \cup Deciding => Preceded(c.artifact)
     /\ c.pc \in Deciding => /\ c.outcome \in FinalOutcomes
                             /\ c.verification \in Verifications
     /\ c.pc = "output" => c.outcome = "success"
     /\ c.pc \in {"lock"} \cup Recording /\ c.outcome = "success"
          => outputs[c.artifact] = i
     /\ c.pc \in Recording => lock = i
     /\ c.pc = "append" => /\ sidecars[c.artifact] = Verdict(i)
                           /\ Entries(c.artifact) = {}
CallsSound == \A i \in Invocations : CallSound(i)

\* A verdict has the only sidecar of its artifact, the output when it is a
\* success, and comes after the seal of the step before.
EntrySound(k) ==
  LET r == ledger[k]
  IN /\ sidecars[r.artifact] = r
     /\ r.outcome = "success" => outputs[r.artifact] = r.by
     /\ Preceded(r.artifact)
     /\ r.artifact \in Outputs /\ StepOf[r.artifact] > 1 =>
          (seals[StepOf[r.artifact] - 1] # Torn =>
             k > seals[StepOf[r.artifact] - 1].count)
OnePerArtifact ==
  \A k, l \in DOMAIN ledger : ledger[k].artifact = ledger[l].artifact => k = l
LedgerSound ==
  /\ Chained /\ OnePerArtifact
  /\ \A k \in DOMAIN ledger : EntrySound(k)

\* A seal counts lines that are in the ledger.
Within(seal) == seal \in Seal /\ seal.count \in 1..Len(ledger)
SealsWithin ==
  /\ \A s \in Steps : seals[s] \notin {None, Torn} => Within(seals[s])
  /\ \A j \in Sealers :
       /\ job[j].pc # "idle" => job[j].step \in Steps
       /\ job[j].pc = "computed" => Within(job[j].seal)

IInv == TypeOK /\ ReceiptSound /\ CallsSound /\ LedgerSound /\ SealsWithin

-----------------------------------------------------------------------------
(* Numbers: a set of line numbers has a least and a greatest member.         *)

LEMMA LeastNumber ==
  ASSUME NEW T \in SUBSET Nat, T # {}
  PROVE  \E n \in T : \A m \in T : n <= m
<1> DEFINE below == {x \in Nat \X Nat : x[1] < x[2]}
<1>1. IsWellFoundedOn(below, Nat)
  BY NatLessThanWellFounded, Zenon DEF OpToRel
<1> HIDE DEF below
<1>2. PICK n \in T : \A m \in T : <<m, n>> \notin below
  BY <1>1, WFMin
<1> USE DEF below
<1>3. ASSUME NEW m \in T PROVE n <= m
  <2>1. m \in Nat /\ n \in Nat /\ <<m, n>> \notin below
    BY <1>2
  <2> QED
    BY <2>1
<1> QED
  BY <1>3

\* Max is a member of every set of line numbers that has one.
LEMMA Greatest ==
  ASSUME NEW n \in Nat, NEW T \in SUBSET (1..n), T # {}
  PROVE  Max(T) \in T
<1> DEFINE U == {u \in Nat : \A t \in T : t <= u}
<1>1. n \in U
  OBVIOUS
<1>2. PICK u \in U : \A v \in U : u <= v
  BY <1>1, LeastNumber
<1>3. u \in T
  <2>1. SUFFICES ASSUME u \notin T PROVE FALSE
    OBVIOUS
  <2>2. u \in Nat /\ \A t \in T : t \in 1..n /\ t <= u
    BY <1>2
  <2>3. PICK t \in T : t \in 1..n /\ t <= u
    BY <2>2
  <2>4. u - 1 \in Nat /\ \A v \in T : v <= u - 1
    BY <2>1, <2>2, <2>3
  <2>5. u <= u - 1
    BY <1>2, <2>4
  <2> QED
    BY <2>2, <2>5
<1>4. \E x \in T : \A t \in T : x >= t
  BY <1>2, <1>3
<1> QED
  BY <1>4, Zenon DEF Max

\* The ledger that an append leaves.
LEMMA Appended ==
  ASSUME NEW s \in Seq(Record), NEW v \in Record
  PROVE  /\ Append(s, v) \in Seq(Record) /\ Len(s) \in Nat
         /\ DOMAIN s = 1..Len(s) /\ DOMAIN Append(s, v) = 1..Len(s) + 1
         /\ Len(Append(s, v)) = Len(s) + 1
         /\ \A k \in 1..Len(s) : Append(s, v)[k] = s[k] /\ s[k] \in Record
         /\ Append(s, v)[Len(s) + 1] = v
  OBVIOUS

LEMMA Lines ==
  ASSUME TypeOK
  PROVE  /\ Len(ledger) \in Nat /\ DOMAIN ledger = 1..Len(ledger)
         /\ \A k \in 1..Len(ledger) : ledger[k] \in Record
         /\ ledger = <<>> <=> Len(ledger) = 0
  BY DEF TypeOK

\* The seal of a completed step counts a line of the ledger.
LEMMA SealWithin ==
  ASSUME TypeOK, NEW s \in Steps, Completed(s)
  PROVE  Within(SealOf(s))
<1>1. \A o \in Through(s) : Entries(o) \in SUBSET (1..Len(ledger))
                            /\ Max(Entries(o)) \in 1..Len(ledger)
  <2>1. TAKE o \in Through(s)
  <2>2. Entries(o) \in SUBSET (1..Len(ledger)) /\ Entries(o) # {}
    BY Lines DEF Entries, Completed
  <2>3. Max(Entries(o)) \in Entries(o)
    BY <2>2, Lines, Greatest
  <2> QED
    BY <2>2, <2>3
<1> DEFINE T == {Max(Entries(o)) : o \in Through(s)}
<1>2. T \in SUBSET (1..Len(ledger)) /\ T # {}
  BY <1>1, RunAssumption DEF Through, Steps
<1>3. CompletedCount(s) \in 1..Len(ledger)
  <2>1. Max(T) \in T
    BY <1>2, Lines, Greatest
  <2> QED
    BY <1>2, <2>1 DEF CompletedCount
<1>4. ledger[CompletedCount(s)].by \in Invocations
  BY <1>3, Lines DEF Record
<1> QED
  BY <1>3, <1>4, Lines DEF Within, SealOf, Seal

-----------------------------------------------------------------------------
(* What a provider's answer makes of an invocation. *)

LEMMA OutcomeIsFinal == \A reason : FinalOutcome(reason) \in FinalOutcomes
  BY DEF FinalOutcome, FinalOutcomes

LEMMA VerificationIsFinal ==
  \A reason, r : FinalVerification(reason, r) \in Verifications
  BY DEF FinalVerification, Verifications

LEMMA EvidenceIsFinal == \A reason, r : FinalEvidence(reason, r) \in BOOLEAN
  BY DEF FinalEvidence

\* An attempt served outside the pin is never followed by another.
LEMMA OutsideIsFinal ==
  \A r : "outside" \in r.providers => ClassifyAttempt(r) \notin Retryable
<1>1. \A r : "outside" \in r.providers => ServedProvider(r.providers) = "FAIL"
  BY DEF ServedProvider
<1> QED
  BY <1>1 DEF ClassifyAttempt, ByProvider, Retryable

-----------------------------------------------------------------------------
(* Initial states. *)

LEMMA InitInv == Init => IInv
<1> SUFFICES ASSUME Init PROVE IInv
  OBVIOUS
<1>1. PICK r \in Requests :
        call = [i \in Invocations |-> [NewCall EXCEPT !.artifact = r[i]]]
  BY DEF Init
<1>2. r \in [Invocations -> Artifacts]
  BY RunAssumption
<1>3. \A i \in Invocations :
        /\ call[i] \in CallState /\ call[i].pc = "new"
        /\ ~call[i].breached /\ call[i].artifact \in Artifacts
  BY <1>1, <1>2 DEF NewCall, CallState
<1>4. TypeOK
  <2>1. call \in [Invocations -> CallState]
    BY <1>1, <1>3
  <2>2. job \in [Sealers -> JobState] /\ start \in [Starters -> StartState]
    BY DEF Init, JobState, StartState
  <2>3. /\ contract = 0 /\ genesis = None /\ torn = FALSE /\ lock = None
        /\ anchor = [ref |-> FALSE, remote |-> FALSE, receipt |-> "absent"]
        /\ ledger = <<>> /\ crashes = 0
        /\ outputs = [a \in Artifacts |-> None]
        /\ sidecars = [a \in Artifacts |-> None]
        /\ seals = [s \in Steps |-> None]
    BY Zenon DEF Init
  <2>4. ledger \in Seq(Record) /\ anchor \in AnchorState
    BY <2>3 DEF AnchorState
  <2>5. /\ outputs \in [Artifacts -> Invocations \cup {None, Torn}]
        /\ sidecars \in [Artifacts -> Record \cup {None, Torn}]
        /\ seals \in [Steps -> Seal \cup {None, Torn}]
    BY <2>3
  <2> QED
    BY <2>1, <2>2, <2>3, <2>4, <2>5 DEF TypeOK
<1>5. ReceiptSound
  BY DEF Init, ReceiptSound, StartSound
<1>6. CallsSound
  BY <1>3 DEF CallsSound, CallSound, Deciding, Recording
<1>7. LedgerSound
  BY DEF Init, LedgerSound, Chained, OnePerArtifact
<1>8. SealsWithin
  BY DEF Init, SealsWithin
<1> QED
  BY <1>4, <1>5, <1>6, <1>7, <1>8 DEF IInv

-----------------------------------------------------------------------------
(* Commands that touch neither the directory nor an invocation.              *)

files == <<outputs, sidecars, ledger, seals>>

\* What the anchor has, it keeps.
AnchorKept ==
  (anchor.ref => anchor'.ref) /\ (anchor.remote => anchor'.remote)

LEMMA DirectoryKept ==
  ASSUME IInv, UNCHANGED <<files, lock, call, job>>, AnchorKept
  PROVE  CallsSound' /\ LedgerSound' /\ SealsWithin'
<1>1. \A i \in Invocations : CallSound(i)'
  <2>1. TAKE i \in Invocations
  <2>2. CallSound(i)
    BY DEF IInv, CallsSound
  <2> QED
    BY <2>2 DEF CallSound, AnchorKept, files, Preceded, Verdict, Entries
<1>2. LedgerSound'
  BY DEF IInv, LedgerSound, Chained, OnePerArtifact, EntrySound, Preceded, files
<1>3. SealsWithin'
  BY DEF IInv, SealsWithin, Within, files
<1> QED
  BY <1>1, <1>2, <1>3 DEF CallsSound

\* A starter's step changes the anchor and its own place at most.
OnlyStart(s) ==
  /\ start' \in [Starters -> StartState]
  /\ \A t \in Starters \ {s} : start'[t] = start[t]

LEMMA StartStep ==
  ASSUME IInv, NEW s \in Starters, OnlyStart(s), StartSound(s)', AnchorKept,
         anchor' \in AnchorState, anchor'.receipt = "pushed" => anchor'.remote,
         genesis' \in Nat \cup {None, Torn}, crashes' \in Nat,
         UNCHANGED <<contract, torn, files, lock, call, job>>
  PROVE  IInv'
<1>1. TypeOK'
  BY DEF IInv, TypeOK, OnlyStart, files
<1>2. ReceiptSound'
  BY DEF IInv, ReceiptSound, StartSound, OnlyStart, AnchorKept
<1> QED
  BY <1>1, <1>2, DirectoryKept DEF IInv

LEMMA Started ==
  ASSUME IInv, NEW s \in Starters, StartRun(s) \/ Starting(s) \/ CrashStart(s)
  PROVE  IInv'
<1>1. /\ start \in [Starters -> StartState] /\ start[s] \in StartState
      /\ anchor \in AnchorState /\ genesis \in Nat \cup {None, Torn}
      /\ contract \in Nat /\ crashes \in Nat
      /\ anchor.receipt = "pushed" => anchor.remote
      /\ StartSound(s)
  BY DEF IInv, TypeOK, ReceiptSound
<1>2. CASE StartRun(s)
  <2>1. PICK push \in BOOLEAN :
          start' = [start EXCEPT ![s].pc = "genesis", ![s].push = push]
    BY <1>2 DEF StartRun
  <2>2. OnlyStart(s) /\ StartSound(s)'
    BY <1>1, <1>2, <2>1 DEF StartRun, OnlyStart, StartState, StartSound
  <2> QED
    BY <1>1, <1>2, <2>2, StartStep DEF StartRun, AnchorKept, files
<1>3. CASE EnsureGenesis(s)
  <2>1. OnlyStart(s) /\ StartSound(s)'
    BY <1>1, <1>3
       DEF EnsureGenesis, StartGo, OnlyStart, StartState, StartSound
  <2> QED
    BY <1>1, <1>3, <2>1, StartStep DEF EnsureGenesis, AnchorKept, files
<1>4. CASE EnsureRef(s)
  <2>1. OnlyStart(s) /\ StartSound(s)'
    BY <1>1, <1>4
       DEF EnsureRef, StartGo, OnlyStart, StartState, StartSound, AnchorState
  <2> QED
    BY <1>1, <1>4, <2>1, StartStep DEF EnsureRef, AnchorState, AnchorKept, files
<1>5. CASE Push(s)
  <2>1. PICK landed \in {anchor.remote, TRUE} :
          anchor' = [anchor EXCEPT !.remote = landed]
    BY <1>5 DEF Push
  <2>2. /\ anchor' \in AnchorState /\ AnchorKept
        /\ anchor'.receipt = anchor.receipt
    BY <1>1, <2>1 DEF AnchorState, AnchorKept
  <2>3. PICK pc \in {"readback", "ended"} :
          start' = [start EXCEPT ![s].pc = pc]
    BY <1>5 DEF Push, StartGo
  <2>4. OnlyStart(s)
    BY <1>1, <2>3 DEF OnlyStart, StartState
  <2>5. StartSound(s)'
    BY <1>1, <2>2, <2>3 DEF StartSound, StartState, AnchorKept
  <2> QED
    BY <1>1, <1>5, <2>2, <2>4, <2>5, StartStep DEF Push, AnchorKept, files
<1>6. CASE ReadBack(s)
  <2>1. OnlyStart(s) /\ StartSound(s)'
    BY <1>1, <1>6
       DEF ReadBack, StartGo, OnlyStart, StartState, StartSound, AnchorState
  <2> QED
    BY <1>1, <1>6, <2>1, StartStep DEF ReadBack, AnchorKept, files
<1>7. CASE ReadReceipt(s)
  <2>1. PICK kept \in BOOLEAN : kept <=> anchor.receipt = "pushed"
    OBVIOUS
  <2>2. kept = (anchor.receipt = "pushed")
    BY <2>1
  <2>3. PICK pc \in {"ended", "receipt"} :
          start' = [start EXCEPT ![s].pc = pc, ![s].keep = kept]
    BY <1>7, <2>2 DEF ReadReceipt
  <2>4. OnlyStart(s)
    BY <1>1, <2>3 DEF OnlyStart, StartState
  <2>5. start[s].pc = "receipts" /\ anchor' = anchor
    BY <1>7 DEF ReadReceipt
  <2>6. StartSound(s)'
    BY <1>1, <2>1, <2>3, <2>5 DEF StartSound, StartState
  <2> QED
    BY <1>1, <1>7, <2>4, <2>6, StartStep DEF ReadReceipt, AnchorKept, files
<1>8. CASE WriteReceipt(s)
  <2>1. PICK said \in {"pushed", "local-only"} :
          /\ said = "pushed" => start[s].push \/ start[s].keep
          /\ anchor' = [anchor EXCEPT !.receipt = said]
    BY <1>8 DEF WriteReceipt
  <2>2. /\ anchor' \in AnchorState /\ AnchorKept
        /\ anchor'.receipt = said /\ anchor'.remote = anchor.remote
    BY <1>1, <2>1 DEF AnchorState, AnchorKept
  <2>3. start[s].push \/ start[s].keep => anchor.remote
    BY <1>1, <1>8 DEF WriteReceipt, StartSound
  <2>4. OnlyStart(s) /\ StartSound(s)'
    BY <1>1, <1>8, <2>2
       DEF WriteReceipt, StartGo, OnlyStart, StartState, StartSound, AnchorKept
  <2> QED
    BY <1>1, <1>8, <2>1, <2>2, <2>3, <2>4, StartStep DEF WriteReceipt, files
<1>9. CASE CrashStart(s)
  <2>1. OnlyStart(s) /\ StartSound(s)'
    BY <1>1, <1>9
       DEF CrashStart, StartGo, OnlyStart, StartState, StartSound, AnchorState
  <2> QED
    BY <1>1, <1>9, <2>1, StartStep
       DEF CrashStart, AnchorState, AnchorKept, files
<1> QED
  BY <1>2, <1>3, <1>4, <1>5, <1>6, <1>7, <1>8, <1>9 DEF Starting

LEMMA ContractChanged ==
  ASSUME IInv, ChangeContract
  PROVE  IInv'
<1>1. TypeOK'
  BY DEF IInv, TypeOK, ChangeContract
<1>2. ReceiptSound'
  BY DEF IInv, ReceiptSound, StartSound, ChangeContract
<1>3. AnchorKept /\ UNCHANGED <<files, lock, call, job>>
  BY DEF AnchorKept, ChangeContract, files
<1> QED
  BY <1>1, <1>2, <1>3, DirectoryKept DEF IInv

-----------------------------------------------------------------------------
(* Sealing. *)

OnlyJob(j) ==
  /\ job' \in [Sealers -> JobState]
  /\ \A k \in Sealers \ {j} : job'[k] = job[k]

JobSound(j) ==
  /\ job[j].pc # "idle" => job[j].step \in Steps
  /\ job[j].pc = "computed" => Within(job[j].seal)

LEMMA JobStep ==
  ASSUME IInv, NEW j \in Sealers, OnlyJob(j), JobSound(j)',
         UNCHANGED <<contract, genesis, anchor, torn, files, lock, call, start,
                     crashes>>
  PROVE  IInv'
<1>1. TypeOK'
  BY DEF IInv, TypeOK, OnlyJob, files
<1>2. ReceiptSound'
  BY DEF IInv, ReceiptSound, StartSound
<1>3. \A i \in Invocations : CallSound(i)'
  <2>1. TAKE i \in Invocations
  <2>2. CallSound(i)
    BY DEF IInv, CallsSound
  <2> QED
    BY <2>2 DEF CallSound, files, Preceded, Verdict, Entries
<1>4. LedgerSound'
  BY DEF IInv, LedgerSound, Chained, OnePerArtifact, EntrySound, Preceded, files
<1>5. SealsWithin'
  BY DEF IInv, SealsWithin, JobSound, OnlyJob, Within, files
<1> QED
  BY <1>1, <1>2, <1>3, <1>4, <1>5 DEF IInv, CallsSound

\* A seal, whole or torn, is written where there was none: what came before it
\* in the ledger belongs to this step or an earlier one.
LEMMA SealStep ==
  ASSUME IInv, NEW j \in Sealers, NEW s \in Steps, NEW seal,
         seals[s] = None, seals' = [seals EXCEPT ![s] = seal],
         seal = Torn \/ Within(seal), crashes' \in Nat,
         job' = [job EXCEPT ![j] = [pc |-> "idle", step |-> None,
                                    seal |-> None]],
         UNCHANGED <<contract, genesis, anchor, torn, outputs, sidecars, ledger,
                     lock, call, start>>
  PROVE  IInv'
<1>1. /\ seals \in [Steps -> Seal \cup {None, Torn}]
      /\ seal \in Seal \cup {Torn}
  BY DEF IInv, TypeOK, Within
<1>2. seals' \in [Steps -> Seal \cup {None, Torn}]
  BY <1>1
<1>3. job \in [Sealers -> JobState] /\ job' \in [Sealers -> JobState]
  BY DEF IInv, TypeOK, JobState
<1>4. \A t \in Steps \ {s} : seals'[t] = seals[t]
  BY <1>1
<1>5. seals'[s] = seal
  BY <1>1
<1>6. TypeOK'
  BY <1>2, <1>3 DEF IInv, TypeOK
<1>7. ReceiptSound'
  BY DEF IInv, ReceiptSound, StartSound
<1>8. \A a : Preceded(a) => Preceded(a)'
  <2>1. TAKE a
  <2>2. SUFFICES ASSUME Preceded(a), a \in Outputs, StepOf[a] > 1
                 PROVE  seals'[StepOf[a] - 1] # None
    BY DEF Preceded
  <2>3. StepOf[a] - 1 \in Steps /\ seals[StepOf[a] - 1] # None
    BY <2>2, RunAssumption DEF Preceded, Steps
  <2> QED
    BY <1>4, <2>3
<1>9. \A i \in Invocations : CallSound(i)'
  <2>1. TAKE i \in Invocations
  <2>2. CallSound(i)
    BY DEF IInv, CallsSound
  <2> QED
    BY <1>8, <2>2 DEF CallSound, Verdict, Entries
<1>10. \A k \in DOMAIN ledger : EntrySound(k)'
  <2>1. TAKE k \in DOMAIN ledger
  <2>2. EntrySound(k)
    BY DEF IInv, LedgerSound
  <2>3. Preceded(ledger[k].artifact)'
    BY <1>8, <2>2 DEF EntrySound
  <2>4. ASSUME ledger[k].artifact \in Outputs, StepOf[ledger[k].artifact] > 1
        PROVE  seals'[StepOf[ledger[k].artifact] - 1]
                 = seals[StepOf[ledger[k].artifact] - 1]
    <3>1. StepOf[ledger[k].artifact] - 1 \in Steps
      BY <2>4, RunAssumption DEF Steps
    <3>2. seals[StepOf[ledger[k].artifact] - 1] # None
      BY <2>2, <2>4 DEF EntrySound, Preceded
    <3> QED
      BY <1>4, <3>1, <3>2
  <2> QED
    BY <2>2, <2>3, <2>4 DEF EntrySound
<1>11. LedgerSound'
  BY <1>10 DEF IInv, LedgerSound, Chained, OnePerArtifact
<1>12. SealsWithin'
  BY <1>3, <1>4, <1>5 DEF IInv, SealsWithin, Within
<1> QED
  BY <1>6, <1>7, <1>9, <1>11, <1>12 DEF IInv, CallsSound

LEMMA Sealed ==
  ASSUME IInv, NEW j \in Sealers,
         \/ Sealing(j) \/ CrashSeal(j)
         \/ \E s \in Steps : SealPreflight(j, s)
  PROVE  IInv'
<1>1. /\ job \in [Sealers -> JobState] /\ job[j] \in JobState
      /\ crashes \in Nat /\ JobSound(j)
  BY DEF IInv, TypeOK, SealsWithin, JobSound
<1>2. CASE \E s \in Steps : SealPreflight(j, s)
  <2>1. PICK s \in Steps :
          /\ job' = [job EXCEPT ![j].pc = "checked", ![j].step = s]
          /\ UNCHANGED <<contract, genesis, anchor, outputs, sidecars, ledger,
                         torn, lock, seals, call, start, crashes>>
    BY <1>2 DEF SealPreflight
  <2>2. OnlyJob(j) /\ JobSound(j)'
    BY <1>1, <2>1 DEF OnlyJob, JobSound, JobState
  <2> QED
    BY <2>1, <2>2, JobStep DEF files
<1>3. CASE ComputeSeal(j)
  <2>1. CASE torn \/ ~Completed(job[j].step)
    <3>1. OnlyJob(j) /\ JobSound(j)'
      BY <1>1, <1>3, <2>1 DEF ComputeSeal, OnlyJob, JobSound, JobState
    <3> QED
      BY <1>3, <3>1, JobStep DEF ComputeSeal, files
  <2>2. CASE ~torn /\ Completed(job[j].step)
    <3>1. PICK seal : seal = SealOf(job[j].step)
      OBVIOUS
    <3>2. Within(seal)
      BY <1>1, <1>3, <2>2, <3>1, SealWithin DEF ComputeSeal, IInv, JobSound
    <3>3. job' = [job EXCEPT ![j].pc = "computed", ![j].seal = seal]
      BY <1>3, <2>2, <3>1 DEF ComputeSeal
    <3>4. OnlyJob(j)
      BY <1>1, <3>2, <3>3 DEF OnlyJob, JobState, Within
    <3>5. JobSound(j)'
      BY <1>1, <1>3, <3>2, <3>3 DEF ComputeSeal, JobSound, JobState, Within
    <3> QED
      BY <1>3, <3>4, <3>5, JobStep DEF ComputeSeal, files
  <2> QED
    BY <2>1, <2>2
<1>4. ASSUME job' = [job EXCEPT ![j] = [pc |-> "idle", step |-> None,
                                        seal |-> None]]
      PROVE  OnlyJob(j) /\ JobSound(j)'
  BY <1>1, <1>4 DEF OnlyJob, JobSound, JobState
<1>5. CASE WriteSeal(j)
  <2>1. CASE seals[job[j].step] = None
    BY <1>1, <1>5, <2>1, SealStep DEF WriteSeal, JobSound
  <2>2. CASE seals[job[j].step] # None
    BY <1>4, <1>5, <2>2, JobStep DEF WriteSeal, files
  <2> QED
    BY <2>1, <2>2
<1>6. CASE CrashSeal(j)
  <2>1. CASE seals' = seals
    <3>1. TypeOK' /\ ReceiptSound'
      BY <1>1, <1>4, <1>6, <2>1
         DEF CrashSeal, OnlyJob, IInv, TypeOK, ReceiptSound, StartSound
    <3>2. \A i \in Invocations : CallSound(i)'
      <4>1. TAKE i \in Invocations
      <4>2. CallSound(i)
        BY DEF IInv, CallsSound
      <4> QED
        BY <1>6, <2>1, <4>2 DEF CrashSeal, CallSound, Preceded, Verdict, Entries
    <3>3. LedgerSound'
      BY <1>6, <2>1 DEF CrashSeal, IInv, LedgerSound, Chained, OnePerArtifact,
                        EntrySound, Preceded
    <3>4. SealsWithin'
      BY <1>4, <1>6, <2>1
         DEF CrashSeal, IInv, SealsWithin, JobSound, OnlyJob, Within
    <3> QED
      BY <3>1, <3>2, <3>3, <3>4 DEF IInv, CallsSound
  <2>2. CASE /\ seals[job[j].step] = None
             /\ seals' = [seals EXCEPT ![job[j].step] = Torn]
    <3>1. /\ job[j].step \in Steps /\ crashes' \in Nat
          /\ job' = [job EXCEPT ![j] = [pc |-> "idle", step |-> None,
                                       seal |-> None]]
          /\ UNCHANGED <<contract, genesis, anchor, outputs, sidecars, ledger,
                         torn, lock, call, start>>
      BY <1>1, <1>6 DEF CrashSeal, JobSound
    <3> QED
      BY <2>2, <3>1, SealStep
  <2> QED
    BY <1>6, <2>1, <2>2 DEF CrashSeal
<1> QED
  BY <1>2, <1>3, <1>5, <1>6 DEF Sealing

-----------------------------------------------------------------------------
(* Invocations. *)

\* An invocation's step changes its own place, and of the directory what
\* nobody has claimed: a file that is not there, a lock that is not another's.
OnlyCall(i) ==
  /\ call' \in [Invocations -> CallState]
  /\ \A j \in Invocations \ {i} : call'[j] = call[j]
OutputsKept ==
  /\ outputs' \in [Artifacts -> Invocations \cup {None, Torn}]
  /\ \A a \in Artifacts : outputs[a] # None => outputs'[a] = outputs[a]
SidecarsKept ==
  /\ sidecars' \in [Artifacts -> Record \cup {None, Torn}]
  /\ \A a \in Artifacts : sidecars[a] # None => sidecars'[a] = sidecars[a]
LockKept(i) ==
  /\ lock' \in Invocations \cup {None}
  /\ \A j \in Invocations \ {i} : lock = j => lock' = j

LEMMA NoneIsNothing ==
  /\ None \notin Invocations /\ Torn \notin Invocations
  /\ None \notin Record /\ Torn \notin Record /\ None # Torn
  /\ Invocations \subseteq Nat
  BY RunAssumption DEF Invocations

LEMMA VerdictIsRecord ==
  ASSUME TypeOK, NEW i \in Invocations, CallSound(i), call[i].pc \in Deciding
  PROVE  Verdict(i) \in Record
<1>1. /\ call[i].artifact \in Artifacts /\ call[i].outcome \in FinalOutcomes
      /\ call[i].verification \in {"PASS", "FAIL", "UNVERIFIABLE"}
  BY DEF CallSound, Deciding, Verifications
<1>2. call[i].evidence \in BOOLEAN
  BY DEF TypeOK, CallState
<1>3. (IF ledger = <<>> THEN None ELSE ledger[Len(ledger)].by)
        \in Invocations \cup {None}
  BY Lines DEF Record
<1> QED
  BY <1>1, <1>2, <1>3 DEF Verdict, Record

\* Whoever works on the ledger is its lock's owner.
LEMMA OneRecording ==
  ASSUME IInv, NEW i \in Invocations, NEW j \in Invocations, i # j,
         call[i].pc \in Recording
  PROVE  call[j].pc \notin Recording
  BY DEF IInv, CallsSound, CallSound

\* The other invocations stay where they are.
LEMMA OthersSound ==
  ASSUME IInv, NEW i \in Invocations, OnlyCall(i), OutputsKept, SidecarsKept,
         LockKept(i), UNCHANGED <<anchor, seals>>,
         NEW j \in Invocations \ {i},
         ledger' = ledger \/ call[j].pc # "append"
  PROVE  CallSound(j)'
<1>1. CallSound(j) /\ call'[j] = call[j] /\ TypeOK
  BY DEF IInv, CallsSound, OnlyCall
<1>2. \A a : Preceded(a) <=> Preceded(a)'
  BY DEF Preceded
<1>3. ASSUME call[j].pc \in {"lock"} \cup Recording,
             call[j].outcome = "success"
      PROVE  outputs'[call[j].artifact] = j
  BY <1>1, <1>3, NoneIsNothing DEF CallSound, OutputsKept, Recording
<1>4. call[j].pc \in Recording => lock' = j
  BY <1>1 DEF CallSound, LockKept
<1>5. ASSUME call[j].pc = "append"
      PROVE  /\ sidecars'[call[j].artifact] = Verdict(j)'
             /\ Entries(call[j].artifact)' = {}
  <2>1. /\ sidecars[call[j].artifact] = Verdict(j)
        /\ call[j].artifact \in Artifacts
        /\ Entries(call[j].artifact) = {}
    BY <1>1, <1>5 DEF CallSound
  <2>2. Verdict(j) \in Record
    BY <1>1, <1>5, VerdictIsRecord DEF Deciding
  <2>3. Verdict(j)' = Verdict(j) /\ Entries(call[j].artifact)' = {}
    BY <1>1, <1>5, <2>1 DEF Verdict, Entries
  <2> QED
    BY <2>1, <2>2, <2>3, NoneIsNothing DEF SidecarsKept
<1> QED
  BY <1>1, <1>2, <1>3, <1>4, <1>5 DEF CallSound

LEMMA CallStep ==
  ASSUME IInv, NEW i \in Invocations, OnlyCall(i), CallSound(i)', OutputsKept,
         SidecarsKept, LockKept(i), torn' \in BOOLEAN, crashes' \in Nat,
         UNCHANGED <<contract, genesis, anchor, ledger, seals, job, start>>
  PROVE  IInv'
<1>1. TypeOK'
  BY DEF IInv, TypeOK, OnlyCall, OutputsKept, SidecarsKept, LockKept
<1>2. ReceiptSound'
  BY DEF IInv, ReceiptSound, StartSound
<1>3. CallsSound'
  BY OthersSound DEF CallsSound
<1>4. \A k \in DOMAIN ledger : EntrySound(k)'
  <2>1. TAKE k \in DOMAIN ledger
  <2>2. EntrySound(k) /\ ledger[k] \in Record
    BY Lines DEF IInv, LedgerSound
  <2>3. ledger[k].artifact \in Artifacts /\ ledger[k].by \in Invocations
    BY <2>2 DEF Record
  <2> QED
    BY <2>2, <2>3, NoneIsNothing
       DEF EntrySound, Preceded, OutputsKept, SidecarsKept
<1>5. LedgerSound'
  BY <1>4 DEF IInv, LedgerSound, Chained, OnePerArtifact
<1>6. SealsWithin'
  BY DEF IInv, SealsWithin, Within
<1> QED
  BY <1>1, <1>2, <1>3, <1>5, <1>6 DEF IInv

\* What an invocation's place becomes.
LEMMA CallUpdated ==
  ASSUME call \in [Invocations -> CallState], NEW i \in Invocations,
         NEW c \in CallState, call' = [call EXCEPT ![i] = c]
  PROVE  OnlyCall(i) /\ call'[i] = c
  BY DEF OnlyCall

\* The places that commands come to.
LEMMA Places ==
  ASSUME NEW c \in CallState
  PROVE  /\ \A fresh \in BOOLEAN :
              [c EXCEPT !.pc = "begun", !.fresh = fresh] \in CallState
         /\ \A bound \in Nat :
              [c EXCEPT !.pc = "ready", !.fresh = FALSE, !.bound = bound]
                \in CallState
         /\ \A breached \in BOOLEAN :
              [c EXCEPT !.pc = "ready", !.breached = breached] \in CallState
         /\ \A outcome \in FinalOutcomes, verification \in Verifications,
               evidence \in BOOLEAN :
              [c EXCEPT !.pc = "finish", !.outcome = outcome,
                        !.verification = verification, !.evidence = evidence]
                \in CallState
         /\ \A pc \in {"output", "lock"}, verification \in Verifications :
              [c EXCEPT !.pc = pc, !.verification = verification] \in CallState
         /\ \A pc \in {"lock", "locked", "append", "unlock"} :
              [c EXCEPT !.pc = pc] \in CallState
<1>1. \A fresh \in BOOLEAN :
        [c EXCEPT !.pc = "begun", !.fresh = fresh] \in CallState
  BY DEF CallState
<1>2. \A bound \in Nat :
        [c EXCEPT !.pc = "ready", !.fresh = FALSE, !.bound = bound]
          \in CallState
  BY DEF CallState
<1>3. \A breached \in BOOLEAN :
        [c EXCEPT !.pc = "ready", !.breached = breached] \in CallState
  BY DEF CallState
<1>4. \A outcome \in FinalOutcomes, verification \in Verifications,
         evidence \in BOOLEAN :
        [c EXCEPT !.pc = "finish", !.outcome = outcome,
                  !.verification = verification, !.evidence = evidence]
          \in CallState
  BY DEF CallState
<1>5. \A pc \in {"output", "lock"}, verification \in Verifications :
        [c EXCEPT !.pc = pc, !.verification = verification] \in CallState
  BY DEF CallState
<1>6. \A pc \in {"lock", "locked", "append", "unlock"} :
        [c EXCEPT !.pc = pc] \in CallState
  BY DEF CallState
<1> QED
  BY <1>1, <1>2, <1>3, <1>4, <1>5, <1>6

\* A command that ends, with or without an error.
LEMMA EndStep ==
  ASSUME TypeOK, NEW i \in Invocations, End(i)
  PROVE  OnlyCall(i) /\ CallSound(i)' /\ call'[i].pc = "ended"
<1>1. Ended \in CallState /\ Ended.pc = "ended" /\ ~Ended.breached
  BY DEF Ended, NewCall, CallState
<1>2. call \in [Invocations -> CallState] /\ call' = [call EXCEPT ![i] = Ended]
  BY DEF TypeOK, End
<1>3. OnlyCall(i) /\ call'[i] = Ended
  BY <1>1, <1>2 DEF OnlyCall
<1> QED
  BY <1>1, <1>3 DEF CallSound, Deciding, Recording

\* Nothing but the invocation's own place.
LEMMA NothingElse ==
  ASSUME TypeOK, NEW i \in Invocations, UNCHANGED <<files, lock>>
  PROVE  OutputsKept /\ SidecarsKept /\ LockKept(i)
  BY DEF TypeOK, OutputsKept, SidecarsKept, LockKept, files

LEMMA Begun ==
  ASSUME IInv, NEW i \in Invocations, Begin(i)
  PROVE  IInv'
<1>1. /\ call \in [Invocations -> CallState] /\ CallSound(i) /\ TypeOK
      /\ crashes \in Nat /\ torn \in BOOLEAN
  BY DEF IInv, TypeOK, CallsSound
<1>2. PICK fresh \in BOOLEAN : fresh <=> ledger = <<>>
  OBVIOUS
<1>3. fresh = (ledger = <<>>)
  BY <1>2
<1>4. call' = [call EXCEPT ![i].pc = "begun", ![i].fresh = fresh]
  BY <1>3 DEF Begin
<1> DEFINE c == [call[i] EXCEPT !.pc = "begun", !.fresh = fresh]
<1>5. /\ c \in CallState /\ c.pc = "begun" /\ c.breached = call[i].breached
      /\ c.artifact = call[i].artifact
  <2>1. call[i] \in CallState
    BY <1>1
  <2>2. c \in CallState
    BY <2>1, Places
  <2> QED
    BY <2>1, <2>2 DEF CallState
<1> HIDE DEF c
<1>6. OnlyCall(i) /\ call'[i] = c
  <2>1. call' = [call EXCEPT ![i] = c]
    BY <1>4 DEF c
  <2> QED
    BY <1>1, <1>5, <2>1, CallUpdated
<1>7. anchor.ref /\ anchor.remote /\ anchor' = anchor /\ call[i].pc = "new"
  BY DEF Begin, At, IInv, ReceiptSound
<1>8. CallSound(i)'
  BY <1>1, <1>5, <1>6, <1>7 DEF CallSound, Deciding, Recording
<1> QED
  BY <1>1, <1>6, <1>8, NothingElse, CallStep DEF Begin, files

LEMMA Bound ==
  ASSUME IInv, NEW i \in Invocations, Bind(i)
  PROVE  IInv'
<1>1. /\ call \in [Invocations -> CallState] /\ CallSound(i) /\ TypeOK
      /\ crashes \in Nat /\ torn \in BOOLEAN /\ contract \in Nat
  BY DEF IInv, TypeOK, CallsSound
<1> DEFINE a == call[i].artifact
<1>2. OnlyCall(i) /\ CallSound(i)'
  <2>1. CASE /\ a \in Outputs /\ StepOf[a] > 1 => LintRun(StepOf[a] - 1, FALSE)
             /\ call' = [call EXCEPT ![i].pc = "ready", ![i].fresh = FALSE,
                                     ![i].bound = contract]
    <3> DEFINE c == [call[i] EXCEPT !.pc = "ready", !.fresh = FALSE,
                                    !.bound = contract]
    <3>1. /\ c \in CallState /\ c.pc = "ready"
          /\ c.breached = call[i].breached /\ c.artifact = a
      <4>1. call[i] \in CallState
        BY <1>1
      <4>2. c \in CallState
        BY <1>1, <4>1, Places
      <4> QED
        BY <4>1, <4>2 DEF CallState
    <3> HIDE DEF c
    <3>2. OnlyCall(i) /\ call'[i] = c
      <4>1. call' = [call EXCEPT ![i] = c]
        BY <2>1 DEF c
      <4> QED
        BY <1>1, <3>1, <4>1, CallUpdated
    <3>3. Preceded(a)
      <4>1. SUFFICES ASSUME a \in Outputs, StepOf[a] > 1
                     PROVE  seals[StepOf[a] - 1] # None
        BY DEF Preceded
      <4>2. StepOf[a] - 1 \in 1..(StepOf[a] - 1)
        BY <4>1, RunAssumption DEF Steps
      <4> QED
        BY <2>1, <4>1, <4>2 DEF LintRun
    <3>4. call[i].pc = "begun" /\ anchor' = anchor /\ seals' = seals
      BY DEF Bind, At
    <3> QED
      BY <1>1, <3>1, <3>2, <3>3, <3>4
         DEF CallSound, Preceded, Deciding, Recording
  <2>2. CASE End(i)
    BY <1>1, <2>2, EndStep
  <2> QED
    BY <2>1, <2>2 DEF Bind
<1> QED
  BY <1>1, <1>2, NothingElse, CallStep DEF Bind, files

LEMMA Dispatched ==
  ASSUME IInv, NEW i \in Invocations, Dispatch(i)
  PROVE  IInv'
<1>1. /\ call \in [Invocations -> CallState] /\ CallSound(i) /\ TypeOK
      /\ crashes \in Nat /\ torn \in BOOLEAN
  BY DEF IInv, TypeOK, CallsSound
<1>2. OnlyCall(i)
  BY <1>1 DEF Dispatch, OnlyCall, CallState
<1>3. /\ call'[i].pc = "calling" /\ call'[i].breached = call[i].breached
      /\ call'[i].artifact = call[i].artifact /\ call[i].pc = "ready"
  BY <1>1 DEF Dispatch, At, CallState
<1>4. CallSound(i)'
  BY <1>1, <1>3 DEF Dispatch, CallSound, Preceded, Deciding, Recording
<1> QED
  BY <1>1, <1>2, <1>4, NothingElse, CallStep DEF Dispatch, files

\* The last attempt decides.
LEMMA FinalStep ==
  ASSUME IInv, NEW i \in Invocations, call[i].pc \in {"ready", "calling"},
         NEW outcome \in FinalOutcomes, NEW verification \in Verifications,
         NEW evidence \in BOOLEAN, Final(i, outcome, verification, evidence),
         UNCHANGED seals
  PROVE  OnlyCall(i) /\ CallSound(i)'
<1>1. call \in [Invocations -> CallState] /\ CallSound(i)
  BY DEF IInv, TypeOK, CallsSound
<1> DEFINE c == [call[i] EXCEPT !.pc = "finish", !.outcome = outcome,
                                !.verification = verification,
                                !.evidence = evidence]
<1>2. /\ c \in CallState /\ c.pc = "finish" /\ c.breached = call[i].breached
      /\ c.artifact = call[i].artifact /\ c.outcome = outcome
      /\ c.verification = verification
  <2>1. call[i] \in CallState
    BY <1>1
  <2>2. c \in CallState
    BY <2>1, Places
  <2> QED
    BY <2>1, <2>2 DEF CallState
<1> HIDE DEF c
<1>3. OnlyCall(i) /\ call'[i] = c
  <2>1. call' = [call EXCEPT ![i] = c]
    BY DEF Final, c
  <2> QED
    BY <1>1, <1>2, <2>1, CallUpdated
<1> QED
  BY <1>1, <1>2, <1>3 DEF CallSound, Preceded, Deciding, Recording

LEMMA Answered ==
  ASSUME IInv, NEW i \in Invocations, Answer(i)
  PROVE  IInv'
<1>1. /\ call \in [Invocations -> CallState] /\ CallSound(i) /\ TypeOK
      /\ crashes \in Nat /\ torn \in BOOLEAN /\ call[i].pc = "calling"
  BY DEF IInv, TypeOK, CallsSound, Answer, At
<1>2. PICK r \in Results :
        IF ClassifyAttempt(r) \in Retryable /\ call[i].attempt <= MaxRetries
        THEN call' = [call EXCEPT
               ![i].pc = "ready",
               ![i].breached = @ \/ "outside" \in r.providers]
        ELSE Final(i, FinalOutcome(ClassifyAttempt(r)),
                   FinalVerification(ClassifyAttempt(r), r),
                   FinalEvidence(ClassifyAttempt(r), r))
  BY DEF Answer
<1>3. OnlyCall(i) /\ CallSound(i)'
  <2>1. CASE ClassifyAttempt(r) \in Retryable /\ call[i].attempt <= MaxRetries
    <3>1. PICK breached \in BOOLEAN :
            breached <=> (call[i].breached \/ "outside" \in r.providers)
      OBVIOUS
    <3>2. breached = (call[i].breached \/ "outside" \in r.providers)
      BY <3>1
    <3>3. ~breached
      BY <1>1, <2>1, <3>1, OutsideIsFinal DEF CallSound
    <3>4. call' = [call EXCEPT ![i].pc = "ready", ![i].breached = breached]
      BY <1>2, <2>1, <3>2
    <3> DEFINE c == [call[i] EXCEPT !.pc = "ready", !.breached = breached]
    <3>5. /\ c \in CallState /\ c.pc = "ready" /\ c.breached = breached
          /\ c.artifact = call[i].artifact
      <4>1. call[i] \in CallState
        BY <1>1
      <4>2. c \in CallState
        BY <4>1, Places
      <4> QED
        BY <4>1, <4>2 DEF CallState
    <3> HIDE DEF c
    <3>6. OnlyCall(i) /\ call'[i] = c
      <4>1. call' = [call EXCEPT ![i] = c]
        BY <3>4 DEF c
      <4> QED
        BY <1>1, <3>5, <4>1, CallUpdated
    <3> QED
      BY <1>1, <3>3, <3>5, <3>6
         DEF Answer, CallSound, Preceded, Deciding, Recording
  <2>2. CASE Final(i, FinalOutcome(ClassifyAttempt(r)),
                   FinalVerification(ClassifyAttempt(r), r),
                   FinalEvidence(ClassifyAttempt(r), r))
    <3>1. /\ FinalOutcome(ClassifyAttempt(r)) \in FinalOutcomes
          /\ FinalVerification(ClassifyAttempt(r), r) \in Verifications
          /\ FinalEvidence(ClassifyAttempt(r), r) \in BOOLEAN
      BY OutcomeIsFinal, VerificationIsFinal, EvidenceIsFinal
    <3>2. seals' = seals
      BY DEF Answer
    <3> QED
      BY <1>1, <2>2, <3>1, <3>2, FinalStep
  <2> QED
    BY <1>2, <2>1, <2>2
<1> QED
  BY <1>1, <1>3, NothingElse, CallStep DEF Answer, files

LEMMA GivenUp ==
  ASSUME IInv, NEW i \in Invocations, OutOfTime(i)
  PROVE  IInv'
<1>1. /\ TypeOK /\ crashes \in Nat /\ torn \in BOOLEAN /\ call[i].pc = "ready"
      /\ "retries_exhausted_transient" \in FinalOutcomes
      /\ "UNVERIFIABLE" \in Verifications
  BY DEF IInv, TypeOK, OutOfTime, At, FinalOutcomes, Verifications
<1>2. OnlyCall(i) /\ CallSound(i)'
  BY <1>1, FinalStep DEF OutOfTime
<1> QED
  BY <1>1, <1>2, NothingElse, CallStep DEF OutOfTime, files

LEMMA Checked ==
  ASSUME IInv, NEW i \in Invocations, CheckBinding(i)
  PROVE  IInv'
<1>1. /\ call \in [Invocations -> CallState] /\ CallSound(i) /\ TypeOK
      /\ crashes \in Nat /\ torn \in BOOLEAN /\ call[i].pc = "finish"
  BY DEF IInv, TypeOK, CallsSound, CheckBinding, At
<1>2. PICK pc \in {"output", "lock"}, verification \in Verifications :
        /\ pc = IF call[i].outcome = "success" THEN "output" ELSE "lock"
        /\ call' = [call EXCEPT ![i].pc = pc, ![i].verification = verification]
  <2>1. call[i].verification \in Verifications
    BY <1>1 DEF CallSound, Deciding
  <2> QED
    BY <1>1, <2>1 DEF CheckBinding, Verifications
<1> DEFINE c == [call[i] EXCEPT !.pc = pc, !.verification = verification]
<1>3. /\ c \in CallState /\ c.pc = pc /\ c.breached = call[i].breached
      /\ c.artifact = call[i].artifact /\ c.outcome = call[i].outcome
      /\ c.verification = verification
  <2>1. call[i] \in CallState
    BY <1>1
  <2>2. c \in CallState
    BY <1>2, <2>1, Places
  <2> QED
    BY <2>1, <2>2 DEF CallState
<1> HIDE DEF c
<1>4. OnlyCall(i) /\ call'[i] = c
  <2>1. call' = [call EXCEPT ![i] = c]
    BY <1>2 DEF c
  <2> QED
    BY <1>1, <1>3, <2>1, CallUpdated
<1>5. CallSound(i)'
  BY <1>1, <1>2, <1>3, <1>4
     DEF CheckBinding, CallSound, Preceded, Deciding, Recording
<1> QED
  BY <1>1, <1>4, <1>5, NothingElse, CallStep DEF CheckBinding, files

LEMMA GoStep ==
  ASSUME TypeOK, NEW i \in Invocations,
         NEW pc \in {"lock", "locked", "append", "unlock"}, Go(i, pc)
  PROVE  /\ OnlyCall(i) /\ call'[i].pc = pc
         /\ call'[i].breached = call[i].breached
         /\ call'[i].artifact = call[i].artifact
         /\ call'[i].outcome = call[i].outcome
         /\ call'[i].verification = call[i].verification
         /\ call'[i].evidence = call[i].evidence
<1> DEFINE c == [call[i] EXCEPT !.pc = pc]
<1>1. call \in [Invocations -> CallState]
  BY DEF TypeOK
<1>2. /\ c \in CallState /\ c.pc = pc /\ c.breached = call[i].breached
      /\ c.artifact = call[i].artifact /\ c.outcome = call[i].outcome
      /\ c.verification = call[i].verification
      /\ c.evidence = call[i].evidence
  <2>1. call[i] \in CallState
    BY <1>1
  <2>2. c \in CallState
    BY <2>1, Places
  <2> QED
    BY <2>1, <2>2 DEF CallState
<1>3. call' = [call EXCEPT ![i] = c]
  BY DEF Go
<1>4. OnlyCall(i) /\ call'[i] = c
  BY <1>1, <1>2, <1>3, CallUpdated
<1> HIDE DEF c
<1> QED
  BY <1>2, <1>4

LEMMA OutputWritten ==
  ASSUME IInv, NEW i \in Invocations, WriteOutput(i)
  PROVE  IInv'
<1>1. /\ CallSound(i) /\ TypeOK /\ call[i].pc = "output"
      /\ crashes \in Nat /\ torn \in BOOLEAN
      /\ outputs \in [Artifacts -> Invocations \cup {None, Torn}]
  BY DEF IInv, TypeOK, CallsSound, WriteOutput, At
<1>2. SidecarsKept /\ LockKept(i)
  BY <1>1 DEF WriteOutput, TypeOK, SidecarsKept, LockKept
<1>3. CASE outputs[call[i].artifact] = None
  <2>1. /\ outputs' = [outputs EXCEPT ![call[i].artifact] = i] /\ Go(i, "lock")
        /\ call[i].artifact \in Artifacts /\ seals' = seals
    BY <1>1, <1>3 DEF WriteOutput, CallSound
  <2>2. OutputsKept /\ outputs'[call[i].artifact] = i
    BY <1>1, <1>3, <2>1 DEF OutputsKept
  <2>3. OnlyCall(i) /\ CallSound(i)'
    BY <1>1, <2>1, <2>2, GoStep DEF CallSound, Preceded, Deciding, Recording
  <2> QED
    BY <1>1, <1>2, <2>2, <2>3, CallStep DEF WriteOutput
<1>4. CASE outputs[call[i].artifact] # None
  <2>1. End(i) /\ outputs' = outputs
    BY <1>4 DEF WriteOutput
  <2>2. OutputsKept /\ OnlyCall(i) /\ CallSound(i)'
    BY <1>1, <2>1, EndStep DEF OutputsKept
  <2> QED
    BY <1>1, <1>2, <2>2, CallStep DEF WriteOutput
<1> QED
  BY <1>3, <1>4

LEMMA Locked ==
  ASSUME IInv, NEW i \in Invocations, LockLedger(i)
  PROVE  IInv'
<1>1. /\ CallSound(i) /\ TypeOK /\ call[i].pc = "lock" /\ lock = None
      /\ crashes \in Nat /\ torn \in BOOLEAN
      /\ Go(i, "locked") /\ lock' = i /\ seals' = seals /\ outputs' = outputs
  BY DEF IInv, TypeOK, CallsSound, LockLedger, At
<1>2. OutputsKept /\ SidecarsKept /\ LockKept(i)
  BY <1>1, NoneIsNothing
     DEF LockLedger, TypeOK, OutputsKept, SidecarsKept, LockKept
<1>3. OnlyCall(i) /\ CallSound(i)'
  BY <1>1, GoStep DEF CallSound, Preceded, Deciding, Recording
<1> QED
  BY <1>1, <1>2, <1>3, CallStep DEF LockLedger

LEMMA LockRefused ==
  ASSUME IInv, NEW i \in Invocations, LockTimeout(i)
  PROVE  IInv'
<1>1. /\ TypeOK /\ crashes \in Nat /\ torn \in BOOLEAN /\ End(i)
  BY DEF IInv, TypeOK, LockTimeout
<1> QED
  BY <1>1, EndStep, NothingElse, CallStep DEF LockTimeout, files

LEMMA SidecarWritten ==
  ASSUME IInv, NEW i \in Invocations, WriteSidecar(i)
  PROVE  IInv'
<1>1. /\ CallSound(i) /\ TypeOK /\ call[i].pc = "locked" /\ lock = i
      /\ crashes \in Nat /\ torn \in BOOLEAN
      /\ call[i].artifact \in Artifacts
      /\ sidecars \in [Artifacts -> Record \cup {None, Torn}]
  BY DEF IInv, TypeOK, CallsSound, CallSound, Recording, WriteSidecar, At
<1>2. OutputsKept
  BY <1>1 DEF WriteSidecar, TypeOK, OutputsKept
<1>3. CASE torn \/ sidecars[call[i].artifact] # None
  <2>1. End(i) /\ lock' = None /\ sidecars' = sidecars
    BY <1>3 DEF WriteSidecar
  <2>2. SidecarsKept /\ LockKept(i)
    BY <1>1, <2>1 DEF SidecarsKept, LockKept
  <2> QED
    BY <1>1, <1>2, <2>1, <2>2, EndStep, CallStep DEF WriteSidecar
<1>4. CASE ~torn /\ sidecars[call[i].artifact] = None
  <2>1. /\ sidecars' = [sidecars EXCEPT ![call[i].artifact] = Verdict(i)]
        /\ Go(i, "append") /\ lock' = lock /\ seals' = seals
        /\ outputs' = outputs /\ ledger' = ledger
    BY <1>4 DEF WriteSidecar
  <2>2. Verdict(i) \in Record
    BY <1>1, VerdictIsRecord DEF Deciding
  <2>3. SidecarsKept /\ sidecars'[call[i].artifact] = Verdict(i)
    BY <1>1, <1>4, <2>1, <2>2 DEF SidecarsKept
  <2>4. LockKept(i)
    BY <1>1, <2>1 DEF LockKept, TypeOK
  <2>5. OnlyCall(i) /\ Verdict(i)' = Verdict(i)
    BY <1>1, <2>1, GoStep DEF Verdict
  <2>6. Entries(call[i].artifact) = {}
    <3>1. ASSUME NEW k \in Entries(call[i].artifact) PROVE FALSE
      <4>1. /\ k \in DOMAIN ledger /\ ledger[k].artifact = call[i].artifact
            /\ ledger[k] \in Record
        BY <1>1, <3>1, Lines DEF Entries
      <4>2. sidecars[ledger[k].artifact] = ledger[k]
        BY <4>1 DEF IInv, LedgerSound, EntrySound
      <4> QED
        BY <1>4, <4>1, <4>2, NoneIsNothing
    <3> QED
      BY <3>1
  <2>7. Entries(call[i].artifact)' = {}
    BY <1>1, <2>1, <2>6, GoStep DEF Entries
  <2>8. CallSound(i)'
    BY <1>1, <2>1, <2>3, <2>5, <2>7, GoStep
       DEF CallSound, Preceded, Deciding, Recording
  <2> QED
    BY <1>1, <1>2, <2>3, <2>4, <2>5, <2>8, CallStep DEF WriteSidecar
<1> QED
  BY <1>3, <1>4

LEMMA Unlocked ==
  ASSUME IInv, NEW i \in Invocations, Unlock(i)
  PROVE  IInv'
<1>1. /\ CallSound(i) /\ TypeOK /\ lock = i
      /\ crashes \in Nat /\ torn \in BOOLEAN /\ End(i) /\ lock' = None
  BY DEF IInv, TypeOK, CallsSound, CallSound, Recording, Unlock, At
<1>2. OutputsKept /\ SidecarsKept /\ LockKept(i)
  BY <1>1 DEF Unlock, TypeOK, OutputsKept, SidecarsKept, LockKept
<1> QED
  BY <1>1, <1>2, EndStep, CallStep DEF Unlock

\* A dying command leaves its file whole, torn or absent, and its lock.
LEMMA Died ==
  ASSUME IInv, NEW i \in Invocations, CrashCall(i)
  PROVE  IInv'
<1>1. /\ CallSound(i) /\ TypeOK /\ End(i) /\ call[i].pc # "ended"
      /\ UNCHANGED <<contract, genesis, anchor, ledger, lock, seals, job,
                     start>>
  BY DEF IInv, CallsSound, CrashCall
<1>2. /\ call[i].artifact \in Artifacts
      /\ outputs \in [Artifacts -> Invocations \cup {None, Torn}]
      /\ sidecars \in [Artifacts -> Record \cup {None, Torn}]
  BY <1>1 DEF TypeOK, CallSound
<1>3. crashes' \in Nat /\ torn' \in BOOLEAN
  <2>1. crashes \in Nat /\ torn \in BOOLEAN
    BY <1>1 DEF TypeOK
  <2>2. crashes' = crashes + 1
    BY DEF CrashCall
  <2>3. torn' \in {torn} \cup (IF At(i, "append") THEN {TRUE} ELSE {})
    BY Zenon DEF CrashCall
  <2>4. torn' \in BOOLEAN
    BY <2>1, <2>3, Zenon
  <2> QED
    BY <2>1, <2>2, <2>4
<1>4. OutputsKept
  <2>1. \/ outputs' = outputs
        \/ /\ outputs[call[i].artifact] = None
           /\ outputs' = [outputs EXCEPT ![call[i].artifact] = Torn]
    BY DEF CrashCall
  <2> QED
    BY <1>2, <2>1 DEF OutputsKept
<1>5. SidecarsKept
  <2>1. \/ sidecars' = sidecars
        \/ /\ sidecars[call[i].artifact] = None
           /\ sidecars' = [sidecars EXCEPT ![call[i].artifact] = Torn]
    BY DEF CrashCall
  <2> QED
    BY <1>2, <2>1 DEF SidecarsKept
<1>6. LockKept(i)
  BY <1>1 DEF TypeOK, LockKept
<1> QED
  BY <1>1, <1>3, <1>4, <1>5, <1>6, EndStep, CallStep

\* The lock's owner appends: the line before is the one its verdict links to.
LEMMA VerdictAppended ==
  ASSUME IInv, NEW i \in Invocations, AppendVerdict(i)
  PROVE  IInv'
<1>0. PICK a, v : a = call[i].artifact /\ v = Verdict(i)
  OBVIOUS
<1>1. /\ CallSound(i) /\ TypeOK /\ call[i].pc = "append" /\ lock = i
      /\ a \in Artifacts /\ sidecars[a] = v /\ Entries(a) = {}
      /\ Preceded(a)
      /\ v.outcome = "success" => outputs[a] = i
  BY <1>0 DEF IInv, CallsSound, CallSound, AppendVerdict, At, Recording,
              Deciding, Verdict
<1>2. /\ ledger' = Append(ledger, v) /\ Go(i, "unlock")
      /\ UNCHANGED <<contract, genesis, anchor, outputs, sidecars, torn, lock,
                     seals, job, start, crashes>>
  BY <1>0, <1>1 DEF AppendVerdict
<1>3. /\ v \in Record /\ v.artifact = a /\ v.by = i
      /\ v.prev = IF ledger = <<>> THEN None ELSE ledger[Len(ledger)].by
  BY <1>0, <1>1, VerdictIsRecord DEF Deciding, Verdict
<1> DEFINE n == Len(ledger) + 1
<1>4. /\ ledger \in Seq(Record) /\ ledger' \in Seq(Record)
      /\ Len(ledger) \in Nat /\ DOMAIN ledger = 1..Len(ledger)
      /\ Len(ledger') = n /\ DOMAIN ledger' = 1..n /\ ledger'[n] = v
      /\ \A k \in 1..Len(ledger) : ledger'[k] = ledger[k]
      /\ ledger = <<>> <=> Len(ledger) = 0
  BY <1>1, <1>2, <1>3, Appended, Lines DEF TypeOK
<1> HIDE DEF n
<1>5. TypeOK'
  <2>1. OnlyCall(i)
    BY <1>1, <1>2, GoStep
  <2> QED
    BY <1>1, <1>2, <1>4, <2>1 DEF TypeOK, OnlyCall
<1>6. ReceiptSound'
  BY <1>2 DEF IInv, ReceiptSound, StartSound
<1>7. CallsSound'
  <2>1. OnlyCall(i) /\ CallSound(i)'
    BY <1>0, <1>1, <1>2, GoStep DEF CallSound, Preceded, Deciding, Recording
  <2>2. OutputsKept /\ SidecarsKept /\ LockKept(i)
    BY <1>1, <1>2, NothingElse DEF files, TypeOK, OutputsKept, SidecarsKept,
                                   LockKept
  <2>3. \A j \in Invocations \ {i} : call[j].pc # "append"
    BY <1>1, OneRecording DEF Recording
  <2>4. \A j \in Invocations \ {i} : CallSound(j)'
    BY <1>2, <2>1, <2>2, <2>3, OthersSound
  <2> QED
    BY <2>1, <2>4 DEF CallsSound
<1>8. n \in Nat /\ n # 0 /\ n - 1 = Len(ledger)
      /\ \A k \in 1..n : k # n => k \in 1..Len(ledger)
  BY <1>4 DEF n
<1>9. Chained'
  <2>1. Chained
    BY DEF IInv, LedgerSound
  <2>2. ASSUME NEW k \in 1..n
        PROVE  ledger'[k].prev = IF k = 1 THEN None ELSE ledger'[k - 1].by
    <3>1. CASE k = n
      <4>1. n = 1 <=> ledger = <<>>
        BY <1>4, <1>8
      <4>2. CASE n = 1
        BY <1>3, <1>4, <3>1, <4>1, <4>2
      <4>3. CASE n # 1
        <5>1. ledger'[n - 1] = ledger[Len(ledger)]
          BY <1>4, <1>8, <4>3
        <5> QED
          BY <1>3, <1>4, <3>1, <4>1, <4>3, <5>1
      <4> QED
        BY <4>2, <4>3
    <3>2. CASE k # n
      <4>1. k \in 1..Len(ledger) /\ (k # 1 => k - 1 \in 1..Len(ledger))
        BY <1>4, <1>8, <3>2
      <4>2. ledger[k].prev = IF k = 1 THEN None ELSE ledger[k - 1].by
        BY <1>4, <2>1, <4>1 DEF Chained
      <4>3. CASE k = 1
        BY <1>4, <4>1, <4>2, <4>3
      <4>4. CASE k # 1
        BY <1>4, <4>1, <4>2, <4>4
      <4> QED
        BY <4>3, <4>4
    <3> QED
      BY <3>1, <3>2
  <2> QED
    BY <1>4, <2>2 DEF Chained
<1>10. \A k \in 1..Len(ledger) : ledger[k].artifact # a
  BY <1>1, <1>4 DEF Entries
<1>11. OnePerArtifact'
  <2>1. OnePerArtifact
    BY DEF IInv, LedgerSound
  <2> QED
    BY <1>3, <1>4, <1>8, <1>10, <2>1 DEF OnePerArtifact
<1>12. \A k \in 1..n : EntrySound(k)'
  <2>1. TAKE k \in 1..n
  <2>2. CASE k # n
    <3>1. k \in 1..Len(ledger) /\ EntrySound(k) /\ ledger'[k] = ledger[k]
      BY <1>4, <1>8, <2>2 DEF IInv, LedgerSound
    <3> QED
      BY <1>2, <3>1 DEF EntrySound, Preceded
  <2>3. CASE k = n
    <3>1. ASSUME a \in Outputs, StepOf[a] > 1, seals[StepOf[a] - 1] # Torn
          PROVE  n > seals[StepOf[a] - 1].count
      <4>1. StepOf[a] - 1 \in Steps
        BY <3>1, RunAssumption DEF Steps
      <4>2. Preceded(a)
        BY <1>1
      <4>3. seals[StepOf[a] - 1] # None
        BY <3>1, <4>2 DEF Preceded
      <4>4. seals[StepOf[a] - 1].count \in 1..Len(ledger)
        BY <3>1, <4>1, <4>3 DEF IInv, SealsWithin, Within
      <4> QED
        BY <1>4, <1>8, <4>4
    <3>2. ledger'[k] = v /\ v.artifact = a /\ v.by = i
      BY <1>3, <1>4, <2>3
    <3>3. Preceded(a)'
      BY <1>1, <1>2 DEF Preceded
    <3> QED
      BY <1>1, <1>2, <2>3, <3>1, <3>2, <3>3 DEF EntrySound
  <2> QED
    BY <2>2, <2>3
<1>13. LedgerSound'
  BY <1>4, <1>9, <1>11, <1>12 DEF LedgerSound
<1>14. SealsWithin'
  <2>1. \A seal : Within(seal) => Within(seal)'
    BY <1>4, <1>8 DEF Within
  <2> QED
    BY <1>2, <2>1 DEF IInv, SealsWithin
<1> QED
  BY <1>5, <1>6, <1>7, <1>13, <1>14 DEF IInv

-----------------------------------------------------------------------------
(* Every step keeps the invariant. *)

LEMMA Invoked ==
  ASSUME IInv, NEW i \in Invocations, Begin(i) \/ Invoke(i) \/ CrashCall(i)
  PROVE  IInv'
BY Begun, Bound, Dispatched, Answered, GivenUp, Checked, OutputWritten, Locked,
   LockRefused, SidecarWritten, VerdictAppended, Unlocked, Died DEF Invoke

LEMMA NextInv == IInv /\ [Next]_vars => IInv'
<1> SUFFICES ASSUME IInv, [Next]_vars PROVE IInv'
  OBVIOUS
<1>1. ASSUME NEW s \in Starters, StartRun(s) \/ Starting(s) \/ CrashStart(s)
      PROVE  IInv'
  BY <1>1, Started
<1>2. ASSUME NEW i \in Invocations, Begin(i) \/ Invoke(i) \/ CrashCall(i)
      PROVE  IInv'
  BY <1>2, Invoked
<1>3. ASSUME NEW j \in Sealers,
             \/ Sealing(j) \/ CrashSeal(j)
             \/ \E s \in Steps : SealPreflight(j, s)
      PROVE  IInv'
  BY <1>3, Sealed
<1>4. CASE ChangeContract
  BY <1>4, ContractChanged
<1>5. CASE UNCHANGED vars
  <2>1. TypeOK' /\ ReceiptSound'
    BY <1>5 DEF vars, IInv, TypeOK, ReceiptSound, StartSound
  <2>2. AnchorKept /\ UNCHANGED <<files, lock, call, job>>
    BY <1>5 DEF vars, AnchorKept, files
  <2> QED
    BY <2>1, <2>2, DirectoryKept DEF IInv
<1> QED
  BY <1>1, <1>2, <1>3, <1>4, <1>5 DEF Next

THEOREM Invariance == Spec => []IInv
<1>1. Init => IInv
  BY InitInv
<1>2. IInv /\ [Next]_vars => IInv'
  BY NextInv
<1> QED
  BY <1>1, <1>2, PTL DEF Spec

-----------------------------------------------------------------------------
(* What the properties say of it. *)

\* No request leaves before the run's anchor is on the remote (the preflight's
\* receipt and remote checks).
THEOREM RequestsAnchored == Spec => []CallsAnchored
<1>1. IInv => CallsAnchored
  BY DEF IInv, CallsSound, CallSound, CallsAnchored, At
<1> QED
  BY <1>1, Invariance, PTL

\* Every verdict is linked to the one before it (withLedgerLock).
THEOREM VerdictsLinked == Spec => []LedgerChained
<1>1. IInv => LedgerChained
  BY DEF IInv, LedgerSound, LedgerChained
<1> QED
  BY <1>1, Invariance, PTL

\* A verdict that counts rests on its own output and sidecar, is the only one
\* of its artifact, and no attempt of its call left the pin.
THEOREM VerdictsKeepEvidence == Spec => []PassMatchesEvidence
<1>1. ASSUME IInv, NEW k \in DOMAIN ledger, Success(ledger[k])
      PROVE  /\ outputs[ledger[k].artifact] = ledger[k].by
             /\ sidecars[ledger[k].artifact] = ledger[k]
             /\ Entries(ledger[k].artifact) = {k}
             /\ ~call[ledger[k].by].breached
  <2>1. EntrySound(k) /\ ledger[k].outcome = "success"
    BY <1>1 DEF IInv, LedgerSound, Success
  <2>2. Entries(ledger[k].artifact) = {k}
    BY <1>1 DEF IInv, LedgerSound, OnePerArtifact, Entries
  <2>3. ledger[k].by \in Invocations
    BY <1>1, Lines DEF IInv, Record
  <2>4. ~call[ledger[k].by].breached
    BY <1>1, <2>3 DEF IInv, CallsSound, CallSound
  <2> QED
    BY <2>1, <2>2, <2>4 DEF EntrySound
<1>2. IInv => PassMatchesEvidence
  BY <1>1 DEF PassMatchesEvidence
<1> QED
  BY <1>2, Invariance, PTL

\* A verdict of a later step stands after what the preceding step's seal
\* covers, and no such call is made before that seal (the preflight's lint of
\* the preceding step).
THEOREM StepsInOrder == Spec => []StepsFollowSeals
<1>1. ASSUME IInv, NEW k \in DOMAIN ledger
      PROVE  LET a == ledger[k].artifact
             IN a \in Outputs /\ StepOf[a] > 1 =>
                  LET before == seals[StepOf[a] - 1]
                  IN before # None /\ (before # Torn => k > before.count)
  <2>1. EntrySound(k)
    BY <1>1 DEF IInv, LedgerSound
  <2> QED
    BY <2>1 DEF EntrySound, Preceded
<1>2. ASSUME IInv, NEW i \in Invocations, At(i, "calling")
      PROVE  LET a == call[i].artifact
             IN a \in Outputs /\ StepOf[a] > 1 => seals[StepOf[a] - 1] # None
  BY <1>2 DEF IInv, CallsSound, CallSound, At, Preceded
<1>3. IInv => StepsFollowSeals
  BY <1>1, <1>2 DEF StepsFollowSeals
<1> QED
  BY <1>3, Invariance, PTL

-----------------------------------------------------------------------------
(* Nothing is replaced: the reason why what was verified stays so. *)

\* A file that is there, a seal and the genesis stay; the ledger grows by
\* verdicts of artifacts it has none of.
DirectoryGrows ==
  /\ \A a \in Artifacts : outputs[a] # None => outputs'[a] = outputs[a]
  /\ \A a \in Artifacts : sidecars[a] # None => sidecars'[a] = sidecars[a]
  /\ \A s \in Steps : seals[s] # None => seals'[s] = seals[s]
  /\ genesis # None => genesis' = genesis
  /\ \/ ledger' = ledger
     \/ \E v \in Record :
          ledger' = Append(ledger, v) /\ Entries(v.artifact) = {}

LEMMA GrowsUnchanged ==
  ASSUME UNCHANGED <<files, genesis>>
  PROVE  DirectoryGrows
  BY DEF DirectoryGrows, files

LEMMA Grows ==
  ASSUME IInv, [Next]_vars
  PROVE  DirectoryGrows
<1>0. /\ outputs \in [Artifacts -> Invocations \cup {None, Torn}]
      /\ sidecars \in [Artifacts -> Record \cup {None, Torn}]
      /\ seals \in [Steps -> Seal \cup {None, Torn}]
  BY DEF IInv, TypeOK
<1>1. ASSUME NEW s \in Starters, StartRun(s) \/ Starting(s) \/ CrashStart(s)
      PROVE  DirectoryGrows
  <2>1. UNCHANGED files
    BY <1>1 DEF StartRun, Starting, EnsureGenesis, EnsureRef, Push, ReadBack,
                ReadReceipt, WriteReceipt, CrashStart, files
  <2>2. genesis # None => genesis' = genesis
    BY <1>1 DEF StartRun, Starting, EnsureGenesis, EnsureRef, Push, ReadBack,
                ReadReceipt, WriteReceipt, CrashStart
  <2> QED
    BY <2>1, <2>2 DEF DirectoryGrows, files
<1>2. ASSUME NEW i \in Invocations, Begin(i) \/ Invoke(i) \/ CrashCall(i)
      PROVE  DirectoryGrows
  <2>1. CallSound(i)
    BY DEF IInv, CallsSound
  <2>2. CASE WriteOutput(i)
    <3>1. UNCHANGED <<sidecars, seals, genesis, ledger>>
      BY <2>2 DEF WriteOutput
    <3>2. \A a \in Artifacts : outputs[a] # None => outputs'[a] = outputs[a]
      BY <1>0, <2>2 DEF WriteOutput
    <3> QED
      BY <3>1, <3>2 DEF DirectoryGrows
  <2>3. CASE WriteSidecar(i)
    <3>1. UNCHANGED <<outputs, seals, genesis, ledger>>
      BY <2>3 DEF WriteSidecar
    <3>2. \A a \in Artifacts : sidecars[a] # None => sidecars'[a] = sidecars[a]
      BY <1>0, <2>3 DEF WriteSidecar
    <3> QED
      BY <3>1, <3>2 DEF DirectoryGrows
  <2>4. CASE AppendVerdict(i)
    <3>1. /\ sidecars[call[i].artifact] = Verdict(i)
          /\ Entries(call[i].artifact) = {} /\ Verdict(i) \in Record
          /\ Verdict(i).artifact = call[i].artifact
      BY <2>1, <2>4, VerdictIsRecord
         DEF AppendVerdict, At, CallSound, Deciding, Verdict, IInv
    <3>2. UNCHANGED <<outputs, sidecars, seals, genesis>>
      BY <2>4 DEF AppendVerdict
    <3>3. ledger' = Append(ledger, Verdict(i))
      BY <2>4, <3>1 DEF AppendVerdict
    <3> QED
      BY <3>1, <3>2, <3>3 DEF DirectoryGrows
  <2>5. CASE CrashCall(i)
    <3>1. /\ UNCHANGED <<seals, genesis, ledger>>
          /\ \/ outputs' = outputs
             \/ /\ outputs[call[i].artifact] = None
                /\ outputs' = [outputs EXCEPT ![call[i].artifact] = Torn]
          /\ \/ sidecars' = sidecars
             \/ /\ sidecars[call[i].artifact] = None
                /\ sidecars' = [sidecars EXCEPT ![call[i].artifact] = Torn]
      BY <2>5 DEF CrashCall
    <3>2. \A a \in Artifacts : outputs[a] # None => outputs'[a] = outputs[a]
      BY <1>0, <3>1
    <3>3. \A a \in Artifacts : sidecars[a] # None => sidecars'[a] = sidecars[a]
      BY <1>0, <3>1
    <3> QED
      BY <3>1, <3>2, <3>3 DEF DirectoryGrows
  <2>6. CASE \/ Begin(i) \/ Bind(i) \/ Dispatch(i) \/ Answer(i) \/ OutOfTime(i)
             \/ CheckBinding(i) \/ LockLedger(i) \/ LockTimeout(i) \/ Unlock(i)
    <3>1. UNCHANGED <<files, genesis>>
      BY <2>6 DEF Begin, Bind, Dispatch, Answer, OutOfTime, CheckBinding,
                  LockLedger, LockTimeout, Unlock, files
    <3> QED
      BY <3>1, GrowsUnchanged
  <2> QED
    BY <1>2, <2>2, <2>3, <2>4, <2>5, <2>6 DEF Invoke
<1>3. ASSUME NEW j \in Sealers,
             \/ Sealing(j) \/ CrashSeal(j)
             \/ \E s \in Steps : SealPreflight(j, s)
      PROVE  DirectoryGrows
  <2>1. UNCHANGED <<outputs, sidecars, ledger, genesis>>
    BY <1>3 DEF Sealing, ComputeSeal, WriteSeal, CrashSeal, SealPreflight
  <2>2. \/ seals' = seals
        \/ \E seal : /\ seals[job[j].step] = None
                     /\ seals' = [seals EXCEPT ![job[j].step] = seal]
    BY <1>3 DEF Sealing, ComputeSeal, WriteSeal, CrashSeal, SealPreflight
  <2>3. \A s \in Steps : seals[s] # None => seals'[s] = seals[s]
    BY <1>0, <2>2
  <2> QED
    BY <2>1, <2>3 DEF DirectoryGrows
<1>4. CASE ChangeContract
  BY <1>4, GrowsUnchanged DEF ChangeContract, files
<1>5. CASE UNCHANGED vars
  BY <1>5, GrowsUnchanged DEF vars, files
<1> QED
  BY <1>1, <1>2, <1>3, <1>4, <1>5 DEF Next

\* Evidence is written once: whatever commands run and die at the same time,
\* no output, sidecar, seal or line of the ledger is replaced.
THEOREM NothingReplaced == Spec => [][DirectoryGrows]_vars
<1>1. IInv /\ [Next]_vars => DirectoryGrows
  BY Grows
<1> QED
  BY <1>1, Invariance, PTL DEF Spec

\* The entries of an artifact that has some, and what they say, stay.
LEMMA EntriesKept ==
  ASSUME TypeOK, DirectoryGrows, NEW a, Entries(a) # {}
  PROVE  /\ Entries(a)' = Entries(a)
         /\ Max(Entries(a)) \in 1..Len(ledger)
         /\ \A k \in 1..Len(ledger) : ledger'[k] = ledger[k]
         /\ ledger' # <<>>
<1>1. Entries(a) \in SUBSET (1..Len(ledger))
  BY Lines DEF Entries
<1>2. Max(Entries(a)) \in 1..Len(ledger)
  <2>1. Max(Entries(a)) \in Entries(a)
    BY <1>1, Lines, Greatest
  <2> QED
    BY <1>1, <2>1
<1>3. CASE ledger' = ledger
  BY <1>2, <1>3, Lines DEF Entries
<1>4. CASE \E v \in Record :
             ledger' = Append(ledger, v) /\ Entries(v.artifact) = {}
  <2>1. PICK v \in Record :
          ledger' = Append(ledger, v) /\ Entries(v.artifact) = {}
    BY <1>4
  <2>2. /\ ledger \in Seq(Record) /\ Len(ledger) \in Nat
        /\ DOMAIN ledger = 1..Len(ledger)
        /\ DOMAIN ledger' = 1..Len(ledger) + 1 /\ Len(ledger') = Len(ledger) + 1
        /\ \A k \in 1..Len(ledger) : ledger'[k] = ledger[k]
        /\ ledger'[Len(ledger) + 1] = v
    BY <2>1, Appended DEF TypeOK
  <2>3. v.artifact # a
    BY <2>1
  <2>4. Entries(a)' = Entries(a)
    BY <2>2, <2>3 DEF Entries
  <2>5. ledger' # <<>>
    BY <2>2
  <2> QED
    BY <1>2, <2>2, <2>4, <2>5
<1> QED
  BY <1>3, <1>4 DEF DirectoryGrows

LEMMA LintKept ==
  ASSUME TypeOK, DirectoryGrows, NEW a \in Artifacts, LintArtifact(a)
  PROVE  LintArtifact(a)'
<1>1. /\ outputs[a] \notin {None, Torn} /\ sidecars[a] \notin {None, Torn}
      /\ Success(sidecars[a]) /\ sidecars[a].by = outputs[a]
      /\ Entries(a) # {} /\ ledger[Max(Entries(a))] = sidecars[a]
  BY DEF LintArtifact
<1>2. outputs'[a] = outputs[a] /\ sidecars'[a] = sidecars[a]
  BY <1>1 DEF DirectoryGrows
<1>3. /\ Entries(a)' = Entries(a)
      /\ ledger'[Max(Entries(a))] = ledger[Max(Entries(a))]
  BY <1>1, EntriesKept
<1>4. Success(sidecars[a])' = Success(sidecars[a])
  BY <1>2 DEF Success
<1> QED
  BY <1>1, <1>2, <1>3, <1>4 DEF LintArtifact

LEMMA SealHoldsOn ==
  ASSUME IInv, DirectoryGrows, NEW s \in Steps, SealHolds(s), seals[s] # None
  PROVE  SealHolds(s)'
<1>1. /\ seals[s] # Torn /\ Completed(s) /\ seals[s] = SealOf(s)
      /\ seals'[s] = seals[s] /\ TypeOK
  BY DEF SealHolds, DirectoryGrows, IInv
<1>2. ASSUME NEW o \in Through(s)
      PROVE  /\ Entries(o)' = Entries(o) /\ Entries(o) # {}
             /\ ledger'[Max(Entries(o))] = ledger[Max(Entries(o))]
             /\ ledger[Max(Entries(o))].outcome = "success"
  BY <1>1, <1>2, EntriesKept DEF Completed
<1>3. Completed(s)'
  BY <1>2 DEF Completed
<1>4. CompletedCount(s)' = CompletedCount(s)
  <2>1. {Max(Entries(o)) : o \in Through(s)}'
          = {Max(Entries(o)) : o \in Through(s)}
    BY <1>2
  <2> QED
    BY <2>1 DEF CompletedCount
<1>5. CompletedCount(s) \in 1..Len(ledger)
  BY <1>1 DEF SealOf, IInv, SealsWithin, Within
<1>6. ledger'[CompletedCount(s)] = ledger[CompletedCount(s)]
  <2>1. PICK o \in Through(s) : TRUE
    BY RunAssumption DEF Through, Steps
  <2> QED
    BY <1>1, <1>2, <1>5, <2>1, EntriesKept
<1>7. SealOf(s)' = SealOf(s)
  BY <1>4, <1>6 DEF SealOf
<1> QED
  BY <1>1, <1>3, <1>7 DEF SealHolds

\* What was once verified, linted and sealed stays so, unless a line of the
\* ledger is torn or the installed contract changes.
THEOREM VerifiedStays == Spec => VerifiedForGood
<1>1. ASSUME IInv, [Next]_vars, NEW s \in Steps, StepVerified(s), ~torn',
             contract' = contract
      PROVE  StepVerified(s)'
  <2>1. DirectoryGrows /\ TypeOK /\ Chained'
    BY <1>1, Grows, NextInv DEF IInv, LedgerSound
  <2>2. /\ Installed /\ ledger # <<>>
        /\ \A o \in Outputs : StepOf[o] <= s => LintArtifact(o)
        /\ \A t \in 1..s : seals[t] # None /\ SealHolds(t)
    BY <1>1 DEF StepVerified, LintRun
  <2>3. \A t \in 1..s : t \in Steps
    BY RunAssumption DEF Steps
  <2>4. Installed'
    BY <1>1, <2>1, <2>2, RunAssumption DEF Installed, DirectoryGrows, TypeOK
  <2>5. \A o \in Outputs : StepOf[o] <= s => LintArtifact(o)'
    BY <2>1, <2>2, LintKept DEF Artifacts
  <2>6. \A t \in 1..s : seals'[t] # None /\ SealHolds(t)'
    BY <1>1, <2>1, <2>2, <2>3, SealHoldsOn DEF DirectoryGrows
  <2>7. ledger' # <<>>
    <3>1. PICK o \in Outputs : StepOf[o] = s
      BY RunAssumption
    <3>2. Entries(o) # {}
      BY <2>2, <3>1 DEF LintArtifact, Steps
    <3> QED
      BY <2>1, <3>2, EntriesKept
  <2>8. LintRun(s, FALSE)'
    BY <1>1, <2>4, <2>5, <2>6, <2>7 DEF LintRun
  <2> QED
    BY <2>1, <2>6, <2>8 DEF StepVerified
<1>2. IInv /\ [Next]_vars =>
        \A s \in Steps :
          StepVerified(s) => StepVerified(s)' \/ torn' \/ contract' # contract
  BY <1>1
<1> QED
  BY <1>2, Invariance, PTL DEF Spec, VerifiedForGood
=============================================================================
