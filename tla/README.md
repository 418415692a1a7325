# Verification of the cloud-saves capture and of the council toolchain

This directory holds TLA+ models of two parts of the repository, the TLC
configurations that check them, and proofs that TLAPS checks. Source paths are
relative to `src/`.

## 1. The system and its parts

The repository builds a Linux image for handheld consoles. Most of it packages
other people's programs. What is its own and hard to get right is

- the **cloud-saves scripts** (`projects/ROCKNIX/packages/network/rclone/sources/`),
  shell scripts that EmulationStation (ES, not in the repository), the autostart
  and the player start as separate processes over the files under `/storage`;
- the **council toolchain** (`scripts/`), TypeScript and JavaScript commands that
  ask language models for reviews of a change: each answer is paid for, recorded
  and sealed, and a run must be auditable afterwards. Several commands work in one
  run directory at a time and none of them holds a lock for long.

| component | state | operations | meets |
|---|---|---|---|
| `cloud_capture` | `manifest-<id>.json`, the content-addressed `stage/`, `last-capture`, `.capture.lock`, manifests moved aside | exit capture, `--rescan`, `--full`, `--retire [--unlink]`, `--adopt` | other runs of itself; games, restores and the save-state manager writing the saves folder; the card automount |
| staged controller store | the event journal (`lib/council-staged-controller-store.mjs`) | reserve, dispatch, reconcile, accept, finalize | every staged command: an event is the exclusive creation of the next file |
| staged attempt store | a directory per attempt: intent, dispatch claim, artifacts, capture marker | create, claim, write, capture, inspect | the invoker that writes it, the reconciler that reads it |
| staged controller | none of its own | prepare, run, reconcile, decide | the two stores, the provider |
| derived runtime, readings and store | request packages in finite slots, acceptance candidates, a publication marker | prepare a successor, guard its dispatch, accept a reading | the journal; other coordinators |
| council invoker | output, sidecar, a line of `ledger.jsonl`, `ledger.jsonl.lock` | one call: preflight, attempts with retries, verdict | other invokers of the run, the provider |
| run lifecycle | genesis, anchor ref and receipt, step seals | run-start, step seal, lint, verify-chain, verify-seals | the invokers; the git remote; a roster or manifest installed meanwhile |
| source, note and reading stores; requests, counters, prompts; roster and pins; summaries | write-once files | | the above |
| `cloud_backup`, `cloud_restore`, `cloud_saves_root`, `cloud_device_id`, `cloud_migrate_layout`, `cloud_sync_helper`, content, sign-in and remote scripts | stamps, archives, records, configuration | transfers, migration, sign-in | the cloud, other devices |
| device scripts, `raofflineproxy`, snapweb (vendored), build system | | | |

The hard behaviours: several processes over one file with detection instead of a
lock; a verified state that is used some awaits later; a crash between any two
file operations, with nothing that repairs what is left; a capture that outlives
its bound while ES starts the next game; a garbage collector beside writers that
take no lock; a provider that breaks off, answers late or answers for another
model; quotas and finite slots at their limit; a deletion recorded first and
carried out after.

What makes each part right, and is checked below:

- capture: a commit replaces the document it was computed from; no version,
  provenance or deletion is lost by interleaving; the bytes of a claimed version
  stay in the stage; a hung capture never records over a later game; a deletion
  the player made happens; every run ends;
- controller: a reading is not paid for twice, one call is out at a time, what is
  settled is what happened, the journal keeps room for what it owes, finished
  work stays finished, a complete capture is accounted for in the end;
- derived readings: the journal can always be replayed by the next coordinator,
  and no byte of a reread is lost or read twice;
- run: the ledger is one chain, a PASS is what the provider's answer bears out,
  no call precedes the anchor or the seal it depends on, what was verified stays
  verified, every call ends.

## 2. Modules

| module | what it is | source |
|---|---|---|
| `CaptureOps` | the pure part of a capture: the changed set, META/MOVE/PUT classification, copy, retire, merge | `cloud_capture` STEPs 5, 7, 7b, 8, 9 |
| `CaptureOnce` | one pass, then the same pass again, over every small input | STEPs 3 to 9 |
| `CloudCapture` | several runs of the script beside each other and the device around them | all of `cloud_capture`; `autostart/102-cloud-saves` |
| `SaveRecord` | abstract: one record, changed by whole steps | |
| `ControllerState` | the replayed controller and the rule of each event type | `council-staged-controller-store.mjs` |
| `ControllerLedger` | abstract: the journal's events as atomic steps of any caller | the same |
| `StagedController` | the commands as processes over the journal and the attempt directories, file operation by file operation | controller, controller store, attempt store, the invoker's call |
| `CommittedReadings` | abstract: readings accepted over a frontier, rereads handed on | |
| `DerivedReadings` | coordinators that prepare, dispatch and accept derived readings over the store and the journal | derived runtime, readings, store, rereads |
| `ProviderCall` | one provider exchange, its classification and the final verdict | `council-invoke.ts` |
| `CouncilRun` | run-start, invokers, sealers and the verifiers over one run directory | `council-invoke.ts`, `council-run-start.ts`, preflight, seals, verifiers |
| `CaptureOnceProofs`, `CloudCaptureProofs`, `ControllerStateProofs`, `ControllerLedgerProofs`, `StagedControllerProofs`, `CommittedReadingsProofs`, `DerivedReadingsProofs`, `CouncilRunProofs` | theorems and their proofs, by the module they are about | |
| `MCCaptureOnce`, `MCCapture`, `MCController`, `MCStaged`, `MCRun`, `MCReadings` | instances for TLC | |

`CloudCapture` and `CaptureOnce` extend `CaptureOps`, and `CloudCaptureProofs`
extends `CaptureOnceProofs`, whose lemmas on one merge both need; `ControllerLedger`,
`StagedController` and `DerivedReadings` extend `ControllerState`; `CouncilRun`
extends `ProviderCall`. Three abstract specifications are implemented by detailed
ones: `SaveRecord` by `CloudCapture` (`ImplementsRecord`), `ControllerLedger` by
`StagedController` (`ImplementsLedger`), `CommittedReadings` by `DerivedReadings`
(`ImplementsReadings`).

### How CloudCapture corresponds to the code

A process `p` is one run; `pc[p]` is the step it is at, and the labels follow the
script from top to bottom. What the script does without reading or writing
something another process can change is one action; where another process can
come between, there are two.

| action | code |
|---|---|
| `ExitGame`, `StartFull`, `StartRescan`, `StartRetire`, `StartAdopt` | the five modes, as they are asked for |
| `Locate` | STEPs 1 and 3: the unit's files, and the identity of the card |
| `Inspect`, `MoveAside`, `MoveAsideFails`, `TakeStat` | STEP 2: the shape of the manifest, moving an unreadable one aside, `LIVE0` |
| `ReadClaims` | STEP 4, and the members of a full pass |
| `PassOver`, `Seal`, `SealFails` | STEPs 5 and 6, one member after the other |
| `Classify` | STEPs 7, 7b, 8 and the end of a run with an empty op file |
| `MergeDoc` | STEP 9, I8 and the first look at the bound |
| `TakeLock`, `LockBusy` | STEP 10: the lock, and five seconds without it |
| `CheckManifest`, `CheckCard`, `Rename`, `RenameFails` | STEP 10: the two checks and the rename; the re-run by `exec` |
| `ListGarbage`, `RemoveGarbage` | STEP 11 |
| `FinishLock`, `ReadStamps`, `WriteStamps`, `Tidy`, `Drop`, `Unlink`, `Unlinked` | `finish`: the stamps, the look at the manifest and, a step later, the removal of the copies moved aside, the deletion |
| `LaunchGame`, `SaveGame`, `RestoreFile`, `SwapCard`, `AgeSeal`, `Elapse`, `Kill` | the device around the runs |

The document of the manifest has `entries` (a version with its provenance at each
path) and `retired` (rows of deletions). `live0` is `LIVE0`, `claims` the `E_*`
arrays, `sealed` the `C_*` arrays, `present` the `-f` tests of STEPs 7 and 8,
`base` what the merge read again from the live file, `gone` the listing of the
GC. `era`, `wrote`, `deleted` and `strayed` are history that only properties and
guards of the environment read; `left` is what the scenario still allows.

Abstractions:

- A path is a natural number, so that `<` is the version order of `sort_paths`;
  contents are their hash; size and time are one value `mt`; a provenance is the
  number of the session it credits.
- `stat -c '%i %Y'` of the manifest is a number no two renames share. The schema
  document names the exception: three writers within a second, when an inode
  comes back.
- A seal is young or old against the ten minutes of the GC. Ten minutes do not
  pass during a run over one unit or during a commit; they may pass during a full
  pass.
- An exit capture's clock is 0, 1 (past `EXIT_BOUND_MS`) or 2 (past the 120 s
  after which ES takes it for hung). From the last look at the clock to the
  rename a run takes less than the 20 s between the two.
- A file is taken into the stage in one step: the inner stat, copy, stat loop of
  `seal` is not modelled; `SealFails` stands for all its failures.
- The manager asks for one thing at a time, and ES starts no restore over a game
  and no game over a restore.
- A card goes from one identity to another at most once in a scenario: a card
  that goes out and comes back between two looks is not noticed by the code.
- The identity of the card is noted in `Locate`; the code notes it some steps
  later, after the scan of the unit's names and before the manifest is read.

### How StagedController corresponds to the code

`led` is what replaying the complete event files gives; `slot` is the next event
file: absent, being written by a process, or torn by one that died. A process has
the head it verified at, what it read and what it will append.

| action | code |
|---|---|
| `Decide`, `Snapshot`, `ReserveAttempt`, `Reserving`, `MakeDirectory`, `PublishIntent` | `decideNextControlledAttempt`, `prepareControlledAttempt`, `createAttemptIntent` |
| `Run`, `Reverify`, `ClaimControllerDispatch`, `Authorizing`, `ClaimDispatch`, `Claiming` | `runControlledAttempt` and its guard's `claim` |
| `Call`, `Answer`, `SaveTemporary`, `SaveArtifacts` | the provider call and what the invoker saves |
| `Capture`, `MarkTemporary`, `MarkLink`, `MarkUnlink`, `Recheck` | `captureAttempt`, `publishRecord` |
| `Reconcile`, `Review`, `Inspect`, `CaptureEvidence`, `Account`, `ReconcileAttempt`, `Appending` | `reconcileControlledAttempt`, `inspectAttemptRecovery`, `captureEvidence` |
| `VerifyReading`, `CommitReading` | the commit of `acceptCommittedReading` |
| `GiveUp`, `Crash`, `Tick` | `stableLoad` gives up; a process dies; the clock |

`captureEvidence` reads the journal too, between its looks at the files
(`Verified`). While an event file is being written that read gives up, or finds an
event later than the clock it took before: the capture then counts as invalid
evidence, or, in the process that captures, the command ends (`GiveUp`).

Records are named by values, not by digests: a chain of digests is a sequence
number. An artifact is complete or not, and tells the outcome it was saved with.
`acknowledge-stopped` is the operator's word that the invoker is gone; it is given
only when that is so, which is what the option says of itself.

### How DerivedReadings corresponds to the code

| action | code |
|---|---|
| `BeginCall` (`BeginPrepare`, `BeginDispatch`, `BeginAccept`) | `begin` with the whole replay, then `prepareDerivedAttempt`, the dispatch guard's `claim`, `acceptCommittedReading` up to the first write |
| `ClaimSlot`, `ReusePackage`, `LinkIntent`, `SealPackage` | `publishDerivedRequestPackage`: directory and files, the link of the intent, the removal of its temporary |
| `ReuseCandidate`, `Mark`, `Count`, `Place` | `publishReadingCandidate`: the marker, the count under it, the candidate |
| `AppendReservation`, `AppendDispatch`, `AppendAcceptance` | `finish`, and the append at the verified head |
| `ReserveLeaf`, `DispatchLeaf`, `Settle` | the ordinary controller (StagedController shows its steps) |
| `GiveUp`, `Crash` | an error; a process that dies half-way through a publication |

`MeaningOf`, `PacketFor`, `ReadingOf`, `Reconstructible` and `EventVerifies` are
`verifyReadingHistory` and what it calls; `Delivery` is `planRereadDelivery`, with
the source as offsets at which a code point begins. Reading the store and the
journal is one step, and so are `finish` and the append: an older store can only
be refused, and what comes between finish and append either moves the head, which
the append refuses, or only adds to the store. The clock stands still, and a call
ends with a note or has not ended yet.

### How CouncilRun corresponds to the code

| action | code |
|---|---|
| `StartRun`, `EnsureGenesis`, `EnsureRef`, `Push`, `ReadBack`, `ReadReceipt`, `WriteReceipt` | `council-run-start.ts` |
| `Begin`, `Bind`, `CheckBinding` | `preflightRunOutput`, `assertRunBindingUnchanged` |
| `Dispatch`, `Answer`, `OutOfTime` | the loop of attempts; `Answer` uses `Fetched`, `ClassifyAttempt` and the `Final*` operators of `ProviderCall` |
| `WriteOutput`, `LockLedger`, `LockTimeout`, `WriteSidecar`, `AppendVerdict`, `Unlock` | what a call leaves behind |
| `SealPreflight`, `ComputeSeal`, `WriteSeal` | `write-step-seal.ts` |
| `LintRun`, `VerifyChain`, `VerifySeals` | the three verifiers, as predicates |
| `ChangeContract`, `CrashCall`, `CrashSeal`, `CrashStart` | a roster, pin or manifest installed meanwhile; a process that dies |

A hash names what it is computed from, and a record that verifies is one that was
written.

## 3. What the runs check

An instance gives the constants the smallest values with which the interesting
case happens. TLC runs every specification to the end: each instance is finite
because what the environment may do is counted out (scenarios of events, attempts,
crashes, exchanges), and `CHECK_DEADLOCK FALSE` is set because such a behaviour
really ends.

| run | module, cfg | properties | what it shows |
|---|---|---|---|
| `once` | `MCCaptureOnce` | `CandidatesRecorded`, `NoVersionLost`, `VanishedStaysClaimed`, `ProvenanceFollowsVersion`, `SecondPassIsQuiet` | one pass over every pair of a manifest and a saves folder: nothing is missed, lost or credited to the wrong version, and a second pass writes nothing |
| `device` | `MCCapture`, `MCCaptureDevice` | `TypeOK`, `CommitOnLoaded`, `CreditsInTime`, `NotOverNewGame`, `OneCardPerCommit`, `StampLinesKept`, `RetiredRowsKept`, `ImplementsRecord`, `YoungSealsKept`, `ReadableNeverDropped` | two runs beside each other, with games, restores, deletions, copies, a card swap, a kill or a failing step between them |
| `alone` | `MCCapture`, `MCCaptureAlone` | `EntriesSealedAlone`, `DeletionStandsAlone`, `RecordKeptAlone`, `RunsEnd`, `UnlinkHappens` | when runs do not overlap the stage holds what is claimed, a deletion stands and a damaged record goes only once a good one stands; every run ends and a deletion is carried out, also where runs do overlap |
| `seal_race`, `aside_race`, `deletion_race` | `MCCapture` | `EntriesSealed`; `RecordKept`; `DeletionStands` | violations, see section 5 |
| `ledger` | `MCController` | `OneOpenAttempt`, `OnePendingDispatch`, `TerminalRoom`, `FinishedNodeQuiet`, `FinalizedOwnerFrozen` | any order of legal events |
| `staged` | `MCStaged` | `CallsSerialised`, `ReleasedIsOver`, `SettledFromCapture`, `ImplementsLedger` | two commands beside each other, one of them dying anywhere |
| `staged_ends` | `MCStaged`, `MCStagedEnds` | `CaptureAccounted` | a complete capture is accounted for in the end |
| `staged_race` | `MCStaged`, `MCStagedRace` | `StopOnlyOnBadEvidence` | violation, see section 5 |
| `run` | `MCRun` | `LedgerChained`, `PassMatchesEvidence`, `StepsFollowSeals`, `CallsAnchored`, `VerifiedForGood`, `InvocationsEnd` | three invocations, a sealer and a run-start over one run directory |
| `readings` | `MCReadings` | `HistoryVerifies`, `StoreLoads`, `Conserved`, `ImplementsReadings` | two coordinators over the reading store and the journal |

### Bounds

- `once`: three slots of one game and another game's save, three contents, two
  seconds (`MaxTime` 1), the three scanning modes, every manifest against every
  folder. Three slots are the least with which a chain of moves, a swap with a
  third slot, and two vanished sources of one content occur; the second game
  tells a move within the unit from one across.
- `device`, `alone` and the races: two paths of one unit (one in `alone`), two
  exchangeable runs, two contents, `RetiredMax` 2, and a set of scenarios, each of
  which counts what may happen (`launch`, `save`, `restore`, `swap`, `kill`,
  `fault` and the requests). `device` mixes games with restores and copies, which
  come before, between and after sessions and while a capture runs; it starts with a good, a
  newer or no manifest and has two cards; `alone` starts with a good or an unreadable one, and contents
  recur there. Two runs are enough for every pairwise race; a third run only meets
  a lock held or a number changed, which the second already shows.
- `ledger`: two readings and a composition, four attempts, fourteen events, so
  that each quota is reached by some behaviour.
- `staged`: two nodes, two attempts, two processes, one crash, one tick of the
  clock; `staged_ends` one node and one attempt, since liveness admits no
  symmetry.
- `run`: three invocations with requests x, x, z or x, probe, z, two steps, one
  sealer, one run-start, one retry, one mishap (a crash or a changed
  contract), fourteen kinds of provider exchange: a success, and every way not to
  be one.
- `readings`: two leaves and three successors, two coordinators, `MaxCandidates`
  3, `MaxPerNode` 1, one crash; it starts with both leaves read or with a marker
  some process left behind. Three candidates are what a chain of two successors
  over one leaf takes, or one successor over both leaves: each is accepted in some
  behaviour, and a candidate published in vain fills the store.

Symmetry is used where members are never compared: processes, attempts, nodes of
one kind.

### Fairness

- `CloudCapture`: weak fairness of each run's own steps. The kernel schedules a
  process, and the one loop that waits (the lock) is left after fifty tries.
  Nothing is assumed of the player, ES, time or cards.
- `StagedController` (`staged_ends`): weak fairness of a command's steps, strong
  fairness of reconciling: an operator who meets an open attempt runs `reconcile`
  again. The code never reconciles by itself.
- `CouncilRun`: weak fairness of an invocation's steps; a provider call ends with
  an answer or with its time limit.

### What a property notices

A definition with the suffix `_M` is the definition of the same name with a
plausible mistake. Put in its place it violates the property, under the very
bounds of the run.

| run | mistake, and the property that notices |
|---|---|
| `once` | a second counted the wrong way (`Changed_M1`: `CandidatesRecorded`); a source dropped though it got other bytes (`DeadSources_M`: `NoVersionLost`); a source of other bytes (`FreeSources_M2`: `VanishedStaysClaimed`), of another unit (`FreeSources_M1`: `ProvenanceFollowsVersion`), or still held (`FreeSources_M3`: `SecondPassIsQuiet`) |
| `device` | the list of deletions not carried on (`Merge_M`: `TypeOK`), a merge over what the run loaded first (`MergeDoc_M`: `CommitOnLoaded`), old files credited (`Changed_M2`: `CreditsInTime`), the clock started again by the re-run (`Rerun_M1`: `NotOverNewGame`), no look at the card (`CheckCard_M`: `OneCardPerCommit`), stamps without the lock (`FinishLock_M`: `StampLinesKept`), one row too few (`Newest_M`: `RetiredRowsKept`), no look at the manifest (`CheckManifest_M`: `ImplementsRecord`), young seals listed (`ListGarbage_M1`: `YoungSealsKept`), a newer schema taken for a good one (`Inspect_M`: `ReadableNeverDropped`) |
| `alone` | referenced seals listed (`ListGarbage_M2`: `EntriesSealedAlone`), retired only what was hashed in this run (`RetireOps_M`: `DeletionStandsAlone`), a copy dropped too early (`Tidy_M1`: `RecordKeptAlone`), the lock kept over `exec` (`Rerun_M2`: `RunsEnd`), unlinking only after success (`Tidy_M2`: `UnlinkHappens`) |
| `ledger` | `PredecessorAllows_M1` and `_M2`, `DispatchLegal_M`, `WithinQuotas_M`, `AcceptanceLegal_M` |
| `staged`, `staged_ends` | `DispatchLegal_M`, `OutcomeSeen_M`, `CaptureEvidence_M`, `ReserveAttempt_M`, `ReconciliationLegal_M` |
| `run` | `LockLedger_M`, `WriteOutput_M`, `Bind_M`, `ReadBack_M`, `WriteSidecar_M`, `LockTimeout_M` |
| `readings` | `Finished_M`, `Count_M`, `Deliver_M`, `InheritedBy_M` |

## 4. Theorems

They hold for every value of the constants that meets the assumptions the modules
name: any number of processes, paths, contents, cards, nodes, attempts, requests.

| module | theorem | says |
|---|---|---|
| `CaptureOnceProofs` | `CandidatesAreRecorded`, `ProvenanceFollows`, `VersionsSurvive`, `VanishedStays`, `SecondPassQuiet` | the five properties of `once`: `CandidatesRecorded`, `ProvenanceFollowsVersion`, `NoVersionLost`, `VanishedStaysClaimed`, `SecondPassIsQuiet` |
| `CloudCaptureProofs` | `TypeCorrect` | `Spec => []TypeOK` |
| | `NeverOverNewGame`, `StampsNeverLost`, `YoungNeverCollected` | `[]NotOverNewGame`, `StampLinesKept`, `YoungSealsKept` |
| | `WritersSerialised`, `ReadableStays` | `[]CommitOnLoaded`, `ReadableNeverDropped`, if no device starts with an unreadable manifest |
| | `CommitsFromOneCard` | `[]OneCardPerCommit`, if a card is swapped at most once |
| | `RetiredRowsStay`, `RecordImplemented` | `RetiredRowsKept` and `ImplementsRecord`, if no device starts with an unreadable manifest |
| | `RecordStaysAlone` | `RecordKeptAlone`: `[]RecordKept` if `OneRun`, whatever faults and kills there are |
| | `SealsSufficeAlone` | `EntriesSealedAlone`: `[]EntriesSealed` if no two runs are ever under way together (`OneRun`) |
| | `DeletionsStandAlone` | `DeletionStandsAlone`: `[]DeletionStands` if `OneRun`, where no card is swapped |
| | `ReadableStaysAlone`, `CommitsAlone` | `ReadableNeverDropped` and `[]CommitOnLoaded` if `OneRun`, whatever manifest the device starts with |
| | `CreditsStayInTime` | `[]CreditsInTime`, if a card is swapped at most once (`OneSwap`) and the files the device came up with are older than its first session (`StartsOld`) |
| `ControllerStateProofs` | `RetryDelayBounded` and the lemmas on events | the recursion of the delay defines a function, bounded by the policy |
| `ControllerLedgerProofs` | `LedgerTypeCorrect`, `NodesHaveOneOpenAttempt`, `DispatchesAreSerial`, `FinishedNodesStayQuiet`, `FinalizedOwnersStayFrozen`, `JournalHasTerminalRoom` | the five properties of `ledger`, and `TypeOK` |
| `StagedControllerProofs` | `OneCallAtATime`, `NothingSentAfterRelease`, `SettlementsHaveCaptures` | `CallsSerialised`, `ReleasedIsOver`, `SettledFromCapture` |
| | `StopsOnBadEvidence` | `[]StopOnlyOnBadEvidence`, if no command judges an attempt while another publishes an artifact of it or is writing an event (`Undisturbed`) |
| | `JournalImplementsLedger`, `JournalKeepsPromises` | the refinement, and the ledger's theorems carried over by it |
| `CommittedReadingsProofs` | `NoByteLostOrReadTwice` | `[]Conserved`, under `ReadingsAssumption` |
| `DerivedReadingsProofs` | `StoresLoad`, `HistoriesVerify` | `[]StoreLoads` (what the journal names is in the store; a mark that closes it is, until a coordinator dies, about to be removed), `[]HistoryVerifies` |
| | `ReadingsImplemented`, `RereadsConserved` | `ImplementsReadings`, and with it `[]Conserved`: the code's policy meets that assumption (`PolicyFits`) |
| `CouncilRunProofs` | `RequestsAnchored`, `VerdictsLinked`, `VerdictsKeepEvidence`, `StepsInOrder` | `CallsAnchored`, `LedgerChained`, `PassMatchesEvidence`, `StepsFollowSeals` |
| | `NothingReplaced`, `VerifiedStays` | nothing a run has written is replaced, hence `VerifiedForGood` |

### The capture

**Types.** `TypeOK` is not inductive: the merge of an adopt writes an entry from
what it sealed, and carries its source's, and nothing in the types says that
either is there. `AdoptOK` follows both through the run: destination and source
are paths, the destination is the one member to look at until the scan, and from
the merge to the rename it is sealed.

**Safety.** `SafeInv` has four parts for each run. `LockAt`: a run at a step taken
under the lock holds it. `StampAt`: between reading `last-capture` and replacing
it, it is as it was read. `GarbageAt`: what a run has listed for collection is
still old when it is removed. `GameAt`: while an exit capture is not past 120 s no
game runs, and from the last look at the clock to the rename it is not. A step of one run leaves the others where they were (`Frame`), and what
they rely on is changed only by the holder of the lock.

**Commits.** `CommitOnLoaded` speaks of the one step before the rename; what makes
it true is spread over the whole run. No two renames share a number, and what a
run noted as `LIVE0` is a number already given away (`LoadedAt`, `ManifestAt`). So
while `LIVE0` still is the manifest's number, the claims and the merge read after
it are what the manifest holds (`ClaimsAt`, `BaseAt`); the check finds the numbers
equal, and they stay equal until the rename, because the lock is held
(`CheckedAt`). `SourceAt` says that no run is at the step that moves a manifest
aside, `NewerAt` that no run is past its inspection when the manifest is of a newer
schema. The hypothesis `"unreadable" \notin StartKinds` is needed: that step takes
no lock and looks at no number, and with it the properties are false
(`aside_race`). It holds of every device whose manifest was not damaged, and no
step makes a manifest unreadable.

**One card.** `SwapInv`: a run past `Locate` has noted its card; a run whose card
is not the one in the slot has seen the one swap there is; a member sealed from
another card means just that. The look before the rename then finds it. The
hypothesis is `OneSwap`: a card that goes and comes back between two looks is
noticed by nothing in the code.

**Moved aside.** `RecordInv`: a manifest stands or a copy of one, and a run that has
looked and is about to remove the copies (`Drop`) finds the manifest still there.
The look (322-323) and the `rm` (324) are two steps, so this needs that no run is
between them when another moves the manifest aside: with `OneRun` none is. Without
it the claim is false, since the move takes no lock (`aside_race`).

**Seals.** `StagedInv`: what the manifest names is in the stage, and so is what the
run under way claims, has sealed and has merged, from its scan to its rename; what
it has listed for the GC is not named by the manifest. A step that removes seals is
a step of that one run, after its rename. Nothing in the code ensures
`OneRun`, and without it the claim is false (`seal_race`): a reused seal is protected
by nothing.

**One run at a time.** `AloneInv`: what the only run under way has read is what
stands. It is at the step that moves a manifest aside only while that manifest is
unreadable, past its inspection only if it is not of a newer schema, its claims are
the manifest's entries, and its merge is over the manifest. That replaces the whole
of the commit argument, for any manifest at the start: the losing step of
`aside_race` needs a second run. `DeletedInv` adds what a deletion needs. A path
that was unlinked has no file and no entry; a run that looks later seals nothing
there; a deletion past its commit has left no entry at its paths, so the unlinking
takes no file that is claimed; and a run that deletes nothing unlinks nothing. A
move onto the path needs its bytes sealed there, an entry carried over needs it
claimed. `NoSwap` is a hypothesis because another card may have a file where this
one's was deleted; once that is recorded and the first card is back, the manifest
claims a path that holds nothing there.

**Credits.** `CreditsInTime`: an entry credits a session with nothing that only a
later session wrote, and with nothing that nobody wrote since the device came up.
`wrote` has who wrote which contents, a restore or a copy as `None`; contents
one of them wrote may be credited to a session, because the code does credit them
(section 5). `CreditInv` is about the card the device came up with (`Home`). A path
whose contents nobody wrote (`Original`) keeps a file of time 0 if it has one, and so does every
entry for it, in the manifest, loaded, sealed or merged (`Untouched`): for a scan it has neither
changed nor is it new. Whatever else is there is `Fresh`, written by a session, a restore or a copy; and
an exit capture that is not hung runs before any later game wrote
(`WorkAt`, with `Sessions`, from `GameAt`): so what it credits its own session, an earlier one, a restore or a
copy wrote. A merge makes up no other credit. When the card is
taken out the invariant says nothing, and with `OneSwap` it is not put back.

**Retired rows.** `Newest` keeps a row when fewer than `RetiredMax` rows are newer.
Rows of one path and time are one row (`Distinct`), so the rows are in a line and
count 0, 1, 2 ... newer ones: an injection into an interval of the same size, hence
onto. The rows that count less than `RetiredMax` are then exactly that many, and
all of them are newer than one that was dropped (`NewestDrops`). `RowsInv` says
that the rows of the manifest are their own newest, all older than the file.

**Moves.** The matching of STEP 7 is a fold over the destinations, a recursive
function on sets. That the recursion has a solution (`FoldExists`), and what it
decides (`MovesDecided`), is shown by the least number of destinations for which it
would fail. It is sound: a move's source was free, carries the destination's bytes,
belongs to its unit, and serves one destination. And it is complete: where a
destination was left without a move, every source it could have had was taken.

**One pass, and a second.** `OutcomeEntry` says of each path what a pass leaves
there: what was sealed and is recorded, nothing where the version went elsewhere,
or the old entry; a file that was sealed and not recorded is one a verify pass may
not adopt. Four of the properties of `once` follow from it and from the moves being
sound. That a second pass writes nothing needs them to be complete as well: what the
first pass left out would have to find a source now, and a source that is free after
the pass was free, and not taken, before it (`NothingNew`). So whatever the second
pass seals its entry already records, there is nothing to move (`OutcomeFixed`), and
`OnceInv` (the document is the outcome of the one loaded) holds for any number of
passes.

**The record.** From the lemmas on one merge (`ScanPath`, `AdoptMerge`,
`RetireMerge`) and from `CommitInv`, every rename is a step of `SaveRecord`: a pass
leaves at each path the old entry, the same version with its credit, a new version,
or nothing where the version went elsewhere in its unit; a copy writes one path; a
deletion takes its paths and leaves a row for each. That a pass and a copy leave
the rows alone is `RowsInv`; that the rows of a deletion survive the cut is
`RetiredMax > 0` and the order of paths.

### The controller

`ControllerLedgerProofs` shows each of the five promises, and the types
they need, from the legality rules of the events; the chain of replays and the counting behind `TerminalRoom` are the
work in it. `StagedControllerProofs` has one invariant for the commands over the
journal and the directories: `Types`; `Directories` (what an attempt's directory
holds fits the stage its attempt is in, and a call is sent once); `Local` (what each
command knows, step by step, of the journal as it read it); `SlotHolds` (the event
file being written is one command's, and what it will hold is a legal event of the
journal as it stands); `Apart` (no two commands make or send one attempt, and none
runs one whose invoker was acknowledged stopped); `Settled` (one dispatch is open,
and a settlement was read off a complete capture). With it every complete
event file is a step of the ledger, everything else a stutter. The ledger's
theorems then hold of the staged council by `INSTANCE`.

`StopsOnBadEvidence` adds `StopInv` to it: a reconciler that goes on with
`invalid_evidence` is at an attempt whose directory holds a dead process's leftovers,
or the journal ends in a torn event (`Judged`), behind which nothing is appended any
more. By `Undisturbed` no living command had made the tree unclean or was writing an
event when the evidence was looked at. Leftovers are never removed, a torn event
stays (`TornStays`), an attempt is not answered again once it is settled, and an
outcome that stops is either that damage or the answer's own. Nothing in the code
ensures either half of `Undisturbed`: each is a way in which a sound capture stops
the controller (`staged_race`, section 5).

### Readings and the run

`NoByteLostOrReadTwice`: whatever was asked for again is, piece by piece, either
delivered to one reader or left with one reading of the frontier, and every
acceptance keeps that. `ReadingsAssumption` says only that a reread names a
non-empty span and that no sentinel is a reading; `PolicyFits` derives it from what
`DerivedReadings` assumes of its policy, and `RereadsConserved` carries the theorem
over to `DerivedReadings` by the refinement (`ReadingsImplemented`, below).

`StoreLoads` has two parts. `Intact`: every reserved successor has its
complete package, every acceptance its candidate, and the candidates are within the
capacity. `Tended`: while no coordinator has died, a marker, an intent's
temporary or another mark that closes the store belongs to a call under way, which
removes it. After a death the mark stays and `load` refuses for good, as the code
does; nothing is claimed then but `Intact`. `Tended` is `TendedInv`.

`Intact` and `HistoriesVerify` come from one invariant, `ReadingsInv`, for they
need each other: a coordinator goes by the journal it replayed, and the replay goes
by the store. Beside the two properties it has `Journalled` (settling an attempt is
one event, so its note is one note; every event on an attempt of a slot follows its
complete package), `Apart` (a slot being published is one call's; so is the marker,
and its holder counted before it places) and `CallAt` for each call: what it made,
packet or bundle, is what the journal gives as long as the head is where it was
when the call began, and what it is publishing is there. The step that matters is
the append, which only a call with an unmoved head takes. `Kept` is what every step
leaves alone: earlier events, complete packages, candidates, the outcome and the
note of an attempt that succeeded. By `EventKept` an event then means for good what
it meant when it was written. Without `head = Len(journal)` in `Finished` the proof
fails at the three appends.

`ReadingsImplemented` adds `Understood` to it: the readings on record are those the
controller accepted, one for a node, and what each leaves is a finite set of pieces
of requests that notes asked for. Only an append writes (`StepWrites`), an event
that is no acceptance means the same (`OthersMeanTheSame`), and an acceptance is a
step of `CommittedReadings` (`AcceptanceAccepts`): its packet was genuine at the
head where it is appended, and `DeliveryDivides` says what a packet is. That lemma
is about the fold of `planRereadDelivery` for every finite set of requests: each is
cut at one offset of a code point, what lies before it is delivered, the rest left,
and unless it is stuck something is delivered. It goes by a least counterexample
over the number of requests (`FoldExists`, `FoldDivides`), for the induction theorems
of the library cannot be used. It needs of the policy that a note asks finitely
much and that the order of requests (`Rank`) is one of naturals, which `PolicyShape`
says. Forget the rest of a cut request, or inherit only a parent's own requests,
and the proof fails at just those lemmas.

`CouncilRunProofs` has one invariant too. `ReceiptSound`: a receipt exists only
after the branch was seen on the remote. `CallsSound`, per position of an
invocation: what it holds of the binding, the lock of the ledger, and, for the
writer of a line, that its sidecar is the verdict linked to the line that is last
now. `LedgerSound`: every line has its sidecar, artifacts of its own, and the
seals of the steps before it. `SealsWithin`: a seal counts lines that exist. `NothingReplaced` is the
action property behind `VerifiedStays`: what the verifiers read is only added to.

### Only model-checked

The liveness properties: `RunsEnd`, `UnlinkHappens`, `CaptureAccounted`,
`InvocationsEnd`. The prover has no ENABLED and no fairness. Every safety property of
a passing run is stated by a theorem. The four that the code does not keep
(section 5) are theorems too, under the hypothesis that takes the race away:
`Undisturbed`, in both its halves, for `StopOnlyOnBadEvidence`; `OneRun` for
`EntriesSealed`, `RecordKept` and `DeletionStands` (and for the last that the card
stays in its slot).

## 5. Where the code and its documents part

- **A seal can be collected while an entry needs it** (`seal_race`). The GC lists,
  then removes, under the commit lock; sealing takes no lock and reuses a seal it
  finds. A reused old seal between the two is removed and then committed. The
  placing of a new seal is covered by the ten minutes; the reuse of an old one is
  not.
- **A good manifest can be moved aside, and removed with its copies** (`aside_race`).
  Two runs judge the same unreadable manifest; one commits a good one in its place,
  and the other moves that aside (827 takes no lock and looks at no number). When the
  first has just found its manifest to parse (322-323), its `rm` (324) then removes every
  copy, the good one among them: the device has no record at all, although the
  comment says a copy goes "once a good manifest stands in their place, and not
  before".
- **A deletion can be undone in the record** (`deletion_race`). The row is
  committed, the file removed after; an exit capture that scans between finds an
  unclaimed file as new as its session and records it.
- **A sound capture can stop the controller** (`staged_race`), in two ways. The
  capture is published through a temporary and a link, and a reconciler that looks at
  the tree in that moment finds a file that does not belong. Or another command
  appends an event while the reconciler's `captureEvidence` reads the journal: the
  event is later than the clock taken before, or its file is partial for longer than
  the retries. Either way the attempt is settled as `invalid_evidence`, which is
  never retried. TLC reports the first; with a model without temporaries it reports
  the second.
- **A restore or a copy can be credited to a game.** An exit capture takes every
  claimed member whose size or time moved (1209), and every unclaimed one not older
  than its session (1196), for that session's work. A restore between two games, or a
  copy, is such a file. The schema says otherwise: "Nothing stamps a file it did not
  write" (`docs/save-manifest-schema.md` 201), "capture stamps only `producer: null`
  for what this device played" (409-410), "exit mode takes only what a launch wrote"
  (513), and so does the script at 1379. This one has no run of its own:
  `CreditsInTime` names the exception (`None` in `wrote`), and without it TLC refutes
  the property in the scenarios of `device` that mix a game with a restore or a copy.

Observations on the way:

- After a capture that was passed over, what its session wrote is credited to the
  next one, and after a card swap the files of the other card are.
  `CreditsInTime` therefore lets a session have what an earlier one wrote, and speaks
  of the card the device came up with.
- The header of `council-invoke.ts` gives exit 4 for failures after the call; a
  fatal error after a paid call (3697-3700) has another. Exit 0 does not look at
  the evidence of the effort.
- `ledger.jsonl.lock` stays after a crash, and every later invocation times out on
  it. An event file of the journal torn by a crash fills its slot for ever.
- A stream that breaks off after it named another model is retried (2580, 1583).
- Two run-starts at a time can leave a receipt of the older push
  (`council-run-start.ts` 254); the model has one at a time.
- Two parents that overlap pay for a reading one of them cannot accept; an
  overflow of pending ranges makes a paid reading unacceptable; a
  `max_delivery_bytes` below one code point ends in `reread_no_progress` for ever;
  a crash between the link and the unlink of an intent, or under the marker,
  closes the store; a candidate nobody accepted uses its capacity up.

Hazards the models know but do not reach: an inode that comes back within the same
second, a seal taken in by a run that is killed before it commits, two run-starts
at once, and everything in the scripts below.

## 6. What is not modelled

- `cloud_capture`: thumbnails; the `replaces` lineage; the log of failures; the
  manifest's rename after a healed device id; filling in the unit of revision 1
  manifests; sweeping what dead processes left in the stage; a device image without
  `jq` or with a cache that cannot be written.
- `cloud_backup`, `cloud_restore`, `cloud_saves_root`, `cloud_device_id`,
  `cloud_migrate_layout`, `cloud_sync_helper`: next after the proofs. `cloud_backup`
  and `cloud_restore` are one component with a lock, stamps and an absence guard;
  `cloud_device_id` and the layout's migration are resumable sequences of renames.
- The stores of sources and notes, the counters, prompts and request builders, the
  roster and the pins: validation and digests of data, without state of their own
  beyond write-once files. The models take a record that verifies for one that was
  written.
- The HTTP of sign-in and of the remote, text filters, device control through
  sysfs and D-Bus, the build system, vendored code (of the counted source lines,
  34,569 are `libflac.js` alone).

## 7. Plan

1. `SavesRoot` and `CloudTransfer`: `cloud_saves_root`, the transfer lock, the
   window and stamps, the absence guard; abstract specification: a saves folder is
   recorded as synced only on the card it was synced from.
2. `DeviceId` and `MigrateLayout`: healing and migration over crashes.
