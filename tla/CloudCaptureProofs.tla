------------------------- MODULE CloudCaptureProofs -------------------------
(***************************************************************************)
(* What holds of cloud_capture for any number of runs beside each other,   *)
(* of paths and of contents.                                               *)
(*                                                                         *)
(* First the types: whichever run wrote the manifest, it is a well-formed  *)
(* document.  TypeOK is proved together with what an adopt has sealed      *)
(* (AdoptOK), the one fact about the control the types depend on.          *)
(*                                                                         *)
(* Then what the lock and the order of the steps of a run guarantee:       *)
(* last-capture loses no line, the GC takes no young seal, an exit capture *)
(* commits over no new game, two writers are serialised, no commit mixes   *)
(* two cards, the retired list loses rows only to newer ones, and the      *)
(* manifest is one record, changed step by step (SaveRecord).              *)
(*                                                                         *)
(* Then what holds while runs come one after the other, and not beside     *)
(* each other: seals outlive the entries that name them, deletions stand,  *)
(* a readable manifest is never dropped, the record is never lost; and     *)
(* that no session is credited with what was there before it or came after.*)
(*                                                                         *)
(* Every invariant here is a conjunction over the runs of what holds while *)
(* a run is at a step.  A step of one run leaves the others where they     *)
(* were (Frame); what they rely on in the shared files is changed by       *)
(* nobody who does not hold the lock they hold.                            *)
(***************************************************************************)
EXTENDS CloudCapture, CaptureOnceProofs

-----------------------------------------------------------------------------
(* TypeOK.  By itself it is not inductive: a copy (--adopt) writes an entry *)
(* from what it sealed, so the type of the document needs that an adopt    *)
(* that merges has sealed its destination.                                 *)
AdoptAt(p) ==
  req[p].mode = "adopt" /\ pc[p] # "idle" =>
    LET dest == req[p].dest
    IN  /\ dest \in Path /\ req[p].from \in Path
        /\ pc[p] \in {"inspect", "aside", "stat", "claims"} => todo[p] = {dest}
        /\ pc[p] = "scan" => \/ todo[p] = {dest}
                             \/ todo[p] = {} /\ sealed[p][dest] # None
        /\ pc[p] \in {"merge", "lock", "check", "card", "rename"}
              => sealed[p][dest] # None

AdoptOK == \A p \in Proc : AdoptAt(p)

TypeInv == TypeOK /\ AdoptOK

(* The device comes up with values of their types.                         *)
THEOREM InitTypes == Init => TypeInv
<1> SUFFICES ASSUME Init PROVE TypeInv
  OBVIOUS
<1>1. DeviceOK
  BY StartAssumption, HomeAssumption DEF Init, DeviceOK, Local, Version
<1>2. StoreOK
  <2>1. disk[card] \in Local
    BY <1>1 DEF DeviceOK
  <2>2. PICK k \in StartKinds, claimed \in SUBSET OnDisk :
          /\ manifest =
               [kind |-> k,
                doc |-> [EmptyDoc EXCEPT !.entries =
                          [q \in Path |-> IF q \in claimed /\ k = "good"
                             THEN [sha |-> disk[card][q].sha, mt |-> 0, by |-> 0]
                             ELSE None]],
                stat |-> IF k = "absent" THEN 0 ELSE 1]
          /\ stage = [s \in Sha |-> IF \E q \in claimed : disk[card][q].sha = s
                                      THEN "old" ELSE "none"]
    BY DEF Init
  <2>3. [q \in Path |-> IF q \in claimed /\ k = "good"
           THEN [sha |-> disk[card][q].sha, mt |-> 0, by |-> 0] ELSE None] \in Entries
    BY <2>1 DEF Entries, Entry, OnDisk, Local, Version
  <2>4. manifest \in Manifest
    <3>1. manifest.doc \in Doc
      BY <2>2, <2>3 DEF Doc, EmptyDoc
    <3>2. QED
      BY <2>2, <3>1, StartAssumption DEF Manifest
  <2>5. stage \in [Sha -> {"none", "young", "old"}]
    BY <2>2
  <2>6. QED  BY <2>4, <2>5 DEF Init, StoreOK, NoStamps
<1>3. RunOK
  BY DEF Init, RunOK, Labels, NoRequest, Request, Modes
<1>4. WorkOK
  BY DEF Init, WorkOK, NoFiles, Local, EmptyDoc, Doc, Entries, NoStamps
<1>5. AdoptOK
  BY DEF Init, AdoptOK, AdoptAt
<1>6. QED  BY <1>1, <1>2, <1>3, <1>4, <1>5 DEF TypeInv, TypeOK

-----------------------------------------------------------------------------
(* What each step keeps of the types, one lemma per action.                *)
USE DEF TypeInv, TypeOK, DeviceOK, StoreOK, RunOK, WorkOK, AdoptOK, AdoptAt, Local, Manifest,
        Goto, Labels, device, store, loaded, scanned, asked

(* A run that ends its work goes on to its stamp.                          *)
Finished(p) ==
  /\ rc' \in [Proc -> 0..3] /\ pc' \in [Proc -> Labels]
  /\ pc[p] # "idle" /\ pc'[p] \in {"stamp", "finlock"}
  /\ \A r \in Proc \ {p} : pc'[r] = pc[r]

LEMMA FinishTypes ==
  ASSUME TypeInv, NEW p \in Proc, NEW code \in 0..3, Finish(p, code),
         pc[p] # "idle"
  PROVE  Finished(p)
  BY DEF Finish, Finished

(* It merges no more, so what an adopt sealed is not asked of it.          *)
LEMMA FinishedAdopt ==
  ASSUME TypeInv, NEW p \in Proc, Finished(p), UNCHANGED req,
         \A r \in Proc \ {p} : todo'[r] = todo[r] /\ sealed'[r] = sealed[r]
  PROVE  AdoptOK'
<1>1. AdoptAt(p)'
  BY DEF Finished
<1>2. ASSUME NEW r \in Proc \ {p} PROVE AdoptAt(r)'
  BY DEF Finished
<1>3. QED  BY <1>1, <1>2

(* A run starts over with nothing of its work forgotten but its place.     *)
LEMMA RerunTypes ==
  ASSUME TypeInv, NEW p \in Proc, Rerun(p)
  PROVE  /\ rc' \in [Proc -> 0..3] /\ pc' \in [Proc -> Labels]
         /\ retry' \in [Proc -> BOOLEAN] /\ lock' \in Proc \cup {None}
         /\ pc'[p] = "locate" /\ \A r \in Proc \ {p} : pc'[r] = pc[r]
         /\ UNCHANGED <<req, age, ident, loaded, scanned, base, seen, gone>>
  BY DEF Rerun

(* A process that ended is as it was before it started.                    *)
LEMMA EndsTypes ==
  ASSUME TypeInv, NEW p \in Proc, Ends(p)
  PROVE  /\ RunOK' /\ WorkOK' /\ AdoptOK' /\ lock' \in Proc \cup {None}
<1>1. RunOK'
  BY DEF Ends, NoRequest, Request, Modes
<1>2. WorkOK'
  BY DEF Ends, NoFiles, Entries, EmptyDoc, Doc, NoStamps
<1>3. AdoptOK'
  BY DEF Ends, NoRequest
<1>4. QED  BY <1>1, <1>2, <1>3 DEF Ends

(* The one member of an adopt is its copy.                                 *)
LEMMA AdoptNext ==
  ASSUME TypeInv, NEW p \in Proc, NEW q \in Path, req[p].mode = "adopt",
         Scanning(p, q)
  PROVE  todo[p] = {q} /\ q = req[p].dest
<1>1. todo[p] = {req[p].dest} /\ req[p].dest \in Nat
  BY PathAssumption DEF Scanning
<1>2. NextMember(p) = req[p].dest
  BY <1>1 DEF NextMember
<1>3. QED  BY <1>1, <1>2 DEF Scanning

LEMMA LaunchGameTypes ==
  ASSUME TypeInv, NEW u \in Unit, LaunchGame(u)
  PROVE  TypeInv'
<1>1. DeviceOK' /\ StoreOK'
  BY DEF LaunchGame, Spend, Events
<1>2. RunOK'
  BY DEF LaunchGame, Spend, Events
<1>3. WorkOK'
  BY DEF LaunchGame, Spend, Events
<1>4. AdoptOK'
  BY DEF LaunchGame, Spend, Events
<1>5. QED  BY <1>1, <1>2, <1>3, <1>4

LEMMA SaveGameTypes ==
  ASSUME TypeInv, NEW q \in Path, NEW s \in Sha, SaveGame(q, s)
  PROVE  TypeInv'
<1>1. DeviceOK' /\ StoreOK'
  BY DEF SaveGame, Spend, Events, WriteFile, Version
<1>2. RunOK'
  BY DEF SaveGame, Spend, Events, WriteFile, Version
<1>3. WorkOK'
  BY DEF SaveGame, Spend, Events, WriteFile, Version
<1>4. AdoptOK'
  BY DEF SaveGame, Spend, Events, WriteFile, Version
<1>5. QED  BY <1>1, <1>2, <1>3, <1>4

LEMMA RestoreFileTypes ==
  ASSUME TypeInv, NEW q \in Path, NEW s \in Sha, RestoreFile(q, s)
  PROVE  TypeInv'
<1>1. DeviceOK' /\ StoreOK'
  BY DEF RestoreFile, Spend, Events, WriteFile, Version
<1>2. RunOK'
  BY DEF RestoreFile, Spend, Events, WriteFile, Version
<1>3. WorkOK'
  BY DEF RestoreFile, Spend, Events, WriteFile, Version
<1>4. AdoptOK'
  BY DEF RestoreFile, Spend, Events, WriteFile, Version
<1>5. QED  BY <1>1, <1>2, <1>3, <1>4

LEMMA SwapCardTypes ==
  ASSUME TypeInv, NEW c \in Card, SwapCard(c)
  PROVE  TypeInv'
<1>1. DeviceOK' /\ StoreOK'
  BY DEF SwapCard, Spend, Events
<1>2. RunOK'
  BY DEF SwapCard, Spend, Events
<1>3. WorkOK'
  BY DEF SwapCard, Spend, Events
<1>4. AdoptOK'
  BY DEF SwapCard, Spend, Events
<1>5. QED  BY <1>1, <1>2, <1>3, <1>4

LEMMA AgeSealTypes ==
  ASSUME TypeInv, NEW s \in Sha, AgeSeal(s)
  PROVE  TypeInv'
<1>1. DeviceOK' /\ StoreOK'
  BY DEF AgeSeal
<1>2. RunOK'
  BY DEF AgeSeal
<1>3. WorkOK'
  BY DEF AgeSeal
<1>4. AdoptOK'
  BY DEF AgeSeal
<1>5. QED  BY <1>1, <1>2, <1>3, <1>4

LEMMA ElapseTypes ==
  ASSUME TypeInv, NEW p \in Proc, Elapse(p)
  PROVE  TypeInv'
<1>1. age[p] \in 0..2 /\ age[p] < 2  BY DEF Elapse
<1>2. age[p] + 1 \in 0..2  BY <1>1
<1>3. age' \in [Proc -> 0..2]  BY <1>2 DEF Elapse
<1>4. QED  BY <1>3 DEF Elapse

LEMMA KillTypes ==
  ASSUME TypeInv, NEW p \in Proc, Kill(p)
  PROVE  TypeInv'
<1>1. DeviceOK' /\ StoreOK'
  BY EndsTypes DEF Kill, Spend, Events
<1>2. QED  BY <1>1, EndsTypes DEF Kill

LEMMA ExitGameTypes ==
  ASSUME TypeInv, NEW p \in Proc, ExitGame(p)
  PROVE  TypeInv'
<1>1. DeviceOK' /\ StoreOK'
  BY DEF ExitGame, Start, NoRequest, Request, Modes
<1>2. RunOK'
  BY DEF ExitGame, Start, NoRequest, Request, Modes
<1>3. WorkOK'
  BY DEF ExitGame, Start, NoRequest, Request, Modes
<1>4. AdoptOK'
  BY DEF ExitGame, Start, NoRequest, Request, Modes
<1>5. QED  BY <1>1, <1>2, <1>3, <1>4

LEMMA StartFullTypes ==
  ASSUME TypeInv, NEW p \in Proc, StartFull(p)
  PROVE  TypeInv'
<1>1. DeviceOK' /\ StoreOK'
  BY DEF StartFull, Start, NoRequest, Request, Modes, Spend, Events
<1>2. RunOK'
  BY DEF StartFull, Start, NoRequest, Request, Modes, Spend, Events
<1>3. WorkOK'
  BY DEF StartFull, Start, NoRequest, Request, Modes, Spend, Events
<1>4. AdoptOK'
  BY DEF StartFull, Start, NoRequest, Request, Modes, Spend, Events
<1>5. QED  BY <1>1, <1>2, <1>3, <1>4

LEMMA StartRescanTypes ==
  ASSUME TypeInv, NEW p \in Proc, NEW u \in Unit, StartRescan(p, u)
  PROVE  TypeInv'
<1>1. DeviceOK' /\ StoreOK'
  BY DEF StartRescan, Start, NoRequest, Request, Modes, Spend, Events
<1>2. RunOK'
  BY DEF StartRescan, Start, NoRequest, Request, Modes, Spend, Events
<1>3. WorkOK'
  BY DEF StartRescan, Start, NoRequest, Request, Modes, Spend, Events
<1>4. AdoptOK'
  BY DEF StartRescan, Start, NoRequest, Request, Modes, Spend, Events
<1>5. QED  BY <1>1, <1>2, <1>3, <1>4

LEMMA StartRetireTypes ==
  ASSUME TypeInv, NEW p \in Proc, NEW paths \in SUBSET Path, NEW unlink \in BOOLEAN, StartRetire(p, paths, unlink)
  PROVE  TypeInv'
<1>1. DeviceOK' /\ StoreOK'
  BY DEF StartRetire, Start, NoRequest, Request, Modes, Spend, Events
<1>2. RunOK'
  BY DEF StartRetire, Start, NoRequest, Request, Modes, Spend, Events
<1>3. WorkOK'
  BY DEF StartRetire, Start, NoRequest, Request, Modes, Spend, Events
<1>4. AdoptOK'
  BY DEF StartRetire, Start, NoRequest, Request, Modes, Spend, Events
<1>5. QED  BY <1>1, <1>2, <1>3, <1>4

LEMMA StartAdoptTypes ==
  ASSUME TypeInv, NEW p \in Proc, NEW dest \in Path, NEW from \in Path, StartAdopt(p, dest, from)
  PROVE  TypeInv'
<1>1. [NoRequest EXCEPT !.mode = "adopt", !.unit = UnitOf[dest], !.dest = dest,
                       !.from = from] \in Request
  BY UnitAssumption DEF NoRequest, Request, Modes
<1>2. DeviceOK'
  <2>1. disk[card][from] \in Version
    BY DEF StartAdopt, OnDisk
  <2>2. [disk[card][from] EXCEPT !.mt = era] \in Version
    BY <2>1 DEF Version
  <2>3. disk' \in [Card -> Local]
    BY <2>2 DEF StartAdopt
  <2>4. wrote' \subseteq Sha \X (Nat \cup {None})
    BY <2>1 DEF StartAdopt, Version
  <2>5. QED  BY <2>3, <2>4 DEF StartAdopt, Start, Spend, Events
<1>3. RunOK'
  BY <1>1 DEF StartAdopt, Start
<1>4. StoreOK' /\ WorkOK'
  BY DEF StartAdopt, Start
<1>5. AdoptOK'
  BY DEF StartAdopt, Start, NoRequest
<1>6. QED  BY <1>2, <1>3, <1>4, <1>5

LEMMA LocateTypes ==
  ASSUME TypeInv, NEW p \in Proc, Locate(p)
  PROVE  TypeInv'
<1> DEFINE code == IF req[p].mode = "adopt" THEN 3 ELSE 0
<1>1. UnitFiles(req[p]) \subseteq Path
  BY DEF UnitFiles, OnDisk
<1>2. CASE req[p].mode \in {"exit", "rescan", "adopt"} /\ UnitFiles(req[p]) = {}
  <2>1. code \in 0..3 /\ Finish(p, code) /\ pc[p] # "idle"
    BY <1>2 DEF Locate
  <2> HIDE DEF code
  <2>2. Finished(p)
    BY <2>1, FinishTypes
  <2>3. TypeOK'
    BY <1>2, <2>2 DEF Locate, NoFiles, Finished
  <2>4. AdoptOK'
    BY <1>2, <2>2, FinishedAdopt DEF Locate
  <2>5. QED  BY <2>3, <2>4
<1>3. CASE ~(req[p].mode \in {"exit", "rescan", "adopt"} /\ UnitFiles(req[p]) = {})
  <2>1. /\ todo' = [todo EXCEPT ![p] = UnitFiles(req[p])]
        /\ ident' = [ident EXCEPT ![p] = card]
        /\ pc' = [pc EXCEPT ![p] = "inspect"] /\ UNCHANGED rc
    BY <1>3 DEF Locate
  <2>2. DeviceOK' /\ StoreOK' /\ RunOK' /\ WorkOK'
    BY <1>1, <2>1 DEF Locate, NoFiles
  <2>3. AdoptOK'
    BY <1>3, <2>1 DEF Locate, UnitFiles
  <2>4. QED  BY <2>2, <2>3
<1>4. QED  BY <1>2, <1>3

LEMMA InspectTypes ==
  ASSUME TypeInv, NEW p \in Proc, Inspect(p)
  PROVE  TypeInv'
<1>1. CASE manifest.kind = "newer"
  <2>1. Finish(p, 1) /\ UNCHANGED <<src, live0>> /\ pc[p] # "idle"
    BY <1>1 DEF Inspect
  <2>2. Finished(p)
    BY <2>1, FinishTypes
  <2>3. TypeOK'
    BY <2>1, <2>2 DEF Inspect, Finished
  <2>4. AdoptOK'
    BY <2>2, FinishedAdopt DEF Inspect
  <2>5. QED  BY <2>3, <2>4
<1>2. CASE manifest.kind # "newer"
  <2>1. /\ \/ pc' = [pc EXCEPT ![p] = "claims"] \/ pc' = [pc EXCEPT ![p] = "stat"]
           \/ pc' = [pc EXCEPT ![p] = "aside"]
        /\ src' \in [Proc -> BOOLEAN] /\ live0' \in [Proc -> Nat] /\ UNCHANGED rc
    <3>1. CASE manifest.kind = "absent"
      <4>1. /\ src' = [src EXCEPT ![p] = FALSE] /\ live0' = [live0 EXCEPT ![p] = 0]
            /\ pc' = [pc EXCEPT ![p] = "claims"] /\ UNCHANGED rc
        BY <3>1 DEF Inspect
      <4>2. QED  BY <4>1
    <3>2. CASE manifest.kind = "good"
      <4>1. /\ src' = [src EXCEPT ![p] = TRUE] /\ UNCHANGED <<live0, rc>>
            /\ pc' = [pc EXCEPT ![p] = "stat"]
        BY <3>2 DEF Inspect
      <4>2. QED  BY <4>1
    <3>3. CASE manifest.kind = "unreadable"
      <4>1. /\ src' = [src EXCEPT ![p] = FALSE] /\ UNCHANGED <<live0, rc>>
            /\ pc' = [pc EXCEPT ![p] = "aside"]
        BY <3>3 DEF Inspect
      <4>2. QED  BY <4>1
    <3>4. QED  BY <1>2, <3>1, <3>2, <3>3 DEF Kinds
  <2>2. TypeOK'
    BY <2>1 DEF Inspect
  <2>3. AdoptOK'
    BY <2>1 DEF Inspect
  <2>4. QED  BY <2>2, <2>3
<1>3. QED  BY <1>1, <1>2

LEMMA MoveAsideTypes ==
  ASSUME TypeInv, NEW p \in Proc, MoveAside(p)
  PROVE  TypeInv'
<1>1. CASE manifest.kind = "newer"
  <2>1. Finish(p, 1) /\ UNCHANGED <<manifest, aside>> /\ pc[p] # "idle"
    BY <1>1 DEF MoveAside
  <2>2. Finished(p)
    BY <2>1, FinishTypes
  <2>3. TypeOK'
    BY <2>1, <2>2 DEF MoveAside, Finished
  <2>4. AdoptOK'
    BY <2>2, FinishedAdopt DEF MoveAside
  <2>5. QED  BY <2>3, <2>4
<1>2. CASE manifest.kind # "newer"
  <2>1. EmptyDoc \in Doc
    BY DEF EmptyDoc, Doc, Entries
  <2>2. /\ manifest' = [kind |-> "absent", doc |-> EmptyDoc, stat |-> 0]
        /\ aside' \subseteq Kinds
        /\ pc' = [pc EXCEPT ![p] = "stat"] /\ UNCHANGED rc
    BY <1>2 DEF MoveAside
  <2>3. StoreOK'
    BY <2>1, <2>2 DEF MoveAside, Kinds
  <2>4. DeviceOK' /\ RunOK' /\ WorkOK' /\ AdoptOK'
    BY <2>2 DEF MoveAside
  <2>5. QED  BY <2>3, <2>4
<1>3. QED  BY <1>1, <1>2

LEMMA MoveAsideFailsTypes ==
  ASSUME TypeInv, NEW p \in Proc, MoveAsideFails(p)
  PROVE  TypeInv'
<1>1. DeviceOK' /\ StoreOK'
  BY DEF MoveAsideFails, Spend, Events
<1>2. RunOK'
  BY DEF MoveAsideFails
<1>3. WorkOK'
  BY DEF MoveAsideFails
<1>4. AdoptOK'
  BY DEF MoveAsideFails
<1>5. QED  BY <1>1, <1>2, <1>3, <1>4

LEMMA TakeStatTypes ==
  ASSUME TypeInv, NEW p \in Proc, TakeStat(p)
  PROVE  TypeInv'
<1>1. DeviceOK' /\ StoreOK'
  BY DEF TakeStat
<1>2. RunOK'
  BY DEF TakeStat
<1>3. WorkOK'
  BY DEF TakeStat
<1>4. AdoptOK'
  BY DEF TakeStat
<1>5. QED  BY <1>1, <1>2, <1>3, <1>4

LEMMA ReadClaimsTypes ==
  ASSUME TypeInv, NEW p \in Proc, ReadClaims(p)
  PROVE  TypeInv'
<1> DEFINE read == IF src[p] THEN manifest.doc.entries ELSE NoFiles
<1>1. read \in Entries
  BY DEF NoFiles, Entries, Doc
<1>2. claims' = [claims EXCEPT ![p] = read] /\ claims' \in [Proc -> Entries]
  BY <1>1 DEF ReadClaims
<1>3. CASE req[p].mode # "full"
  <2>1. pc' = [pc EXCEPT ![p] = "scan"] /\ UNCHANGED <<todo, rc>>
    BY <1>3 DEF ReadClaims
  <2>2. TypeOK'
    BY <1>2, <2>1 DEF ReadClaims
  <2>3. AdoptOK'
    BY <2>1 DEF ReadClaims
  <2>4. QED  BY <2>2, <2>3
<1>4. CASE req[p].mode = "full" /\ OnDisk # {}
  <2>1. todo' = [todo EXCEPT ![p] = {q \in OnDisk : read[q] # None}]
    BY <1>4 DEF ReadClaims
  <2>2. todo' \in [Proc -> SUBSET Path]
    BY <2>1 DEF OnDisk
  <2>3. pc' = [pc EXCEPT ![p] = "scan"] /\ UNCHANGED rc
    BY <1>4 DEF ReadClaims
  <2> HIDE DEF read
  <2>4. DeviceOK' /\ StoreOK'
    BY DEF ReadClaims
  <2>5. RunOK' /\ WorkOK'
    BY <1>2, <2>2, <2>3 DEF ReadClaims
  <2>6. AdoptOK'
    BY <1>4, <2>1, <2>3 DEF ReadClaims
  <2>7. QED  BY <2>4, <2>5, <2>6
<1>5. CASE req[p].mode = "full" /\ OnDisk = {}
  <2>1. Finish(p, 1) /\ UNCHANGED todo /\ pc[p] # "idle"
    BY <1>5 DEF ReadClaims
  <2>2. Finished(p)
    BY <2>1, FinishTypes
  <2>3. TypeOK'
    BY <1>2, <2>1, <2>2 DEF ReadClaims, Finished
  <2>4. AdoptOK'
    BY <2>1, <2>2, FinishedAdopt DEF ReadClaims
  <2>5. QED  BY <2>3, <2>4
<1>6. QED  BY <1>3, <1>4, <1>5 DEF ReadClaims

LEMMA PassOverTypes ==
  ASSUME TypeInv, NEW p \in Proc, NEW q \in Path, PassOver(p, q)
  PROVE  TypeInv'
<1>1. CASE req[p].mode = "adopt"
  <2>1. Finish(p, 0) /\ pc[p] # "idle"
    BY <1>1 DEF PassOver, Scanning
  <2>2. Finished(p)
    BY <2>1, FinishTypes
  <2>3. TypeOK'
    BY <2>2 DEF PassOver, Scanning, Finished
  <2>4. AdoptOK'
    BY <2>2, FinishedAdopt DEF PassOver, Scanning
  <2>5. QED  BY <2>3, <2>4
<1>2. CASE req[p].mode # "adopt"
  BY <1>2 DEF PassOver, Scanning
<1>3. QED  BY <1>1, <1>2

LEMMA SealTypes ==
  ASSUME TypeInv, NEW p \in Proc, NEW q \in Path, Seal(p, q)
  PROVE  TypeInv'
<1> DEFINE file == disk[card][q]
<1>1. file \in Version
  BY DEF Seal, Examined, OnDisk
<1>2. /\ sealed' = [sealed EXCEPT ![p] = [sealed[p] EXCEPT ![q] = file]]
      /\ todo' = [todo EXCEPT ![p] = todo[p] \ {q}]
  BY DEF Seal, Scanning
<1>3. sealed[p] \in Local /\ sealed'[p] = [sealed[p] EXCEPT ![q] = file]
  BY <1>2
<1>4. sealed'[p] \in Local
  BY <1>1, <1>3
<1>5. DeviceOK' /\ StoreOK'
  BY <1>1 DEF Seal, Scanning, Version
<1>6. RunOK'
  BY DEF Seal, Scanning
<1>7. WorkOK'
  <2>1. sealed' \in [Proc -> Local]
    BY <1>2, <1>4
  <2>2. todo' \in [Proc -> SUBSET Path] /\ strayed' \in [Proc -> BOOLEAN]
    BY <1>2 DEF Seal
  <2>3. QED  BY <2>1, <2>2 DEF Seal, Scanning
<1>8. AdoptOK'
  <2>1. AdoptAt(p)'
    <3>1. CASE req[p].mode = "adopt"
      <4>1. todo[p] = {q} /\ q = req[p].dest
        BY <3>1, AdoptNext DEF Seal
      <4>2. sealed'[p][q] = file /\ file # None
        BY <1>1, <1>3, NoneAssumption
      <4>3. QED  BY <1>2, <4>1, <4>2 DEF Seal, Scanning
    <3>2. CASE req[p].mode # "adopt"
      BY <3>2 DEF Seal, Scanning
    <3>3. QED  BY <3>1, <3>2
  <2>2. ASSUME NEW r \in Proc \ {p} PROVE AdoptAt(r)'
    BY <1>2 DEF Seal, Scanning
  <2>3. QED  BY <2>1, <2>2
<1>9. QED  BY <1>5, <1>6, <1>7, <1>8

LEMMA SealFailsTypes ==
  ASSUME TypeInv, NEW p \in Proc, NEW q \in Path, SealFails(p, q)
  PROVE  TypeInv'
<1>1. left' \in [Events -> Nat]
  BY DEF SealFails, Spend, Events
<1>2. CASE req[p].mode = "adopt"
  <2>1. Finish(p, 1) /\ pc[p] # "idle"
    BY <1>2 DEF SealFails, Scanning
  <2>2. Finished(p)
    BY <2>1, FinishTypes
  <2>3. TypeOK'
    BY <1>1, <2>2 DEF SealFails, Scanning, Finished
  <2>4. AdoptOK'
    BY <2>2, FinishedAdopt DEF SealFails, Scanning
  <2>5. QED  BY <2>3, <2>4
<1>3. CASE req[p].mode # "adopt"
  <2>1. rc' = [rc EXCEPT ![p] = 1] /\ UNCHANGED pc
    BY <1>3 DEF SealFails
  <2>2. QED  BY <1>1, <1>3, <2>1 DEF SealFails, Scanning
<1>4. QED  BY <1>2, <1>3

LEMMA ClassifyTypes ==
  ASSUME TypeInv, NEW p \in Proc, Classify(p)
  PROVE  TypeInv'
<1>1. Hashed(p) \in Local
  BY DEF Hashed
<1>2. req[p].mode = "adopt" => Hashed(p) = sealed[p]
  BY DEF Hashed
<1>3. /\ sealed' = [sealed EXCEPT ![p] = Hashed(p)]
      /\ present' = [present EXCEPT ![p] = OnDisk]
  BY DEF Classify
<1>4. sealed' \in [Proc -> Local] /\ present' \in [Proc -> SUBSET Path]
  BY <1>1, <1>3 DEF OnDisk
<1>5. rc[p] \in 0..3 /\ pc[p] # "idle"
  BY DEF Classify
<1>6. CASE Finish(p, rc[p])
  <2>1. Finished(p)
    BY <1>5, <1>6, FinishTypes
  <2>2. TypeOK'
    BY <1>4, <2>1 DEF Classify, Finished
  <2>3. AdoptOK'
    BY <1>3, <2>1, FinishedAdopt DEF Classify
  <2>4. QED  BY <2>2, <2>3
<1>7. CASE pc' = [pc EXCEPT ![p] = "merge"] /\ UNCHANGED rc
  <2>1. TypeOK'
    BY <1>4, <1>7 DEF Classify
  <2>2. AdoptAt(p)'
    <3>1. sealed'[p] = Hashed(p)
      BY <1>3
    <3>2. QED  BY <1>2, <1>7, <3>1 DEF Classify
  <2>3. ASSUME NEW r \in Proc \ {p} PROVE AdoptAt(r)'
    BY <1>3, <1>7 DEF Classify
  <2>4. QED  BY <2>1, <2>2, <2>3
<1>8. QED  BY <1>6, <1>7 DEF Classify

LEMMA MergeDocTypes ==
  ASSUME TypeInv, NEW p \in Proc, MergeDoc(p)
  PROVE  TypeInv'
<1>1. \E d \in Doc : base' = [base EXCEPT ![p] = d]
  <2>1. EmptyDoc \in Doc /\ manifest.doc \in Doc
    BY DEF EmptyDoc, Doc, Entries
  <2>2. base = [base EXCEPT ![p] = base[p]]
    OBVIOUS
  <2>3. base[p] \in Doc
    OBVIOUS
  <2>4. QED  BY <2>1, <2>2, <2>3 DEF MergeDoc
<1>2. rc[p] \in 0..3 /\ pc[p] # "idle" /\ base' \in [Proc -> Doc]
  BY <1>1 DEF MergeDoc
<1>3. CASE Finish(p, rc[p]) \/ Finish(p, 1)
  <2>1. Finished(p)
    BY <1>2, <1>3, FinishTypes
  <2>2. TypeOK'
    BY <1>2, <2>1 DEF MergeDoc, Finished
  <2>3. AdoptOK'
    BY <2>1, FinishedAdopt DEF MergeDoc
  <2>4. QED  BY <2>2, <2>3
<1>4. CASE pc' = [pc EXCEPT ![p] = "lock"] /\ UNCHANGED rc
  <2>1. TypeOK'
    BY <1>2, <1>4 DEF MergeDoc
  <2>2. AdoptOK'
    BY <1>4 DEF MergeDoc
  <2>3. QED  BY <2>1, <2>2
<1>5. QED  BY <1>3, <1>4 DEF MergeDoc

LEMMA TakeLockTypes ==
  ASSUME TypeInv, NEW p \in Proc, TakeLock(p)
  PROVE  TypeInv'
<1>1. CASE rc' = [rc EXCEPT ![p] = 1] /\ pc' = [pc EXCEPT ![p] = "stamp"]
  BY <1>1 DEF TakeLock
<1>2. CASE UNCHANGED rc /\ pc' = [pc EXCEPT ![p] = "check"]
  BY <1>2 DEF TakeLock
<1>3. QED  BY <1>1, <1>2 DEF TakeLock

LEMMA LockBusyTypes ==
  ASSUME TypeInv, NEW p \in Proc, LockBusy(p)
  PROVE  TypeInv'
<1>1. CASE Rerun(p)
  <2>1. /\ rc' \in [Proc -> 0..3] /\ pc' \in [Proc -> Labels]
        /\ retry' \in [Proc -> BOOLEAN] /\ lock' \in Proc \cup {None}
        /\ pc'[p] = "locate" /\ \A r \in Proc \ {p} : pc'[r] = pc[r]
        /\ UNCHANGED <<req, age, ident, loaded, scanned, base, seen, gone>>
    BY <1>1, RerunTypes
  <2>2. TypeOK'
    BY <2>1 DEF LockBusy
  <2>3. AdoptOK'
    BY <2>1 DEF LockBusy
  <2>4. QED  BY <2>2, <2>3
<1>2. CASE ~Rerun(p)
  <2>1. /\ rc' = [rc EXCEPT ![p] = 1] /\ pc' = [pc EXCEPT ![p] = "tidy"]
        /\ UNCHANGED <<lock, asked, age, loaded, scanned, base, seen, gone>>
    BY <1>2 DEF LockBusy
  <2>2. QED  BY <2>1 DEF LockBusy
<1>3. QED  BY <1>1, <1>2

LEMMA CheckManifestTypes ==
  ASSUME TypeInv, NEW p \in Proc, CheckManifest(p)
  PROVE  TypeInv'
<1>1. CASE Rerun(p)
  <2>1. /\ rc' \in [Proc -> 0..3] /\ pc' \in [Proc -> Labels]
        /\ retry' \in [Proc -> BOOLEAN] /\ lock' \in Proc \cup {None}
        /\ pc'[p] = "locate" /\ \A r \in Proc \ {p} : pc'[r] = pc[r]
        /\ UNCHANGED <<req, age, ident, loaded, scanned, base, seen, gone>>
    BY <1>1, RerunTypes
  <2>2. TypeOK'
    BY <2>1 DEF CheckManifest
  <2>3. AdoptOK'
    BY <2>1 DEF CheckManifest
  <2>4. QED  BY <2>2, <2>3
<1>2. CASE /\ Finish(p, 1)
           /\ UNCHANGED <<lock, asked, age, loaded, scanned, base, seen, gone>>
  <2>1. Finished(p)
    BY <1>2, FinishTypes DEF CheckManifest
  <2>2. TypeOK'
    BY <1>2, <2>1 DEF CheckManifest, Finished
  <2>3. AdoptOK'
    BY <1>2, <2>1, FinishedAdopt
  <2>4. QED  BY <2>2, <2>3
<1>3. CASE /\ pc' = [pc EXCEPT ![p] = "card"]
           /\ UNCHANGED <<lock, asked, age, loaded, scanned, base, rc, seen, gone>>
  BY <1>3 DEF CheckManifest
<1>4. QED  BY <1>1, <1>2, <1>3 DEF CheckManifest

LEMMA CheckCardTypes ==
  ASSUME TypeInv, NEW p \in Proc, CheckCard(p)
  PROVE  TypeInv'
<1>1. CASE card # ident[p]
  <2>1. Finish(p, 1) /\ pc[p] # "idle"
    BY <1>1 DEF CheckCard
  <2>2. Finished(p)
    BY <2>1, FinishTypes
  <2>3. TypeOK'
    BY <2>2 DEF CheckCard, Finished
  <2>4. AdoptOK'
    BY <2>2, FinishedAdopt DEF CheckCard
  <2>5. QED  BY <2>3, <2>4
<1>2. CASE card = ident[p]
  <2>1. pc' = [pc EXCEPT ![p] = "rename"] /\ UNCHANGED rc
    BY <1>2 DEF CheckCard
  <2>2. QED  BY <2>1 DEF CheckCard
<1>3. QED  BY <1>1, <1>2

LEMMA RenameTypes ==
  ASSUME TypeInv, NEW p \in Proc, Rename(p)
  PROVE  TypeInv'
<1>1. AdoptSealed(req[p], sealed[p])
  BY DEF Rename, AdoptSealed
<1>2. Candidate(p) \in Doc
  <2>1. /\ req[p] \in Request /\ base[p] \in Doc /\ claims[p] \in Entries
        /\ sealed[p] \in Local /\ live0[p] \in Nat
    OBVIOUS
  <2>2. QED  BY <1>1, <2>1, MergeType DEF Candidate, Ops
<1>3. StoreOK'
  BY <1>2 DEF Rename, Kinds
<1>4. DeviceOK' /\ RunOK' /\ WorkOK' /\ AdoptOK'
  BY DEF Rename
<1>5. QED  BY <1>3, <1>4

LEMMA RenameFailsTypes ==
  ASSUME TypeInv, NEW p \in Proc, RenameFails(p)
  PROVE  TypeInv'
<1>1. DeviceOK' /\ StoreOK'
  BY DEF RenameFails, Finish, Spend, Events
<1>2. RunOK'
  BY DEF RenameFails, Finish, Spend, Events
<1>3. WorkOK'
  BY DEF RenameFails, Finish, Spend, Events
<1>4. AdoptOK'
  BY DEF RenameFails, Finish, Spend, Events
<1>5. QED  BY <1>1, <1>2, <1>3, <1>4

LEMMA ListGarbageTypes ==
  ASSUME TypeInv, NEW p \in Proc, ListGarbage(p)
  PROVE  TypeInv'
<1>1. DeviceOK' /\ StoreOK'
  BY DEF ListGarbage
<1>2. RunOK'
  BY DEF ListGarbage
<1>3. WorkOK'
  BY DEF ListGarbage
<1>4. AdoptOK'
  BY DEF ListGarbage
<1>5. QED  BY <1>1, <1>2, <1>3, <1>4

LEMMA RemoveGarbageTypes ==
  ASSUME TypeInv, NEW p \in Proc, RemoveGarbage(p)
  PROVE  TypeInv'
<1>1. DeviceOK' /\ StoreOK'
  BY DEF RemoveGarbage, Finish
<1>2. RunOK'
  BY DEF RemoveGarbage, Finish
<1>3. WorkOK'
  BY DEF RemoveGarbage, Finish
<1>4. AdoptOK'
  BY DEF RemoveGarbage, Finish
<1>5. QED  BY <1>1, <1>2, <1>3, <1>4

LEMMA FinishLockTypes ==
  ASSUME TypeInv, NEW p \in Proc, FinishLock(p)
  PROVE  TypeInv'
<1>1. DeviceOK' /\ StoreOK'
  BY DEF FinishLock
<1>2. RunOK'
  BY DEF FinishLock
<1>3. WorkOK'
  BY DEF FinishLock
<1>4. AdoptOK'
  BY DEF FinishLock
<1>5. QED  BY <1>1, <1>2, <1>3, <1>4

LEMMA ReadStampsTypes ==
  ASSUME TypeInv, NEW p \in Proc, ReadStamps(p)
  PROVE  TypeInv'
<1>1. DeviceOK' /\ StoreOK'
  BY DEF ReadStamps
<1>2. RunOK'
  BY DEF ReadStamps
<1>3. WorkOK'
  BY DEF ReadStamps
<1>4. AdoptOK'
  BY DEF ReadStamps
<1>5. QED  BY <1>1, <1>2, <1>3, <1>4

LEMMA WriteStampsTypes ==
  ASSUME TypeInv, NEW p \in Proc, WriteStamps(p)
  PROVE  TypeInv'
<1>1. DeviceOK' /\ StoreOK'
  BY DEF WriteStamps, Request
<1>2. RunOK'
  BY DEF WriteStamps, Request
<1>3. WorkOK'
  BY DEF WriteStamps, Request
<1>4. AdoptOK'
  BY DEF WriteStamps, Request
<1>5. QED  BY <1>1, <1>2, <1>3, <1>4

(* What the end of finish() does: the run is a step further with its work  *)
(* as it was, or its process ends.                                         *)
Onward(p) ==
  /\ Goto(p, "drop") \/ Goto(p, "unlink")
  /\ UNCHANGED <<lock, asked, age, loaded, scanned, base, rc, seen, gone>>

LEMMA Tidied ==
  ASSUME NEW p \in Proc, Tidy(p) \/ Drop(p)
  PROVE  /\ Onward(p) \/ Ends(p)
         /\ pc[p] \in {"tidy", "drop"} /\ aside' \in {aside, {}}
         /\ UNCHANGED <<device, left, manifest, renames, stage, stamps>>
  BY DEF Tidy, Drop, UnlinkOrEnd, Onward

LEMMA TidyTypes ==
  ASSUME TypeInv, NEW p \in Proc, Tidy(p) \/ Drop(p)
  PROVE  TypeInv'
<1>1. /\ DeviceOK' /\ aside' \subseteq Kinds
      /\ UNCHANGED <<manifest, renames, stage, stamps>>
  BY Tidied
<1>2. CASE Onward(p)
  <2>1. TypeOK'
    BY <1>1, <1>2 DEF Onward
  <2>2. AdoptOK'
    BY <1>2, Tidied DEF Onward
  <2>3. QED  BY <2>1, <2>2
<1>3. CASE Ends(p)
  <2>1. RunOK' /\ WorkOK' /\ AdoptOK' /\ lock' \in Proc \cup {None}
    BY <1>3, EndsTypes
  <2>2. QED  BY <1>1, <2>1
<1>4. QED  BY <1>2, <1>3, Tidied

LEMMA UnlinkTypes ==
  ASSUME TypeInv, NEW p \in Proc, NEW q \in Path, Unlink(p, q)
  PROVE  TypeInv'
<1>1. DeviceOK' /\ StoreOK'
  BY DEF Unlink
<1>2. RunOK'
  BY DEF Unlink
<1>3. WorkOK'
  BY DEF Unlink
<1>4. AdoptOK'
  BY DEF Unlink
<1>5. QED  BY <1>1, <1>2, <1>3, <1>4

LEMMA UnlinkedTypes ==
  ASSUME TypeInv, NEW p \in Proc, Unlinked(p)
  PROVE  TypeInv'
<1>1. DeviceOK' /\ StoreOK'
  BY EndsTypes DEF Unlinked
<1>2. QED  BY <1>1, EndsTypes DEF Unlinked

HIDE DEF TypeInv, TypeOK, DeviceOK, StoreOK, RunOK, WorkOK, AdoptOK, AdoptAt, Local, Manifest,
         Goto, Labels, device, store, loaded, scanned, asked

(* A step that changes nothing changes no type.                            *)
LEMMA StutterTypes ==
  ASSUME TypeInv, UNCHANGED vars
  PROVE  TypeInv'
  BY DEF TypeInv, TypeOK, DeviceOK, StoreOK, RunOK, WorkOK, AdoptOK, AdoptAt,
         vars, device, store, loaded, scanned, asked, Local, Labels, Manifest

(* The types and what an adopt has sealed are kept by every step.          *)
THEOREM NextTypes ==
  ASSUME TypeInv, [Next]_vars
  PROVE  TypeInv'
<1>1. CASE Environment
  BY <1>1, LaunchGameTypes, SaveGameTypes, RestoreFileTypes, SwapCardTypes,
         AgeSealTypes
     DEF Environment
<1>2. ASSUME NEW p \in Proc, Asked(p) PROVE TypeInv'
  BY <1>2, ExitGameTypes, StartFullTypes, StartRescanTypes, StartRetireTypes,
         StartAdoptTypes
     DEF Asked
<1>3. ASSUME NEW p \in Proc, Run(p) PROVE TypeInv'
  BY <1>3, LocateTypes, InspectTypes, MoveAsideTypes, MoveAsideFailsTypes,
         TakeStatTypes,
         ReadClaimsTypes, PassOverTypes, SealTypes, SealFailsTypes,
         ClassifyTypes, MergeDocTypes, TakeLockTypes, LockBusyTypes,
         CheckManifestTypes, CheckCardTypes, RenameTypes,
         RenameFailsTypes, ListGarbageTypes, RemoveGarbageTypes,
         FinishLockTypes, ReadStampsTypes, WriteStampsTypes, TidyTypes,
         UnlinkTypes, UnlinkedTypes
     DEF Run
<1>4. ASSUME NEW p \in Proc, Elapse(p) \/ Kill(p) PROVE TypeInv'
  BY <1>4, ElapseTypes, KillTypes
<1>5. CASE UNCHANGED vars
  BY <1>5, StutterTypes
<1>6. QED  BY <1>1, <1>2, <1>3, <1>4, <1>5 DEF Next

(* Every variable keeps its type: in particular the manifest is always a   *)
(* document whose rows and entries are well formed, whichever run wrote it.*)
THEOREM TypeCorrect == Spec => []TypeOK
<1>1. TypeInv => TypeOK
  BY DEF TypeInv
<1>2. QED  BY <1>1, InitTypes, NextTypes, PTL DEF Spec


-----------------------------------------------------------------------------
(* The steps taken under .capture.lock.                                    *)
Locked == {"check", "card", "rename", "gclist", "gcrm", "stamp", "mvstamp"}

LockAt(p) == pc[p] \in Locked => lock = p

(* Between reading last-capture and replacing it, it is as it was read.    *)
StampAt(p) == pc[p] = "mvstamp" => seen[p] = stamps

(* What the GC chose is still old when it is removed.                      *)
GarbageAt(p) == pc[p] = "gcrm" => \A s \in gone[p] : stage[s] = "old"

(* No game is launched over an exit capture that is not past 120 s, and    *)
(* one that is past its bound does not reach its commit.                   *)
GameAt(p) ==
  Running(p) /\ req[p].mode = "exit" =>
    /\ age[p] < 2 => game = None
    /\ pc[p] \in {"check", "card", "rename"} => age[p] < 2

SafeAt(p) == LockAt(p) /\ StampAt(p) /\ GarbageAt(p) /\ GameAt(p)
SafeInv == \A p \in Proc : SafeAt(p)

(* A step of p leaves the other runs, and a lock one of them holds, alone. *)
Frame(p) ==
  \A r \in Proc \ {p} :
    /\ pc'[r] = pc[r] /\ req'[r] = req[r] /\ age'[r] = age[r]
    /\ seen'[r] = seen[r] /\ gone'[r] = gone[r]
    /\ lock = r => lock' = r

SharedKept == UNCHANGED <<stamps, stage, game>>

(* The types the leaves below need, without the rest of TypeInv.           *)
Typed ==
  /\ pc \in [Proc -> Labels] /\ req \in [Proc -> Request]
  /\ age \in [Proc -> 0..2] /\ lock \in Proc \cup {None}
  /\ seen \in [Proc -> [Modes -> Nat]] /\ gone \in [Proc -> SUBSET Sha]
  /\ stamps \in [Modes -> Nat] /\ stage \in [Sha -> {"none", "young", "old"}]

(* The types give them.                                                    *)
LEMMA TypeInvTyped == TypeInv => Typed
  BY DEF TypeInv, TypeOK, StoreOK, RunOK, WorkOK, Typed

(* What no step does: set back a line of last-capture, or remove a young   *)
(* seal.                                                                   *)
Kept ==
  /\ \A m \in Modes : stamps'[m] >= stamps[m]
  /\ \A s \in Sha : stage[s] = "young" => stage'[s] # "none"

(* So it keeps what they rely on when it leaves the shared files alone.    *)
LEMMA OthersSafe ==
  ASSUME Typed, SafeInv, NEW p \in Proc, Frame(p), SharedKept, SafeAt(p)'
  PROVE  SafeInv' /\ Kept
<1>1. ASSUME NEW r \in Proc \ {p} PROVE SafeAt(r)'
  BY DEF SafeInv, SafeAt, LockAt, StampAt, GarbageAt, GameAt, Frame, SharedKept,
         Running
<1>2. Kept
  BY DEF Kept, SharedKept, Typed
<1>3. QED  BY <1>1, <1>2 DEF SafeInv

(* No run is under way when the device comes up.                           *)
LEMMA InitSafe == Init => SafeInv
  BY DEF Init, SafeInv, SafeAt, LockAt, StampAt, GarbageAt, GameAt, Locked, Running

USE DEF SafeAt, LockAt, StampAt, GarbageAt, GameAt, Locked, Running, Frame,
        SharedKept, Goto, device, store, loaded, scanned, asked

(* finish() and exec keep what a run may rely on.                          *)
LEMMA FinishSafe ==
  ASSUME Typed, SafeInv, NEW p \in Proc, NEW code, Finish(p, code),
         UNCHANGED <<lock, req, age, seen, gone, game>>, Running(p)
  PROVE  SafeAt(p)' /\ Frame(p)
  BY ProcAssumption DEF Finish, Held, Typed, SafeInv

LEMMA RerunSafe ==
  ASSUME Typed, SafeInv, NEW p \in Proc, Rerun(p), Running(p), UNCHANGED game
  PROVE  SafeAt(p)' /\ Frame(p)
  BY ProcAssumption DEF Rerun, Held, Typed, SafeInv

LEMMA EndsSafe ==
  ASSUME Typed, SafeInv, NEW p \in Proc, Ends(p)
  PROVE  SafeAt(p)' /\ Frame(p)
  BY ProcAssumption DEF Ends, Held, Typed, SafeInv

(* Every step a run takes by itself keeps the invariant.                   *)
THEOREM RunSafe ==
  ASSUME TypeInv, SafeInv, NEW p \in Proc, Run(p)
  PROVE  SafeInv' /\ Kept
<1>0. Typed /\ SafeAt(p)
  BY TypeInvTyped DEF SafeInv
<1>50. CASE MoveAsideFails(p)
  <2>1. SafeAt(p)' /\ Frame(p) /\ SharedKept
    BY <1>0, <1>50 DEF MoveAsideFails, Typed
  <2>2. QED  BY <1>0, <2>1, OthersSafe
<1>1. CASE Locate(p)
  <2>1. SafeAt(p)' /\ Frame(p) /\ SharedKept
    BY <1>0, <1>1, FinishSafe DEF Locate, Typed
  <2>2. QED  BY <1>0, <2>1, OthersSafe
<1>2. CASE Inspect(p)
  <2>1. SafeAt(p)' /\ Frame(p) /\ SharedKept
    BY <1>0, <1>2, FinishSafe DEF Inspect, Typed
  <2>2. QED  BY <1>0, <2>1, OthersSafe
<1>3. CASE MoveAside(p)
  <2>1. SafeAt(p)' /\ Frame(p) /\ SharedKept
    BY <1>0, <1>3, FinishSafe DEF MoveAside, Typed
  <2>2. QED  BY <1>0, <2>1, OthersSafe
<1>4. CASE TakeStat(p)
  <2>1. SafeAt(p)' /\ Frame(p) /\ SharedKept
    BY <1>0, <1>4 DEF TakeStat, Typed
  <2>2. QED  BY <1>0, <2>1, OthersSafe
<1>5. CASE ReadClaims(p)
  <2>1. SafeAt(p)' /\ Frame(p) /\ SharedKept
    BY <1>0, <1>5, FinishSafe DEF ReadClaims, Typed
  <2>2. QED  BY <1>0, <2>1, OthersSafe
<1>6. CASE Classify(p)
  <2>1. SafeAt(p)' /\ Frame(p) /\ SharedKept
    BY <1>0, <1>6, FinishSafe DEF Classify, Typed
  <2>2. QED  BY <1>0, <2>1, OthersSafe
<1>7. CASE MergeDoc(p)
  <2>1. SafeAt(p)' /\ Frame(p) /\ SharedKept
    BY <1>0, <1>7, FinishSafe DEF MergeDoc, Typed
  <2>2. QED  BY <1>0, <2>1, OthersSafe
<1>8. CASE TakeLock(p)
  <2>1. SafeAt(p)' /\ Frame(p) /\ SharedKept
    BY <1>0, <1>8, ProcAssumption DEF TakeLock, PastExitBound, Typed
  <2>2. QED  BY <1>0, <2>1, OthersSafe
<1>9. CASE LockBusy(p)
  <2>1. CASE Rerun(p)
    <3>1. SafeAt(p)' /\ Frame(p) /\ SharedKept
      BY <1>0, <1>9, <2>1, RerunSafe DEF LockBusy
    <3>2. QED  BY <1>0, <3>1, OthersSafe
  <2>2. CASE /\ Goto(p, "tidy")
             /\ UNCHANGED <<lock, asked, age, loaded, scanned, base, seen, gone>>
    <3>1. SafeAt(p)' /\ Frame(p) /\ SharedKept
      BY <1>0, <1>9, <2>2 DEF LockBusy, Typed
    <3>2. QED  BY <1>0, <3>1, OthersSafe
  <2>3. QED  BY <1>9, <2>1, <2>2 DEF LockBusy
<1>10. CASE CheckManifest(p)
  <2>1. CASE Rerun(p)
    <3>1. SafeAt(p)' /\ Frame(p) /\ SharedKept
      BY <1>0, <1>10, <2>1, RerunSafe DEF CheckManifest
    <3>2. QED  BY <1>0, <3>1, OthersSafe
  <2>2. CASE /\ Finish(p, 1)
             /\ UNCHANGED <<lock, asked, age, loaded, scanned, base, seen, gone>>
    <3>1. SafeAt(p)' /\ Frame(p) /\ SharedKept
      BY <1>0, <1>10, <2>2, FinishSafe DEF CheckManifest
    <3>2. QED  BY <1>0, <3>1, OthersSafe
  <2>3. CASE /\ Goto(p, "card")
             /\ UNCHANGED <<lock, asked, age, loaded, scanned, base, rc, seen, gone>>
    <3>1. SafeAt(p)' /\ Frame(p) /\ SharedKept
      BY <1>0, <1>10, <2>3 DEF CheckManifest, Typed
    <3>2. QED  BY <1>0, <3>1, OthersSafe
  <2>4. QED  BY <1>10, <2>1, <2>2, <2>3 DEF CheckManifest
<1>11. CASE CheckCard(p)
  <2>1. SafeAt(p)' /\ Frame(p) /\ SharedKept
    BY <1>0, <1>11, FinishSafe DEF CheckCard, Typed
  <2>2. QED  BY <1>0, <2>1, OthersSafe
<1>12. CASE Rename(p)
  <2>1. SafeAt(p)' /\ Frame(p) /\ SharedKept
    BY <1>0, <1>12 DEF Rename, Typed
  <2>2. QED  BY <1>0, <2>1, OthersSafe
<1>13. CASE RenameFails(p)
  <2>1. SafeAt(p)' /\ Frame(p) /\ SharedKept
    BY <1>0, <1>13, FinishSafe DEF RenameFails, Typed
  <2>2. QED  BY <1>0, <2>1, OthersSafe
<1>14. CASE ListGarbage(p)
  <2>1. SafeAt(p)' /\ Frame(p) /\ SharedKept
    BY <1>0, <1>14 DEF ListGarbage, Typed
  <2>2. QED  BY <1>0, <2>1, OthersSafe
<1>15. CASE FinishLock(p)
  <2>1. SafeAt(p)' /\ Frame(p) /\ SharedKept
    BY <1>0, <1>15, ProcAssumption DEF FinishLock, Typed
  <2>2. QED  BY <1>0, <2>1, OthersSafe
<1>16. CASE ReadStamps(p)
  <2>1. SafeAt(p)' /\ Frame(p) /\ SharedKept
    BY <1>0, <1>16 DEF ReadStamps, Typed
  <2>2. QED  BY <1>0, <2>1, OthersSafe
<1>17. CASE Tidy(p) \/ Drop(p)
  <2>1. CASE Onward(p)
    <3>1. SafeAt(p)' /\ Frame(p) /\ SharedKept
      BY <1>0, <1>17, <2>1, Tidied DEF Onward, Typed
    <3>2. QED  BY <1>0, <3>1, OthersSafe
  <2>2. CASE Ends(p)
    <3>1. SafeAt(p)' /\ Frame(p) /\ SharedKept
      BY <1>0, <1>17, <2>2, Tidied, EndsSafe
    <3>2. QED  BY <1>0, <3>1, OthersSafe
  <2>3. QED  BY <1>17, <2>1, <2>2, Tidied
<1>18. CASE Unlinked(p)
  <2>1. SafeAt(p)' /\ Frame(p) /\ SharedKept
    BY <1>0, <1>18, EndsSafe DEF Unlinked, Typed
  <2>2. QED  BY <1>0, <2>1, OthersSafe
<1>19. ASSUME NEW q \in Path, PassOver(p, q) PROVE SafeInv' /\ Kept
  <2>1. SafeAt(p)' /\ Frame(p) /\ SharedKept
    BY <1>0, <1>19, FinishSafe DEF PassOver, Scanning, Typed
  <2>2. QED  BY <1>0, <2>1, OthersSafe
<1>20. ASSUME NEW q \in Path, SealFails(p, q) PROVE SafeInv' /\ Kept
  <2>1. SafeAt(p)' /\ Frame(p) /\ SharedKept
    BY <1>0, <1>20, FinishSafe DEF SealFails, Scanning, Spend, Typed
  <2>2. QED  BY <1>0, <2>1, OthersSafe
<1>21. ASSUME NEW q \in Path, Unlink(p, q) PROVE SafeInv' /\ Kept
  <2>1. SafeAt(p)' /\ Frame(p) /\ SharedKept
    BY <1>0, <1>21 DEF Unlink, Typed
  <2>2. QED  BY <1>0, <2>1, OthersSafe
<1>22. ASSUME NEW q \in Path, Seal(p, q) PROVE SafeInv' /\ Kept
  <2>1. \A s \in Sha : stage[s] = "old" => stage'[s] = "old"
    BY <1>0, <1>22 DEF Seal, NeedsSeal, Typed
  <2>2. ASSUME NEW r \in Proc PROVE SafeAt(r)'
    BY <1>0, <1>22, <2>1 DEF Seal, Scanning, Typed, SafeInv
  <2>3. Kept
    BY <1>0, <1>22 DEF Seal, Scanning, Typed, Kept
  <2>4. QED  BY <2>2, <2>3 DEF SafeInv
<1>23. CASE RemoveGarbage(p)
  <2>1. SafeAt(p)' /\ Frame(p) /\ UNCHANGED <<stamps, game>>
    <3>1. rc[p] = rc[p] /\ Finish(p, rc[p]) /\ Running(p)
      BY <1>23 DEF RemoveGarbage
    <3>2. QED  BY <1>0, <1>23, <3>1, FinishSafe DEF RemoveGarbage
  <2>2. ASSUME NEW r \in Proc \ {p} PROVE SafeAt(r)'
    <3>1. pc[r] # "gcrm" /\ pc'[r] # "gcrm"
      BY <1>0, <1>23, <2>1 DEF RemoveGarbage, SafeInv
    <3>2. QED  BY <2>1, <3>1 DEF SafeInv
  <2>3. Kept
    BY <1>0, <1>23 DEF RemoveGarbage, Typed, Kept, SafeInv
  <2>4. QED  BY <2>1, <2>2, <2>3 DEF SafeInv
<1>24. CASE WriteStamps(p)
  <2>1. SafeAt(p)' /\ Frame(p) /\ UNCHANGED <<stage, game>>
    BY <1>0, <1>24 DEF WriteStamps, Typed
  <2>2. ASSUME NEW r \in Proc \ {p} PROVE SafeAt(r)'
    <3>1. pc[r] # "mvstamp" /\ pc'[r] # "mvstamp"
      BY <1>0, <1>24, <2>1 DEF WriteStamps, SafeInv
    <3>2. QED  BY <2>1, <3>1 DEF SafeInv
  <2>3. Kept
    <3>1. stamps' = [stamps EXCEPT ![req[p].mode] = @ + 1] /\ UNCHANGED stage
      BY <1>0, <1>24 DEF WriteStamps
    <3>2. QED  BY <1>0, <3>1 DEF Typed, Kept
  <2>4. QED  BY <2>1, <2>2, <2>3 DEF SafeInv
<1>25. QED
  BY <1>50, <1>1, <1>2, <1>3, <1>4, <1>5, <1>6, <1>7, <1>8, <1>9, <1>10, <1>11,
     <1>12, <1>13, <1>14, <1>15, <1>16, <1>17, <1>18, <1>19, <1>20,
     <1>21, <1>22, <1>23, <1>24
     DEF Run

(* What happens around the runs keeps the invariant.                       *)
THEOREM EnvironmentSafe ==
  ASSUME TypeInv, SafeInv, Environment
  PROVE  SafeInv' /\ Kept
<1>0. Typed
  BY TypeInvTyped
<1>1. ASSUME NEW u \in Unit, LaunchGame(u) PROVE SafeInv' /\ Kept
  BY <1>0, <1>1 DEF LaunchGame, Spend, SafeInv, Typed, Kept
<1>2. ASSUME NEW q \in Path, NEW s \in Sha, SaveGame(q, s) PROVE SafeInv' /\ Kept
  BY <1>0, <1>2 DEF SaveGame, WriteFile, SafeInv, Typed, Kept
<1>3. ASSUME NEW q \in Path, NEW s \in Sha, RestoreFile(q, s) PROVE SafeInv' /\ Kept
  BY <1>0, <1>3 DEF RestoreFile, WriteFile, SafeInv, Typed, Kept
<1>4. ASSUME NEW c \in Card, SwapCard(c) PROVE SafeInv' /\ Kept
  BY <1>0, <1>4 DEF SwapCard, SafeInv, Typed, Kept
<1>5. ASSUME NEW s \in Sha, AgeSeal(s) PROVE SafeInv' /\ Kept
  BY <1>0, <1>5 DEF AgeSeal, SafeInv, Typed, Kept
<1>6. QED  BY <1>1, <1>2, <1>3, <1>4, <1>5 DEF Environment

(* A start, the passing of time and a kill keep the invariant.             *)
THEOREM AskedSafe ==
  ASSUME TypeInv, SafeInv, NEW p \in Proc, Asked(p) \/ Elapse(p) \/ Kill(p)
  PROVE  SafeInv' /\ Kept
<1>0. Typed /\ SafeAt(p)
  BY TypeInvTyped DEF SafeInv
<1> DEFINE Idle == pc[p] = "idle" /\ Goto(p, "locate") /\ UNCHANGED <<lock, age, seen, gone>>
<1>1. CASE ExitGame(p)
  <2>1. pc' = [pc EXCEPT ![p] = "locate"] /\ req'[p].mode = "exit" /\ game' = None
    BY <1>0, <1>1 DEF ExitGame, Start, Typed
  <2>2. SafeAt(p)' /\ Frame(p) /\ UNCHANGED <<stamps, stage>>
    BY <1>0, <1>1, <2>1 DEF ExitGame, Start, Typed
  <2>3. ASSUME NEW r \in Proc \ {p} PROVE SafeAt(r)'
    BY <1>0, <2>1, <2>2 DEF SafeInv
  <2>4. Kept
    BY <1>0, <2>2 DEF Typed, Kept
  <2>5. QED  BY <2>2, <2>3, <2>4 DEF SafeInv
<1>2. CASE StartFull(p)
  <2>1. SafeAt(p)' /\ Frame(p) /\ SharedKept
    BY <1>0, <1>2 DEF StartFull, Start, NoRequest, Typed
  <2>2. QED  BY <1>0, <2>1, OthersSafe
<1>3. ASSUME NEW u \in Unit, StartRescan(p, u) PROVE SafeInv' /\ Kept
  <2>1. SafeAt(p)' /\ Frame(p) /\ SharedKept
    BY <1>0, <1>3 DEF StartRescan, Start, NoRequest, Typed
  <2>2. QED  BY <1>0, <2>1, OthersSafe
<1>4. ASSUME NEW paths \in SUBSET Path, NEW unlink \in BOOLEAN,
             StartRetire(p, paths, unlink)
      PROVE  SafeInv' /\ Kept
  <2>1. SafeAt(p)' /\ Frame(p) /\ SharedKept
    BY <1>0, <1>4 DEF StartRetire, Start, NoRequest, Typed
  <2>2. QED  BY <1>0, <2>1, OthersSafe
<1>5. ASSUME NEW dest \in Path, NEW from \in Path, StartAdopt(p, dest, from)
      PROVE  SafeInv' /\ Kept
  <2>1. SafeAt(p)' /\ Frame(p) /\ SharedKept
    BY <1>0, <1>5 DEF StartAdopt, Start, NoRequest, Typed
  <2>2. QED  BY <1>0, <2>1, OthersSafe
<1>6. CASE Elapse(p)
  <2>1. age'[p] = age[p] + 1 /\ age[p] \in 0..1
    BY <1>0, <1>6 DEF Elapse, Typed
  <2>2. SafeAt(p)' /\ Frame(p) /\ SharedKept
    BY <1>0, <1>6, <2>1 DEF Elapse, Typed
  <2>3. QED  BY <1>0, <2>2, OthersSafe
<1>7. CASE Kill(p)
  <2>1. SafeAt(p)' /\ Frame(p) /\ SharedKept
    BY <1>0, <1>7, EndsSafe DEF Kill
  <2>2. QED  BY <1>0, <2>1, OthersSafe
<1>8. QED  BY <1>1, <1>2, <1>3, <1>4, <1>5, <1>6, <1>7 DEF Asked

(* And so does a step that changes nothing.                                *)
LEMMA StutterSafe ==
  ASSUME TypeInv, SafeInv, UNCHANGED vars
  PROVE  SafeInv' /\ Kept
  BY TypeInvTyped DEF SafeInv, Typed, Kept, vars

(* The types and the invariant together are inductive, and no step sets    *)
(* a line of last-capture back or removes a young seal.                    *)
THEOREM NextSafe ==
  ASSUME TypeInv, SafeInv, [Next]_vars
  PROVE  SafeInv' /\ Kept
  BY EnvironmentSafe, AskedSafe, RunSafe, StutterSafe DEF Next

(* So both hold in every state of every behaviour.                         *)
THEOREM SpecSafe == Spec => [](TypeInv /\ SafeInv)
<1>1. TypeInv /\ SafeInv /\ [Next]_vars => TypeInv' /\ SafeInv'
  BY NextTypes, NextSafe
<1>2. QED  BY <1>1, InitTypes, InitSafe, PTL DEF Spec

-----------------------------------------------------------------------------
(* An exit capture never commits for its session over a later one.         *)
THEOREM NeverOverNewGame == Spec => []NotOverNewGame
<1>1. SafeInv => NotOverNewGame
  BY DEF SafeInv, NotOverNewGame
<1>2. QED  BY <1>1, SpecSafe, PTL

(* No run takes away, or sets back, the line another mode left in          *)
(* last-capture.                                                           *)
THEOREM StampsNeverLost == Spec => StampLinesKept
<1>1. TypeInv /\ SafeInv /\ [Next]_vars => \A m \in Modes : stamps'[m] >= stamps[m]
  BY NextSafe DEF Kept
<1>2. QED  BY <1>1, SpecSafe, PTL DEF StampLinesKept, Spec

(* PL-067: no run ever collects a young seal, whoever placed it.           *)
THEOREM YoungNeverCollected == Spec => YoungSealsKept
<1>1. TypeInv /\ SafeInv /\ [Next]_vars =>
        \A s \in Sha : stage[s] = "young" => stage'[s] # "none"
  BY NextSafe DEF Kept
<1>2. QED  BY <1>1, SpecSafe, PTL DEF YoungSealsKept, Spec

HIDE DEF SafeAt, LockAt, StampAt, GarbageAt, GameAt, Locked, Running, Frame,
         SharedKept, Goto, device, store, loaded, scanned, asked

-----------------------------------------------------------------------------
(***************************************************************************)
(* Two writers are serialised (CommitOnLoaded), for any number of runs:    *)
(* the document a run renames into place was computed from the very one it *)
(* replaces.                                                               *)
(*                                                                         *)
(* The argument.  No two renames share a number, and what a run noted in   *)
(* live0 is a number already given away (LoadedAt).  So while live0 still  *)
(* is the manifest's number, nobody renamed since, and what was read after *)
(* noting it, claims and merge both, is what the manifest holds (ClaimsAt, *)
(* BaseAt).  The check under the lock finds the numbers equal, and they    *)
(* stay equal until the rename, because nobody else holds the lock.        *)
(*                                                                         *)
(* It needs that no manifest is moved aside: that step takes no lock and   *)
(* looks at no number.  A device that comes up without an unreadable one   *)
(* never takes it.  (With one, the property is false: see the README.)     *)
(***************************************************************************)

Loaded == {"claims", "scan", "merge", "lock", "check", "card", "rename"}
Claimed == Loaded \ {"claims"}
Merged == {"lock", "check", "card", "rename"}

ManifestAt ==
  /\ manifest.kind # "unreadable" /\ manifest.stat <= renames
  /\ manifest.stat = 0 => manifest.doc = EmptyDoc

SourceAt(p) == pc[p] # "aside" /\ (pc[p] = "stat" => src[p])

LoadedAt(p) ==
  pc[p] \in Loaded => live0[p] <= renames /\ (~src[p] => live0[p] = 0)

ClaimsAt(p) ==
  pc[p] \in Claimed /\ live0[p] = manifest.stat => claims[p] = manifest.doc.entries

BaseAt(p) ==
  pc[p] \in Merged /\ live0[p] = manifest.stat => base[p] = manifest.doc

CheckedAt(p) == pc[p] \in {"card", "rename"} => live0[p] = manifest.stat

(* A manifest of a newer schema stops every run at its inspection.         *)
NewerAt(p) == pc[p] \in Loaded \cup {"stat"} => manifest.kind # "newer"

CommitAt(p) ==
  /\ SourceAt(p) /\ LoadedAt(p) /\ ClaimsAt(p)
  /\ BaseAt(p) /\ CheckedAt(p) /\ NewerAt(p)

CommitInv == ManifestAt /\ \A p \in Proc : CommitAt(p)

(* A step of p leaves the work of the other runs alone.                    *)
Apart(p) ==
  \A r \in Proc \ {p} :
    /\ pc'[r] = pc[r] /\ src'[r] = src[r] /\ live0'[r] = live0[r]
    /\ claims'[r] = claims[r] /\ base'[r] = base[r]

ManifestKept == UNCHANGED <<manifest, renames>>

(* What no step does: take a manifest that can be read away.               *)
KindKept == manifest.kind \in {"good", "newer"} => manifest'.kind = manifest.kind

USE DEF Loaded, Claimed, Merged, ManifestAt, SourceAt, LoadedAt, ClaimsAt,
        BaseAt, CheckedAt, NewerAt, KindKept, CommitAt, Apart, ManifestKept, Goto, device,
        store, loaded, scanned, asked

(* A step of p that leaves the manifest alone keeps the invariant as       *)
(* soon as it keeps what concerns p.                                       *)
LEMMA OthersCommit ==
  ASSUME CommitInv, NEW p \in Proc, Apart(p), ManifestKept, CommitAt(p)'
  PROVE  CommitInv' /\ KindKept
<1>1. ASSUME NEW r \in Proc \ {p} PROVE CommitAt(r)'
  BY DEF CommitInv
<1>2. QED  BY <1>1 DEF CommitInv

(* The device comes up with nothing loaded.                                *)
LEMMA InitCommit == "unreadable" \notin StartKinds /\ Init => CommitInv
<1> SUFFICES ASSUME "unreadable" \notin StartKinds, Init PROVE CommitInv
  OBVIOUS
<1>1. ManifestAt
  <2>1. PICK k \in StartKinds, claimed \in SUBSET OnDisk :
          /\ manifest =
               [kind |-> k,
                doc |-> [EmptyDoc EXCEPT !.entries =
                          [q \in Path |-> IF q \in claimed /\ k = "good"
                             THEN [sha |-> disk[card][q].sha, mt |-> 0, by |-> 0]
                             ELSE None]],
                stat |-> IF k = "absent" THEN 0 ELSE 1]
    BY DEF Init
  <2>2. k = "absent" => manifest.doc = EmptyDoc
    BY <2>1 DEF EmptyDoc
  <2>3. QED  BY <2>1, <2>2 DEF Init
<1>2. QED  BY <1>1 DEF Init, CommitInv

(* The types the leaves below need, without the rest of TypeInv.           *)
WorkTyped ==
  /\ pc \in [Proc -> Labels] /\ lock \in Proc \cup {None}
  /\ manifest.stat \in Nat /\ renames \in Nat
  /\ DOMAIN src = Proc /\ live0 \in [Proc -> Nat]
  /\ DOMAIN claims = Proc /\ DOMAIN base = Proc

LEMMA TypeInvWork == TypeInv => WorkTyped
  BY DEF TypeInv, TypeOK, StoreOK, RunOK, WorkOK, Manifest, WorkTyped

(* finish(), exec and the end of the process leave the steps of a commit.  *)
LEMMA FinishApart ==
  ASSUME WorkTyped, NEW p \in Proc, NEW code, Finish(p, code)
  PROVE  /\ pc'[p] \in {"stamp", "finlock"}
         /\ \A r \in Proc \ {p} : pc'[r] = pc[r]
  BY DEF Finish, WorkTyped

LEMMA RerunApart ==
  ASSUME WorkTyped, NEW p \in Proc, Rerun(p)
  PROVE  CommitAt(p)' /\ Apart(p)
  BY DEF Rerun, WorkTyped

LEMMA EndsApart ==
  ASSUME WorkTyped, NEW p \in Proc, Ends(p)
  PROVE  CommitAt(p)' /\ Apart(p)
  BY DEF Ends, WorkTyped

(* Every step a run takes by itself keeps the invariant.                   *)
THEOREM RunCommit ==
  ASSUME TypeInv, SafeInv, CommitInv, NEW p \in Proc, Run(p)
  PROVE  CommitInv' /\ KindKept
<1>0. WorkTyped /\ CommitAt(p) /\ ManifestAt
  BY TypeInvWork DEF CommitInv
<1>50. CASE MoveAsideFails(p)
  BY <1>0, <1>50 DEF MoveAsideFails
<1>1. CASE Locate(p)
  <2>1. CommitAt(p)' /\ Apart(p) /\ ManifestKept
    BY <1>0, <1>1, FinishApart DEF Locate, WorkTyped
  <2>2. QED  BY <2>1, OthersCommit
<1>2. CASE Inspect(p)
  <2>1. CommitAt(p)' /\ Apart(p) /\ ManifestKept
    BY <1>0, <1>2, FinishApart DEF Inspect, WorkTyped
  <2>2. QED  BY <2>1, OthersCommit
<1>3. CASE TakeStat(p)
  <2>1. CommitAt(p)' /\ Apart(p) /\ ManifestKept
    BY <1>0, <1>3 DEF TakeStat, WorkTyped
  <2>2. QED  BY <2>1, OthersCommit
<1>4. CASE ReadClaims(p)
  <2>1. CommitAt(p)' /\ Apart(p) /\ ManifestKept
    BY <1>0, <1>4, FinishApart DEF ReadClaims, EmptyDoc, NoFiles, WorkTyped
  <2>2. QED  BY <2>1, OthersCommit
<1>5. CASE Classify(p)
  <2>1. CommitAt(p)' /\ Apart(p) /\ ManifestKept
    BY <1>0, <1>5, FinishApart DEF Classify, WorkTyped
  <2>2. QED  BY <2>1, OthersCommit
<1>6. CASE MergeDoc(p)
  <2>1. CommitAt(p)' /\ Apart(p) /\ ManifestKept
    BY <1>0, <1>6, FinishApart DEF MergeDoc, WorkTyped
  <2>2. QED  BY <2>1, OthersCommit
<1>7. CASE TakeLock(p)
  <2>1. CommitAt(p)' /\ Apart(p) /\ ManifestKept
    BY <1>0, <1>7 DEF TakeLock, WorkTyped
  <2>2. QED  BY <2>1, OthersCommit
<1>8. CASE CheckCard(p)
  <2>1. CommitAt(p)' /\ Apart(p) /\ ManifestKept
    BY <1>0, <1>8, FinishApart DEF CheckCard, WorkTyped
  <2>2. QED  BY <2>1, OthersCommit
<1>9. CASE RenameFails(p)
  <2>1. CommitAt(p)' /\ Apart(p) /\ ManifestKept
    BY <1>0, <1>9, FinishApart DEF RenameFails, Spend, WorkTyped
  <2>2. QED  BY <2>1, OthersCommit
<1>10. CASE ListGarbage(p)
  <2>1. CommitAt(p)' /\ Apart(p) /\ ManifestKept
    BY <1>0, <1>10 DEF ListGarbage, WorkTyped
  <2>2. QED  BY <2>1, OthersCommit
<1>11. CASE RemoveGarbage(p)
  <2>1. CommitAt(p)' /\ Apart(p) /\ ManifestKept
    BY <1>0, <1>11, FinishApart DEF RemoveGarbage, WorkTyped
  <2>2. QED  BY <2>1, OthersCommit
<1>12. CASE FinishLock(p)
  <2>1. CommitAt(p)' /\ Apart(p) /\ ManifestKept
    BY <1>0, <1>12 DEF FinishLock, WorkTyped
  <2>2. QED  BY <2>1, OthersCommit
<1>13. CASE ReadStamps(p)
  <2>1. CommitAt(p)' /\ Apart(p) /\ ManifestKept
    BY <1>0, <1>13 DEF ReadStamps, WorkTyped
  <2>2. QED  BY <2>1, OthersCommit
<1>14. CASE WriteStamps(p)
  <2>1. CommitAt(p)' /\ Apart(p) /\ ManifestKept
    BY <1>0, <1>14 DEF WriteStamps, WorkTyped
  <2>2. QED  BY <2>1, OthersCommit
<1>15. CASE Unlinked(p)
  <2>1. CommitAt(p)' /\ Apart(p) /\ ManifestKept
    BY <1>0, <1>15, EndsApart DEF Unlinked, WorkTyped
  <2>2. QED  BY <2>1, OthersCommit
<1>16. CASE MoveAside(p)
  BY <1>0, <1>16 DEF MoveAside
<1>17. CASE LockBusy(p)
  <2>1. CASE Rerun(p)
    <3>1. CommitAt(p)' /\ Apart(p) /\ ManifestKept
      BY <1>0, <1>17, <2>1, RerunApart DEF LockBusy
    <3>2. QED  BY <3>1, OthersCommit
  <2>2. CASE Goto(p, "tidy") /\ UNCHANGED <<loaded, base>>
    <3>1. CommitAt(p)' /\ Apart(p) /\ ManifestKept
      BY <1>0, <1>17, <2>2 DEF LockBusy, WorkTyped
    <3>2. QED  BY <3>1, OthersCommit
  <2>3. QED  BY <1>17, <2>1, <2>2 DEF LockBusy
<1>18. CASE CheckManifest(p)
  <2>1. CASE Rerun(p)
    <3>1. CommitAt(p)' /\ Apart(p) /\ ManifestKept
      BY <1>0, <1>18, <2>1, RerunApart DEF CheckManifest
    <3>2. QED  BY <3>1, OthersCommit
  <2>2. CASE Finish(p, 1) /\ UNCHANGED <<loaded, base>>
    <3>1. CommitAt(p)' /\ Apart(p) /\ ManifestKept
      BY <1>0, <1>18, <2>2, FinishApart DEF CheckManifest
    <3>2. QED  BY <3>1, OthersCommit
  <2>3. CASE /\ manifest.stat = live0[p] /\ Goto(p, "card")
             /\ UNCHANGED <<loaded, base>>
    <3>1. CommitAt(p)' /\ Apart(p) /\ ManifestKept
      BY <1>0, <1>18, <2>3 DEF CheckManifest, WorkTyped
    <3>2. QED  BY <3>1, OthersCommit
  <2>4. QED  BY <1>18, <2>1, <2>2, <2>3 DEF CheckManifest
<1>19. CASE Tidy(p) \/ Drop(p)
  <2>1. CASE Onward(p)
    <3>1. CommitAt(p)' /\ Apart(p) /\ ManifestKept
      BY <1>0, <1>19, <2>1, Tidied DEF Onward, WorkTyped
    <3>2. QED  BY <3>1, OthersCommit
  <2>2. CASE Ends(p)
    <3>1. CommitAt(p)' /\ Apart(p) /\ ManifestKept
      BY <1>0, <1>19, <2>2, Tidied, EndsApart
    <3>2. QED  BY <3>1, OthersCommit
  <2>3. QED  BY <1>19, <2>1, <2>2, Tidied
<1>20. ASSUME NEW q \in Path, PassOver(p, q) PROVE CommitInv' /\ KindKept
  <2>1. CommitAt(p)' /\ Apart(p) /\ ManifestKept
    BY <1>0, <1>20, FinishApart DEF PassOver, Scanning, WorkTyped
  <2>2. QED  BY <2>1, OthersCommit
<1>21. ASSUME NEW q \in Path, SealFails(p, q) PROVE CommitInv' /\ KindKept
  <2>1. CommitAt(p)' /\ Apart(p) /\ ManifestKept
    BY <1>0, <1>21, FinishApart DEF SealFails, Scanning, Spend, WorkTyped
  <2>2. QED  BY <2>1, OthersCommit
<1>22. ASSUME NEW q \in Path, Seal(p, q) PROVE CommitInv' /\ KindKept
  <2>1. CommitAt(p)' /\ Apart(p) /\ ManifestKept
    BY <1>0, <1>22 DEF Seal, Scanning, WorkTyped
  <2>2. QED  BY <2>1, OthersCommit
<1>23. ASSUME NEW q \in Path, Unlink(p, q) PROVE CommitInv' /\ KindKept
  <2>1. CommitAt(p)' /\ Apart(p) /\ ManifestKept
    BY <1>0, <1>23 DEF Unlink, WorkTyped
  <2>2. QED  BY <2>1, OthersCommit
<1>24. CASE Rename(p)
  <2>1. /\ manifest'.stat = renames + 1 /\ manifest'.kind = "good"
        /\ renames' = renames + 1
    BY <1>24 DEF Rename
  <2>2. ManifestAt'
    BY <1>0, <2>1 DEF WorkTyped
  <2>3. CommitAt(p)'
    BY <1>0, <1>24 DEF Rename, WorkTyped
  <2>4. ASSUME NEW r \in Proc \ {p} PROVE CommitAt(r)'
    <3>1. pc[r] \notin {"check", "card", "rename"}
      BY <1>24 DEF Rename, SafeInv, SafeAt, LockAt, Locked
    <3>2. pc[r] \in Loaded => live0[r] <= renames /\ live0[r] \in Nat
      BY <1>0 DEF CommitInv, WorkTyped
    <3>3. /\ pc'[r] = pc[r]
          /\ UNCHANGED <<src, live0, claims, base>>
      BY <1>0, <1>24 DEF Rename, WorkTyped
    <3>4. CommitAt(r)
      BY DEF CommitInv
    <3>5. QED  BY <1>0, <2>1, <3>1, <3>2, <3>3, <3>4 DEF WorkTyped
  <2>5. KindKept
    BY <1>0, <1>24, <2>1 DEF Rename
  <2>6. QED  BY <2>2, <2>3, <2>4, <2>5 DEF CommitInv
<1>25. QED
  BY <1>50, <1>1, <1>2, <1>3, <1>4, <1>5, <1>6, <1>7, <1>8, <1>9, <1>10, <1>11,
     <1>12, <1>13, <1>14, <1>15, <1>16, <1>17, <1>18, <1>19, <1>20,
     <1>21, <1>22, <1>23, <1>24
     DEF Run

(* The world around the runs touches neither the manifest nor their        *)
(* work.                                                                   *)
THEOREM EnvironmentCommit ==
  ASSUME CommitInv, Environment
  PROVE  CommitInv' /\ KindKept
<1>1. UNCHANGED <<manifest, renames, pc, src, live0, claims, base>>
  BY DEF Environment, LaunchGame, SaveGame, RestoreFile, WriteFile, SwapCard, AgeSeal
<1>2. QED  BY <1>1 DEF CommitInv

(* A run starts, ages or dies with nothing loaded that a commit relies     *)
(* on.                                                                     *)
THEOREM AskedCommit ==
  ASSUME TypeInv, CommitInv, NEW p \in Proc, Asked(p) \/ Elapse(p) \/ Kill(p)
  PROVE  CommitInv' /\ KindKept
<1>0. WorkTyped /\ CommitAt(p)
  BY TypeInvWork DEF CommitInv
<1>1. CASE Asked(p)
  <2>1. Goto(p, "locate") /\ UNCHANGED <<manifest, renames, loaded, base>>
    BY <1>1 DEF Asked, ExitGame, StartFull, StartRescan, StartRetire, StartAdopt,
                Start
  <2>2. CommitAt(p)' /\ Apart(p) /\ ManifestKept
    BY <1>0, <2>1 DEF WorkTyped
  <2>3. QED  BY <2>2, OthersCommit
<1>2. CASE Elapse(p)
  <2>1. UNCHANGED <<manifest, renames, pc, loaded, base>>
    BY <1>2 DEF Elapse
  <2>2. QED  BY <2>1 DEF CommitInv
<1>3. CASE Kill(p)
  <2>1. CommitAt(p)' /\ Apart(p) /\ ManifestKept
    BY <1>0, <1>3, EndsApart DEF Kill
  <2>2. QED  BY <2>1, OthersCommit
<1>4. QED  BY <1>1, <1>2, <1>3

(* Nor does a step that changes nothing.                                   *)
LEMMA StutterCommit ==
  ASSUME CommitInv, UNCHANGED vars
  PROVE  CommitInv' /\ KindKept
  BY DEF CommitInv, vars

(* The invariant is inductive, relative to the types and to SafeInv; and   *)
(* no step takes a readable manifest away.                                 *)
THEOREM NextCommit ==
  ASSUME TypeInv, SafeInv, CommitInv, [Next]_vars
  PROVE  CommitInv' /\ KindKept
  BY EnvironmentCommit, AskedCommit, RunCommit, StutterCommit DEF Next

(* Two writers are serialised: what a run renames into place was computed  *)
(* from the document it replaces.                                          *)
THEOREM WritersSerialised ==
  ASSUME "unreadable" \notin StartKinds
  PROVE  Spec => []CommitOnLoaded
<1>1. Init => CommitInv
  BY InitCommit
<1>2. TypeInv /\ SafeInv /\ CommitInv /\ [Next]_vars => CommitInv'
  BY NextCommit
<1>3. CommitInv => CommitOnLoaded
  BY DEF CommitInv, CommitOnLoaded
<1>4. QED  BY <1>1, <1>2, <1>3, SpecSafe, PTL DEF Spec

(* And a manifest that can be read is never moved aside or lost.           *)
THEOREM ReadableStays ==
  ASSUME "unreadable" \notin StartKinds
  PROVE  Spec => ReadableNeverDropped
<1>1. Init => CommitInv
  BY InitCommit
<1>2. TypeInv /\ SafeInv /\ CommitInv /\ [Next]_vars => CommitInv'
  BY NextCommit
<1>3. TypeInv /\ SafeInv /\ CommitInv /\ [Next]_vars => KindKept
  BY NextCommit
<1>4. QED
  BY <1>1, <1>2, <1>3, SpecSafe, PTL DEF Spec, ReadableNeverDropped, KindKept

HIDE DEF Loaded, Claimed, Merged, ManifestAt, SourceAt, LoadedAt, ClaimsAt,
         BaseAt, CheckedAt, NewerAt, KindKept, CommitAt, Apart, ManifestKept,
         Goto, device, store, loaded, scanned, asked

-----------------------------------------------------------------------------
(***************************************************************************)
(* What is committed was read from one card (OneCardPerCommit), on a       *)
(* device where a card is swapped once while runs are under way.  The look *)
(* before the rename compares the card with the one the run noted at its   *)
(* start: that tells whether a member was sealed from another card only    *)
(* because a card that went has not come back.                             *)
(***************************************************************************)

OneSwap == \A s \in Scenarios : s["swap"] <= 1

Located == {"inspect", "aside", "stat", "claims", "scan", "merge", "lock",
            "check", "card", "rename"}

(* The run has noted its card; one that has gone is gone for good; and a   *)
(* member sealed from another card is seen by the look before the rename.  *)
SwapAt(p) ==
  /\ pc[p] \in Located => ident[p] # None
  /\ ident[p] \notin {None, card} => left["swap"] = 0
  /\ strayed[p] => ident[p] \notin {None, card}
  /\ pc[p] = "rename" => ~strayed[p]

SwapInv == left["swap"] <= 1 /\ \A p \in Proc : SwapAt(p)

(* The types the leaves below need, without the rest of TypeInv.           *)
CardTyped ==
  /\ pc \in [Proc -> Labels] /\ left \in [Events -> Nat] /\ card \in Card
  /\ ident \in [Proc -> Card \cup {None}] /\ strayed \in [Proc -> BOOLEAN]

LEMMA TypeInvCard == TypeInv => CardTyped
  BY DEF TypeInv, TypeOK, DeviceOK, RunOK, WorkOK, CardTyped

(* A step of p leaves the card, and what the other runs noted, alone.      *)
Elsewhere(p) ==
  /\ card' = card /\ left'["swap"] = left["swap"]
  /\ \A r \in Proc \ {p} :
       pc'[r] = pc[r] /\ ident'[r] = ident[r] /\ strayed'[r] = strayed[r]

USE DEF Located, SwapAt, Elsewhere, Goto, device, store, loaded, scanned, asked

LEMMA OthersSwap ==
  ASSUME SwapInv, NEW p \in Proc, Elsewhere(p), SwapAt(p)'
  PROVE  SwapInv'
<1>1. ASSUME NEW r \in Proc \ {p} PROVE SwapAt(r)'
  BY DEF SwapInv
<1>2. QED  BY <1>1 DEF SwapInv

(* The device comes up with no run under way.                              *)
LEMMA InitSwap == OneSwap /\ Init => SwapInv
  BY DEF Init, OneSwap, SwapInv

LEMMA FinishSwap ==
  ASSUME CardTyped, NEW p \in Proc, NEW code, Finish(p, code)
  PROVE  /\ pc'[p] \in {"stamp", "finlock"}
         /\ \A r \in Proc \ {p} : pc'[r] = pc[r]
  BY DEF Finish, CardTyped

LEMMA RerunSwap ==
  ASSUME CardTyped, SwapInv, NEW p \in Proc, Rerun(p), UNCHANGED <<card, left>>
  PROVE  SwapAt(p)' /\ Elsewhere(p)
  BY DEF Rerun, CardTyped, SwapInv

LEMMA EndsSwap ==
  ASSUME CardTyped, NEW p \in Proc, Ends(p), card' = card,
         left'["swap"] = left["swap"]
  PROVE  SwapAt(p)' /\ Elsewhere(p)
  BY DEF Ends, CardTyped

(* Every step a run takes by itself keeps the invariant.                   *)
LEMMA RunSwap ==
  ASSUME TypeInv, SwapInv, NEW p \in Proc, Run(p)
  PROVE  SwapInv'
<1>0. CardTyped /\ SwapAt(p) /\ None \notin Card
  BY TypeInvCard, ProcAssumption DEF SwapInv
<1>1. CASE Locate(p)
  <2>1. SwapAt(p)' /\ Elsewhere(p)
    BY <1>0, <1>1, FinishSwap DEF Locate, CardTyped
  <2>2. QED  BY <2>1, OthersSwap
<1>2. CASE Inspect(p)
  <2>1. SwapAt(p)' /\ Elsewhere(p)
    BY <1>0, <1>2, FinishSwap DEF Inspect, CardTyped
  <2>2. QED  BY <2>1, OthersSwap
<1>3. CASE MoveAside(p)
  <2>1. SwapAt(p)' /\ Elsewhere(p)
    BY <1>0, <1>3, FinishSwap DEF MoveAside, CardTyped
  <2>2. QED  BY <2>1, OthersSwap
<1>4. CASE MoveAsideFails(p)
  <2>1. SwapAt(p)' /\ Elsewhere(p)
    BY <1>0, <1>4 DEF MoveAsideFails, CardTyped, Spend, Events
  <2>2. QED  BY <2>1, OthersSwap
<1>5. CASE TakeStat(p)
  <2>1. SwapAt(p)' /\ Elsewhere(p)
    BY <1>0, <1>5 DEF TakeStat, CardTyped
  <2>2. QED  BY <2>1, OthersSwap
<1>6. CASE ReadClaims(p)
  <2>1. SwapAt(p)' /\ Elsewhere(p)
    BY <1>0, <1>6, FinishSwap DEF ReadClaims, CardTyped
  <2>2. QED  BY <2>1, OthersSwap
<1>7. CASE Classify(p)
  <2>1. SwapAt(p)' /\ Elsewhere(p)
    BY <1>0, <1>7, FinishSwap DEF Classify, CardTyped
  <2>2. QED  BY <2>1, OthersSwap
<1>8. CASE MergeDoc(p)
  <2>1. SwapAt(p)' /\ Elsewhere(p)
    BY <1>0, <1>8, FinishSwap DEF MergeDoc, CardTyped
  <2>2. QED  BY <2>1, OthersSwap
<1>9. CASE TakeLock(p)
  <2>1. SwapAt(p)' /\ Elsewhere(p)
    BY <1>0, <1>9 DEF TakeLock, CardTyped
  <2>2. QED  BY <2>1, OthersSwap
<1>10. CASE CheckCard(p)
  <2>1. SwapAt(p)' /\ Elsewhere(p)
    BY <1>0, <1>10, FinishSwap DEF CheckCard, CardTyped
  <2>2. QED  BY <2>1, OthersSwap
<1>11. CASE Rename(p)
  <2>1. SwapAt(p)' /\ Elsewhere(p)
    BY <1>0, <1>11 DEF Rename, CardTyped
  <2>2. QED  BY <2>1, OthersSwap
<1>12. CASE RenameFails(p)
  <2>1. SwapAt(p)' /\ Elsewhere(p)
    BY <1>0, <1>12, FinishSwap DEF RenameFails, CardTyped, Spend, Events
  <2>2. QED  BY <2>1, OthersSwap
<1>13. CASE ListGarbage(p)
  <2>1. SwapAt(p)' /\ Elsewhere(p)
    BY <1>0, <1>13 DEF ListGarbage, CardTyped
  <2>2. QED  BY <2>1, OthersSwap
<1>14. CASE RemoveGarbage(p)
  <2>1. SwapAt(p)' /\ Elsewhere(p)
    BY <1>0, <1>14, FinishSwap DEF RemoveGarbage, CardTyped
  <2>2. QED  BY <2>1, OthersSwap
<1>15. CASE FinishLock(p)
  <2>1. SwapAt(p)' /\ Elsewhere(p)
    BY <1>0, <1>15 DEF FinishLock, CardTyped
  <2>2. QED  BY <2>1, OthersSwap
<1>16. CASE ReadStamps(p)
  <2>1. SwapAt(p)' /\ Elsewhere(p)
    BY <1>0, <1>16 DEF ReadStamps, CardTyped
  <2>2. QED  BY <2>1, OthersSwap
<1>17. CASE WriteStamps(p)
  <2>1. SwapAt(p)' /\ Elsewhere(p)
    BY <1>0, <1>17 DEF WriteStamps, CardTyped
  <2>2. QED  BY <2>1, OthersSwap
<1>18. CASE Unlinked(p)
  <2>1. SwapAt(p)' /\ Elsewhere(p)
    BY <1>0, <1>18, EndsSwap DEF Unlinked, CardTyped
  <2>2. QED  BY <2>1, OthersSwap
<1>19. ASSUME NEW q \in Path, PassOver(p, q) PROVE SwapInv'
  <2>1. SwapAt(p)' /\ Elsewhere(p)
    BY <1>0, <1>19, FinishSwap DEF PassOver, CardTyped, Scanning
  <2>2. QED  BY <2>1, OthersSwap
<1>20. ASSUME NEW q \in Path, Seal(p, q) PROVE SwapInv'
  <2>1. SwapAt(p)' /\ Elsewhere(p)
    BY <1>0, <1>20 DEF Seal, CardTyped, Scanning
  <2>2. QED  BY <2>1, OthersSwap
<1>21. ASSUME NEW q \in Path, SealFails(p, q) PROVE SwapInv'
  <2>1. SwapAt(p)' /\ Elsewhere(p)
    BY <1>0, <1>21, FinishSwap DEF SealFails, CardTyped, Scanning, Spend, Events
  <2>2. QED  BY <2>1, OthersSwap
<1>22. ASSUME NEW q \in Path, Unlink(p, q) PROVE SwapInv'
  <2>1. SwapAt(p)' /\ Elsewhere(p)
    BY <1>0, <1>22 DEF Unlink, CardTyped
  <2>2. QED  BY <2>1, OthersSwap
<1>23. CASE LockBusy(p)
  <2>1. CASE Rerun(p)
    <3>1. SwapAt(p)' /\ Elsewhere(p)
      BY <1>0, <1>23, <2>1, RerunSwap DEF LockBusy, CardTyped
    <3>2. QED  BY <3>1, OthersSwap
  <2>2. CASE Goto(p, "tidy") /\ UNCHANGED <<asked, scanned>>
    <3>1. SwapAt(p)' /\ Elsewhere(p)
      BY <1>0, <1>23, <2>2 DEF LockBusy, CardTyped
    <3>2. QED  BY <3>1, OthersSwap
  <2>3. QED  BY <1>23, <2>1, <2>2 DEF LockBusy
<1>24. CASE CheckManifest(p)
  <2>1. CASE Rerun(p)
    <3>1. SwapAt(p)' /\ Elsewhere(p)
      BY <1>0, <1>24, <2>1, RerunSwap DEF CheckManifest, CardTyped
    <3>2. QED  BY <3>1, OthersSwap
  <2>2. CASE Finish(p, 1) /\ UNCHANGED <<asked, scanned>>
    <3>1. SwapAt(p)' /\ Elsewhere(p)
      BY <1>0, <1>24, <2>2, FinishSwap DEF CheckManifest, CardTyped
    <3>2. QED  BY <3>1, OthersSwap
  <2>3. CASE Goto(p, "card") /\ UNCHANGED <<asked, scanned>>
    <3>1. SwapAt(p)' /\ Elsewhere(p)
      BY <1>0, <1>24, <2>3 DEF CheckManifest, CardTyped
    <3>2. QED  BY <3>1, OthersSwap
  <2>4. QED  BY <1>24, <2>1, <2>2, <2>3 DEF CheckManifest
<1>25. CASE Tidy(p) \/ Drop(p)
  <2>1. CASE Onward(p)
    <3>1. SwapAt(p)' /\ Elsewhere(p)
      BY <1>0, <1>25, <2>1, Tidied DEF Onward, CardTyped
    <3>2. QED  BY <3>1, OthersSwap
  <2>2. CASE Ends(p)
    <3>1. SwapAt(p)' /\ Elsewhere(p)
      BY <1>0, <1>25, <2>2, Tidied, EndsSwap
    <3>2. QED  BY <3>1, OthersSwap
  <2>3. QED  BY <1>25, <2>1, <2>2, Tidied
<1>26. QED
  BY <1>1, <1>2, <1>3, <1>4, <1>5, <1>6, <1>7, <1>8, <1>9, <1>10, <1>11, <1>12, <1>13, <1>14, <1>15, <1>16, <1>17, <1>18, <1>19, <1>20, <1>21, <1>22, <1>23, <1>24, <1>25 DEF Run

(* A swap is the last one, so it finds every run with the card it noted.   *)
LEMMA EnvironmentSwap ==
  ASSUME TypeInv, SwapInv, Environment
  PROVE  SwapInv'
<1>0. CardTyped
  BY TypeInvCard
<1>1. ASSUME NEW c \in Card, SwapCard(c) PROVE SwapInv'
  <2>1. /\ left["swap"] = 1 /\ left'["swap"] = 0
        /\ UNCHANGED <<pc, ident, strayed>>
    BY <1>0, <1>1 DEF SwapCard, Spend, Events, CardTyped, SwapInv
  <2>2. ASSUME NEW r \in Proc PROVE SwapAt(r)'
    BY <2>1 DEF SwapInv
  <2>3. QED  BY <2>1, <2>2 DEF SwapInv
<1>2. CASE \E u \in Unit : LaunchGame(u)
  <2>1. /\ left'["swap"] = left["swap"]
        /\ UNCHANGED <<card, pc, ident, strayed>>
    BY <1>0, <1>2 DEF LaunchGame, Spend, Events, CardTyped
  <2>2. QED  BY <2>1 DEF SwapInv
<1>3. CASE \E q \in Path, s \in Sha : SaveGame(q, s) \/ RestoreFile(q, s)
  <2>1. /\ left'["swap"] = left["swap"]
        /\ UNCHANGED <<card, pc, ident, strayed>>
    BY <1>0, <1>3 DEF SaveGame, RestoreFile, WriteFile, Spend, Events, CardTyped
  <2>2. QED  BY <2>1 DEF SwapInv
<1>4. CASE \E s \in Sha : AgeSeal(s)
  BY <1>4 DEF AgeSeal, SwapInv
<1>5. QED  BY <1>1, <1>2, <1>3, <1>4 DEF Environment

(* A run starts with no card noted; it ages or dies without reading one.   *)
LEMMA AskedSwap ==
  ASSUME TypeInv, SwapInv, NEW p \in Proc, Asked(p) \/ Elapse(p) \/ Kill(p)
  PROVE  SwapInv'
<1>0. CardTyped /\ SwapAt(p)
  BY TypeInvCard DEF SwapInv
<1>1. CASE Asked(p)
  <2>1. /\ pc' = [pc EXCEPT ![p] = "locate"] /\ left'["swap"] = left["swap"]
        /\ UNCHANGED <<card, ident, strayed>>
    BY <1>0, <1>1 DEF Asked, ExitGame, StartFull, StartRescan, StartRetire,
                      StartAdopt, Start, Spend, Events, CardTyped
  <2>2. SwapAt(p)' /\ Elsewhere(p)
    BY <1>0, <2>1 DEF CardTyped
  <2>3. QED  BY <2>2, OthersSwap
<1>2. CASE Elapse(p)
  BY <1>2 DEF Elapse, SwapInv
<1>3. CASE Kill(p)
  <2>1. Ends(p) /\ card' = card /\ left'["swap"] = left["swap"]
    BY <1>0, <1>3 DEF Kill, Spend, Events, CardTyped
  <2>2. QED  BY <1>0, <2>1, EndsSwap, OthersSwap
<1>4. QED  BY <1>1, <1>2, <1>3

LEMMA NextSwap ==
  ASSUME TypeInv, SwapInv, [Next]_vars
  PROVE  SwapInv'
<1>1. CASE UNCHANGED vars
  BY <1>1 DEF vars, SwapInv
<1>2. QED  BY <1>1, RunSwap, EnvironmentSwap, AskedSwap DEF Next

(* No commit mixes the members of two cards.                               *)
THEOREM CommitsFromOneCard ==
  ASSUME OneSwap
  PROVE  Spec => []OneCardPerCommit
<1>1. Init => SwapInv
  BY InitSwap
<1>2. TypeInv /\ SwapInv /\ [Next]_vars => SwapInv'
  BY NextSwap
<1>3. SwapInv => OneCardPerCommit
  BY DEF SwapInv, OneCardPerCommit
<1>4. QED  BY <1>1, <1>2, <1>3, SpecSafe, PTL DEF Spec

HIDE DEF Located, SwapAt, Elsewhere, Goto, device, store, loaded, scanned, asked

-----------------------------------------------------------------------------
(***************************************************************************)
(* The retired list and the record, run after run.  The rows in the        *)
(* manifest are the newest of what was retired (RowsInv), so that a pass   *)
(* and a copy leave them as they were; and a run renames into place the    *)
(* merge of the very document that is there (CommitInv), so that every     *)
(* rename is one step of SaveRecord.                                       *)
(***************************************************************************)

USE DEF CommitAt

(* The retired list as a run finds it: the newest rows, all of them older  *)
(* than the manifest that holds them.                                      *)
RowsInv ==
  LET rows == manifest.doc.retired
  IN  /\ IsFiniteSet(rows) /\ Distinct(rows) /\ Newest(rows) = rows
      /\ \A r \in rows : r.at < manifest.stat

RowsStay ==
  \A r \in manifest.doc.retired \ manifest'.doc.retired :
     Cardinality({s \in manifest'.doc.retired : Newer(s, r)}) = RetiredMax

(* What a run renames into place is the merge of what is there.            *)
LEMMA RenamedDoc ==
  ASSUME TypeInv, CommitInv, NEW p \in Proc, Rename(p)
  PROVE  LET d == manifest.doc
             ops == OpsOf(req[p], d.entries, sealed[p], present[p])
         IN  /\ manifest'.doc = Merge(req[p], d, d.entries, sealed[p], ops, manifest.stat)
             /\ manifest.stat \in Nat /\ renames \in Nat /\ manifest.stat <= renames
             /\ manifest'.stat = renames + 1
             /\ d \in Doc /\ manifest'.doc \in Doc
             /\ req[p] \in Request /\ sealed[p] \in Local
             /\ AdoptSealed(req[p], sealed[p])
<1>1. /\ pc[p] = "rename" /\ live0[p] = manifest.stat
      /\ base[p] = manifest.doc /\ claims[p] = manifest.doc.entries
  BY DEF Rename, CommitInv, ClaimsAt, BaseAt, CheckedAt, Claimed, Merged, Loaded
<1>2. /\ manifest \in Manifest /\ renames \in Nat /\ manifest.stat <= renames
      /\ req[p] \in Request /\ sealed[p] \in Local
  BY DEF TypeInv, TypeOK, StoreOK, RunOK, WorkOK, CommitInv, ManifestAt
<1>3. AdoptSealed(req[p], sealed[p])
  BY <1>1 DEF TypeInv, AdoptOK, AdoptAt, AdoptSealed
<1>4. manifest'.doc = Candidate(p) /\ manifest'.stat = renames + 1
  BY DEF Rename
<1>5. manifest.doc \in Doc /\ manifest.stat \in Nat /\ manifest.doc.entries \in Entries
  BY <1>2 DEF Manifest, Doc
<1> QED
  BY <1>1, <1>2, <1>3, <1>4, <1>5, MergeType DEF Candidate, Ops

LEMMA RenameRows ==
  ASSUME TypeInv, CommitInv, RowsInv, NEW p \in Proc, Rename(p)
  PROVE  RowsInv' /\ RowsStay
<1> DEFINE d == manifest.doc
           ops == OpsOf(req[p], d.entries, sealed[p], present[p])
           all == d.retired \cup RetiredRows(d.entries, sealed[p], ops, manifest.stat)
<1>1. /\ all \in SUBSET Row /\ IsFiniteSet(all) /\ Distinct(all)
      /\ \A row \in all : row.at \in Nat /\ row.at <= manifest.stat
  BY RenamedDoc, RowsOfRun DEF RowsInv
<1>2. manifest'.doc.retired = Newest(all) /\ manifest'.stat = renames + 1
      /\ manifest.stat \in Nat /\ renames \in Nat /\ manifest.stat <= renames
  <2>1. /\ manifest'.doc = Merge(req[p], d, d.entries, sealed[p], ops, manifest.stat)
        /\ manifest'.stat = renames + 1
        /\ manifest.stat \in Nat /\ renames \in Nat /\ manifest.stat <= renames
    BY RenamedDoc
  <2>2. Merge(req[p], d, d.entries, sealed[p], ops, manifest.stat).retired = Newest(all)
    BY DEF Merge
  <2> QED
    BY <2>1, <2>2
<1> HIDE DEF all
<1>3. /\ Newest(all) \in SUBSET all /\ IsFiniteSet(Newest(all))
      /\ Newest(Newest(all)) = Newest(all)
  BY <1>1, NewestFixed
<1>4. \A r \in Newest(all) : r.at < renames + 1
  BY <1>1, <1>2, <1>3
<1>5. Distinct(Newest(all))
  BY <1>1, <1>3 DEF Distinct
<1>6. RowsInv'
  BY <1>2, <1>3, <1>4, <1>5 DEF RowsInv
<1>7. \A r \in d.retired \ Newest(all) :
        Cardinality({s \in Newest(all) : Newer(s, r)}) = RetiredMax
  BY <1>1, NewestDrops DEF all
<1> QED
  BY <1>2, <1>6, <1>7 DEF RowsStay

(* Nothing but a rename changes the manifest.                              *)
LEMMA OnlyRenames ==
  ASSUME CommitInv, [Next]_vars
  PROVE  manifest' = manifest \/ \E p \in Proc : Rename(p)
<1>1. ASSUME NEW p \in Proc, MoveAside(p) PROVE FALSE
  BY <1>1 DEF MoveAside, CommitInv, SourceAt
<1>2. ASSUME NEW p \in Proc, Run(p), ~Rename(p), ~MoveAside(p)
      PROVE  manifest' = manifest
  BY <1>2 DEF Run, Locate, Inspect, MoveAsideFails, TakeStat, ReadClaims, PassOver,
         Seal, SealFails, Scanning, Classify, MergeDoc, TakeLock, LockBusy,
         CheckManifest, CheckCard, RenameFails, ListGarbage, RemoveGarbage,
         FinishLock, ReadStamps, WriteStamps, Tidy, Drop, Unlink, Unlinked, store
<1>3. ASSUME Environment PROVE manifest' = manifest
  BY <1>3 DEF Environment, LaunchGame, SaveGame, RestoreFile, WriteFile, SwapCard,
              AgeSeal, store
<1>4. ASSUME NEW p \in Proc, Asked(p) \/ Elapse(p) \/ Kill(p)
      PROVE  manifest' = manifest
  BY <1>4 DEF Asked, ExitGame, StartFull, StartRescan, StartRetire, StartAdopt,
              Start, Elapse, Kill, store
<1> QED
  BY <1>1, <1>2, <1>3, <1>4 DEF Next, vars, store

LEMMA InitRows == Init => RowsInv
<1> SUFFICES ASSUME Init PROVE RowsInv
  OBVIOUS
<1>1. manifest.doc.retired = {}
  <2>1. PICK k \in StartKinds, claimed \in SUBSET OnDisk :
          manifest =
            [kind |-> k,
             doc |-> [EmptyDoc EXCEPT !.entries =
                       [q \in Path |-> IF q \in claimed /\ k = "good"
                          THEN [sha |-> disk[card][q].sha, mt |-> 0, by |-> 0]
                          ELSE None]],
             stat |-> IF k = "absent" THEN 0 ELSE 1]
    BY DEF Init
  <2> QED
    BY <2>1 DEF EmptyDoc
<1>2. Newest({}) = {}
  BY DEF Newest
<1> QED
  BY <1>1, <1>2, FS_EmptySet DEF RowsInv, Distinct

LEMMA NextRows ==
  ASSUME TypeInv, CommitInv, RowsInv, [Next]_vars
  PROVE  RowsInv' /\ RowsStay
<1>1. CASE manifest' = manifest
  BY <1>1 DEF RowsInv, RowsStay
<1> QED
  BY <1>1, OnlyRenames, RenameRows

(* Where no manifest is unreadable, all the invariants hold together.      *)
LEMMA RowsHold ==
  ASSUME "unreadable" \notin StartKinds
  PROVE  Spec => [](TypeInv /\ CommitInv /\ RowsInv)
<1>1. Init => CommitInv /\ RowsInv
  BY InitCommit, InitRows
<1>2. TypeInv /\ SafeInv /\ CommitInv /\ RowsInv /\ [Next]_vars
        => CommitInv' /\ RowsInv'
  BY NextCommit, NextRows
<1> QED
  BY <1>1, <1>2, SpecSafe, PTL DEF Spec

(* A row leaves the retired list only for RETIRED_MAX newer ones.          *)
THEOREM RetiredRowsStay ==
  ASSUME "unreadable" \notin StartKinds
  PROVE  Spec => RetiredRowsKept
<1>1. TypeInv /\ CommitInv /\ RowsInv /\ [Next]_vars => RowsStay
  BY NextRows
<1> QED
  BY <1>1, RowsHold, PTL DEF Spec, RetiredRowsKept, RowsStay

-----------------------------------------------------------------------------
(* The newest rows are the same rows to SaveRecord.                        *)
LEMMA SameNewest ==
  ASSUME NEW rows
  PROVE  AsRecord!Newest(rows) = Newest(rows)
<1>1. ASSUME NEW some PROVE AsRecord!Cardinality(some) = Cardinality(some)
  BY Zenon DEF AsRecord!Cardinality, Cardinality
<1>2. \A r, s : AsRecord!Newer(r, s) <=> Newer(r, s)
  BY DEF AsRecord!Newer, Newer
<1>3. ASSUME NEW r \in rows
      PROVE  r \in AsRecord!Newest(rows) <=> r \in Newest(rows)
  <2>1. {s \in rows : AsRecord!Newer(s, r)} = {s \in rows : Newer(s, r)}
    BY <1>2
  <2>2. AsRecord!Cardinality({s \in rows : AsRecord!Newer(s, r)})
          = Cardinality({s \in rows : Newer(s, r)})
    BY <1>1, <2>1
  <2> QED
    BY <2>2 DEF AsRecord!Newest, Newest
<1>4. AsRecord!Newest(rows) \in SUBSET rows /\ Newest(rows) \in SUBSET rows
  BY DEF AsRecord!Newest, Newest
<1> QED
  BY <1>3, <1>4

(* A rename changes the record as SaveRecord says, or leaves it.           *)
LEMMA RenameRecord ==
  ASSUME TypeInv, CommitInv, RowsInv, NEW p \in Proc, Rename(p)
  PROVE  AsRecord!Next \/ UNCHANGED manifest.doc
<1> DEFINE d == manifest.doc
           n == manifest'.doc
           r == req[p]
           s == sealed[p]
           h == present[p]
           at == manifest.stat
           ops == OpsOf(r, d.entries, s, h)
           rows == RetiredRows(d.entries, s, ops, at)
<1>1. /\ n = Merge(r, d, d.entries, s, ops, at) /\ at \in Nat
      /\ d \in Doc /\ n \in Doc /\ r \in Request /\ s \in Local
      /\ AdoptSealed(r, s) /\ (r.mode = "adopt" => r.from \in Path)
  BY RenamedDoc DEF TypeInv, AdoptOK, AdoptAt, Rename
<1>2. /\ IsFiniteSet(d.retired) /\ Distinct(d.retired)
      /\ Newest(d.retired) = d.retired
      /\ \A row \in d.retired : row.at < at
  BY DEF RowsInv
<1>3. n.retired = Newest(d.retired \cup rows)
  BY <1>1 DEF Merge
<1>4. ASSUME ops.retire = {} PROVE n.retired = d.retired
  <2>1. rows = {}
    BY <1>4 DEF RetiredRows
  <2> QED
    BY <1>2, <1>3, <2>1
<1> HIDE DEF d, n, r, s, h, at
<1>5. d = [entries |-> d.entries, retired |-> d.retired]
      /\ n = [entries |-> n.entries, retired |-> n.retired]
  BY <1>1 DEF Doc
<1>6. CASE r.mode \in ScanModes
  <2>1. n.retired = d.retired
    <3>1. ops.retire = {}
      BY <1>6 DEF OpsOf, ScanOps, NoOps
    <3> QED
      BY <1>4, <3>1
  <2>2. n.entries \in Entries
    BY <1>1 DEF Doc
  <2>3. \A q \in Path : PathStep(d, n, q)
    BY <1>1, <1>6, ScanPath
  <2>4. AsRecord!Record
    BY <2>1, <2>2, <2>3
      DEF AsRecord!Record, AsRecord!MovedAway, PathStep, AsRecord!Entries,
          AsRecord!Entry, Entries, Entry, d, n
  <2> QED
    BY <2>4 DEF AsRecord!Next
<1>7. CASE r.mode = "adopt"
  <2>1. n.retired = d.retired
    <3>1. ops.retire = {}
      BY <1>7 DEF OpsOf, AdoptOps, NoOps, ScanModes
    <3> QED
      BY <1>4, <3>1
  <2>2. /\ r.dest \in Path /\ n.entries[r.dest] \in Entry
        /\ n.entries = [d.entries EXCEPT ![r.dest] = n.entries[r.dest]]
    BY <1>1, <1>7, AdoptMerge
  <2>3. n = [d EXCEPT !.entries[r.dest] = n.entries[r.dest]]
    BY <1>5, <2>1, <2>2
  <2>4. AsRecord!Copy(r.dest)
    BY <2>1, <2>2, <2>3 DEF AsRecord!Copy, AsRecord!Entry, Entry, d, n
  <2> QED
    BY <2>2, <2>4 DEF AsRecord!Next
<1>8. CASE r.mode = "retire"
  <2>1. /\ \/ ops.retire = {}
           \/ at \in {row.at : row \in n.retired}
        /\ n.entries = [q \in Path |-> IF q \in ops.retire THEN None
                                      ELSE d.entries[q]]
        /\ ops.retire \in SUBSET Path
    BY <1>1, <1>2, <1>8, RetireMerge
  <2>2. CASE ops.retire = {}
    <3>1. n.entries = d.entries
      <4>1. d.entries \in [Path -> Entry \cup {None}]
        BY <1>1 DEF Doc, Entries
      <4> QED
        BY <2>1, <2>2, <4>1
    <3> QED
      BY <1>4, <1>5, <2>2, <3>1 DEF d, n
  <2>3. CASE ops.retire # {}
    <3> DEFINE sha(q) == IF d.entries[q] # None THEN d.entries[q].sha ELSE s[q].sha
               shas == [q \in ops.retire |-> sha(q)]
    <3>1. shas \in [ops.retire -> Sha]
      <4>1. \A q \in ops.retire :
              /\ q \in Path
              /\ d.entries[q] \in Entry \cup {None} /\ s[q] \in Version \cup {None}
              /\ d.entries[q] # None \/ s[q] # None
        BY <1>1, <1>8, <2>1
          DEF OpsOf, RetireOps, NoOps, ScanModes, Doc, Entries, Local
      <4> QED
        BY <4>1 DEF Entry, Version
    <3>2. rows = {[path |-> q, sha |-> shas[q], at |-> at] : q \in ops.retire}
      BY DEF RetiredRows
    <3>3. \A q \in ops.retire : d.entries[q] # None => shas[q] = d.entries[q].sha
      OBVIOUS
    <3>4. n = [entries |-> [q \in Path |-> IF q \in ops.retire THEN None
                                          ELSE d.entries[q]],
               retired |-> Newest(d.retired \cup rows)]
      BY <1>3, <1>5, <2>1
    <3>5. AsRecord!Newest(d.retired \cup rows) = Newest(d.retired \cup rows)
      BY SameNewest
    <3> HIDE DEF ops, rows, shas
    <3>6. n = [entries |-> [q \in Path |-> IF q \in ops.retire THEN None
                                          ELSE d.entries[q]],
               retired |-> AsRecord!Newest(d.retired \cup
                 {[path |-> q, sha |-> shas[q], at |-> at] : q \in ops.retire})]
      BY <3>2, <3>4, <3>5
    <3>7. /\ at \in {row.at : row \in n.retired} /\ shas \in [ops.retire -> Sha]
          /\ \A q \in ops.retire : d.entries[q] # None => shas[q] = d.entries[q].sha
      BY <2>1, <2>3, <3>1, <3>3
    <3>8. AsRecord!Delete(ops.retire)
      BY <3>6, <3>7, Zenon DEF AsRecord!Delete, d, n
    <3> QED
      BY <2>1, <2>3, <3>8 DEF AsRecord!Next
  <2> QED
    BY <2>2, <2>3
<1> QED
  BY <1>1, <1>6, <1>7, <1>8 DEF Request, Modes, ScanModes

(* The runs beside each other amount to one record changed step by step.   *)
THEOREM RecordImplemented ==
  ASSUME "unreadable" \notin StartKinds
  PROVE  Spec => ImplementsRecord
<1>1. Init => AsRecord!Init
  <2>1. TypeInv => manifest.doc \in Doc
    BY DEF TypeInv, TypeOK, StoreOK, Manifest
  <2> QED
    BY <2>1, InitTypes
      DEF AsRecord!Init, AsRecord!Doc, AsRecord!Entries, AsRecord!Entry,
          AsRecord!Row, Doc, Entries, Entry, Row
<1>2. TypeInv /\ CommitInv /\ RowsInv /\ [Next]_vars
        => [AsRecord!Next]_(manifest.doc)
  BY OnlyRenames, RenameRecord
<1> QED
  BY <1>1, <1>2, RowsHold, PTL DEF Spec, ImplementsRecord, AsRecord!Spec

-----------------------------------------------------------------------------
(***************************************************************************)
(* While runs come one after the other, the contents the entries name are  *)
(* in the stage (EntriesSealed).  What a run sealed, claims and merges is  *)
(* in the stage until its rename, because it alone removes seals; and what *)
(* it then removes is what the manifest it has written does not name.      *)
(* With a run beside it that is false: see the README.                     *)
(***************************************************************************)

Staged(entries) ==
  \A q \in Path : entries[q] # None => stage[entries[q].sha] # "none"

Working == {"scan", "merge", "lock", "check", "card", "rename"}

StagedAt(p) ==
  /\ pc[p] \in {"inspect", "aside", "stat", "claims"} => sealed[p] = NoFiles
  /\ pc[p] \in Working => Staged(claims[p])
  /\ pc[p] \in Working /\ req[p].mode # "retire" => Staged(sealed[p])
  /\ pc[p] \in {"lock", "check", "card", "rename"} => Staged(base[p].entries)
  /\ pc[p] = "gcrm" => gone[p] \cap Referenced = {}

StagedInv == Staged(manifest.doc.entries) /\ \A p \in Proc : StagedAt(p)

(* The types the leaves below need, without the rest of TypeInv.           *)
StageTyped ==
  /\ pc \in [Proc -> Labels] /\ DOMAIN req = Proc
  /\ claims \in [Proc -> Entries] /\ sealed \in [Proc -> Local]
  /\ base \in [Proc -> Doc] /\ gone \in [Proc -> SUBSET Sha]
  /\ stage \in [Sha -> {"none", "young", "old"}]
  /\ manifest.doc \in Doc /\ disk \in [Card -> Local] /\ card \in Card

LEMMA TypeInvStage == TypeInv => StageTyped
BY DEF TypeInv, TypeOK, DeviceOK, StoreOK, RunOK, WorkOK, Manifest, StageTyped

(* A merge names what the document did, or what was sealed.                *)
LEMMA MergeStaged ==
  ASSUME NEW r \in Request, NEW d \in Doc, NEW c \in Entries, NEW s \in Local,
         NEW h, NEW at, AdoptSealed(r, s), Staged(d.entries),
         r.mode # "retire" => Staged(s)
  PROVE  Staged(Merge(r, d, c, s, OpsOf(r, c, s, h), at).entries)
<1> DEFINE ops == OpsOf(r, c, s, h)
           e(q) == MergedEntry(r, d, s, ops, q)
<1>1. ASSUME NEW q \in Path, e(q) # None
      PROVE  stage[e(q).sha] # "none"
  <2>1. ASSUME NEW source, NEW v, Carried(d, source, v) # None
        PROVE  stage[Carried(d, source, v).sha] # "none"
    <3>1. source \in Path /\ d.entries[source] # None
      BY <2>1 DEF Carried
    <3>2. d.entries[source] \in Entry
      BY <3>1 DEF Doc, Entries
    <3>3. Carried(d, source, v).sha = d.entries[source].sha
      BY <3>1, <3>2 DEF Carried, Entry
    <3> QED
      BY <3>1, <3>3 DEF Staged
  <2>2. CASE q \in ops.put
    <3>1. s[q] \in Version /\ s[q] # None
      BY <2>2, OpsOnSealed, NoneAssumption
    <3>2. r.mode # "retire"
      BY <2>2 DEF OpsOf, RetireOps, NoOps, ScanModes
    <3>3. stage[s[q].sha] # "none"
      BY <3>1, <3>2 DEF Staged
    <3>4. \/ e(q) = None \/ e(q).sha = s[q].sha
          \/ \E source, v : e(q) = Carried(d, source, v)
      BY <2>2 DEF MergedEntry
    <3> QED
      BY <1>1, <2>1, <3>3, <3>4
  <2>3. CASE q \notin ops.put
    <3>1. \/ e(q) = None \/ e(q) = d.entries[q]
          \/ \E source, v : e(q) = Carried(d, source, v)
      BY <2>3 DEF MergedEntry
    <3> QED
      BY <1>1, <2>1, <3>1 DEF Staged
  <2> QED
    BY <2>2, <2>3
<1>2. Merge(r, d, c, s, ops, at).entries = [q \in Path |-> e(q)]
  BY DEF Merge
<1> QED
  BY <1>1, <1>2 DEF Staged

LEMMA InitStaged == Init => StagedInv
<1> SUFFICES ASSUME Init PROVE StagedInv
  OBVIOUS
<1>1. Staged(manifest.doc.entries)
  <2>1. PICK k \in StartKinds, claimed \in SUBSET OnDisk :
          /\ manifest =
               [kind |-> k,
                doc |-> [EmptyDoc EXCEPT !.entries =
                          [q \in Path |-> IF q \in claimed /\ k = "good"
                             THEN [sha |-> disk[card][q].sha, mt |-> 0, by |-> 0]
                             ELSE None]],
                stat |-> IF k = "absent" THEN 0 ELSE 1]
          /\ stage = [s \in Sha |-> IF \E q \in claimed : disk[card][q].sha = s
                                      THEN "old" ELSE "none"]
    BY DEF Init
  <2>2. \A q \in claimed : disk[card][q].sha \in Sha
    <3>1. disk[card] \in Local
      BY InitTypes DEF TypeInv, TypeOK, DeviceOK
    <3> QED
      BY <3>1 DEF OnDisk, Local, Version
  <2>3. manifest.doc.entries =
          [q \in Path |-> IF q \in claimed /\ k = "good"
             THEN [sha |-> disk[card][q].sha, mt |-> 0, by |-> 0] ELSE None]
    BY <2>1 DEF EmptyDoc
  <2> SUFFICES ASSUME NEW q \in Path, manifest.doc.entries[q] # None
               PROVE  stage[manifest.doc.entries[q].sha] # "none"
    BY DEF Staged
  <2>4. /\ q \in claimed
        /\ manifest.doc.entries[q].sha = disk[card][q].sha
    BY <2>3
  <2>5. stage[disk[card][q].sha] = "old"
    BY <2>1, <2>2, <2>4
  <2> QED
    BY <2>2, <2>4, <2>5
<1> QED
  BY <1>1 DEF Init, StagedInv, StagedAt, Working

USE DEF Working, StagedAt, Goto, Running, device, store, loaded, scanned, asked

(* What a step of the only run has to keep.                                *)
KeptAlone(p) ==
  /\ StagedAt(p)' /\ Staged(manifest.doc.entries)'
  /\ \A r \in Proc \ {p} : pc'[r] = pc[r]

LEMMA OthersIdle ==
  ASSUME StageTyped, OneRun, NEW p \in Proc, Running(p), KeptAlone(p)
  PROVE  StagedInv'
<1>1. ASSUME NEW r \in Proc \ {p} PROVE StagedAt(r)'
  BY DEF OneRun, KeptAlone
<1> QED
  BY <1>1 DEF KeptAlone, StagedInv

(* What is in the stage stays there.                                       *)
LEMMA StagedStays ==
  ASSUME StageTyped, NEW e \in Entries, Staged(e),
         \A s \in Sha : stage[s] # "none" => stage'[s] # "none"
  PROVE  \A q \in Path : e[q] # None => stage'[e[q].sha] # "none"
<1>1. \A q \in Path : e[q] # None => e[q].sha \in Sha
  BY DEF Entries, Entry
<1> QED
  BY <1>1 DEF Staged

LEMMA FinishStaged ==
  ASSUME StageTyped, NEW p \in Proc, NEW code, Finish(p, code)
  PROVE  /\ pc'[p] \in {"stamp", "finlock"}
         /\ \A r \in Proc \ {p} : pc'[r] = pc[r]
  BY DEF Finish, StageTyped

LEMMA RerunStaged ==
  ASSUME StageTyped, NEW p \in Proc, Rerun(p)
  PROVE  pc'[p] = "locate" /\ \A r \in Proc \ {p} : pc'[r] = pc[r]
  BY DEF Rerun, StageTyped

LEMMA EndsStaged ==
  ASSUME StageTyped, NEW p \in Proc, Ends(p)
  PROVE  pc'[p] = "idle" /\ \A r \in Proc \ {p} : pc'[r] = pc[r]
  BY DEF Ends, StageTyped

(* Every step the run takes by itself keeps the invariant.                 *)
LEMMA RunStaged ==
  ASSUME TypeInv, OneRun, StagedInv, NEW p \in Proc, Run(p)
  PROVE  StagedInv'
<1>0. StageTyped /\ StagedAt(p) /\ Staged(manifest.doc.entries)
  BY TypeInvStage DEF StagedInv
<1>1. ASSUME UNCHANGED <<manifest, stage>>
      PROVE  Staged(manifest.doc.entries)'
  BY <1>0, <1>1 DEF Staged
<1> DEFINE Over(q) == pc'[q] \in {"stamp", "finlock", "mvstamp", "tidy",
                                  "drop", "unlink", "locate", "idle", "gclist"}
<1>2. ASSUME Over(p), UNCHANGED <<manifest, stage>>,
             \A r \in Proc \ {p} : pc'[r] = pc[r], Running(p)
      PROVE  StagedInv'
  BY <1>0, <1>1, <1>2, OthersIdle DEF KeptAlone
<1>3. CASE Locate(p)
  <2>1. CASE Finish(p, IF req[p].mode = "adopt" THEN 3 ELSE 0)
    BY <1>0, <1>2, <1>3, <2>1, FinishStaged DEF Locate
  <2>2. CASE Goto(p, "inspect")
    <3>1. KeptAlone(p)
      BY <1>0, <1>1, <1>3, <2>2 DEF Locate, KeptAlone, StageTyped
    <3> QED
      BY <1>0, <1>3, <3>1, OthersIdle DEF Locate
  <2> QED
    BY <1>3, <2>1, <2>2 DEF Locate
<1>4. CASE Inspect(p)
  <2>1. CASE Finish(p, 1)
    BY <1>0, <1>2, <1>4, <2>1, FinishStaged DEF Inspect
  <2>2. CASE Goto(p, "claims") \/ Goto(p, "stat") \/ Goto(p, "aside")
    <3>1. KeptAlone(p)
      BY <1>0, <1>1, <1>4, <2>2 DEF Inspect, KeptAlone, StageTyped
    <3> QED
      BY <1>0, <1>4, <3>1, OthersIdle DEF Inspect
  <2> QED
    BY <1>4, <2>1, <2>2 DEF Inspect
<1>5. CASE MoveAside(p)
  <2>1. CASE Finish(p, 1) /\ UNCHANGED manifest
    BY <1>0, <1>2, <1>5, <2>1, FinishStaged DEF MoveAside
  <2>2. CASE Goto(p, "stat") /\ manifest'.doc = EmptyDoc
    <3>1. Staged(manifest.doc.entries)'
      BY <2>2 DEF Staged, EmptyDoc
    <3>2. KeptAlone(p)
      BY <1>0, <1>5, <2>2, <3>1 DEF MoveAside, KeptAlone, StageTyped
    <3> QED
      BY <1>0, <1>5, <3>2, OthersIdle DEF MoveAside
  <2> QED
    BY <1>5, <2>1, <2>2 DEF MoveAside
<1>6. CASE MoveAsideFails(p)
  <2>1. KeptAlone(p)
    BY <1>0, <1>1, <1>6 DEF MoveAsideFails, KeptAlone, StageTyped
  <2> QED
    BY <1>0, <1>6, <2>1, OthersIdle DEF MoveAsideFails
<1>7. CASE TakeStat(p)
  <2>1. KeptAlone(p)
    BY <1>0, <1>1, <1>7 DEF TakeStat, KeptAlone, StageTyped
  <2> QED
    BY <1>0, <1>7, <2>1, OthersIdle DEF TakeStat
<1>8. CASE ReadClaims(p)
  <2>1. CASE Finish(p, 1)
    BY <1>0, <1>2, <1>8, <2>1, FinishStaged DEF ReadClaims
  <2>2. CASE Goto(p, "scan")
    <3>1. claims'[p] = IF src[p] THEN manifest.doc.entries ELSE NoFiles
      BY <1>0, <1>8 DEF ReadClaims, StageTyped
    <3>2. Staged(claims[p])'
      BY <1>0, <1>8, <3>1 DEF ReadClaims, Staged, NoFiles
    <3>3. Staged(sealed[p])'
      BY <1>0, <1>8 DEF ReadClaims, Staged, NoFiles
    <3>4. KeptAlone(p)
      BY <1>0, <1>1, <1>8, <2>2, <3>2, <3>3 DEF ReadClaims, KeptAlone, StageTyped
    <3> QED
      BY <1>0, <1>8, <3>4, OthersIdle DEF ReadClaims
  <2> QED
    BY <1>8, <2>1, <2>2 DEF ReadClaims
<1>9. ASSUME UNCHANGED <<manifest, stage, claims, req>>
      PROVE  Staged(claims[p])' <=> Staged(claims[p])
  BY <1>9 DEF Staged
<1>10. ASSUME UNCHANGED <<stage, sealed>>
       PROVE  Staged(sealed[p])' <=> Staged(sealed[p])
  BY <1>10 DEF Staged
<1>11. ASSUME UNCHANGED <<stage, base>>
       PROVE  Staged(base[p].entries)' <=> Staged(base[p].entries)
  BY <1>11 DEF Staged
<1>12. ASSUME NEW q \in Path, PassOver(p, q) PROVE StagedInv'
  <2>1. CASE Finish(p, 0)
    BY <1>0, <1>2, <1>12, <2>1, FinishStaged DEF PassOver, Scanning
  <2>2. CASE UNCHANGED pc
    <3>1. KeptAlone(p)
      BY <1>0, <1>1, <1>9, <1>10, <1>12, <2>2
         DEF PassOver, Scanning, KeptAlone, StageTyped
    <3> QED
      BY <1>0, <1>12, <3>1, OthersIdle DEF PassOver, Scanning
  <2> QED
    BY <1>12, <2>1, <2>2 DEF PassOver
<1>13. ASSUME NEW q \in Path, SealFails(p, q) PROVE StagedInv'
  <2>1. CASE Finish(p, 1)
    BY <1>0, <1>2, <1>13, <2>1, FinishStaged DEF SealFails, Scanning
  <2>2. CASE UNCHANGED pc
    <3>1. KeptAlone(p)
      BY <1>0, <1>1, <1>9, <1>10, <1>13, <2>2
         DEF SealFails, Scanning, KeptAlone, StageTyped
    <3> QED
      BY <1>0, <1>13, <3>1, OthersIdle DEF SealFails, Scanning
  <2> QED
    BY <1>13, <2>1, <2>2 DEF SealFails
<1>14. ASSUME NEW q \in Path, Seal(p, q) PROVE StagedInv'
  <2> DEFINE file == disk[card][q]
  <2>1. /\ pc[p] = "scan" /\ UNCHANGED <<pc, req, claims, manifest>>
        /\ sealed' = [sealed EXCEPT ![p][q] = file]
        /\ stage' = IF NeedsSeal(p, q, file.sha)
                      THEN [stage EXCEPT ![file.sha] = "young"] ELSE stage
    BY <1>14 DEF Seal, Scanning
  <2>2. file \in Version
    BY <1>0, <1>14 DEF Seal, Examined, OnDisk, StageTyped, Local
  <2> HIDE DEF file
  <2>3. \A s \in Sha : stage[s] # "none" => stage'[s] # "none"
    BY <1>0, <2>1 DEF StageTyped
  <2>4. stage'[file.sha] # "none"
    <3>1. file.sha \in Sha
      BY <2>2 DEF Version
    <3>2. CASE NeedsSeal(p, q, file.sha)
      BY <1>0, <2>1, <3>1, <3>2 DEF StageTyped
    <3>3. CASE ~NeedsSeal(p, q, file.sha)
      <4>1. stage[file.sha] # "none"
        BY <1>0, <2>1, <3>3 DEF NeedsSeal, Staged
      <4> QED
        BY <2>1, <3>3, <4>1
    <3> QED
      BY <3>2, <3>3
  <2>5. Staged(manifest.doc.entries)' /\ Staged(claims[p])'
    <3>1. manifest.doc.entries \in Entries /\ claims[p] \in Entries
      BY <1>0 DEF StageTyped, Doc
    <3> QED
      BY <1>0, <2>1, <2>3, <3>1, StagedStays DEF Staged
  <2>6. req[p].mode # "retire" => Staged(sealed[p])'
    <3>1. sealed'[p] = [sealed[p] EXCEPT ![q] = file] /\ sealed[p] \in Local
      BY <1>0, <2>1 DEF StageTyped
    <3>2. \A x \in Path : sealed[p][x] # None => sealed[p][x].sha \in Sha
      BY <3>1 DEF Local, Version
    <3>3. \A x \in Path : sealed'[p][x] = IF x = q THEN file ELSE sealed[p][x]
      BY <3>1 DEF Local
    <3> QED
      BY <1>0, <2>1, <2>3, <2>4, <3>2, <3>3 DEF Staged
  <2>7. KeptAlone(p)
    BY <2>1, <2>5, <2>6 DEF KeptAlone
  <2> QED
    BY <1>0, <2>1, <2>7, OthersIdle
<1>15. CASE Classify(p)
  <2>1. CASE Finish(p, rc[p])
    BY <1>0, <1>2, <1>15, <2>1, FinishStaged DEF Classify
  <2>2. CASE Goto(p, "merge")
    <3>1. sealed'[p] = Hashed(p) /\ UNCHANGED <<stage, manifest, claims, req>>
      BY <1>0, <1>15 DEF Classify, StageTyped
    <3>2. req[p].mode # "retire" => \A x \in Path : Hashed(p)[x] = sealed[p][x]
      BY DEF Hashed
    <3>3. req[p].mode # "retire" => Staged(sealed[p])'
      BY <1>0, <1>15, <3>1, <3>2 DEF Classify, Staged
    <3>4. KeptAlone(p)
      BY <1>0, <1>1, <1>9, <1>15, <2>2, <3>1, <3>3
         DEF Classify, KeptAlone, StageTyped
    <3> QED
      BY <1>0, <1>15, <3>4, OthersIdle DEF Classify
  <2> QED
    BY <1>15, <2>1, <2>2 DEF Classify
<1>16. CASE MergeDoc(p)
  <2>2. CASE \E code : Finish(p, code)
    BY <1>0, <1>2, <1>16, <2>2, FinishStaged DEF MergeDoc
  <2>1. CASE /\ Goto(p, "lock")
             /\ base' = [base EXCEPT ![p] = IF src[p] THEN manifest.doc ELSE EmptyDoc]
    <3>1. base'[p] = IF src[p] THEN manifest.doc ELSE EmptyDoc
      BY <1>0, <2>1 DEF StageTyped
    <3>2. Staged(base[p].entries)'
      BY <1>0, <1>16, <3>1 DEF MergeDoc, Staged, EmptyDoc
    <3>3. KeptAlone(p)
      BY <1>0, <1>1, <1>9, <1>10, <1>16, <2>1, <3>2
         DEF MergeDoc, KeptAlone, StageTyped
    <3> QED
      BY <1>0, <1>16, <3>3, OthersIdle DEF MergeDoc
  <2> QED
    BY <1>16, <2>1, <2>2 DEF MergeDoc
<1>17. CASE TakeLock(p)
  <2>1. CASE Goto(p, "stamp")
    BY <1>0, <1>2, <1>17, <2>1 DEF TakeLock, StageTyped
  <2>2. CASE Goto(p, "check")
    <3>1. KeptAlone(p)
      BY <1>0, <1>1, <1>9, <1>10, <1>11, <1>17, <2>2
         DEF TakeLock, KeptAlone, StageTyped
    <3> QED
      BY <1>0, <1>17, <3>1, OthersIdle DEF TakeLock
  <2> QED
    BY <1>17, <2>1, <2>2 DEF TakeLock
<1>18. CASE LockBusy(p)
  BY <1>0, <1>2, <1>18, RerunStaged DEF LockBusy, StageTyped
<1>19. CASE CheckManifest(p)
  <2>1. CASE Rerun(p) \/ Finish(p, 1)
    BY <1>0, <1>2, <1>19, <2>1, RerunStaged, FinishStaged DEF CheckManifest
  <2>2. CASE /\ Goto(p, "card")
             /\ UNCHANGED <<lock, asked, age, loaded, scanned, base, rc, seen, gone>>
    <3>1. KeptAlone(p)
      BY <1>0, <1>1, <1>9, <1>10, <1>11, <1>19, <2>2
         DEF CheckManifest, KeptAlone, StageTyped
    <3> QED
      BY <1>0, <1>19, <3>1, OthersIdle DEF CheckManifest
  <2> QED
    BY <1>19, <2>1, <2>2 DEF CheckManifest
<1>20. CASE CheckCard(p)
  <2>1. CASE Finish(p, 1)
    BY <1>0, <1>2, <1>20, <2>1, FinishStaged DEF CheckCard
  <2>2. CASE Goto(p, "rename")
    <3>1. KeptAlone(p)
      BY <1>0, <1>1, <1>9, <1>10, <1>11, <1>20, <2>2
         DEF CheckCard, KeptAlone, StageTyped
    <3> QED
      BY <1>0, <1>20, <3>1, OthersIdle DEF CheckCard
  <2> QED
    BY <1>20, <2>1, <2>2 DEF CheckCard
<1>21. CASE Rename(p)
  <2>1. /\ req[p] \in Request /\ base[p] \in Doc /\ claims[p] \in Entries
        /\ sealed[p] \in Local /\ AdoptSealed(req[p], sealed[p])
    BY <1>21 DEF Rename, TypeInv, TypeOK, RunOK, WorkOK, AdoptOK, AdoptAt, AdoptSealed
  <2>2. Staged(base[p].entries) /\ (req[p].mode # "retire" => Staged(sealed[p]))
    BY <1>0, <1>21 DEF Rename
  <2>3. Staged(Candidate(p).entries)
    BY <2>1, <2>2, MergeStaged DEF Candidate, Ops
  <2>4. manifest'.doc = Candidate(p) /\ stage' = stage
    BY <1>21 DEF Rename
  <2>5. Staged(manifest.doc.entries)'
    BY <2>3, <2>4 DEF Staged
  <2>6. KeptAlone(p)
    BY <1>0, <1>21, <2>5 DEF Rename, KeptAlone, StageTyped
  <2> QED
    BY <1>0, <1>21, <2>6, OthersIdle DEF Rename
<1>22. CASE RenameFails(p)
  BY <1>0, <1>2, <1>22, FinishStaged DEF RenameFails
<1>23. CASE ListGarbage(p)
  <2>1. /\ gone'[p] = {s \in Sha : stage[s] = "old" /\ s \notin Referenced}
        /\ UNCHANGED <<manifest, stage>> /\ pc'[p] = "gcrm"
        /\ \A r \in Proc \ {p} : pc'[r] = pc[r]
    BY <1>0, <1>23 DEF ListGarbage, StageTyped
  <2>2. (gone[p] \cap Referenced = {})'
    BY <2>1 DEF Referenced
  <2>3. KeptAlone(p)
    BY <1>1, <2>1, <2>2 DEF KeptAlone
  <2> QED
    BY <1>0, <1>23, <2>3, OthersIdle DEF ListGarbage
<1>24. CASE RemoveGarbage(p)
  <2>1. /\ pc[p] = "gcrm" /\ UNCHANGED manifest /\ gone[p] \cap Referenced = {}
        /\ stage' = [s \in Sha |-> IF s \in gone[p] THEN "none" ELSE stage[s]]
    BY <1>0, <1>24 DEF RemoveGarbage
  <2>2. \A q \in Path : manifest.doc.entries[q] # None =>
          /\ manifest.doc.entries[q].sha \in Referenced
          /\ manifest.doc.entries[q].sha \in Sha
    BY <1>0 DEF Referenced, StageTyped, Doc, Entries, Entry
  <2>3. Staged(manifest.doc.entries)'
    BY <1>0, <2>1, <2>2 DEF Staged
  <2>4. pc'[p] \in {"stamp", "finlock"} /\ \A r \in Proc \ {p} : pc'[r] = pc[r]
    <3>1. Finish(p, rc[p])
      BY <1>24 DEF RemoveGarbage
    <3> QED
      BY <1>0, <3>1, FinishStaged
  <2>5. KeptAlone(p)
    BY <2>3, <2>4 DEF KeptAlone
  <2> QED
    BY <1>0, <2>1, <2>5, OthersIdle
<1>25. CASE FinishLock(p)
  BY <1>0, <1>2, <1>25 DEF FinishLock, StageTyped
<1>26. CASE ReadStamps(p)
  BY <1>0, <1>2, <1>26 DEF ReadStamps, StageTyped
<1>27. CASE WriteStamps(p)
  BY <1>0, <1>2, <1>27 DEF WriteStamps, StageTyped
<1>28. CASE Tidy(p) \/ Drop(p)
  <2>1. CASE Onward(p)
    BY <1>0, <1>2, <1>28, <2>1, Tidied DEF Onward, StageTyped
  <2>2. CASE Ends(p)
    BY <1>0, <1>2, <1>28, <2>2, Tidied, EndsStaged
  <2> QED
    BY <1>28, <2>1, <2>2, Tidied
<1>29. ASSUME NEW q \in Path, Unlink(p, q) PROVE StagedInv'
  BY <1>0, <1>2, <1>29 DEF Unlink
<1>30. CASE Unlinked(p)
  BY <1>0, <1>2, <1>30, EndsStaged DEF Unlinked
<1> QED
  BY <1>3, <1>4, <1>5, <1>6, <1>7, <1>8, <1>12, <1>13, <1>14, <1>15, <1>16,
     <1>17, <1>18, <1>19, <1>20, <1>21, <1>22, <1>23, <1>24, <1>25, <1>26,
     <1>27, <1>28, <1>29, <1>30 DEF Run

(* Around the run: files change, seals age, other runs start.              *)
LEMMA AroundStaged ==
  ASSUME TypeInv, OneRun, StagedInv,
         Environment \/ \E p \in Proc : Asked(p) \/ Elapse(p) \/ Kill(p)
  PROVE  StagedInv'
<1>0. StageTyped
  BY TypeInvStage
<1>1. CASE Environment
  <2>1. /\ UNCHANGED <<manifest, pc, req, claims, sealed, base, gone>>
        /\ \A s \in Sha : stage[s] # "none" => stage'[s] # "none"
    BY <1>0, <1>1 DEF Environment, LaunchGame, SaveGame, RestoreFile, WriteFile,
       SwapCard, AgeSeal, StageTyped
  <2>2. ASSUME NEW p \in Proc PROVE StagedAt(p)'
    <3>1. claims[p] \in Entries /\ base[p].entries \in Entries
          /\ \A x \in Path : sealed[p][x] # None => sealed[p][x].sha \in Sha
      BY <1>0 DEF StageTyped, Doc, Local, Version
    <3>2. Staged(claims[p]) => Staged(claims[p])'
      BY <1>0, <2>1, <3>1, StagedStays DEF Staged
    <3>3. Staged(base[p].entries) => Staged(base[p].entries)'
      BY <1>0, <2>1, <3>1, StagedStays DEF Staged
    <3>4. Staged(sealed[p]) => Staged(sealed[p])'
      BY <2>1, <3>1 DEF Staged
    <3>5. StagedAt(p)
      BY DEF StagedInv
    <3> QED
      BY <2>1, <3>2, <3>3, <3>4, <3>5 DEF Referenced
  <2>3. Staged(manifest.doc.entries)'
    BY <1>0, <2>1, StagedStays DEF StagedInv, Staged, StageTyped, Doc
  <2> QED
    BY <2>2, <2>3 DEF StagedInv
<1>2. ASSUME NEW p \in Proc, Asked(p) PROVE StagedInv'
  <2>1. /\ UNCHANGED <<manifest, stage, claims, sealed, base, gone>>
        /\ pc'[p] = "locate"
        /\ \A r \in Proc \ {p} : pc'[r] = pc[r] /\ req'[r] = req[r]
    BY <1>0, <1>2 DEF Asked, ExitGame, StartFull, StartRescan, StartRetire,
       StartAdopt, Start, StageTyped
  <2>2. ASSUME NEW r \in Proc \ {p} PROVE StagedAt(r)'
    <3>1. StagedAt(r)
      BY DEF StagedInv
    <3> QED
      BY <2>1, <3>1 DEF Staged, Referenced
  <2>3. StagedAt(p)'
    BY <2>1
  <2>4. Staged(manifest.doc.entries)'
    BY <2>1 DEF StagedInv, Staged
  <2> QED
    BY <2>2, <2>3, <2>4 DEF StagedInv
<1>3. ASSUME NEW p \in Proc, Elapse(p) PROVE StagedInv'
  <2>1. UNCHANGED <<manifest, stage, claims, sealed, base, gone, pc, req>>
    BY <1>3 DEF Elapse
  <2> QED
    BY <2>1 DEF StagedInv, Staged, Referenced
<1>4. ASSUME NEW p \in Proc, Kill(p) PROVE StagedInv'
  <2>1. /\ UNCHANGED <<manifest, stage>> /\ Running(p) /\ pc'[p] = "idle"
        /\ \A r \in Proc \ {p} : pc'[r] = pc[r]
    BY <1>0, <1>4, EndsStaged DEF Kill
  <2>2. KeptAlone(p)
    BY <2>1 DEF StagedInv, Staged, KeptAlone
  <2> QED
    BY <1>0, <2>1, <2>2, OthersIdle
<1> QED
  BY <1>1, <1>2, <1>3, <1>4

(* Where no two runs are ever under way together, the GC takes nothing a   *)
(* later run still relies on: every entry's contents are in the stage.     *)
THEOREM SealsSufficeAlone == Spec => EntriesSealedAlone
<1>1. TypeInv /\ OneRun /\ StagedInv /\ [Next]_vars => StagedInv'
  <2> SUFFICES ASSUME TypeInv, OneRun, StagedInv, [Next]_vars PROVE StagedInv'
    OBVIOUS
  <2>1. CASE UNCHANGED vars
    BY <2>1 DEF vars, StagedInv, Staged, Referenced
  <2> QED
    BY <2>1, RunStaged, AroundStaged DEF Next
<1>2. StagedInv => EntriesSealed
  BY DEF StagedInv, Staged, EntriesSealed, Referenced
<1> QED
  BY <1>1, <1>2, InitStaged, SpecSafe, PTL DEF Spec, EntriesSealedAlone

HIDE DEF Working, StagedAt, Goto, Running, device, store, loaded, scanned, asked

-----------------------------------------------------------------------------
(***************************************************************************)
(* A deletion that was recorded and carried out stands (DeletionStands),   *)
(* and a manifest that can be read is never moved aside, while runs come   *)
(* one after the other: whatever the device comes up with, and however     *)
(* they are killed or fail.  Beside each other they break both (see the    *)
(* README), and so does a card that is swapped, whose files the list of    *)
(* deletions says nothing about.                                           *)
(*                                                                         *)
(* The only run under way finds the manifest as it read it (AloneAt): one  *)
(* that moves it aside has just found it unreadable, and one that goes on  *)
(* without it knows that it names nothing.  So a --retire that ends well   *)
(* leaves no entry at a path it was given, whichever way it ended, and no  *)
(* run has sealed a file that was deleted (DeletedAt).                     *)
(***************************************************************************)

AloneAt(p) ==
  /\ pc[p] = "aside" => ~src[p] /\ manifest.kind = "unreadable"
  /\ pc[p] \in Loaded \cup {"stat"} =>
       manifest.kind # "newer" /\ (~src[p] => manifest.doc = EmptyDoc)
  /\ pc[p] \in Claimed => claims[p] = manifest.doc.entries
  /\ pc[p] \in Merged => base[p] = manifest.doc

AloneInv ==
  /\ manifest.kind # "good" => manifest.doc = EmptyDoc
  /\ \A p \in Proc : AloneAt(p)

(* After the last look at the record.                                      *)
Settling == {"gclist", "gcrm", "finlock", "stamp", "mvstamp", "tidy", "drop",
             "unlink"}

DeletedAt(p) ==
  /\ pc[p] \in Located => \A q \in deleted : sealed[p][q] = None
  /\ pc[p] \in Settling /\ rc[p] = 0 =>
       \A q \in req[p].paths : manifest.doc.entries[q] = None
  /\ Running(p) /\ req[p].mode # "retire" => req[p].paths = {}

DeletedInv ==
  /\ left["swap"] = 0
  /\ \A q \in deleted : disk[card][q] = None /\ manifest.doc.entries[q] = None
  /\ \A p \in Proc : DeletedAt(p)

(* The types the leaves below need, without the rest of TypeInv.           *)
AloneTyped ==
  /\ pc \in [Proc -> Labels] /\ DOMAIN src = Proc /\ DOMAIN live0 = Proc
  /\ claims \in [Proc -> Entries] /\ base \in [Proc -> Doc]
  /\ sealed \in [Proc -> Local] /\ req \in [Proc -> Request]
  /\ DOMAIN rc = Proc /\ manifest \in Manifest
  /\ disk \in [Card -> Local] /\ card \in Card /\ deleted \subseteq Path
  /\ left \in [Events -> Nat]

LEMMA TypeInvAlone == TypeInv => AloneTyped
  BY DEF TypeInv, TypeOK, DeviceOK, StoreOK, RunOK, WorkOK, AloneTyped

NoSwap == \A s \in Scenarios : s["swap"] = 0

LEMMA InitAlone == Init => AloneInv
<1> SUFFICES ASSUME Init PROVE AloneInv
  OBVIOUS
<1>1. manifest.kind # "good" => manifest.doc = EmptyDoc
  <2>1. PICK k \in StartKinds, claimed \in SUBSET OnDisk :
          manifest =
            [kind |-> k,
             doc |-> [EmptyDoc EXCEPT !.entries =
                       [q \in Path |-> IF q \in claimed /\ k = "good"
                          THEN [sha |-> disk[card][q].sha, mt |-> 0, by |-> 0]
                          ELSE None]],
             stat |-> IF k = "absent" THEN 0 ELSE 1]
    BY DEF Init
  <2> QED
    BY <2>1 DEF EmptyDoc
<1> QED
  BY <1>1 DEF Init, AloneInv, AloneAt, Loaded, Claimed, Merged

LEMMA InitDeleted == NoSwap /\ Init => DeletedInv
  BY DEF Init, NoSwap, DeletedInv, DeletedAt, Located, Settling, Running

USE DEF AloneAt, DeletedAt, Settling, Located, Loaded, Claimed, Merged, Goto, Running,
        device, store, loaded, scanned, asked

LEMMA FinishAlone ==
  ASSUME AloneTyped, NEW p \in Proc, NEW code, Finish(p, code)
  PROVE  /\ pc'[p] \in {"stamp", "finlock"} /\ rc'[p] = code
         /\ \A r \in Proc \ {p} : pc'[r] = pc[r]
  BY DEF Finish, AloneTyped

LEMMA RerunAlone ==
  ASSUME AloneTyped, NEW p \in Proc, Rerun(p)
  PROVE  /\ pc'[p] = "locate" /\ req' = req
         /\ \A r \in Proc \ {p} : pc'[r] = pc[r]
  BY DEF Rerun, AloneTyped

LEMMA EndsAlone ==
  ASSUME AloneTyped, NEW p \in Proc, Ends(p)
  PROVE  pc'[p] = "idle" /\ \A r \in Proc \ {p} : pc'[r] = pc[r]
  BY DEF Ends, AloneTyped

(* What a step of the only run has to keep of the first part.              *)
AloneKept(p) ==
  /\ AloneAt(p)' /\ (manifest'.kind # "good" => manifest'.doc = EmptyDoc)
  /\ \A r \in Proc \ {p} : pc'[r] = pc[r]
  /\ manifest.kind \in {"good", "newer"} => manifest'.kind = manifest.kind

(* Every step the run takes by itself keeps it.                            *)
LEMMA RunAlone ==
  ASSUME TypeInv, OneRun, AloneInv, NEW p \in Proc, Run(p)
  PROVE  AloneInv' /\ KindKept
<1>0. /\ AloneTyped /\ AloneAt(p)
      /\ manifest.kind # "good" => manifest.doc = EmptyDoc
  BY TypeInvAlone DEF AloneInv
<1>1. Running(p)
  BY DEF Run, Locate, Inspect, MoveAside, MoveAsideFails, TakeStat, ReadClaims,
     PassOver, Seal, SealFails, Scanning, Classify, MergeDoc, TakeLock, LockBusy,
     CheckManifest, CheckCard, Rename, RenameFails, ListGarbage, RemoveGarbage,
     FinishLock, ReadStamps, WriteStamps, Tidy, Drop, Unlink, Unlinked
<1>2. SUFFICES AloneKept(p)
  <2>1. ASSUME AloneKept(p), NEW r \in Proc \ {p} PROVE AloneAt(r)'
    BY <1>1, <2>1 DEF OneRun, AloneKept
  <2> QED
    BY <2>1 DEF AloneKept, AloneInv, KindKept
<1>3. CASE Locate(p)
  BY <1>0, <1>3, FinishAlone DEF Locate, AloneTyped, AloneKept
<1>4. CASE Inspect(p)
  BY <1>0, <1>4, FinishAlone DEF Inspect, AloneTyped, AloneKept
<1>5. CASE MoveAside(p)
  BY <1>0, <1>5, FinishAlone DEF MoveAside, AloneTyped, AloneKept
<1>6. CASE MoveAsideFails(p)
  BY <1>0, <1>6 DEF MoveAsideFails, AloneTyped, AloneKept
<1>7. CASE TakeStat(p)
  BY <1>0, <1>7 DEF TakeStat, AloneTyped, AloneKept
<1>8. CASE ReadClaims(p)
  BY <1>0, <1>8, FinishAlone DEF ReadClaims, AloneTyped, AloneKept, EmptyDoc, NoFiles
<1>9. CASE Classify(p)
  BY <1>0, <1>9, FinishAlone DEF Classify, AloneTyped, AloneKept
<1>10. CASE MergeDoc(p)
  BY <1>0, <1>10, FinishAlone DEF MergeDoc, AloneTyped, AloneKept
<1>11. CASE TakeLock(p)
  BY <1>0, <1>11 DEF TakeLock, AloneTyped, AloneKept
<1>12. CASE LockBusy(p)
  BY <1>0, <1>12, RerunAlone DEF LockBusy, AloneTyped, AloneKept
<1>13. CASE CheckManifest(p)
  BY <1>0, <1>13, RerunAlone, FinishAlone DEF CheckManifest, AloneTyped, AloneKept
<1>14. CASE CheckCard(p)
  BY <1>0, <1>14, FinishAlone DEF CheckCard, AloneTyped, AloneKept
<1>15. CASE Rename(p)
  BY <1>0, <1>15 DEF Rename, AloneTyped, AloneKept
<1>16. CASE RenameFails(p)
  BY <1>0, <1>16, FinishAlone DEF RenameFails, AloneTyped, AloneKept
<1>17. CASE ListGarbage(p)
  BY <1>0, <1>17 DEF ListGarbage, AloneTyped, AloneKept
<1>18. CASE RemoveGarbage(p)
  BY <1>0, <1>18, FinishAlone DEF RemoveGarbage, AloneTyped, AloneKept
<1>19. CASE FinishLock(p)
  BY <1>0, <1>19 DEF FinishLock, AloneTyped, AloneKept
<1>20. CASE ReadStamps(p)
  BY <1>0, <1>20 DEF ReadStamps, AloneTyped, AloneKept
<1>21. CASE WriteStamps(p)
  BY <1>0, <1>21 DEF WriteStamps, AloneTyped, AloneKept
<1>22. CASE Tidy(p) \/ Drop(p)
  BY <1>0, <1>22, Tidied, EndsAlone DEF Onward, AloneTyped, AloneKept
<1>23. CASE Unlinked(p)
  BY <1>0, <1>23, EndsAlone DEF Unlinked, AloneTyped, AloneKept
<1>24. ASSUME NEW q \in Path, PassOver(p, q) PROVE AloneKept(p)
  BY <1>0, <1>24, FinishAlone DEF PassOver, Scanning, AloneTyped, AloneKept
<1>25. ASSUME NEW q \in Path, Seal(p, q) PROVE AloneKept(p)
  BY <1>0, <1>25 DEF Seal, Scanning, AloneTyped, AloneKept
<1>26. ASSUME NEW q \in Path, SealFails(p, q) PROVE AloneKept(p)
  BY <1>0, <1>26, FinishAlone DEF SealFails, Scanning, AloneTyped, AloneKept
<1>27. ASSUME NEW q \in Path, Unlink(p, q) PROVE AloneKept(p)
  BY <1>0, <1>27 DEF Unlink, AloneTyped, AloneKept
<1> QED
  BY <1>3, <1>4, <1>5, <1>6, <1>7, <1>8, <1>9, <1>10, <1>11, <1>12, <1>13,
     <1>14, <1>15, <1>16, <1>17, <1>18, <1>19, <1>20, <1>21, <1>22, <1>23,
     <1>24, <1>25, <1>26, <1>27 DEF Run

(* Around the run nothing it relies on changes.                            *)
LEMMA AroundAlone ==
  ASSUME TypeInv, OneRun, AloneInv,
         Environment \/ \E p \in Proc : Asked(p) \/ Elapse(p) \/ Kill(p)
  PROVE  AloneInv' /\ KindKept
<1>0. AloneTyped
  BY TypeInvAlone
<1>1. CASE Environment
  <2>1. UNCHANGED <<manifest, pc, src, claims, base>>
    BY <1>1 DEF Environment, LaunchGame, SaveGame, RestoreFile, WriteFile, SwapCard,
       AgeSeal
  <2> QED
    BY <2>1 DEF AloneInv, KindKept
<1>2. ASSUME NEW p \in Proc, Asked(p) PROVE AloneInv' /\ KindKept
  <2>1. /\ UNCHANGED <<manifest, src, claims, base>> /\ pc'[p] = "locate"
        /\ \A r \in Proc \ {p} : pc'[r] = pc[r]
    BY <1>0, <1>2 DEF Asked, ExitGame, StartFull, StartRescan, StartRetire,
       StartAdopt, Start, AloneTyped
  <2> QED
    BY <2>1 DEF AloneInv, KindKept
<1>3. ASSUME NEW p \in Proc, Elapse(p) PROVE AloneInv' /\ KindKept
  <2>1. UNCHANGED <<manifest, pc, src, claims, base>>
    BY <1>3 DEF Elapse
  <2> QED
    BY <2>1 DEF AloneInv, KindKept
<1>4. ASSUME NEW p \in Proc, Kill(p) PROVE AloneInv' /\ KindKept
  <2>1. /\ UNCHANGED manifest /\ Running(p) /\ pc'[p] = "idle"
        /\ \A r \in Proc \ {p} : pc'[r] = pc[r]
    BY <1>0, <1>4, EndsAlone DEF Kill
  <2> QED
    BY <2>1 DEF OneRun, AloneInv, KindKept
<1> QED
  BY <1>1, <1>2, <1>3, <1>4

LEMMA NextAlone ==
  ASSUME TypeInv, OneRun, AloneInv, [Next]_vars
  PROVE  AloneInv' /\ KindKept
<1>1. CASE UNCHANGED vars
  BY <1>1 DEF vars, AloneInv, KindKept
<1> QED
  BY <1>1, RunAlone, AroundAlone DEF Next

(* Whatever manifest the device comes up with: while runs come one after   *)
(* the other, one that can be read is never moved aside or lost,           *)
THEOREM ReadableStaysAlone == Spec /\ []OneRun => ReadableNeverDropped
<1>1. TypeInv /\ OneRun /\ AloneInv /\ [Next]_vars => AloneInv' /\ KindKept
  BY NextAlone
<1> QED
  BY <1>1, InitAlone, SpecSafe, PTL DEF Spec, ReadableNeverDropped, KindKept

(* and each commit replaces the document it was computed from.             *)
THEOREM CommitsAlone == Spec /\ []OneRun => []CommitOnLoaded
<1>1. TypeInv /\ OneRun /\ AloneInv /\ [Next]_vars => AloneInv'
  BY NextAlone
<1>2. AloneInv => CommitOnLoaded
  BY DEF AloneInv, CommitOnLoaded
<1> QED
  BY <1>1, <1>2, InitAlone, SpecSafe, PTL DEF Spec

-----------------------------------------------------------------------------
(* A run that is about to remove what was moved aside has found a manifest *)
(* that parses; the only run under way finds it there still.               *)
RecordInv ==
  /\ RecordKept
  /\ \A p \in Proc : pc[p] = "drop" => manifest.kind # "absent"

LEMMA RunRecord ==
  ASSUME TypeInv, OneRun, RecordInv, NEW p \in Proc, Run(p)
  PROVE  RecordInv'
<1>0. /\ AloneTyped /\ RecordKept /\ Running(p)
      /\ \A r \in Proc \ {p} : pc[r] # "drop"
  <2>1. Running(p)
    BY DEF Run, Locate, Inspect, MoveAside, MoveAsideFails, TakeStat, ReadClaims,
       PassOver, Seal, SealFails, Scanning, Classify, MergeDoc, TakeLock, LockBusy,
       CheckManifest, CheckCard, Rename, RenameFails, ListGarbage, RemoveGarbage,
       FinishLock, ReadStamps, WriteStamps, Tidy, Drop, Unlink, Unlinked
  <2> QED
    BY <2>1, TypeInvAlone DEF OneRun, RecordInv
<1>1. CASE MoveAside(p)
  <2>1. /\ pc'[p] # "drop" /\ \A r \in Proc \ {p} : pc'[r] = pc[r]
        /\ \/ UNCHANGED <<manifest, aside>>
           \/ manifest.kind = "absent" /\ aside' = aside
           \/ aside' # {}
    BY <1>0, <1>1, FinishAlone DEF MoveAside, AloneTyped
  <2> QED
    BY <1>0, <2>1 DEF RecordInv, RecordKept
<1>2. CASE Rename(p)
  <2>1. /\ manifest'.kind = "good" /\ pc'[p] # "drop"
        /\ \A r \in Proc \ {p} : pc'[r] = pc[r]
    BY <1>0, <1>2 DEF Rename, AloneTyped
  <2> QED
    BY <1>0, <2>1 DEF RecordInv, RecordKept
<1>3. CASE Tidy(p)
  <2>1. /\ UNCHANGED <<manifest, aside>> /\ (pc'[p] = "drop" => Parses)
        /\ \A r \in Proc \ {p} : pc'[r] = pc[r]
    BY <1>0, <1>3, EndsAlone DEF Tidy, UnlinkOrEnd, AloneTyped
  <2> QED
    BY <1>0, <2>1 DEF RecordInv, RecordKept, Parses
<1>4. CASE Drop(p)
  <2>1. /\ UNCHANGED manifest /\ manifest.kind # "absent"
        /\ pc'[p] # "drop" /\ \A r \in Proc \ {p} : pc'[r] = pc[r]
    BY <1>0, <1>4, EndsAlone DEF Drop, UnlinkOrEnd, AloneTyped, RecordInv
  <2> QED
    BY <1>0, <2>1 DEF RecordInv, RecordKept
<1>5. ASSUME ~MoveAside(p), ~Rename(p), ~Tidy(p), ~Drop(p) PROVE RecordInv'
  <2>1. UNCHANGED <<manifest, aside>>
    BY <1>5 DEF Run, Locate, Inspect, MoveAsideFails, TakeStat, ReadClaims, PassOver,
           Seal, SealFails, Scanning, Classify, MergeDoc, TakeLock, LockBusy,
           CheckManifest, CheckCard, RenameFails, ListGarbage, RemoveGarbage,
           FinishLock, ReadStamps, WriteStamps, Unlink, Unlinked
  <2>2. /\ pc'[p] # "drop" /\ \A r \in Proc \ {p} : pc'[r] = pc[r]
    <3>1. ASSUME NEW q \in Path,
                 PassOver(p, q) \/ Seal(p, q) \/ SealFails(p, q) \/ Unlink(p, q)
          PROVE  /\ pc'[p] # "drop" /\ \A r \in Proc \ {p} : pc'[r] = pc[r]
      BY <1>0, <3>1, FinishAlone DEF PassOver, Seal, SealFails, Scanning, Unlink, AloneTyped
    <3>2. ASSUME LockBusy(p) \/ CheckManifest(p) \/ Unlinked(p)
          PROVE  /\ pc'[p] # "drop" /\ \A r \in Proc \ {p} : pc'[r] = pc[r]
      BY <1>0, <3>2, FinishAlone, RerunAlone, EndsAlone
         DEF LockBusy, CheckManifest, Unlinked, AloneTyped
    <3> QED
      BY <1>0, <1>5, <3>1, <3>2, FinishAlone
         DEF Run, Locate, Inspect, MoveAsideFails, TakeStat, ReadClaims, Classify,
             MergeDoc, TakeLock, CheckCard, RenameFails, ListGarbage, RemoveGarbage,
             FinishLock, ReadStamps, WriteStamps, AloneTyped
  <2> QED
    BY <1>0, <2>1, <2>2 DEF RecordInv, RecordKept
<1> QED
  BY <1>1, <1>2, <1>3, <1>4, <1>5

LEMMA AroundRecord ==
  ASSUME TypeInv, OneRun, RecordInv,
         Environment \/ \E p \in Proc : Asked(p) \/ Elapse(p) \/ Kill(p)
  PROVE  RecordInv'
<1>0. AloneTyped
  BY TypeInvAlone
<1>1. CASE Environment
  <2>1. UNCHANGED <<manifest, aside, pc>>
    BY <1>1 DEF Environment, LaunchGame, SaveGame, RestoreFile, WriteFile, SwapCard,
       AgeSeal
  <2> QED
    BY <2>1 DEF RecordInv, RecordKept
<1>2. ASSUME NEW p \in Proc, Asked(p) \/ Elapse(p) \/ Kill(p) PROVE RecordInv'
  <2>1. /\ UNCHANGED <<manifest, aside>>
        /\ \A r \in Proc : pc'[r] # pc[r] => pc'[r] \in {"locate", "idle"}
    BY <1>0, <1>2, EndsAlone DEF Asked, ExitGame, StartFull, StartRescan, StartRetire,
       StartAdopt, Start, Elapse, Kill, AloneTyped
  <2> QED
    BY <2>1 DEF RecordInv, RecordKept
<1> QED
  BY <1>1, <1>2

(* The record of a device is never lost altogether while runs come one     *)
(* after the other: the copy of a manifest that would not parse goes only  *)
(* once a good one stands in its place (finish), whatever faults and kills *)
(* there are.  A run beside it breaks this: see the README.                *)
THEOREM RecordStaysAlone == Spec => RecordKeptAlone
<1>1. Init => RecordInv
  BY DEF Init, RecordInv, RecordKept
<1>2. TypeInv /\ OneRun /\ RecordInv /\ [Next]_vars => RecordInv'
  <2>1. CASE UNCHANGED vars
    BY <2>1 DEF vars, RecordInv, RecordKept
  <2> QED
    BY <2>1, RunRecord, AroundRecord DEF Next
<1>3. RecordInv => RecordKept
  BY DEF RecordInv
<1> QED
  BY <1>1, <1>2, <1>3, SpecSafe, PTL DEF Spec, RecordKeptAlone

-----------------------------------------------------------------------------
(* Nothing is written where nothing was sealed and nothing was known.      *)
LEMMA MergeLeaves ==
  ASSUME NEW r \in Request, NEW d \in Doc, NEW s \in Local, NEW h, NEW at,
         AdoptSealed(r, s), NEW q \in Path, s[q] = None, d.entries[q] = None
  PROVE  Merge(r, d, d.entries, s, OpsOf(r, d.entries, s, h), at).entries[q] = None
<1> DEFINE ops == OpsOf(r, d.entries, s, h)
<1>1. /\ d.entries \in Entries /\ s[q] \notin Version
  BY NoneAssumption DEF Doc
<1>2. ~(\/ q \in ops.put \/ q \in ops.meta \/ q \in ops.copy \/ ops.move[q] # None)
  BY <1>1, OpsOnSealed
<1>3. MergedEntry(r, d, s, ops, q) = None
  BY <1>2 DEF MergedEntry
<1> QED
  BY <1>3 DEF Merge

(* After a --retire the record names nothing at the paths it was given.    *)
LEMMA RetireLeaves ==
  ASSUME NEW r \in Request, r.mode = "retire", NEW d \in Doc, NEW s \in Local,
         NEW h, NEW at, NEW q \in r.paths
  PROVE  /\ Merge(r, d, d.entries, s, OpsOf(r, d.entries, s, h), at).entries[q] = None
         /\ OpsOf(r, d.entries, s, h) = NoOps => d.entries[q] = None
<1> DEFINE ops == OpsOf(r, d.entries, s, h)
<1>1. /\ ops.put = {} /\ ops.meta = {} /\ ops.copy = {} /\ q \in Path
      /\ ops.move = [x \in Path |-> None]
      /\ ops.retire = {x \in r.paths : d.entries[x] # None \/ s[x] # None}
  BY DEF OpsOf, RetireOps, NoOps, ScanModes, Request
<1>2. MergedEntry(r, d, s, ops, q) = None
  BY <1>1 DEF MergedEntry
<1>3. ops = NoOps => ops.retire = {}
  BY DEF NoOps
<1> QED
  BY <1>1, <1>2, <1>3 DEF Merge

(* What a step of the only run has to keep of the second part.             *)
DeletedKept(p) ==
  /\ DeletedAt(p)' /\ left'["swap"] = left["swap"]
  /\ \A q \in deleted' : disk'[card'][q] = None /\ manifest'.doc.entries[q] = None
  /\ \A r \in Proc \ {p} : pc'[r] = pc[r]

LEMMA RunDeleted ==
  ASSUME TypeInv, OneRun, AloneInv, DeletedInv, NEW p \in Proc, Run(p)
  PROVE  DeletedInv'
<1>0. /\ AloneTyped /\ AloneAt(p) /\ DeletedAt(p) /\ left["swap"] = 0
      /\ \A q \in deleted : disk[card][q] = None /\ manifest.doc.entries[q] = None
      /\ manifest.kind # "good" => manifest.doc = EmptyDoc
  BY TypeInvAlone DEF AloneInv, DeletedInv
<1>1. Running(p)
  BY DEF Run, Locate, Inspect, MoveAside, MoveAsideFails, TakeStat, ReadClaims,
     PassOver, Seal, SealFails, Scanning, Classify, MergeDoc, TakeLock, LockBusy,
     CheckManifest, CheckCard, Rename, RenameFails, ListGarbage, RemoveGarbage,
     FinishLock, ReadStamps, WriteStamps, Tidy, Drop, Unlink, Unlinked
<1>2. SUFFICES DeletedKept(p)
  <2>1. ASSUME DeletedKept(p), NEW r \in Proc \ {p} PROVE DeletedAt(r)'
    BY <1>1, <2>1 DEF OneRun, DeletedKept
  <2> QED
    BY <1>0, <2>1 DEF DeletedKept, DeletedInv
<1> DEFINE d == manifest.doc
           ops(s, h) == OpsOf(req[p], d.entries, s, h)
           merged == Merge(req[p], d, d.entries, sealed[p], ops(sealed[p], present[p]), live0[p])
<1>50. /\ d \in Doc /\ req[p] \in Request /\ sealed[p] \in Local
       /\ req[p].mode # "retire" => req[p].paths = {}
  BY <1>0, <1>1 DEF AloneTyped, Manifest
<1>51. \A q \in req[p].paths : merged.entries[q] = None
  <2>1. ASSUME req[p].mode = "retire", NEW h, NEW at, NEW q \in req[p].paths
        PROVE  Merge(req[p], d, d.entries, sealed[p], OpsOf(req[p], d.entries, sealed[p], h), at)
                 .entries[q] = None
    BY <1>50, <2>1, RetireLeaves
  <2> QED
    BY <1>50, <2>1
<1>52. \A s \in Local : \A h : ops(s, h) = NoOps =>
         \A q \in req[p].paths : manifest.doc.entries[q] = None
  <2>1. CASE req[p].mode = "retire"
    BY <1>50, <2>1, RetireLeaves
  <2> QED
    BY <1>50, <2>1
<1>53. ASSUME NEW q \in Path, AdoptSealed(req[p], sealed[p]), sealed[p][q] = None,
              d.entries[q] = None
       PROVE  merged.entries[q] = None
  <2> SUFFICES ASSUME NEW r \in Request, NEW m \in Doc, NEW s \in Local,
                      NEW h, NEW at, AdoptSealed(r, s), s[q] = None, m.entries[q] = None
               PROVE  Merge(r, m, m.entries, s, OpsOf(r, m.entries, s, h), at).entries[q] = None
    BY <1>50, <1>53
  <2> QED
    BY MergeLeaves
<1> HIDE DEF merged, ops
<1>3. CASE Locate(p)
  BY <1>0, <1>3, FinishAlone DEF Locate, AloneTyped, DeletedKept, NoFiles
<1>4. CASE Inspect(p)
  BY <1>0, <1>4, FinishAlone DEF Inspect, AloneTyped, DeletedKept
<1>5. CASE MoveAside(p)
  BY <1>0, <1>5, FinishAlone DEF MoveAside, AloneTyped, DeletedKept
<1>6. CASE MoveAsideFails(p)
  BY <1>0, <1>6 DEF MoveAsideFails, AloneTyped, DeletedKept, Spend, Events
<1>7. CASE TakeStat(p)
  BY <1>0, <1>7 DEF TakeStat, AloneTyped, DeletedKept
<1>8. CASE ReadClaims(p)
  BY <1>0, <1>8, FinishAlone DEF ReadClaims, AloneTyped, DeletedKept
<1>9. CASE Classify(p)
  <2>1. \A q \in deleted : Hashed(p)[q] = None
    BY <1>0, <1>9 DEF Hashed, AloneTyped, Classify
  <2>2. Hashed(p) \in Local
    BY <1>0 DEF Hashed, AloneTyped, Local
  <2>3. CASE ops(Hashed(p), OnDisk) = NoOps /\ Finish(p, rc[p])
    <3>1. \A q \in req[p].paths : manifest.doc.entries[q] = None
      BY <1>52, <2>2, <2>3
    <3>2. UNCHANGED <<manifest, disk, card, deleted, left, req>>
      BY <1>9 DEF Classify
    <3>3. pc'[p] \notin Located
      BY <1>0, <2>3, FinishAlone
    <3> QED
      BY <1>0, <1>1, <2>3, <3>1, <3>2, <3>3, FinishAlone DEF DeletedKept
  <2>4. CASE ops(Hashed(p), OnDisk) # NoOps /\ Goto(p, "merge")
    BY <1>0, <1>9, <2>1, <2>4 DEF Classify, AloneTyped, DeletedKept
  <2> QED
    BY <1>0, <1>9, <2>3, <2>4 DEF Classify, ops
<1>10. CASE MergeDoc(p)
  <2>1. UNCHANGED <<device, manifest, left, req, sealed>>
    BY <1>10 DEF MergeDoc
  <2>2. CASE src[p] /\ d = merged /\ Finish(p, rc[p])
    BY <1>0, <1>1, <1>51, <2>1, <2>2, FinishAlone DEF DeletedKept
  <2>3. CASE Finish(p, 1)
    BY <1>0, <1>1, <2>1, <2>3, FinishAlone DEF DeletedKept
  <2>4. CASE Goto(p, "lock")
    BY <1>0, <1>10, <2>1, <2>4 DEF MergeDoc, AloneTyped, DeletedKept
  <2>5. src[p] => claims[p] = d.entries
    BY <1>0, <1>10 DEF MergeDoc
  <2>6. CASE src[p] /\ base'[p] = d /\ ~Finish(p, 1) /\ ~Goto(p, "lock")
    <3>1. d = merged /\ Finish(p, rc[p])
      BY <1>0, <1>10, <2>5, <2>6 DEF MergeDoc, Ops, merged, ops, AloneTyped
    <3> QED
      BY <2>2, <2>6, <3>1
  <2> QED
    BY <1>0, <1>10, <2>3, <2>4, <2>6 DEF MergeDoc, AloneTyped
<1>11. CASE TakeLock(p)
  BY <1>0, <1>11 DEF TakeLock, AloneTyped, DeletedKept
<1>12. CASE LockBusy(p)
  BY <1>0, <1>12, RerunAlone DEF LockBusy, AloneTyped, DeletedKept
<1>13. CASE CheckManifest(p)
  BY <1>0, <1>13, RerunAlone, FinishAlone DEF CheckManifest, AloneTyped, DeletedKept
<1>14. CASE CheckCard(p)
  BY <1>0, <1>14, FinishAlone DEF CheckCard, AloneTyped, DeletedKept
<1>15. CASE Rename(p)
  <2>1. manifest'.doc = merged
    BY <1>0, <1>15 DEF Rename, Candidate, Ops, merged, ops
  <2>2. AdoptSealed(req[p], sealed[p])
    BY <1>15 DEF Rename, TypeInv, AdoptOK, AdoptAt, AdoptSealed
  <2>3. \A q \in deleted : q \in Path /\ sealed[p][q] = None
    BY <1>0, <1>15 DEF Rename, AloneTyped
  <2>4. \A q \in deleted : merged.entries[q] = None
    <3> SUFFICES ASSUME NEW q \in deleted PROVE merged.entries[q] = None
      OBVIOUS
    <3>1. d.entries[q] = None
      BY <1>0
    <3> QED
      BY <1>53, <2>2, <2>3, <3>1
  <2>5. /\ UNCHANGED <<device, left, req, rc, sealed>> /\ pc'[p] = "gclist"
        /\ \A r \in Proc \ {p} : pc'[r] = pc[r]
    BY <1>0, <1>15 DEF Rename, AloneTyped
  <2> QED
    BY <1>0, <1>1, <1>51, <2>1, <2>4, <2>5 DEF DeletedKept, AloneTyped
<1>16. CASE RenameFails(p)
  BY <1>0, <1>16, FinishAlone DEF RenameFails, AloneTyped, DeletedKept, Spend, Events
<1>17. CASE ListGarbage(p)
  BY <1>0, <1>17 DEF ListGarbage, AloneTyped, DeletedKept
<1>18. CASE RemoveGarbage(p)
  BY <1>0, <1>18, FinishAlone DEF RemoveGarbage, AloneTyped, DeletedKept
<1>19. CASE FinishLock(p)
  BY <1>0, <1>19 DEF FinishLock, AloneTyped, DeletedKept
<1>20. CASE ReadStamps(p)
  BY <1>0, <1>20 DEF ReadStamps, AloneTyped, DeletedKept
<1>21. CASE WriteStamps(p)
  BY <1>0, <1>21 DEF WriteStamps, AloneTyped, DeletedKept
<1>22. CASE Tidy(p) \/ Drop(p)
  BY <1>0, <1>22, Tidied, EndsAlone DEF Onward, AloneTyped, DeletedKept
<1>23. CASE Unlinked(p)
  BY <1>0, <1>23, EndsAlone DEF Unlinked, AloneTyped, DeletedKept
<1>24. ASSUME NEW q \in Path, PassOver(p, q) PROVE DeletedKept(p)
  BY <1>0, <1>24, FinishAlone DEF PassOver, Scanning, AloneTyped, DeletedKept
<1>25. ASSUME NEW q \in Path, Seal(p, q) PROVE DeletedKept(p)
  BY <1>0, <1>25 DEF Seal, Scanning, Examined, OnDisk, AloneTyped, DeletedKept
<1>26. ASSUME NEW q \in Path, SealFails(p, q) PROVE DeletedKept(p)
  BY <1>0, <1>26, FinishAlone DEF SealFails, Scanning, AloneTyped, DeletedKept, Spend, Events
<1>27. ASSUME NEW q \in Path, Unlink(p, q) PROVE DeletedKept(p)
  <2>1. /\ UNCHANGED <<manifest, card, left, pc, req, rc, sealed>>
        /\ disk' = [disk EXCEPT ![card][q] = None] /\ pc[p] = "unlink"
        /\ deleted' = IF rc[p] = 0 THEN deleted \cup {q} ELSE deleted
        /\ q \in req[p].paths
    BY <1>27 DEF Unlink
  <2>2. disk'[card'] = [disk[card] EXCEPT ![q] = None]
    BY <1>0, <2>1 DEF AloneTyped
  <2>3. \A x \in Path : disk'[card'][x] = IF x = q THEN None ELSE disk[card][x]
    BY <1>0, <2>2 DEF AloneTyped, Local
  <2> QED
    BY <1>0, <2>1, <2>3 DEF AloneTyped, DeletedKept
<1> QED
  BY <1>3, <1>4, <1>5, <1>6, <1>7, <1>8, <1>9, <1>10, <1>11, <1>12, <1>13,
     <1>14, <1>15, <1>16, <1>17, <1>18, <1>19, <1>20, <1>21, <1>22, <1>23,
     <1>24, <1>25, <1>26, <1>27 DEF Run

(* Files are written and removed from the list of deletions; other runs    *)
(* start.                                                                  *)
LEMMA AroundDeleted ==
  ASSUME TypeInv, OneRun, DeletedInv,
         Environment \/ \E p \in Proc : Asked(p) \/ Elapse(p) \/ Kill(p)
  PROVE  DeletedInv'
<1>0. /\ AloneTyped /\ left["swap"] = 0
      /\ \A q \in deleted : disk[card][q] = None /\ manifest.doc.entries[q] = None
  BY TypeInvAlone DEF DeletedInv
<1> DEFINE Written(q) ==
             /\ deleted' = deleted \ {q}
             /\ \A x \in Path \ {q} : disk'[card][x] = disk[card][x]
<1>1. ASSUME UNCHANGED <<manifest, sealed, rc, card, pc, req>>, left'["swap"] = 0,
             UNCHANGED <<disk, deleted>> \/ \E q \in Path : Written(q)
      PROVE  DeletedInv'
  <2>1. \A x \in deleted' : x \in deleted /\ disk'[card'][x] = disk[card][x]
    BY <1>0, <1>1 DEF AloneTyped
  <2> QED
    BY <1>0, <1>1, <2>1 DEF DeletedInv
<1>2. CASE Environment
  <2>1. ASSUME NEW u \in Unit, LaunchGame(u) PROVE DeletedInv'
    BY <1>0, <1>1, <2>1 DEF LaunchGame, Spend, Events, AloneTyped
  <2>2. ASSUME NEW q \in Path, NEW s \in Sha, WriteFile(q, s, game.session) \/ WriteFile(q, s, None),
               left'["swap"] = 0
        PROVE  DeletedInv'
    <3>1. Written(q)
      BY <1>0, <2>2 DEF WriteFile, AloneTyped, Local
    <3> QED
      BY <1>1, <2>2, <3>1 DEF WriteFile
  <2>3. ASSUME NEW q \in Path, NEW s \in Sha, SaveGame(q, s) \/ RestoreFile(q, s)
        PROVE  DeletedInv'
    BY <1>0, <2>2, <2>3 DEF SaveGame, RestoreFile, Spend, Events, AloneTyped
  <2>4. ASSUME NEW c \in Card, SwapCard(c) PROVE DeletedInv'
    BY <1>0, <2>4 DEF SwapCard, Spend, AloneTyped
  <2>5. ASSUME NEW s \in Sha, AgeSeal(s) PROVE DeletedInv'
    BY <1>0, <1>1, <2>5 DEF AgeSeal
  <2> QED
    BY <1>2, <2>1, <2>3, <2>4, <2>5 DEF Environment
<1>3. ASSUME NEW p \in Proc, Asked(p) PROVE DeletedInv'
  <2> DEFINE Started ==
        /\ UNCHANGED <<manifest, sealed, rc, card>> /\ pc'[p] = "locate"
        /\ \A r \in Proc \ {p} : pc'[r] = pc[r] /\ req'[r] = req[r]
        /\ left'["swap"] = 0
        /\ req'[p].mode # "retire" => req'[p].paths = {}
        /\ UNCHANGED <<disk, deleted>> \/ \E q \in Path : Written(q)
  <2>1. Started
    <3>1. CASE ExitGame(p)
      BY <1>0, <3>1 DEF ExitGame, Start, NoRequest, AloneTyped
    <3>2. CASE StartFull(p)
      BY <1>0, <3>2 DEF StartFull, Start, NoRequest, Spend, Events, AloneTyped
    <3>3. ASSUME NEW u \in Unit, StartRescan(p, u) PROVE Started
      BY <1>0, <3>3 DEF StartRescan, Start, NoRequest, Spend, Events, AloneTyped
    <3>4. ASSUME NEW paths \in SUBSET Path, NEW unlink \in BOOLEAN,
                 StartRetire(p, paths, unlink)
          PROVE  Started
      BY <1>0, <3>4 DEF StartRetire, Start, NoRequest, Spend, Events, AloneTyped
    <3>5. ASSUME NEW dest \in Path, NEW from \in Path, StartAdopt(p, dest, from)
          PROVE  Started
      <4>1. Written(dest)
        BY <1>0, <3>5 DEF StartAdopt, Start, AloneTyped, Local
      <4> QED
        BY <1>0, <3>5, <4>1 DEF StartAdopt, Start, NoRequest, Spend, Events, AloneTyped
    <3> QED
      BY <1>3, <3>1, <3>2, <3>3, <3>4, <3>5 DEF Asked
  <2>2. \A x \in deleted' : x \in deleted /\ disk'[card'][x] = disk[card][x]
    BY <1>0, <2>1 DEF AloneTyped
  <2> QED
    BY <1>0, <2>1, <2>2 DEF DeletedInv
<1>4. ASSUME NEW p \in Proc, Elapse(p) PROVE DeletedInv'
  BY <1>0, <1>1, <1>4 DEF Elapse
<1>5. ASSUME NEW p \in Proc, Kill(p) PROVE DeletedInv'
  <2>1. /\ UNCHANGED <<device, manifest>> /\ Running(p) /\ pc'[p] = "idle"
        /\ \A r \in Proc \ {p} : pc'[r] = pc[r]
        /\ left'["swap"] = 0
    BY <1>0, <1>5, EndsAlone DEF Kill, Spend, Events, AloneTyped
  <2> QED
    BY <1>0, <2>1 DEF OneRun, DeletedInv
<1> QED
  BY <1>2, <1>3, <1>4, <1>5

(* A deletion recorded and carried out stands, while runs come one after   *)
(* the other and the card stays in its slot: what is gone is not recorded  *)
(* again, by a run that saw it or by a move.                               *)
THEOREM DeletionsStandAlone ==
  ASSUME NoSwap
  PROVE  Spec => DeletionStandsAlone
<1>1. Init => AloneInv /\ DeletedInv
  BY InitAlone, InitDeleted
<1>2. TypeInv /\ OneRun /\ AloneInv /\ DeletedInv /\ [Next]_vars
        => AloneInv' /\ DeletedInv'
  <2>1. CASE UNCHANGED vars
    BY <2>1 DEF vars, AloneInv, DeletedInv
  <2> QED
    BY <2>1, NextAlone, RunDeleted, AroundDeleted DEF Next
<1>3. DeletedInv => DeletionStands
  BY DEF DeletedInv, DeletionStands
<1> QED
  BY <1>1, <1>2, <1>3, SpecSafe, PTL DEF Spec, DeletionStandsAlone

HIDE DEF AloneAt, DeletedAt, Settling, Located, Loaded, Claimed, Merged, Goto, Running,
         device, store, loaded, scanned, asked

-----------------------------------------------------------------------------
(***************************************************************************)
(* A session is credited with nothing that was there before the device     *)
(* came up, and with nothing a later session wrote (CreditsInTime), for    *)
(* any number of games, restores and copies, of runs beside each other, of *)
(* paths and of contents.  What a restore or a copy wrote before the       *)
(* capture looked is credited like the game's own work: the code promises  *)
(* less than the document of the manifest does (see the README).           *)
(*                                                                         *)
(* It holds of the card the device came up with, whose files are older     *)
(* than the first session; a card is swapped once at most.                 *)
(*                                                                         *)
(* The argument.  Contents nobody wrote since the device came up have the  *)
(* time they came up with, and so has every entry, loaded or live, of the  *)
(* path they are at (Untouched); an exit capture takes a file as new as    *)
(* its session, or one whose time its entry does not have: neither is the  *)
(* case.  A later session starts only after the capture is past 120 s      *)
(* (SafeInv), and then it commits nothing.  And a merge makes up no credit *)
(* but that of the run: the rest it carries with the contents it is for.   *)
(***************************************************************************)

Untouched(v) == v = None \/ v.mt = 0

StartsOld ==
  \A d \in StartDisks : \A q \in Path : Untouched(d[Home][q])

(* Contents written since the device came up; all that was written by a    *)
(* session up to n; and a path whose contents nobody wrote.                *)
Fresh(s) == \E w \in wrote : w[1] = s /\ w[2] # 0
Sessions(n) == \A w \in wrote : w[2] # None => w[2] <= n
Original(q) == disk[Home][q] # None /\ ~Fresh(disk[Home][q].sha)

WorkAt(p) ==
  /\ Running(p) /\ req[p].mode = "exit" /\ age[p] < 2 =>
       /\ req[p].started > 0 /\ Sessions(req[p].started)
       /\ pc[p] \in Located =>
            \A q \in Path : sealed[p][q] # None => Fresh(sealed[p][q].sha)
  /\ \A q \in Path : Original(q) =>
       Untouched(base[p].entries[q]) /\ Untouched(claims[p][q]) /\ Untouched(sealed[p][q])

HomeInv ==
  /\ CreditHonest(manifest.doc) /\ \A p \in Proc : CreditHonest(base[p])
  /\ Sessions(era)
  /\ game # None => game.session \in 1..era /\ Sessions(game.session)
  /\ \A q \in Path : Original(q) =>
       Untouched(disk[Home][q]) /\ Untouched(manifest.doc.entries[q])
  /\ \A p \in Proc : WorkAt(p)

CreditInv ==
  /\ left["swap"] <= 1 /\ (card # Home => left["swap"] = 0)
  /\ card = Home => HomeInv

(* The types the leaves below need, without the rest of TypeInv.           *)
CreditTyped ==
  /\ pc \in [Proc -> Labels] /\ req \in [Proc -> Request] /\ age \in [Proc -> 0..2]
  /\ claims \in [Proc -> Entries] /\ base \in [Proc -> Doc]
  /\ sealed \in [Proc -> Local] /\ manifest \in Manifest
  /\ disk \in [Card -> Local] /\ card \in Card /\ era \in Nat
  /\ wrote \subseteq Sha \X (Nat \cup {None}) /\ left \in [Events -> Nat]
  /\ game \in {None} \cup [unit : Unit, session : Nat]

LEMMA TypeInvCredit == TypeInv => CreditTyped
  BY DEF TypeInv, TypeOK, DeviceOK, StoreOK, RunOK, WorkOK, CreditTyped

LEMMA InitCredit ==
  ASSUME OneSwap, StartsOld, Init
  PROVE  CreditInv
<1>1. \A p \in Proc : base[p] = EmptyDoc /\ claims[p] = NoFiles /\ sealed[p] = NoFiles
                      /\ ~Running(p)
  BY DEF Init, Running
<1>2. \A q \in Path : manifest.doc.entries[q] # None =>
        manifest.doc.entries[q].mt = 0 /\ manifest.doc.entries[q].by = 0
  <2>1. PICK k \in StartKinds, claimed \in SUBSET OnDisk :
          manifest =
            [kind |-> k,
             doc |-> [EmptyDoc EXCEPT !.entries =
                       [q \in Path |-> IF q \in claimed /\ k = "good"
                          THEN [sha |-> disk[card][q].sha, mt |-> 0, by |-> 0]
                          ELSE None]],
             stat |-> IF k = "absent" THEN 0 ELSE 1]
    BY DEF Init
  <2> QED
    BY <2>1 DEF EmptyDoc
<1>3. /\ game = None /\ left["swap"] <= 1 /\ card = Home
      /\ \A q \in Path : Untouched(disk[Home][q])
  BY DEF Init, StartsOld, OneSwap
<1>4. Sessions(era)
  <2>1. \A w \in wrote : w[2] = 0
    BY DEF Init
  <2> QED
    BY <2>1 DEF Init, Sessions
<1>5. CreditHonest(manifest.doc) /\ \A p \in Proc : CreditHonest(base[p])
  BY <1>1, <1>2 DEF CreditHonest, EmptyDoc
<1>6. \A p \in Proc : WorkAt(p)
  BY <1>1 DEF WorkAt, Untouched, EmptyDoc, NoFiles
<1> QED
  BY <1>2, <1>3, <1>4, <1>5, <1>6 DEF CreditInv, HomeInv, Untouched

(* What a merge leaves at a path was there, or is what was sealed, with    *)
(* the run's own credit or that of an entry for the same contents.         *)
LEMMA MergeCredits ==
  ASSUME NEW r \in Request, NEW d \in Doc, NEW c \in Entries, NEW s \in Local,
         NEW h, NEW at, AdoptSealed(r, s), NEW q \in Path, NEW e,
         e = Merge(r, d, c, s, OpsOf(r, c, s, h), at).entries[q], e # None
  PROVE  \/ e = d.entries[q]
         \/ /\ s[q] # None /\ e.mt = s[q].mt
            /\ \/ e.sha = s[q].sha /\ e.by = Provenance(r)
               \/ \E x \in Path : /\ d.entries[x] # None
                                  /\ e.sha = d.entries[x].sha /\ e.by = d.entries[x].by
<1> DEFINE ops == OpsOf(r, c, s, h)
<1>0. e = MergedEntry(r, d, s, ops, q)
  BY DEF Merge
<1>1. \/ q \in ops.put \/ q \in ops.meta \/ q \in ops.copy \/ ops.move[q] # None
      \/ e = d.entries[q]
  BY <1>0 DEF MergedEntry
<1>2. \/ e = [sha |-> s[q].sha, mt |-> s[q].mt, by |-> Provenance(r)]
      \/ e = d.entries[q]
      \/ \E x : e = Carried(d, x, s[q])
  BY <1>0 DEF MergedEntry
<1>3. CASE e = d.entries[q]
  BY <1>3
<1>4. CASE e # d.entries[q]
  <2>1. s[q] # None
    BY <1>1, <1>4, OpsOnSealed, NoneAssumption
  <2>2. CASE e = [sha |-> s[q].sha, mt |-> s[q].mt, by |-> Provenance(r)]
    BY <2>1, <2>2
  <2>3. ASSUME NEW x, e = Carried(d, x, s[q])
        PROVE  /\ x \in Path /\ d.entries[x] # None
               /\ e = [d.entries[x] EXCEPT !.mt = s[q].mt]
    BY <2>3 DEF Carried
  <2>4. ASSUME NEW x \in Path, d.entries[x] # None,
               e = [d.entries[x] EXCEPT !.mt = s[q].mt]
        PROVE  e.mt = s[q].mt /\ e.sha = d.entries[x].sha /\ e.by = d.entries[x].by
    <3>1. d.entries[x] \in Entry
      BY <2>4 DEF Doc, Entries
    <3> QED
      BY <2>4, <3>1 DEF Entry
  <2> QED
    BY <1>2, <1>4, <2>1, <2>2, <2>3, <2>4
<1> QED
  BY <1>3, <1>4

(* What a step of one run may change, as far as credits are concerned.     *)
Traces(p) ==
  /\ UNCHANGED <<card, era, game, wrote>>
  /\ left'["swap"] = left["swap"]
  /\ \A q \in Path : disk'[card][q] \in {disk[card][q], None}
  /\ \/ manifest'.doc = manifest.doc \/ manifest'.doc = EmptyDoc
     \/ manifest'.doc = Candidate(p) /\ pc[p] = "rename"
  /\ base'[p] \in {base[p], EmptyDoc, manifest.doc}
  /\ claims'[p] \in {claims[p], NoFiles, manifest.doc.entries}
  /\ \A q \in Path : sealed'[p][q] \in {sealed[p][q], None, disk[card][q]}
  /\ Running(p)
  /\ pc'[p] # "idle" => req'[p] = req[p] /\ (age'[p] < 2 => age[p] < 2)
  /\ pc'[p] \in Located /\ req[p].mode = "exit" =>
       \A q \in Path : sealed'[p][q] # None =>
         \/ pc[p] \in Located /\ sealed'[p][q] = sealed[p][q]
         \/ sealed'[p][q] = disk[card][q] /\ Changed(req[p], claims[p], q, disk[card][q])
  /\ \A r \in Proc \ {p} :
       /\ pc'[r] = pc[r] /\ req'[r] = req[r] /\ age'[r] = age[r]
       /\ sealed'[r] = sealed[r] /\ claims'[r] = claims[r] /\ base'[r] = base[r]

USE DEF Traces, Located, Goto, Running, device, store, loaded, scanned, asked

LEMMA FinishCredit ==
  ASSUME CreditTyped, NEW p \in Proc, NEW code, Finish(p, code)
  PROVE  /\ pc'[p] \in {"stamp", "finlock"} /\ \A r \in Proc \ {p} : pc'[r] = pc[r]
  BY DEF Finish, CreditTyped

LEMMA RerunCredit ==
  ASSUME CreditTyped, NEW p \in Proc, Rerun(p)
  PROVE  /\ pc'[p] = "locate" /\ UNCHANGED <<req, age, sealed, claims, base>>
         /\ \A r \in Proc \ {p} : pc'[r] = pc[r]
  BY DEF Rerun, CreditTyped

LEMMA EndsCredit ==
  ASSUME CreditTyped, NEW p \in Proc, Ends(p)
  PROVE  /\ pc'[p] = "idle" /\ sealed'[p] = NoFiles /\ claims'[p] = NoFiles
         /\ base'[p] = EmptyDoc
         /\ \A r \in Proc \ {p} :
              /\ pc'[r] = pc[r] /\ req'[r] = req[r] /\ age'[r] = age[r]
              /\ sealed'[r] = sealed[r] /\ claims'[r] = claims[r] /\ base'[r] = base[r]
  BY DEF Ends, CreditTyped

LEMMA RunTraces ==
  ASSUME TypeInv, NEW p \in Proc, Run(p) \/ Elapse(p) \/ Kill(p)
  PROVE  Traces(p)
<1>0. CreditTyped
  BY TypeInvCredit

<1>1. CASE Locate(p)
  BY <1>0, <1>1, FinishCredit DEF Locate, CreditTyped, NoFiles
<1>2. CASE Inspect(p)
  BY <1>0, <1>2, FinishCredit DEF Inspect, CreditTyped
<1>3. CASE MoveAside(p)
  BY <1>0, <1>3, FinishCredit DEF MoveAside, CreditTyped
<1>4. CASE MoveAsideFails(p)
  BY <1>0, <1>4 DEF MoveAsideFails, CreditTyped, Spend, Events
<1>5. CASE TakeStat(p)
  BY <1>0, <1>5 DEF TakeStat, CreditTyped
<1>6. CASE ReadClaims(p)
  BY <1>0, <1>6, FinishCredit DEF ReadClaims, CreditTyped
<1>7. CASE Classify(p)
  <2>1. /\ UNCHANGED <<device, left, store, req, age, loaded, base>> /\ pc[p] = "scan"
        /\ sealed' = [sealed EXCEPT ![p] = Hashed(p)]
        /\ pc'[p] # "idle" /\ \A r \in Proc \ {p} : pc'[r] = pc[r]
    BY <1>0, <1>7, FinishCredit DEF Classify, CreditTyped
  <2>2. \A q \in Path : /\ Hashed(p)[q] \in {sealed[p][q], disk[card][q]}
                        /\ req[p].mode = "exit" => Hashed(p)[q] = sealed[p][q]
    BY DEF Hashed
  <2> QED
    BY <1>0, <2>1, <2>2 DEF CreditTyped
<1>8. CASE MergeDoc(p)
  BY <1>0, <1>8, FinishCredit DEF MergeDoc, CreditTyped
<1>9. CASE TakeLock(p)
  BY <1>0, <1>9 DEF TakeLock, CreditTyped
<1>10. CASE LockBusy(p)
  BY <1>0, <1>10, RerunCredit DEF LockBusy, CreditTyped
<1>11. CASE CheckManifest(p)
  BY <1>0, <1>11, FinishCredit, RerunCredit DEF CheckManifest, CreditTyped
<1>12. CASE CheckCard(p)
  BY <1>0, <1>12, FinishCredit DEF CheckCard, CreditTyped
<1>13. CASE Rename(p)
  BY <1>0, <1>13 DEF Rename, CreditTyped
<1>14. CASE RenameFails(p)
  BY <1>0, <1>14, FinishCredit DEF RenameFails, CreditTyped, Spend, Events
<1>15. CASE ListGarbage(p)
  BY <1>0, <1>15 DEF ListGarbage, CreditTyped
<1>16. CASE RemoveGarbage(p)
  BY <1>0, <1>16, FinishCredit DEF RemoveGarbage, CreditTyped
<1>17. CASE FinishLock(p)
  BY <1>0, <1>17 DEF FinishLock, CreditTyped
<1>18. CASE ReadStamps(p)
  BY <1>0, <1>18 DEF ReadStamps, CreditTyped
<1>19. CASE WriteStamps(p)
  BY <1>0, <1>19 DEF WriteStamps, CreditTyped
<1>20. CASE Tidy(p) \/ Drop(p)
  BY <1>0, <1>20, Tidied, EndsCredit DEF Onward, CreditTyped, NoFiles
<1>21. CASE Unlinked(p)
  BY <1>0, <1>21, EndsCredit DEF Unlinked, CreditTyped, NoFiles
<1>22. CASE Elapse(p)
  BY <1>0, <1>22 DEF Elapse, CreditTyped
<1>23. CASE Kill(p)
  BY <1>0, <1>23, EndsCredit DEF Kill, CreditTyped, Spend, Events, NoFiles
<1>24. ASSUME NEW q \in Path, PassOver(p, q) PROVE Traces(p)
  BY <1>0, <1>24, FinishCredit DEF PassOver, CreditTyped, Scanning
<1>25. ASSUME NEW q \in Path, Seal(p, q) PROVE Traces(p)
  <2>1. /\ UNCHANGED <<device, left, manifest, req, age, loaded, base, pc>> /\ pc[p] = "scan"
        /\ sealed' = [sealed EXCEPT ![p][q] = disk[card][q]]
        /\ req[p].mode = "exit" => Changed(req[p], claims[p], q, disk[card][q])
    BY <1>0, <1>25 DEF Seal, Scanning, Examined
  <2>2. /\ \A x \in Path : sealed'[p][x] = IF x = q THEN disk[card][q] ELSE sealed[p][x]
        /\ \A r \in Proc \ {p} : sealed'[r] = sealed[r]
    BY <1>0, <2>1 DEF CreditTyped, Local
  <2> QED
    BY <1>0, <2>1, <2>2 DEF CreditTyped
<1>26. ASSUME NEW q \in Path, SealFails(p, q) PROVE Traces(p)
  BY <1>0, <1>26, FinishCredit DEF SealFails, CreditTyped, Scanning, Spend, Events
<1>27. ASSUME NEW q \in Path, Unlink(p, q) PROVE Traces(p)
  BY <1>0, <1>27 DEF Unlink, CreditTyped, Local
<1> QED
  BY <1>1, <1>2, <1>3, <1>4, <1>5, <1>6, <1>7, <1>8, <1>9, <1>10, <1>11, <1>12, <1>13, <1>14, <1>15, <1>16, <1>17, <1>18, <1>19, <1>20, <1>21, <1>22, <1>23, <1>24, <1>25, <1>26, <1>27 DEF Run

(* What a run commits is honest: what it carries was, and an exit capture  *)
(* that gets that far has sealed what its session wrote.                   *)
LEMMA CommitCredit ==
  ASSUME TypeInv, SafeInv, HomeInv, NEW p \in Proc, pc[p] = "rename"
  PROVE  /\ CreditHonest(Candidate(p))
         /\ \A q \in Path : Original(q) => Untouched(Candidate(p).entries[q])
<1>0. /\ CreditTyped /\ req[p] \in Request /\ base[p] \in Doc /\ claims[p] \in Entries
      /\ sealed[p] \in Local
  BY TypeInvCredit DEF CreditTyped
<1>1. AdoptSealed(req[p], sealed[p])
  BY DEF TypeInv, AdoptOK, AdoptAt, AdoptSealed
<1>2. req[p].mode = "exit" => age[p] < 2
  BY DEF SafeInv, SafeAt, GameAt
<1>3. CreditHonest(base[p]) /\ WorkAt(p)
  BY DEF HomeInv
<1> DEFINE entry(q) == Candidate(p).entries[q]
<1>4. ASSUME NEW q \in Path, entry(q) # None
      PROVE  \/ entry(q) = base[p].entries[q]
             \/ /\ sealed[p][q] # None /\ entry(q).mt = sealed[p][q].mt
                /\ \/ entry(q).sha = sealed[p][q].sha /\ entry(q).by = Provenance(req[p])
                   \/ \E x \in Path : /\ base[p].entries[x] # None
                                      /\ entry(q).sha = base[p].entries[x].sha
                                      /\ entry(q).by = base[p].entries[x].by
  <2> DEFINE e == Merge(req[p], base[p], claims[p], sealed[p],
                        OpsOf(req[p], claims[p], sealed[p], present[p]), live0[p]).entries[q]
  <2>1. entry(q) = e
    BY DEF Candidate, Ops
  <2> HIDE DEF entry
  <2>2. ASSUME NEW h, NEW at, NEW v,
               v = Merge(req[p], base[p], claims[p], sealed[p],
                         OpsOf(req[p], claims[p], sealed[p], h), at).entries[q],
               v # None
        PROVE  \/ v = base[p].entries[q]
               \/ /\ sealed[p][q] # None /\ v.mt = sealed[p][q].mt
                  /\ \/ v.sha = sealed[p][q].sha /\ v.by = Provenance(req[p])
                     \/ \E x \in Path : /\ base[p].entries[x] # None
                                        /\ v.sha = base[p].entries[x].sha
                                        /\ v.by = base[p].entries[x].by
    BY <1>0, <1>1, <2>2, MergeCredits
  <2> QED
    BY <1>4, <2>1, <2>2
<1> HIDE DEF entry
<1>5. ASSUME NEW q \in Path, entry(q) # None, sealed[p][q] # None,
             entry(q).sha = sealed[p][q].sha, entry(q).by = Provenance(req[p]),
             entry(q).by > 0
      PROVE  \E by \in {None} \cup 1..entry(q).by : <<entry(q).sha, by>> \in wrote
  <2>1. req[p].mode = "exit" /\ entry(q).by = req[p].started
    BY <1>5 DEF Provenance
  <2>2. Sessions(req[p].started) /\ Fresh(sealed[p][q].sha)
    BY <1>2, <1>3, <1>5, <2>1 DEF WorkAt
  <2>3. PICK w \in wrote : w[1] = sealed[p][q].sha /\ w[2] # 0
    BY <2>2 DEF Fresh
  <2>4. w = <<w[1], w[2]>> /\ w[2] \in Nat \cup {None} /\ req[p].started \in Nat
    BY <1>0, <2>3 DEF CreditTyped, Request
  <2>5. w[2] = None \/ w[2] \in 1..req[p].started
    BY <2>2, <2>3, <2>4 DEF Sessions
  <2> QED
    BY <1>5, <2>1, <2>3, <2>4, <2>5
<1>6. ASSUME NEW q \in Path, entry(q) # None, entry(q).by > 0
      PROVE  \E by \in {None} \cup 1..entry(q).by : <<entry(q).sha, by>> \in wrote
  BY <1>3, <1>4, <1>5, <1>6 DEF CreditHonest
<1>7. ASSUME NEW q \in Path, Original(q)
      PROVE  Untouched(entry(q))
  BY <1>3, <1>4, <1>7 DEF WorkAt, Untouched
<1> QED
  BY <1>6, <1>7 DEF CreditHonest, entry

(* So a step of a run keeps the invariant.                                 *)
LEMMA TracesKeep ==
  ASSUME TypeInv, SafeInv, CreditInv, NEW p \in Proc, Traces(p)
  PROVE  CreditInv'
<1>0. CreditTyped
  BY TypeInvCredit
<1>1. CASE card # Home
  BY <1>1 DEF CreditInv
<1>2. CASE card = Home
  <2>1. HomeInv
    BY <1>2 DEF CreditInv
  <2>2. /\ CreditHonest(manifest'.doc) /\ CreditHonest(base'[p])
        /\ \A r \in Proc \ {p} : CreditHonest(base'[r])
    <3>1. CreditHonest(EmptyDoc)
      BY DEF CreditHonest, EmptyDoc
    <3> QED
      BY <2>1, <3>1, CommitCredit DEF HomeInv
  <2>3. CreditHonest(manifest.doc)' /\ \A r \in Proc : CreditHonest(base[r])'
    BY <2>2 DEF CreditHonest
  <2>4. /\ Sessions(era)'
        /\ game' # None => game'.session \in 1..era' /\ Sessions(game.session)'
        /\ \A s : Fresh(s)' <=> Fresh(s)
    BY <2>1 DEF HomeInv, Sessions, Fresh
  <2>5. \A q \in Path : Original(q)' => Original(q) /\ disk'[Home][q] = disk[Home][q]
    BY <1>2, <2>4 DEF Original
  <2>6. \A q \in Path : Original(q) => Untouched(manifest'.doc.entries[q])
    BY <2>1, CommitCredit DEF HomeInv, EmptyDoc, Untouched
  <2>7. ASSUME NEW r \in Proc \ {p} PROVE WorkAt(r)'
    <3>1. WorkAt(r)
      BY <2>1 DEF HomeInv
    <3> QED
      BY <2>4, <2>5, <3>1 DEF WorkAt, Sessions
  <2>8. ASSUME NEW q \in Path, Original(q)
        PROVE  /\ Untouched(base'[p].entries[q]) /\ Untouched(claims'[p][q])
               /\ Untouched(sealed'[p][q])
    <3>1. /\ Untouched(base[p].entries[q]) /\ Untouched(claims[p][q])
          /\ Untouched(sealed[p][q]) /\ Untouched(disk[card][q])
          /\ Untouched(manifest.doc.entries[q])
      BY <1>2, <2>1, <2>8 DEF HomeInv, WorkAt
    <3> QED
      BY <3>1 DEF Untouched, EmptyDoc, NoFiles
  <2>9. ASSUME pc'[p] # "idle", req'[p].mode = "exit", age'[p] < 2
        PROVE  /\ req'[p].started > 0 /\ Sessions(req[p].started)'
               /\ pc'[p] \in Located => \A q \in Path : sealed'[p][q] # None =>
                    Fresh(sealed'[p][q].sha)
    <3>1. /\ req'[p] = req[p] /\ req[p].mode = "exit" /\ req[p].started > 0
          /\ Sessions(req[p].started)
          /\ pc[p] \in Located => \A q \in Path : sealed[p][q] # None =>
               Fresh(sealed[p][q].sha)
      BY <2>1, <2>9 DEF HomeInv, WorkAt
    <3>2. ASSUME NEW q \in Path, disk[card][q] # None,
                 Changed(req[p], claims[p], q, disk[card][q])
          PROVE  Fresh(disk[card][q].sha)
      <4>1. Original(q) => Untouched(disk[card][q]) /\ Untouched(claims[p][q])
        BY <1>2, <2>1 DEF HomeInv, WorkAt
      <4>2. Original(q) => disk[card][q].mt = 0
                           /\ (claims[p][q] = None \/ claims[p][q].mt = 0)
        BY <3>2, <4>1 DEF Untouched
      <4>3. req[p].started \in Nat
        BY <1>0 DEF CreditTyped, Request
      <4>4. ~Original(q)
        BY <3>1, <3>2, <4>2, <4>3 DEF Changed
      <4> QED
        BY <1>2, <3>2, <4>4 DEF Original
    <3> QED
      BY <2>9, <3>1, <3>2 DEF Sessions
  <2>10. WorkAt(p)'
    BY <2>4, <2>5, <2>8, <2>9 DEF WorkAt, Sessions
  <2>11. \A q \in Path : Original(q)' => Untouched(disk'[Home][q])
    BY <2>1, <2>5 DEF HomeInv
  <2> QED
    BY <1>2, <2>1, <2>3, <2>4, <2>5, <2>6, <2>7, <2>10, <2>11 DEF HomeInv, CreditInv
<1> QED
  BY <1>1, <1>2

(* Files that are written leave fewer paths original, and what was fresh   *)
(* stays so.                                                               *)
Writes(q, s, by) ==
  /\ \A x \in Path \ {q} : disk'[Home][x] = disk[Home][x]
  /\ disk'[Home][q] # None /\ disk'[Home][q].sha = s
  /\ wrote' = wrote \cup {<<s, by>>}

LEMMA WritesFresh ==
  ASSUME NEW q \in Path, NEW s, NEW by, by # 0, Writes(q, s, by)
  PROVE  /\ \A x : Fresh(x) => Fresh(x)'
         /\ \A x \in Path : Original(x)' => Original(x) /\ disk'[Home][x] = disk[Home][x]
<1>1. <<s, by>> \in wrote' /\ <<s, by>>[1] = s /\ <<s, by>>[2] = by
  BY DEF Writes
<1>2. Fresh(s)'
  BY <1>1 DEF Fresh
<1>3. \A x : Fresh(x) => Fresh(x)'
  BY DEF Fresh, Writes
<1>4. ~Original(q)'
  BY <1>2 DEF Original, Writes
<1> QED
  BY <1>3, <1>4 DEF Original, Writes

(* Where a file is written at home, or none is, and the runs' work is left *)
(* alone, the invariant asks only for the sessions.                        *)
LEMMA WorkStays ==
  ASSUME HomeInv, UNCHANGED <<manifest, base, claims, sealed>>, wrote \subseteq wrote',
         \A x : Fresh(x) => Fresh(x)',
         \A x \in Path : Original(x)' => Original(x) /\ disk'[Home][x] = disk[Home][x],
         Sessions(era)',
         game' # None => game'.session \in 1..era' /\ Sessions(game.session)',
         \A r \in Proc : Running(r)' /\ req'[r].mode = "exit" /\ age'[r] < 2 =>
           /\ req'[r].started > 0 /\ Sessions(req[r].started)'
           /\ pc'[r] \in Located => pc[r] \in Located /\ Running(r) /\ req[r].mode = "exit"
                                    /\ age[r] < 2
  PROVE  HomeInv'
<1>1. CreditHonest(manifest.doc)' /\ \A r \in Proc : CreditHonest(base[r])'
  BY DEF HomeInv, CreditHonest
<1>2. ASSUME NEW r \in Proc PROVE WorkAt(r)'
  <2>1. WorkAt(r)
    BY DEF HomeInv
  <2> QED
    BY <2>1 DEF WorkAt
<1>3. \A q \in Path : Original(q)' =>
        Untouched(disk'[Home][q]) /\ Untouched(manifest'.doc.entries[q])
  BY DEF HomeInv
<1> QED
  BY <1>1, <1>2, <1>3 DEF HomeInv

(* A run that is asked for, and what happens around the runs, keep it.     *)
LEMMA StartsKeep ==
  ASSUME TypeInv, CreditInv, NEW p \in Proc, Asked(p)
  PROVE  CreditInv'
<1>0. CreditTyped
  BY TypeInvCredit
<1> DEFINE Began ==
      /\ pc[p] = "idle" /\ pc'[p] = "locate"
      /\ UNCHANGED <<card, era, manifest, age, sealed, claims, base>>
      /\ \A r \in Proc \ {p} : pc'[r] = pc[r] /\ req'[r] = req[r]
      /\ left'["swap"] = left["swap"]
      /\ \/ UNCHANGED <<disk, wrote>>
         \/ card = Home => \E q \in Path, s \in Sha : Writes(q, s, None)
      /\ \/ UNCHANGED game /\ req'[p].mode # "exit"
         \/ /\ game # None /\ game' = None /\ req'[p].started = game.session
            /\ UNCHANGED <<disk, wrote>>
<1>1. Began
  <2>1. CASE ExitGame(p)
    BY <1>0, <2>1 DEF ExitGame, Start, NoRequest, CreditTyped
  <2>2. CASE StartFull(p)
    BY <1>0, <2>2 DEF StartFull, Start, NoRequest, Spend, Events, CreditTyped
  <2>3. ASSUME NEW u \in Unit, StartRescan(p, u) PROVE Began
    BY <1>0, <2>3 DEF StartRescan, Start, NoRequest, Spend, Events, CreditTyped
  <2>4. ASSUME NEW paths \in SUBSET Path, NEW unlink \in BOOLEAN,
               StartRetire(p, paths, unlink)
        PROVE  Began
    BY <1>0, <2>4 DEF StartRetire, Start, NoRequest, Spend, Events, CreditTyped
  <2>5. ASSUME NEW dest \in Path, NEW from \in Path, StartAdopt(p, dest, from)
        PROVE  Began
    <3>1. /\ disk' = [disk EXCEPT ![card][dest] = [disk[card][from] EXCEPT !.mt = era]]
          /\ wrote' = wrote \cup {<<disk[card][from].sha, None>>}
          /\ disk[card][from] # None
      BY <2>5 DEF StartAdopt, OnDisk
    <3>2. disk[card][from] \in Version
      BY <1>0, <3>1 DEF CreditTyped, Local
    <3>3. card = Home => Writes(dest, disk[card][from].sha, None)
      BY <1>0, <3>1, <3>2, NoneAssumption DEF Writes, CreditTyped, Local, Version
    <3>4. disk[card][from].sha \in Sha
      BY <3>2 DEF Version
    <3> QED
      BY <1>0, <2>5, <3>3, <3>4 DEF StartAdopt, Start, NoRequest, Spend, Events, CreditTyped
  <2> QED
    BY <2>1, <2>2, <2>3, <2>4, <2>5 DEF Asked
<1> HIDE DEF Began
<1>2. CASE card # Home
  BY <1>1, <1>2 DEF CreditInv, Began
<1>3. CASE card = Home
  <2>1. HomeInv
    BY <1>3 DEF CreditInv
  <2>2. /\ \A x : Fresh(x) => Fresh(x)'
        /\ \A x \in Path : Original(x)' => Original(x) /\ disk'[Home][x] = disk[Home][x]
    <3>1. CASE UNCHANGED <<disk, wrote>>
      BY <3>1 DEF Fresh, Original
    <3>2. ASSUME NEW q \in Path, NEW s \in Sha, Writes(q, s, None)
          PROVE  /\ \A x : Fresh(x) => Fresh(x)'
                 /\ \A x \in Path : Original(x)' => Original(x) /\ disk'[Home][x] = disk[Home][x]
      <4>1. None # 0
        BY NoneAssumption
      <4> QED
        BY <3>2, <4>1, WritesFresh
    <3> QED
      BY <1>1, <1>3, <3>1, <3>2 DEF Began
  <2>3. /\ wrote \subseteq wrote' /\ \A w \in wrote' : w \in wrote \/ w[2] = None
    BY <1>1, <1>3 DEF Began, Writes
  <2>4. \A n : Sessions(n) => Sessions(n)'
    BY <2>3 DEF Sessions
  <2>5. /\ Sessions(era)'
        /\ game' # None => game'.session \in 1..era' /\ Sessions(game.session)'
    BY <1>1, <2>1, <2>4 DEF Began, HomeInv, Sessions
  <2>6. ASSUME NEW r \in Proc, pc'[r] # "idle", req'[r].mode = "exit", age'[r] < 2
        PROVE  /\ req'[r].started > 0 /\ Sessions(req[r].started)'
               /\ pc'[r] \in Located => pc[r] \in Located /\ req[r].mode = "exit" /\ age[r] < 2
    <3>1. CASE r = p
      BY <1>1, <2>1, <2>4, <2>6, <3>1 DEF Began, HomeInv, Sessions
    <3>2. CASE r # p
      BY <1>1, <2>1, <2>4, <2>6, <3>2 DEF Began, HomeInv, WorkAt, Sessions
    <3> QED
      BY <3>1, <3>2
  <2>7. UNCHANGED <<manifest, base, claims, sealed, card>> /\ left'["swap"] = left["swap"]
    BY <1>1 DEF Began
  <2>8. HomeInv'
    BY <2>1, <2>2, <2>3, <2>5, <2>6, <2>7, WorkStays
  <2> QED
    BY <1>3, <2>7, <2>8 DEF CreditInv
<1> QED
  BY <1>2, <1>3

LEMMA AroundKeeps ==
  ASSUME TypeInv, SafeInv, CreditInv, Environment
  PROVE  CreditInv'
<1>0. CreditTyped
  BY TypeInvCredit
<1>1. ASSUME NEW q \in Path, NEW s, NEW by, by # 0, card = Home,
             UNCHANGED <<card, manifest, base, claims, sealed, req, pc, age>>,
             left'["swap"] = left["swap"], Writes(q, s, by), Sessions(era)',
             game' # None => game'.session \in 1..era' /\ Sessions(game.session)',
             \A r \in Proc : pc[r] # "idle" /\ req[r].mode = "exit" /\ age[r] < 2 =>
               by = None
      PROVE  CreditInv'
  <2>1. HomeInv
    BY <1>1 DEF CreditInv
  <2>2. \A n : Sessions(n) /\ by = None => Sessions(n)'
    BY <1>1 DEF Sessions, Writes
  <2>3. ASSUME NEW r \in Proc, pc[r] # "idle", req[r].mode = "exit", age[r] < 2
        PROVE  req'[r].started > 0 /\ Sessions(req[r].started)'
    <3>1. WorkAt(r)
      BY <2>1 DEF HomeInv
    <3> QED
      BY <1>1, <2>2, <2>3, <3>1 DEF WorkAt, Sessions
  <2>4. /\ \A x : Fresh(x) => Fresh(x)'
        /\ \A x \in Path : Original(x)' => Original(x) /\ disk'[Home][x] = disk[Home][x]
    BY <1>1, WritesFresh
  <2>5. wrote \subseteq wrote'
    BY <1>1 DEF Writes
  <2>6. HomeInv'
    BY <1>1, <2>1, <2>3, <2>4, <2>5, WorkStays
  <2> QED
    BY <1>1, <2>6 DEF CreditInv
<1>2. ASSUME NEW u \in Unit, LaunchGame(u) PROVE CreditInv'
  <2>1. /\ UNCHANGED <<disk, card, wrote, manifest, pc, req, age, sealed, claims, base>>
        /\ game' = [unit |-> u, session |-> era + 1] /\ era' = era + 1
        /\ left'["swap"] = left["swap"]
    BY <1>0, <1>2 DEF LaunchGame, Spend, Events, CreditTyped
  <2>2. CASE card # Home
    BY <2>1, <2>2 DEF CreditInv
  <2>3. CASE card = Home
    <3>1. HomeInv
      BY <2>3 DEF CreditInv
    <3>2. Sessions(era + 1)
      <4>1. \A w \in wrote : w[2] \in Nat \cup {None}
        BY <1>0 DEF CreditTyped
      <4>2. era \in Nat
        BY <1>0 DEF CreditTyped
      <4> QED
        BY <3>1, <4>1, <4>2 DEF HomeInv, Sessions
    <3>3. /\ Sessions(era)'
          /\ game' # None => game'.session \in 1..era' /\ Sessions(game.session)'
      BY <1>0, <2>1, <3>2 DEF Sessions, CreditTyped
    <3>4. \A x \in Path : Original(x)' => Original(x) /\ disk'[Home][x] = disk[Home][x]
      BY <2>1 DEF Original, Fresh
    <3>5. \A r \in Proc : pc'[r] # "idle" /\ req'[r].mode = "exit" /\ age'[r] < 2 =>
            req'[r].started > 0 /\ Sessions(req[r].started)'
      BY <2>1, <3>1 DEF HomeInv, WorkAt, Sessions
    <3>6. HomeInv'
      BY <2>1, <3>1, <3>3, <3>4, <3>5, WorkStays DEF Fresh
    <3> QED
      BY <2>1, <2>3, <3>6 DEF CreditInv
  <2> QED
    BY <2>2, <2>3
<1>3. ASSUME NEW q \in Path, NEW s \in Sha, SaveGame(q, s) PROVE CreditInv'
  <2>1. /\ UNCHANGED <<card, era, game, manifest, pc, req, age, sealed, claims, base>>
        /\ disk' = [disk EXCEPT ![card][q] = [sha |-> s, mt |-> era']]
        /\ wrote' = wrote \cup {<<s, game.session>>} /\ game # None
        /\ left'["swap"] = left["swap"]
    BY <1>0, <1>3 DEF SaveGame, WriteFile, Spend, Events, CreditTyped
  <2>2. CASE card # Home
    BY <2>1, <2>2 DEF CreditInv
  <2>3. CASE card = Home
    <3>1. HomeInv
      BY <2>3 DEF CreditInv
    <3>2. game.session \in 1..era /\ Sessions(era) /\ Sessions(game.session)
      BY <2>1, <3>1 DEF HomeInv
    <3>3. Writes(q, s, game.session)
      BY <1>0, <2>1, <2>3, NoneAssumption DEF Writes, CreditTyped, Local, Version
    <3>4. Sessions(era)' /\ Sessions(game.session)'
      BY <1>0, <2>1, <3>2 DEF Sessions, CreditTyped
    <3>5. \A r \in Proc : pc[r] # "idle" /\ req[r].mode = "exit" => ~(age[r] < 2)
      BY <2>1 DEF SafeInv, SafeAt, GameAt
    <3> QED
      BY <1>1, <2>1, <2>3, <3>2, <3>3, <3>4, <3>5
  <2> QED
    BY <2>2, <2>3
<1>4. ASSUME NEW q \in Path, NEW s \in Sha, RestoreFile(q, s) PROVE CreditInv'
  <2>1. /\ UNCHANGED <<card, game, manifest, pc, req, age, sealed, claims, base>>
        /\ disk' = [disk EXCEPT ![card][q] = [sha |-> s, mt |-> era']]
        /\ wrote' = wrote \cup {<<s, None>>} /\ game = None /\ era' = era + 1
        /\ left'["swap"] = left["swap"]
    BY <1>0, <1>4 DEF RestoreFile, WriteFile, Spend, Events, CreditTyped
  <2>2. CASE card # Home
    BY <2>1, <2>2 DEF CreditInv
  <2>3. CASE card = Home
    <3>1. HomeInv
      BY <2>3 DEF CreditInv
    <3>2. Writes(q, s, None)
      BY <1>0, <2>1, <2>3, NoneAssumption DEF Writes, CreditTyped, Local, Version
    <3>3. Sessions(era)'
      <4>1. \A w \in wrote : w[2] \in Nat \cup {None}
        BY <1>0 DEF CreditTyped
      <4>2. era \in Nat /\ \A w \in wrote' : w \in wrote \/ w[2] = None
        BY <1>0, <2>1 DEF CreditTyped
      <4> QED
        BY <2>1, <3>1, <4>1, <4>2 DEF HomeInv, Sessions
    <3>4. None # 0
      BY NoneAssumption
    <3> QED
      BY <1>1, <2>1, <2>3, <3>2, <3>3, <3>4
  <2> QED
    BY <2>2, <2>3
<1>5. ASSUME NEW c \in Card, SwapCard(c) PROVE CreditInv'
  <2>1. left["swap"] = 1 /\ left'["swap"] = 0 /\ card' # card
    BY <1>0, <1>5 DEF SwapCard, Spend, Events, CreditInv, CreditTyped
  <2> QED
    BY <2>1 DEF CreditInv
<1>6. ASSUME NEW s \in Sha, AgeSeal(s) PROVE CreditInv'
  <2>1. UNCHANGED <<disk, card, era, game, wrote, left, manifest, pc, req, age, sealed,
                    claims, base>>
    BY <1>6 DEF AgeSeal
  <2> QED
    BY <2>1 DEF CreditInv, HomeInv, WorkAt, Original, Fresh, Sessions, CreditHonest
<1> QED
  BY <1>2, <1>3, <1>4, <1>5, <1>6 DEF Environment

(* No session is credited with contents nobody wrote since the device came *)
(* up, or only a later session did.                                        *)
THEOREM CreditsStayInTime ==
  ASSUME OneSwap, StartsOld
  PROVE  Spec => []CreditsInTime
<1>1. TypeInv /\ SafeInv /\ CreditInv /\ [Next]_vars => CreditInv'
  <2>1. ASSUME CreditInv, UNCHANGED vars PROVE CreditInv'
    BY <2>1 DEF vars, CreditInv, HomeInv, WorkAt, Original, Fresh, Sessions, CreditHonest
  <2> QED
    BY <2>1, RunTraces, TracesKeep, StartsKeep, AroundKeeps DEF Next
<1>2. CreditInv => CreditsInTime
  BY DEF CreditInv, HomeInv, CreditsInTime
<1> QED
  BY <1>1, <1>2, InitCredit, SpecSafe, PTL DEF Spec

HIDE DEF Traces, Located, Goto, Running, device, store, loaded, scanned, asked
=============================================================================
