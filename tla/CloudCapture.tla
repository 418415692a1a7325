----------------------------- MODULE CloudCapture -----------------------------
(***************************************************************************)
(* cloud_capture, the recorder of save versions: several runs of it beside *)
(* each other (the exit capture of the last game, the detached boot pass,  *)
(* the save-state manager's deletions and copies), all of them reading and *)
(* replacing one manifest, sharing one content-addressed stage of sealed   *)
(* copies, and serialised by detection (the manifest's inode and time) and *)
(* a commit lock.                                                          *)
(*                                                                         *)
(* Each process p is one run of the script; pc[p] is the step it is at:    *)
(*                                                                         *)
(*   locate -> inspect (-> aside) -> stat -> claims -> scan -> merge       *)
(*     -> lock -> check -> card -> rename -> gclist       *)
(*     -> gcrm -> finlock -> stamp -> mvstamp -> tidy (-> drop)            *)
(*     -> unlink -> idle                                                   *)
(*                                                                         *)
(* Every finish of the code goes to "finlock", or to "stamp" when the lock *)
(* is held already.  What the code does without leaving its process is one *)
(* step; what another process can come between is two.                     *)
(*                                                                         *)
(* Abstractions.  A manifest's `stat -c '%i %Y'` is a number no two        *)
(* renames share (the schema document names the exception, three writers   *)
(* within one second).  Copies moved aside within one second have one name *)
(* and one content; here both stay.  Seals are old or young against the    *)
(* GC's ten minutes.  An exit capture's run time is 0 (under EXIT_BOUND), 1 (past   *)
(* it) or 2 (past the 120 s after which EmulationStation takes the run for *)
(* hung).                                                                  *)
(***************************************************************************)
EXTENDS CaptureOps

CONSTANTS
  Proc,        \* processes: how many runs there can be at once
  Card,        \* the cards that can back the saves folder
  Home,        \* the card the device comes up with
  StartDisks,  \* what the cards can hold when the device comes up
  StartKinds,  \* what the manifest can be when the device comes up
  Scenarios,   \* what the environment may do: how many of each event
  Recurring    \* whether contents seen before can be written again

(* What happens around a run, and the runs that are asked for; an exit     *)
(* capture is asked for by the end of a game.                              *)
Events == {"launch", "save", "restore", "swap", "kill", "fault",
           "rescan", "full", "retire", "adopt"}
Kinds == {"absent", "unreadable", "newer", "good"}

ASSUME StartAssumption ==
  /\ StartDisks \subseteq [Card -> [Path -> Version \cup {None}]]
  /\ StartKinds \subseteq Kinds /\ Recurring \in BOOLEAN
  /\ Scenarios \subseteq [Events -> Nat]
ASSUME ProcAssumption == None \notin Proc /\ None \notin Card
ASSUME HomeAssumption == Home \in Card

VARIABLES
  (* the device *)
  disk,      \* per card, the saves folder's files
  card,      \* the card in the slot
  era,       \* the clock: game sessions and restores so far
  game,      \* the running session and its unit, or None
  wrote,     \* history: who wrote which contents: a session's number, 0
             \* for what was there at first, None for a restore or a copy
  deleted,   \* history: paths a --retire --unlink with rc 0 removed
  left,      \* what the environment may still do
  (* /storage/.cache/cloud_sync *)
  manifest,  \* the manifest file
  renames,   \* renames onto it so far
  stage,     \* "none", "young" or "old" for each seal
  aside,     \* the kinds of document moved aside as corrupt
  stamps,    \* last-capture: per mode, how many runs its line stands for
  lock,      \* the process that holds .capture.lock
  (* a run of the script *)
  pc, req, retry, age, ident, todo, src, live0, claims, sealed, present,
  base, rc, seen, gone, strayed

device == <<disk, card, era, game, wrote, deleted>>
store == <<manifest, renames, stage, aside, stamps>>
loaded == <<src, live0, claims>>
scanned == <<todo, sealed, present, strayed>>
asked == <<req, retry, ident>>
vars == <<device, left, store, lock, pc, asked, age, loaded, scanned, base,
          rc, seen, gone>>

-----------------------------------------------------------------------------
NoFiles == [q \in Path |-> None]
NoStamps == [m \in Modes |-> 0]
NoRequest == [mode |-> "full", unit |-> None, started |-> 0, paths |-> {},
              unlink |-> FALSE, dest |-> None, from |-> None]

OnDisk == {q \in Path : disk[card][q] # None}
Held(p) == lock = p
Parses == manifest.kind \in {"good", "newer"}
Running(p) == pc[p] # "idle"

(* The bytes the manifest's unpublished entries name.  Nothing publishes   *)
(* yet, so pub is null in every entry.                                     *)
Referenced == {manifest.doc.entries[q].sha :
                 q \in {r \in Path : manifest.doc.entries[r] # None}}

Spend(event) == left[event] > 0 /\ left' = [left EXCEPT ![event] = @ - 1]

Goto(p, label) == pc' = [pc EXCEPT ![p] = label]

(* finish(): the exit code is fixed and the stamp is next.                 *)
Finish(p, code) ==
  /\ rc' = [rc EXCEPT ![p] = code]
  /\ Goto(p, IF Held(p) THEN "stamp" ELSE "finlock")

(* The process ends, by itself or killed: the kernel drops its flock.      *)
Ends(p) ==
  /\ Goto(p, "idle")
  /\ lock' = IF Held(p) THEN None ELSE lock
  /\ req' = [req EXCEPT ![p] = NoRequest]
  /\ retry' = [retry EXCEPT ![p] = FALSE]
  /\ age' = [age EXCEPT ![p] = 0]
  /\ ident' = [ident EXCEPT ![p] = None]
  /\ src' = [src EXCEPT ![p] = FALSE]
  /\ live0' = [live0 EXCEPT ![p] = 0]
  /\ claims' = [claims EXCEPT ![p] = NoFiles]
  /\ todo' = [todo EXCEPT ![p] = {}]
  /\ sealed' = [sealed EXCEPT ![p] = NoFiles]
  /\ present' = [present EXCEPT ![p] = {}]
  /\ strayed' = [strayed EXCEPT ![p] = FALSE]
  /\ base' = [base EXCEPT ![p] = EmptyDoc]
  /\ rc' = [rc EXCEPT ![p] = 0]
  /\ seen' = [seen EXCEPT ![p] = NoStamps]
  /\ gone' = [gone EXCEPT ![p] = {}]

(* exec "$0": a lost run starts over, once, with its age and its request;  *)
(* capture_unlock comes first, or the new process would wait on itself.    *)
Rerun_M1(p) ==                     \* the clock of the run starts over
  /\ Goto(p, "locate")
  /\ retry' = [retry EXCEPT ![p] = TRUE]
  /\ lock' = IF Held(p) THEN None ELSE lock
  /\ rc' = [rc EXCEPT ![p] = 0]
  /\ age' = [age EXCEPT ![p] = 0]
  /\ UNCHANGED <<req, ident, loaded, scanned, base, seen, gone>>

Rerun_M2(p) ==                     \* the lock is kept over the exec
  /\ Goto(p, "locate")
  /\ retry' = [retry EXCEPT ![p] = TRUE]
  /\ rc' = [rc EXCEPT ![p] = 0]
  /\ UNCHANGED <<lock, req, age, ident, loaded, scanned, base, seen, gone>>

Rerun(p) ==
  /\ Goto(p, "locate")
  /\ retry' = [retry EXCEPT ![p] = TRUE]
  /\ lock' = IF Held(p) THEN None ELSE lock
  /\ rc' = [rc EXCEPT ![p] = 0]
  /\ UNCHANGED <<req, age, ident, loaded, scanned, base, seen, gone>>

MayRerun(p) == ~retry[p] /\ req[p].mode # "full"

-----------------------------------------------------------------------------
(* The device around the script: the player, EmulationStation, a restore.  *)

Known(s) == \E w \in wrote : w[1] = s
Writable(s) == Recurring \/ ~Known(s)

(* A launch waits behind the last game's exit capture, but goes over one   *)
(* past 120 s, taken as hung.                                              *)
LaunchGame(u) ==
  /\ game = None
  /\ \A p \in Proc : Running(p) /\ req[p].mode = "exit" => age[p] = 2
  /\ Spend("launch")
  /\ era' = era + 1
  /\ game' = [unit |-> u, session |-> era + 1]
  /\ UNCHANGED <<disk, card, wrote, deleted, store, lock, pc, asked, age,
                 loaded, scanned, base, rc, seen, gone>>

WriteFile(q, s, by) ==
  /\ disk' = [disk EXCEPT ![card][q] = [sha |-> s, mt |-> era']]
  /\ wrote' = wrote \cup {<<s, by>>}
  /\ deleted' = deleted \ {q}
  /\ UNCHANGED <<card, store, lock, pc, asked, age, loaded, scanned, base,
                 rc, seen, gone>>

SaveGame(q, s) ==
  /\ game # None
  /\ UnitOf[q] = game.unit
  /\ Writable(s)
  /\ Spend("save")
  /\ UNCHANGED <<era, game>>
  /\ WriteFile(q, s, game.session)

(* A cloud restore, or another tool, writes into the saves folder; the     *)
(* interface starts no game over it, and it none over a game.              *)
RestoreFile(q, s) ==
  /\ game = None
  /\ Writable(s)
  /\ Spend("restore")
  /\ era' = era + 1
  /\ UNCHANGED game
  /\ WriteFile(q, s, None)

(* The saves folder is backed by another card than a moment ago.           *)
SwapCard(c) ==
  /\ c # card
  /\ Spend("swap")
  /\ card' = c
  /\ UNCHANGED <<disk, era, game, wrote, deleted, store, lock, pc, asked, age,
                 loaded, scanned, base, rc, seen, gone>>

(* Ten minutes pass over a seal.  A run over one unit ends long before,    *)
(* and so does a commit; only a full pass is seen to last that long.       *)
AgeSeal(s) ==
  /\ stage[s] = "young"
  /\ \A p \in Proc : Running(p) => /\ req[p].mode = "full"
                                   /\ pc[p] \notin {"gclist", "gcrm"}
  /\ stage' = [stage EXCEPT ![s] = "old"]
  /\ UNCHANGED <<device, left, manifest, renames, aside, stamps, lock, pc,
                 asked, age, loaded, scanned, base, rc, seen, gone>>

(* An exit capture takes time.  From its last look at the clock to its     *)
(* rename it takes less than the 20 s between the two bounds.              *)
Elapse(p) ==
  /\ Running(p) /\ req[p].mode = "exit" /\ age[p] < 2
  /\ age[p] = 1 => pc[p] \notin {"check", "card", "rename"}
  /\ age' = [age EXCEPT ![p] = @ + 1]
  /\ UNCHANGED <<device, left, store, lock, pc, asked, loaded, scanned, base,
                 rc, seen, gone>>

(* A run killed outright, anywhere.                                        *)
Kill(p) ==
  /\ Running(p)
  /\ Spend("kill")
  /\ Ends(p)
  /\ UNCHANGED <<device, store>>

-----------------------------------------------------------------------------
(* The runs that are asked for.                                            *)

Start(p, r) ==
  /\ pc[p] = "idle"
  /\ req' = [req EXCEPT ![p] = r]
  /\ Goto(p, "locate")
  /\ UNCHANGED <<card, era, store, lock, retry, ident, age, loaded, scanned,
                 base, rc, seen, gone>>

(* The game exits and EmulationStation starts the exit capture with the    *)
(* session's start time.                                                   *)
ExitGame(p) ==
  /\ game # None
  /\ game' = None
  /\ Start(p, [NoRequest EXCEPT !.mode = "exit", !.unit = game.unit,
                                !.started = game.session])
  /\ UNCHANGED <<disk, wrote, deleted, left>>

StartFull(p) ==
  /\ Spend("full")
  /\ Start(p, NoRequest)
  /\ UNCHANGED <<disk, game, wrote, deleted>>

StartRescan(p, u) ==
  /\ game = None
  /\ Spend("rescan")
  /\ Start(p, [NoRequest EXCEPT !.mode = "rescan", !.unit = u])
  /\ UNCHANGED <<disk, game, wrote, deleted>>

(* The save-state manager asks for one thing at a time, with no game on.    *)
ManagerIdle ==
  /\ game = None
  /\ \A r \in Proc : Running(r) => req[r].mode \notin {"retire", "adopt"}

(* The manager deletes slots that hold a file.                             *)
StartRetire(p, paths, unlink) ==
  /\ paths # {} /\ paths \subseteq OnDisk
  /\ ManagerIdle
  /\ Spend("retire")
  /\ Start(p, [NoRequest EXCEPT !.mode = "retire", !.paths = paths,
                                !.unlink = unlink])
  /\ UNCHANGED <<disk, game, wrote, deleted>>

(* The manager copies a slot to a free one and has the copy recorded.      *)
StartAdopt(p, dest, from) ==
  /\ ManagerIdle
  /\ dest # from /\ UnitOf[dest] = UnitOf[from]
  /\ from \in OnDisk /\ dest \notin OnDisk
  /\ Spend("adopt")
  /\ disk' = [disk EXCEPT ![card][dest] = [disk[card][from] EXCEPT !.mt = era]]
  /\ wrote' = wrote \cup {<<disk[card][from].sha, None>>}
  /\ deleted' = deleted \ {dest}
  /\ Start(p, [NoRequest EXCEPT !.mode = "adopt", !.unit = UnitOf[dest],
                                !.dest = dest, !.from = from])
  /\ UNCHANGED game

-----------------------------------------------------------------------------
(* STEP 0, 1 and 3: locate the unit and note the card.                     *)

UnitFiles(r) ==
  CASE r.mode \in {"exit", "rescan"} -> {q \in OnDisk : UnitOf[q] = r.unit}
    [] r.mode = "adopt" -> {r.dest} \cap OnDisk
    [] OTHER            -> {}

Locate(p) ==
  /\ pc[p] = "locate"
  /\ IF req[p].mode \in {"exit", "rescan", "adopt"} /\ UnitFiles(req[p]) = {}
       THEN /\ Finish(p, IF req[p].mode = "adopt" THEN 3 ELSE 0)
            /\ ident' = [ident EXCEPT ![p] = None]
            /\ UNCHANGED todo
       ELSE /\ todo' = [todo EXCEPT ![p] = UnitFiles(req[p])]
            /\ ident' = [ident EXCEPT ![p] = card]
            /\ Goto(p, "inspect")
            /\ UNCHANGED rc
  /\ sealed' = [sealed EXCEPT ![p] = NoFiles]
  /\ strayed' = [strayed EXCEPT ![p] = FALSE]
  /\ UNCHANGED <<device, left, store, lock, req, retry, age, loaded, present,
                 base, seen, gone>>

(* STEP 2: the shape of the live manifest.  No file: the run starts from   *)
(* an empty document and expects none.                                     *)
Inspect_M(p) ==                    \* a newer schema is taken for a good one
  /\ pc[p] = "inspect"
  /\ src' = [src EXCEPT ![p] = manifest.kind \in {"good", "newer"}]
  /\ live0' = [live0 EXCEPT ![p] = IF manifest.kind = "absent" THEN 0 ELSE @]
  /\ Goto(p, CASE manifest.kind = "absent" -> "claims"
               [] manifest.kind = "unreadable" -> "aside" [] OTHER -> "stat")
  /\ UNCHANGED <<device, left, store, lock, asked, age, claims, scanned, base,
                 rc, seen, gone>>

Inspect(p) ==
  /\ pc[p] = "inspect"
  /\ \/ /\ manifest.kind = "absent"
        /\ src' = [src EXCEPT ![p] = FALSE]
        /\ live0' = [live0 EXCEPT ![p] = 0]
        /\ Goto(p, "claims") /\ UNCHANGED rc
     \/ /\ manifest.kind = "good"
        /\ src' = [src EXCEPT ![p] = TRUE]
        /\ Goto(p, "stat") /\ UNCHANGED <<live0, rc>>
     \/ /\ manifest.kind = "newer"
        /\ Finish(p, 1) /\ UNCHANGED <<src, live0>>
     \/ /\ manifest.kind = "unreadable"
        /\ src' = [src EXCEPT ![p] = FALSE]
        /\ Goto(p, "aside") /\ UNCHANGED <<live0, rc>>
  /\ UNCHANGED <<device, left, store, lock, asked, age, claims, scanned, base,
                 seen, gone>>

(* A manifest that would not parse is moved aside: whichever file has its  *)
(* name by now.  The schema is read again on the way.                      *)
MoveAside(p) ==
  /\ pc[p] = "aside"
  /\ IF manifest.kind = "newer"
       THEN Finish(p, 1) /\ UNCHANGED <<manifest, aside>>
       ELSE /\ aside' = IF manifest.kind = "absent" THEN aside
                        ELSE aside \cup {manifest.kind}
            /\ manifest' = [kind |-> "absent", doc |-> EmptyDoc, stat |-> 0]
            /\ Goto(p, "stat") /\ UNCHANGED rc
  /\ UNCHANGED <<device, left, renames, stage, stamps, lock, asked, age,
                 loaded, scanned, base, seen, gone>>

(* It could not be moved: the run starts from an empty document all the    *)
(* same, and will replace it.                                              *)
MoveAsideFails(p) ==
  /\ pc[p] = "aside"
  /\ manifest.kind \in {"unreadable", "good"}
  /\ Spend("fault")
  /\ Goto(p, "stat")
  /\ UNCHANGED <<device, store, lock, asked, age, loaded, scanned, base, rc,
                 seen, gone>>

(* LIVE0, taken before the entries are read.                               *)
TakeStat(p) ==
  /\ pc[p] = "stat"
  /\ live0' = [live0 EXCEPT ![p] = manifest.stat]
  /\ Goto(p, "claims")
  /\ UNCHANGED <<device, left, store, lock, asked, age, src, claims, scanned,
                 base, rc, seen, gone>>

(* STEP 4: the claims; and STEP 3 of a full pass, which takes the claimed  *)
(* paths on disk and refuses a saves folder that holds nothing.            *)
ReadClaims(p) ==
  /\ pc[p] = "claims"
  /\ LET read == IF src[p] THEN manifest.doc.entries ELSE NoFiles
     IN  /\ claims' = [claims EXCEPT ![p] = read]
         /\ \/ /\ req[p].mode # "full"
               /\ Goto(p, "scan") /\ UNCHANGED <<todo, rc>>
            \/ /\ req[p].mode = "full" /\ OnDisk # {}
               /\ todo' = [todo EXCEPT ![p] = {q \in OnDisk : read[q] # None}]
               /\ Goto(p, "scan") /\ UNCHANGED rc
            \/ /\ req[p].mode = "full" /\ OnDisk = {}
               /\ Finish(p, 1) /\ UNCHANGED todo
  /\ UNCHANGED <<device, left, store, lock, asked, age, src, live0, sealed,
                 present, strayed, base, seen, gone>>

-----------------------------------------------------------------------------
(* STEP 5 and 6: one member after the other, in order.                     *)

NextMember(p) == CHOOSE q \in todo[p] : \A r \in todo[p] : q <= r

Scanning(p, q) ==
  /\ pc[p] = "scan" /\ todo[p] # {}
  /\ q = NextMember(p)
  /\ todo' = [todo EXCEPT ![p] = @ \ {q}]
  /\ UNCHANGED <<device, manifest, renames, aside, stamps, lock, asked, age,
                 loaded, present, base, seen, gone>>

Examined(p, q) ==
  /\ q \in OnDisk
  /\ req[p].mode = "adopt" \/ Changed(req[p], claims[p], q, disk[card][q])

(* Gone, or not a candidate.  An adopt whose copy is gone records nothing. *)
PassOver(p, q) ==
  /\ Scanning(p, q)
  /\ ~Examined(p, q)
  /\ IF req[p].mode = "adopt" THEN Finish(p, 0) ELSE UNCHANGED <<pc, rc>>
  /\ UNCHANGED <<left, stage, sealed, strayed>>

(* known_hash for a verify pass, else seal(): bytes the stage or, for a    *)
(* verify pass, the path's own entry already holds need no copy, and a     *)
(* name that is in the stage is left as it is.                             *)
NeedsSeal(p, q, s) ==
  /\ stage[s] = "none"
  /\ ~(/\ req[p].mode \in {"rescan", "full", "adopt"}
       /\ claims[p][q] # None /\ claims[p][q].sha = s)

Seal(p, q) ==
  /\ Scanning(p, q)
  /\ Examined(p, q)
  /\ LET file == disk[card][q]
     IN  /\ sealed' = [sealed EXCEPT ![p][q] = file]
         /\ stage' = IF NeedsSeal(p, q, file.sha)
                       THEN [stage EXCEPT ![file.sha] = "young"] ELSE stage
  /\ strayed' = [strayed EXCEPT ![p] = @ \/ card # ident[p]]
  /\ UNCHANGED <<left, pc, rc>>

(* The copy failed, or the file changed under it three times.              *)
SealFails(p, q) ==
  /\ Scanning(p, q)
  /\ Examined(p, q)
  /\ Spend("fault")
  /\ IF req[p].mode = "adopt" THEN Finish(p, 1)
     ELSE rc' = [rc EXCEPT ![p] = 1] /\ UNCHANGED pc
  /\ UNCHANGED <<stage, sealed, strayed>>

(* STEP 7 and 8: look which claimed paths hold a file, hash what a retire  *)
(* names and no entry claims, and decide; nothing to do ends the run.      *)
Hashed(p) ==
  [q \in Path |->
     IF req[p].mode = "retire" /\ q \in req[p].paths /\ claims[p][q] = None
       THEN disk[card][q] ELSE sealed[p][q]]

Classify(p) ==
  /\ pc[p] = "scan" /\ todo[p] = {}
  /\ sealed' = [sealed EXCEPT ![p] = Hashed(p)]
  /\ present' = [present EXCEPT ![p] = OnDisk]
  /\ IF OpsOf(req[p], claims[p], Hashed(p), OnDisk) = NoOps
       THEN Finish(p, rc[p])
       ELSE Goto(p, "merge") /\ UNCHANGED rc
  /\ UNCHANGED <<device, left, store, lock, asked, age, loaded, todo, strayed,
                 base, seen, gone>>

Ops(p) == OpsOf(req[p], claims[p], sealed[p], present[p])
Candidate(p) == Merge(req[p], base[p], claims[p], sealed[p], Ops(p), live0[p])

-----------------------------------------------------------------------------
PastExitBound(p) == req[p].mode = "exit" /\ age[p] > 0

(* STEP 9 and the first checks of STEP 10: the merge reads the live        *)
(* manifest again; a document that would not change is not written (I8),   *)
(* and an exit capture past its bound does not go on to the lock.          *)
MergeDoc_M(p) ==                   \* LIVE0 taken here, after the claims
  /\ pc[p] = "merge"
  /\ src[p] => manifest.kind # "absent"
  /\ base' = [base EXCEPT ![p] = IF src[p] THEN manifest.doc ELSE EmptyDoc]
  /\ live0' = [live0 EXCEPT ![p] = manifest.stat]
  /\ Goto(p, "lock")
  /\ UNCHANGED <<device, left, store, lock, asked, age, src, claims, scanned,
                 rc, seen, gone>>

MergeDoc(p) ==
  /\ pc[p] = "merge"
  /\ \/ /\ src[p] /\ manifest.kind = "absent"
        /\ Finish(p, 1) /\ UNCHANGED base
     \/ /\ src[p] => manifest.kind # "absent"
        /\ base' = [base EXCEPT ![p] = IF src[p] THEN manifest.doc ELSE EmptyDoc]
        /\ IF /\ src[p]
              /\ base'[p] = Merge(req[p], base'[p], claims[p], sealed[p], Ops(p), live0[p])
             THEN Finish(p, rc[p])
           ELSE IF PastExitBound(p) THEN Finish(p, 1)
           ELSE Goto(p, "lock") /\ UNCHANGED rc
  /\ UNCHANGED <<device, left, store, lock, asked, age, loaded, scanned, seen,
                 gone>>

(* STEP 10: the lock, then past_exit_bound again once it is held.          *)
TakeLock(p) ==
  /\ pc[p] = "lock"
  /\ lock = None
  /\ lock' = p
  /\ IF PastExitBound(p)
       THEN rc' = [rc EXCEPT ![p] = 1] /\ Goto(p, "stamp")
       ELSE Goto(p, "check") /\ UNCHANGED rc
  /\ UNCHANGED <<device, left, store, asked, age, loaded, scanned, base, seen,
                 gone>>

(* Five seconds of tries while another run held it: re-run once, or end as *)
(* lock-busy; finish then writes no stamp line.                            *)
LockBusy(p) ==
  /\ pc[p] = "lock"
  /\ lock \notin {None, p}
  /\ IF MayRerun(p) THEN Rerun(p)
     ELSE /\ rc' = [rc EXCEPT ![p] = 1]
          /\ Goto(p, "tidy")
          /\ UNCHANGED <<lock, asked, age, loaded, scanned, base, seen, gone>>
  /\ UNCHANGED <<device, left, store>>

(* The live manifest must be the one this run loaded.                      *)
CheckManifest_M(p) ==              \* the lock alone is trusted
  /\ pc[p] = "check"
  /\ Goto(p, "card")
  /\ UNCHANGED <<device, left, store, lock, asked, age, loaded, scanned, base,
                 rc, seen, gone>>

CheckManifest(p) ==
  /\ pc[p] = "check"
  /\ \/ /\ manifest.stat # live0[p] /\ MayRerun(p)
        /\ Rerun(p)
     \/ /\ manifest.stat # live0[p] /\ ~MayRerun(p)
        /\ Finish(p, 1)
        /\ UNCHANGED <<lock, asked, age, loaded, scanned, base, seen, gone>>
     \/ /\ manifest.stat = live0[p]
        /\ Goto(p, "card")
        /\ UNCHANGED <<lock, asked, age, loaded, scanned, base, rc, seen, gone>>
  /\ UNCHANGED <<device, left, store>>

(* A saves folder that changed cards during the scan discards the run.     *)
CheckCard_M(p) ==                  \* no identity check
  /\ pc[p] = "card"
  /\ Goto(p, "rename")
  /\ UNCHANGED <<device, left, store, lock, asked, age, loaded, scanned, base,
                 rc, seen, gone>>

CheckCard(p) ==
  /\ pc[p] = "card"
  /\ IF card # ident[p] THEN Finish(p, 1) ELSE Goto(p, "rename") /\ UNCHANGED rc
  /\ UNCHANGED <<device, left, store, lock, asked, age, loaded, scanned, base,
                 seen, gone>>

Rename(p) ==
  /\ pc[p] = "rename"
  /\ renames' = renames + 1
  /\ manifest' = [kind |-> "good", doc |-> Candidate(p), stat |-> renames + 1]
  /\ Goto(p, "gclist")
  /\ UNCHANGED <<device, left, stage, aside, stamps, lock, asked, age, loaded,
                 scanned, base, rc, seen, gone>>

RenameFails(p) ==
  /\ pc[p] = "rename"
  /\ Spend("fault")
  /\ Finish(p, 1)
  /\ UNCHANGED <<device, store, lock, asked, age, loaded, scanned, base, seen,
                 gone>>

(* STEP 11: one listing of the stage, then one rm of what it chose.        *)
ListGarbage_M1(p) ==               \* no ten minutes
  /\ pc[p] = "gclist"
  /\ gone' = [gone EXCEPT ![p] = {s \in Sha : stage[s] # "none" /\ s \notin Referenced}]
  /\ Goto(p, "gcrm")
  /\ UNCHANGED <<device, left, store, lock, asked, age, loaded, scanned, base,
                 rc, seen>>

ListGarbage_M2(p) ==               \* the references of the document as loaded
  /\ pc[p] = "gclist"
  /\ gone' = [gone EXCEPT ![p] =
       {s \in Sha : stage[s] = "old" /\ \A q \in Path : claims[p][q] # None => claims[p][q].sha # s}]
  /\ Goto(p, "gcrm")
  /\ UNCHANGED <<device, left, store, lock, asked, age, loaded, scanned, base,
                 rc, seen>>

ListGarbage(p) ==
  /\ pc[p] = "gclist"
  /\ gone' = [gone EXCEPT ![p] = {s \in Sha : stage[s] = "old" /\ s \notin Referenced}]
  /\ Goto(p, "gcrm")
  /\ UNCHANGED <<device, left, store, lock, asked, age, loaded, scanned, base,
                 rc, seen>>

RemoveGarbage(p) ==
  /\ pc[p] = "gcrm"
  /\ stage' = [s \in Sha |-> IF s \in gone[p] THEN "none" ELSE stage[s]]
  /\ Finish(p, rc[p])
  /\ UNCHANGED <<device, left, manifest, renames, aside, stamps, lock, asked,
                 age, loaded, scanned, base, seen, gone>>

-----------------------------------------------------------------------------
(* finish(): the stamp line under the lock, the moved-aside manifests, the *)
(* files of a --retire --unlink, and the end of the process.               *)

FinishLock_M(p) ==                 \* the stamp without the lock
  /\ pc[p] = "finlock"
  /\ Goto(p, "stamp")
  /\ UNCHANGED <<device, left, store, lock, asked, age, loaded, scanned, base,
                 rc, seen, gone>>

FinishLock(p) ==
  /\ pc[p] = "finlock"
  /\ \/ /\ lock = None
        /\ lock' = p /\ Goto(p, "stamp")
     \/ /\ lock \notin {None, p}
        /\ Goto(p, "tidy") /\ UNCHANGED lock
  /\ UNCHANGED <<device, left, store, asked, age, loaded, scanned, base, rc,
                 seen, gone>>

ReadStamps(p) ==
  /\ pc[p] = "stamp"
  /\ seen' = [seen EXCEPT ![p] = stamps]
  /\ Goto(p, "mvstamp")
  /\ UNCHANGED <<device, left, store, lock, asked, age, loaded, scanned, base,
                 rc, gone>>

WriteStamps(p) ==
  /\ pc[p] = "mvstamp"
  /\ stamps' = [seen[p] EXCEPT ![req[p].mode] = @ + 1]
  /\ Goto(p, "tidy")
  /\ UNCHANGED <<device, left, manifest, renames, stage, aside, lock, asked,
                 age, loaded, scanned, base, rc, seen, gone>>

(* The files of a --retire --unlink are next, or the end of the process.   *)
UnlinkOrEnd_M(p) ==                \* unlinked only when it was recorded
  IF req[p].unlink /\ rc[p] = 0
    THEN /\ Goto(p, "unlink")
         /\ UNCHANGED <<lock, asked, age, loaded, scanned, base, rc, seen, gone>>
    ELSE Ends(p)

UnlinkOrEnd(p) ==
  IF req[p].unlink
    THEN /\ Goto(p, "unlink")
         /\ UNCHANGED <<lock, asked, age, loaded, scanned, base, rc, seen, gone>>
    ELSE Ends(p)

(* A manifest that parses after a run that completed is the last known     *)
(* good state; what was moved aside goes then, in a step of its own and    *)
(* whatever has become of the manifest since.  A run that ended in Locate  *)
(* has no name for the manifest yet and leaves it.                         *)
Tidy_M1(p) ==                      \* the aside goes whatever is there
  /\ pc[p] = "tidy"
  /\ IF rc[p] = 0
       THEN /\ Goto(p, "drop")
            /\ UNCHANGED <<lock, asked, age, loaded, scanned, base, rc, seen, gone>>
       ELSE UnlinkOrEnd(p)
  /\ UNCHANGED <<device, left, store>>

Tidy(p) ==
  /\ pc[p] = "tidy"
  /\ IF rc[p] = 0 /\ Parses /\ ident[p] # None
       THEN /\ Goto(p, "drop")
            /\ UNCHANGED <<lock, asked, age, loaded, scanned, base, rc, seen, gone>>
       ELSE UnlinkOrEnd(p)
  /\ UNCHANGED <<device, left, store>>

Drop(p) ==
  /\ pc[p] = "drop"
  /\ aside' = {}
  /\ UnlinkOrEnd(p)
  /\ UNCHANGED <<device, left, manifest, renames, stage, stamps>>

Unlink(p, q) ==
  /\ pc[p] = "unlink"
  /\ q \in req[p].paths \cap OnDisk
  /\ disk' = [disk EXCEPT ![card][q] = None]
  /\ deleted' = IF rc[p] = 0 THEN deleted \cup {q} ELSE deleted
  /\ UNCHANGED <<card, era, game, wrote, left, store, lock, pc, asked, age,
                 loaded, scanned, base, rc, seen, gone>>

Unlinked(p) ==
  /\ pc[p] = "unlink"
  /\ req[p].paths \cap OnDisk = {}
  /\ Ends(p)
  /\ UNCHANGED <<device, left, store>>

-----------------------------------------------------------------------------
(* The manifest a device comes up with: each claimed path is on the card,  *)
(* its seal in the stage.                                                  *)
Init ==
  /\ disk \in StartDisks
  /\ card = Home
  /\ era = 0 /\ game = None /\ deleted = {}
  /\ wrote = UNION {{<<disk[c][q].sha, 0>> : q \in {r \in Path : disk[c][r] # None}} : c \in Card}
  /\ left \in Scenarios
  /\ \E k \in StartKinds, claimed \in SUBSET OnDisk :
       /\ k = "absent" => claimed = {}
       /\ manifest =
            [kind |-> k,
             doc |-> [EmptyDoc EXCEPT !.entries =
                        [q \in Path |-> IF q \in claimed /\ k = "good"
                                          THEN [sha |-> disk[card][q].sha, mt |-> 0, by |-> 0]
                                          ELSE None]],
             stat |-> IF k = "absent" THEN 0 ELSE 1]
       /\ stage = [s \in Sha |-> IF \E q \in claimed : disk[card][q].sha = s
                                   THEN "old" ELSE "none"]
  /\ renames = 1
  /\ aside = {} /\ stamps = NoStamps /\ lock = None
  /\ pc = [p \in Proc |-> "idle"]
  /\ req = [p \in Proc |-> NoRequest] /\ retry = [p \in Proc |-> FALSE]
  /\ age = [p \in Proc |-> 0] /\ ident = [p \in Proc |-> None]
  /\ src = [p \in Proc |-> FALSE] /\ live0 = [p \in Proc |-> 0]
  /\ claims = [p \in Proc |-> NoFiles] /\ base = [p \in Proc |-> EmptyDoc]
  /\ todo = [p \in Proc |-> {}] /\ sealed = [p \in Proc |-> NoFiles]
  /\ present = [p \in Proc |-> {}] /\ strayed = [p \in Proc |-> FALSE]
  /\ rc = [p \in Proc |-> 0] /\ seen = [p \in Proc |-> NoStamps]
  /\ gone = [p \in Proc |-> {}]

Run(p) ==
  \/ Locate(p) \/ Inspect(p) \/ MoveAside(p) \/ MoveAsideFails(p)
  \/ TakeStat(p) \/ ReadClaims(p)
  \/ \E q \in Path : PassOver(p, q) \/ Seal(p, q) \/ SealFails(p, q)
  \/ Classify(p) \/ MergeDoc(p) \/ TakeLock(p) \/ LockBusy(p)
  \/ CheckManifest(p) \/ CheckCard(p)
  \/ Rename(p) \/ RenameFails(p) \/ ListGarbage(p) \/ RemoveGarbage(p)
  \/ FinishLock(p) \/ ReadStamps(p) \/ WriteStamps(p) \/ Tidy(p) \/ Drop(p)
  \/ (\E q \in Path : Unlink(p, q)) \/ Unlinked(p)

Asked(p) ==
  \/ ExitGame(p) \/ StartFull(p)
  \/ \E u \in Unit : StartRescan(p, u)
  \/ \E paths \in SUBSET Path, unlink \in BOOLEAN : StartRetire(p, paths, unlink)
  \/ \E dest, from \in Path : StartAdopt(p, dest, from)

Environment ==
  \/ \E u \in Unit : LaunchGame(u)
  \/ \E q \in Path, s \in Sha : SaveGame(q, s) \/ RestoreFile(q, s)
  \/ \E c \in Card : SwapCard(c)
  \/ \E s \in Sha : AgeSeal(s)

Next ==
  \/ Environment
  \/ \E p \in Proc : Asked(p) \/ Run(p) \/ Elapse(p) \/ Kill(p)

Spec == Init /\ [][Next]_vars

(* The kernel schedules every run of the script, and nothing in it waits   *)
(* on another without a bound.                                             *)
FairSpec == Spec /\ \A p \in Proc : WF_vars(Run(p))

-----------------------------------------------------------------------------
Labels == {"idle", "locate", "inspect", "aside", "stat", "claims", "scan",
           "merge", "lock", "check", "card", "rename", "gclist",
           "gcrm", "finlock", "stamp", "mvstamp", "tidy", "drop", "unlink"}
Manifest == [kind : Kinds, doc : Doc, stat : Nat]

DeviceOK ==
  /\ disk \in [Card -> Local] /\ card \in Card /\ era \in Nat
  /\ game \in {None} \cup [unit : Unit, session : Nat]
  /\ wrote \subseteq Sha \X (Nat \cup {None}) /\ deleted \subseteq Path
  /\ left \in [Events -> Nat]

StoreOK ==
  /\ manifest \in Manifest /\ renames \in Nat
  /\ stage \in [Sha -> {"none", "young", "old"}]
  /\ aside \subseteq Kinds /\ stamps \in [Modes -> Nat]
  /\ lock \in Proc \cup {None}

RunOK ==
  /\ pc \in [Proc -> Labels] /\ req \in [Proc -> Request]
  /\ retry \in [Proc -> BOOLEAN] /\ age \in [Proc -> 0..2]
  /\ ident \in [Proc -> Card \cup {None}]

WorkOK ==
  /\ src \in [Proc -> BOOLEAN] /\ live0 \in [Proc -> Nat]
  /\ claims \in [Proc -> Entries]
  /\ todo \in [Proc -> SUBSET Path] /\ sealed \in [Proc -> Local]
  /\ present \in [Proc -> SUBSET Path] /\ strayed \in [Proc -> BOOLEAN]
  /\ base \in [Proc -> Doc] /\ rc \in [Proc -> 0..3]
  /\ seen \in [Proc -> [Modes -> Nat]] /\ gone \in [Proc -> SUBSET Sha]

TypeOK == DeviceOK /\ StoreOK /\ RunOK /\ WorkOK

(* Two writers are serialised: the document a run renames into place was   *)
(* computed, claims and merge both, from the very document it replaces.    *)
(* Detection and the lock are both needed; neither alone is enough.        *)
CommitOnLoaded ==
  \A p \in Proc : pc[p] = "rename" =>
    base[p] = manifest.doc /\ claims[p] = manifest.doc.entries

(* A stage file is kept while an unpublished entry references it, and it   *)
(* is there from the moment the entry is.                                  *)
EntriesSealed == \A s \in Referenced : stage[s] # "none"

(* An exit capture never records for its session over a later one: while   *)
(* it commits, no game has been launched since the game it reports.        *)
NotOverNewGame ==
  \A p \in Proc : pc[p] = "rename" /\ req[p].mode = "exit" => game = None

(* What is committed was read from the card the run started on.            *)
OneCardPerCommit == \A p \in Proc : pc[p] = "rename" => ~strayed[p]

(* What a session is credited with was written since the device came up,   *)
(* and by no game after it: neither a file capture found there, nor the    *)
(* work of a game that was launched over a hung capture.  The contents are *)
(* that session's or, where a capture was passed over, an earlier one's;   *)
(* or (None) what a restore or a copy wrote before the capture looked,     *)
(* which it cannot tell from the game's work.  A card put in between a     *)
(* game and its capture passes for the game's work as well.                *)
CreditHonest(doc) ==
  \A q \in Path : LET e == doc.entries[q] IN
    e # None /\ e.by > 0 => \E by \in {None} \cup 1..e.by : <<e.sha, by>> \in wrote

CreditsInTime == card = Home => CreditHonest(manifest.doc)

(* A deletion recorded and carried out stands: the manifest claims nothing *)
(* at the path until something is written there again.                     *)
DeletionStands ==
  \A q \in deleted : disk[card][q] = None => manifest.doc.entries[q] = None

(* The record of a device that came up with one, readable or not, is never *)
(* lost altogether: a manifest stands, or a copy that was moved aside.     *)
RecordKept ==
  "absent" \notin StartKinds => manifest.kind # "absent" \/ aside # {}

(* These three hold while runs come one after the other.  (Beside each     *)
(* other they break them: MCCaptureSealRace, MCCaptureDeletion and         *)
(* MCCaptureAside.)  The GC never takes what a later run relies on,        *)
OneRun == \A p, r \in Proc : Running(p) /\ Running(r) => p = r
EntriesSealedAlone == []OneRun => []EntriesSealed

(* nothing that a run saw before a deletion is recorded after it,          *)
DeletionStandsAlone == []OneRun => []DeletionStands

(* and the copy of a manifest that would not parse goes only once a good   *)
(* one stands in its place.                                                *)
RecordKeptAlone == []OneRun => []RecordKept

(* A manifest that can be read is never moved aside or lost.               *)
ReadableNeverDropped ==
  [][manifest.kind \in {"good", "newer"} => manifest'.kind = manifest.kind]_vars

(* PL-067: a seal of the last ten minutes is never collected, whoever      *)
(* placed it and whatever the manifest says of it.                         *)
YoungSealsKept ==
  [][\A s \in Sha : stage[s] = "young" => stage'[s] # "none"]_vars

(* One line per mode in last-capture: a run's stamp never takes away, or   *)
(* sets back, the line another mode left.                                  *)
StampLinesKept == [][\A m \in Modes : stamps'[m] >= stamps[m]]_vars

(* A row leaves the retired list only for RETIRED_MAX newer ones.          *)
RetiredRowsKept ==
  [][\A r \in manifest.doc.retired \ manifest'.doc.retired :
       Cardinality({s \in manifest'.doc.retired : Newer(s, r)}) = RetiredMax]_vars

(* Every run ends; nobody holds the lock for ever.                         *)
RunsEnd == \A p \in Proc : Running(p) ~> ~Running(p)

(* The file the player deleted goes, whatever became of its record, unless *)
(* the run is killed.                                                      *)
UnlinkHappens ==
  \A p \in Proc : \A q \in Path :
    (Running(p) /\ req[p].unlink /\ q \in req[p].paths /\ left["kill"] = 0)
      ~> (disk[card][q] = None)

(* The runs beside each other amount to one record changed step by step.   *)
AsRecord == INSTANCE SaveRecord WITH record <- manifest.doc
ImplementsRecord == AsRecord!Spec

=============================================================================
