------------------------------ MODULE CaptureOnce ------------------------------
(***************************************************************************)
(* One verify or exit pass of cloud_capture with nobody beside it: every   *)
(* member of the scanned unit is stat'ed, the changed ones are sealed, the *)
(* result is classified and merged.  The run is repeated once over the     *)
(* document it wrote.  The inputs are every pair of a manifest and a saves *)
(* folder out of Files, so the properties below say what STEP 5 to STEP 9  *)
(* compute, whatever the player did with the files.                        *)
(***************************************************************************)
EXTENDS CaptureOps

CONSTANTS
  MaxTime,  \* the second the session of an exit started in
  Files     \* what the saves folder can hold, and what can be claimed

ASSUME FilesAssumption ==
  /\ MaxTime \in Nat
  /\ Files \subseteq [Path -> [sha : Sha, mt : 0..MaxTime] \cup {None}]

VARIABLES
  request,  \* what was asked: exit, --rescan or --full
  folder,   \* the saves folder: a version or None at each path
  before,   \* the manifest the pass loaded
  doc,      \* the manifest now
  passes    \* passes made

once == <<request, folder, before, doc, passes>>

(* M_PATHS: the unit's files on disk; a full pass takes every claimed path *)
(* that is on disk, whatever its unit.                                     *)
Members(r, claims) ==
  {q \in Path : /\ folder[q] # None
                /\ IF r.mode = "full" THEN claims[q] # None ELSE UnitOf[q] = r.unit}

Sealed(r, claims) ==
  [q \in Path |->
     IF q \in Members(r, claims) /\ Changed(r, claims, q, folder[q])
       THEN folder[q] ELSE None]

Pass(d) ==
  LET sealed  == Sealed(request, d.entries)
      present == {q \in Path : folder[q] # None}
      ops     == OpsOf(request, d.entries, sealed, present)
  IN  Merge(request, d, d.entries, sealed, ops, passes)

(* A manifest whose entry at q is credited to a session of its own, so     *)
(* that the origin of a version's provenance can be told afterwards.       *)
Credited(c) ==
  [entries |-> [q \in Path |-> IF c[q] = None THEN None ELSE
                  [sha |-> c[q].sha, mt |-> c[q].mt, by |-> MaxTime + 1 + q]],
   retired |-> {}]

Requests == {[mode |-> m, unit |-> IF m = "full" THEN None ELSE u,
              started |-> IF m = "exit" THEN MaxTime ELSE 0, paths |-> {},
              unlink |-> FALSE, dest |-> None, from |-> None] :
               m \in ScanModes, u \in Unit}

OnceInit ==
  /\ request \in Requests
  /\ folder \in Files
  /\ before \in {Credited(c) : c \in Files}
  /\ doc = before
  /\ passes = 0

Again ==
  /\ passes < 2
  /\ doc' = Pass(doc)
  /\ passes' = passes + 1
  /\ UNCHANGED <<request, folder, before>>

OnceSpec == OnceInit /\ [][Again]_once

-----------------------------------------------------------------------------
(* What a pass is for: an exit records every file its session wrote, from  *)
(* the second it started on, and every claimed member that moved; a verify *)
(* pass the bytes of every claimed member.  A file a verify pass may not   *)
(* adopt is the only one left out.                                         *)
CandidatesRecorded ==
  passes > 0 =>
    \A q \in Members(request, before.entries) :
      LET old == before.entries[q]
      IN  (IF old = None THEN request.mode = "exit" /\ folder[q].mt >= request.started
                         ELSE request.mode # "exit" \/ folder[q].mt # old.mt)
          => doc.entries[q] # None /\ doc.entries[q].sha = folder[q].sha

(* Provenance belongs to a version: an entry credited to an earlier        *)
(* session carries the bytes that session's entry in the same unit did,    *)
(* however the files were renamed, swapped or overwritten.                 *)
ProvenanceFollowsVersion ==
  \A q \in Path :
    doc.entries[q] # None /\ doc.entries[q].by > MaxTime =>
      \E p \in Path : /\ before.entries[p] # None
                      /\ before.entries[p].by = doc.entries[q].by
                      /\ before.entries[p].sha = doc.entries[q].sha
                      /\ UnitOf[p] = UnitOf[q]

(* A verify pass loses no version that is still on a member of its unit:   *)
(* renumbered, swapped or copied over, some entry of the unit claims it    *)
(* afterwards.                                                             *)
NoVersionLost ==
  passes > 0 /\ request.mode = "rescan" =>
    \A q \in Path :
      /\ before.entries[q] # None
      /\ \E p \in Members(request, before.entries) :
           UnitOf[p] = UnitOf[q] /\ folder[p].sha = before.entries[q].sha
      => \E p \in Path : /\ doc.entries[p] # None
                         /\ doc.entries[p].sha = before.entries[q].sha
                         /\ UnitOf[p] = UnitOf[q]

(* A claimed member whose file is gone stays declared, unless its version  *)
(* was found at another path of the unit (torn-set detection needs it).    *)
VanishedStaysClaimed ==
  \A q \in Path :
    before.entries[q] # None /\ folder[q] = None =>
      \/ doc.entries[q] = before.entries[q]
      \/ \E p \in Path : /\ UnitOf[p] = UnitOf[q] /\ folder[p] # None
                         /\ folder[p].sha = before.entries[q].sha
                         /\ doc.entries[p] # None
                         /\ doc.entries[p].by = before.entries[q].by

(* I8: a second pass over unchanged files writes nothing.                  *)
SecondPassIsQuiet == [][passes = 1 => doc' = doc]_once

=============================================================================
