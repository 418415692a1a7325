------------------------------ MODULE CaptureOps ------------------------------
(***************************************************************************)
(* What one run of cloud_capture makes of what it observed: the changed    *)
(* set (STEP 5), the classification of every sealed path as META, MOVE or  *)
(* PUT (STEP 7), the copy of --adopt (STEP 7b), the rows of --retire       *)
(* (STEP 8) and the merge of all of them into the save manifest (STEP 9).  *)
(*                                                                         *)
(* The operators are pure.  CloudCapture uses them inside its steps;       *)
(* CaptureOnce runs them over every small input.                           *)
(*                                                                         *)
(* Abstractions.  A path is a natural number, so that < is the version     *)
(* order of sort_paths, and among the states of one unit the slot order.   *)
(* Size and modification time are one value, mt.  The provenance of an     *)
(* entry (emulator, core and build, or "unknown") is the number of the     *)
(* game session it credits, 0 for unknown.  Thumbnails are left out.       *)
(*                                                                         *)
(* Names ending in _M are mutants: the operator of the same name with a    *)
(* plausible mistake in it.  No specification uses them; the README says   *)
(* which property notices which.                                           *)
(***************************************************************************)
EXTENDS Naturals, FiniteSets, FiniteSetsExt, Folds

CONSTANTS
  Path,        \* the paths of the saves folder, relative to it
  Sha,         \* contents, named by their sha256
  Unit,        \* one game's save in one system
  UnitOf,      \* the unit a path is a member of
  RetiredMax,  \* RETIRED_MAX: how many retired rows the manifest keeps
  None         \* no file, no entry, no value

ASSUME PathAssumption == Path \subseteq Nat /\ IsFiniteSet(Path)
ASSUME UnitAssumption == UnitOf \in [Path -> Unit]
ASSUME RetiredMaxAssumption == RetiredMax \in Nat \ {0}

(* A file as stat and sha256sum see it, and a manifest entry for one.      *)
Version == [sha : Sha, mt : Nat]
Entry == [sha : Sha, mt : Nat, by : Nat]
Row == [sha : Sha, path : Path, at : Nat]

ASSUME NoneAssumption == /\ None \notin Version /\ None \notin Entry
                         /\ None \notin Path    /\ None \notin Nat

Local == [Path -> Version \cup {None}]
Entries == [Path -> Entry \cup {None}]
Doc == [entries : Entries, retired : SUBSET Row]
EmptyDoc == [entries |-> [q \in Path |-> None], retired |-> {}]

Modes == {"exit", "rescan", "full", "retire", "adopt"}
ScanModes == {"exit", "rescan", "full"}

(* What a run was asked: the session an exit reports, the paths retired,   *)
(* the copy adopted and the slot it was made from.                         *)
Request == [mode : Modes, unit : Unit \cup {None}, started : Nat,
            paths : SUBSET Path, unlink : BOOLEAN,
            dest : Path \cup {None}, from : Path \cup {None}]

-----------------------------------------------------------------------------
(* STEP 5: is the file at q a candidate?  An exit records an unclaimed     *)
(* member only if this session wrote it, and a claimed one when its size   *)
(* or time moved; the verify passes hash every member.                     *)
Changed_M1(req, claims, q, file) ==    \* > where the code has -ge
  IF claims[q] = None
    THEN req.mode = "exit" => file.mt > req.started
    ELSE req.mode \in {"rescan", "full"} \/ file.mt # claims[q].mt

Changed_M2(req, claims, q, file) ==    \* pre-existing files stamped too
  IF claims[q] = None THEN TRUE
    ELSE req.mode \in {"rescan", "full"} \/ file.mt # claims[q].mt

Changed(req, claims, q, file) ==
  IF claims[q] = None
    THEN req.mode = "exit" => file.mt >= req.started
    ELSE req.mode \in {"rescan", "full"} \/ file.mt # claims[q].mt

-----------------------------------------------------------------------------
(* STEP 7.  sealed[q] is the version sealed at q, None when q is not a     *)
(* candidate; present is the set of paths that hold a file.                *)
Candidates(sealed) == {q \in Path : sealed[q] # None}

SameVersion(claims, sealed, q) ==
  claims[q] # None /\ claims[q].sha = sealed[q].sha

(* entry_holds: does the entry at q still describe the bytes at q?         *)
EntryHolds(claims, sealed, present, q) ==
  q \in present /\ (sealed[q] # None => SameVersion(claims, sealed, q))

(* find_move_source: the entries of dest's unit that carry its bytes and   *)
(* no longer hold them, a vanished one first, then the lowest slot.        *)
FreeSources_M1(claims, sealed, present, dest, taken) ==   \* any unit
  {q \in Path \ ({dest} \cup taken) :
     /\ claims[q] # None /\ claims[q].sha = sealed[dest].sha
     /\ ~EntryHolds(claims, sealed, present, q)}

FreeSources_M2(claims, sealed, present, dest, taken) ==   \* any bytes
  {q \in Path \ ({dest} \cup taken) :
     /\ claims[q] # None /\ UnitOf[q] = UnitOf[dest]
     /\ ~EntryHolds(claims, sealed, present, q)}

FreeSources_M3(claims, sealed, present, dest, taken) ==   \* held ones too
  {q \in Path \ ({dest} \cup taken) :
     /\ claims[q] # None /\ claims[q].sha = sealed[dest].sha
     /\ UnitOf[q] = UnitOf[dest]}

FreeSources(claims, sealed, present, dest, taken) ==
  {q \in Path \ ({dest} \cup taken) :
     /\ claims[q] # None /\ claims[q].sha = sealed[dest].sha
     /\ UnitOf[q] = UnitOf[dest]
     /\ ~EntryHolds(claims, sealed, present, q)}

BestSource(sources, present) ==
  LET best == IF sources \ present # {} THEN sources \ present ELSE sources
  IN  CHOOSE q \in best : \A r \in best : q <= r

(* The moves, decided in path order, the greatest last; a source serves    *)
(* one destination.                                                        *)
Destinations(claims, sealed) ==
  {q \in Candidates(sealed) : ~SameVersion(claims, sealed, q)}

Matched(claims, sealed, present) ==
  LET decide(dest, mv) ==
        LET sources == FreeSources(claims, sealed, present, dest,
                                   {mv[q] : q \in Path})
        IN  IF sources = {} THEN mv
            ELSE [mv EXCEPT ![dest] = BestSource(sources, present)]
  IN  MapThenFoldSet(decide, [q \in Path |-> None], LAMBDA q : q,
                     LAMBDA S : Max(S), Destinations(claims, sealed))

Moves(claims, sealed, present) ==
  [q \in Path |-> IF q \in Destinations(claims, sealed)
                    THEN Matched(claims, sealed, present)[q] ELSE None]

(* The operations of a run: for each path the one it gets, if any.         *)
NoOps == [meta |-> {}, move |-> [q \in Path |-> None], put |-> {},
          copy |-> {}, retire |-> {}]

ScanOps(req, claims, sealed, present) ==
  LET mv == Moves(claims, sealed, present)
  IN  [NoOps EXCEPT
        !.meta = {q \in Candidates(sealed) :
                    /\ SameVersion(claims, sealed, q)
                    /\ sealed[q].mt # claims[q].mt},
        !.move = mv,
        !.put  = {q \in Candidates(sealed) :
                    /\ ~SameVersion(claims, sealed, q)
                    /\ mv[q] = None
                    /\ req.mode = "exit" \/ claims[q] # None}]

(* STEP 7b: the source's version when the copy carries its bytes and the   *)
(* source is of this unit, else a version of unknown provenance.           *)
AdoptOps(req, claims, sealed) ==
  IF /\ claims[req.from] # None
     /\ claims[req.from].sha = sealed[req.dest].sha
     /\ UnitOf[req.from] = UnitOf[req.dest]
    THEN [NoOps EXCEPT !.copy = {req.dest}]
    ELSE [NoOps EXCEPT !.put = {req.dest}]

(* STEP 8: a row for each path something is known about.                   *)
RetireOps_M(req, claims, sealed) ==        \* only what was hashed here
  [NoOps EXCEPT !.retire = {q \in req.paths : sealed[q] # None}]

RetireOps(req, claims, sealed) ==
  [NoOps EXCEPT !.retire = {q \in req.paths : claims[q] # None \/ sealed[q] # None}]

OpsOf(req, claims, sealed, present) ==
  IF req.mode \in ScanModes THEN ScanOps(req, claims, sealed, present)
  ELSE IF req.mode = "adopt" THEN AdoptOps(req, claims, sealed)
  ELSE RetireOps(req, claims, sealed)

-----------------------------------------------------------------------------
(* STEP 9: MERGE_JQ.  A move reads its source from the document as loaded; *)
(* the sources left dead are deleted after every other operation.          *)
DeadSources_M(ops) == {ops.move[q] : q \in {d \in Path : ops.move[d] # None}}

DeadSources(ops) ==
  {ops.move[q] : q \in {d \in Path : ops.move[d] # None}}
    \ ({d \in Path : ops.move[d] # None} \cup ops.put \cup ops.meta)

Provenance(req) == IF req.mode = "exit" THEN req.started ELSE 0

Carried(doc, source, version) ==
  IF source \in Path /\ doc.entries[source] # None
    THEN [doc.entries[source] EXCEPT !.mt = version.mt] ELSE None

MergedEntry(req, doc, sealed, ops, q) ==
  CASE q \in ops.retire \cup DeadSources(ops) -> None
    [] q \in ops.put    -> [sha |-> sealed[q].sha, mt |-> sealed[q].mt,
                            by |-> Provenance(req)]
    [] q \in ops.meta   -> Carried(doc, q, sealed[q])
    [] q \in ops.copy   -> Carried(doc, req.from, sealed[q])
    [] ops.move[q] # None -> Carried(doc, ops.move[q], sealed[q])
    [] OTHER            -> doc.entries[q]

RetiredRows(claims, sealed, ops, at) ==
  {[path |-> q, at |-> at,
    sha |-> IF claims[q] # None THEN claims[q].sha ELSE sealed[q].sha] :
     q \in ops.retire}

(* sort_by(.at), then the newest RETIRED_MAX of them; the rows of one run  *)
(* stand in path order.                                                    *)
Newer(r, s) == r.at > s.at \/ (r.at = s.at /\ r.path > s.path)
Newest_M(rows) ==
  {r \in rows : Cardinality({s \in rows : Newer(s, r)}) < RetiredMax - 1}

Newest(rows) == {r \in rows : Cardinality({s \in rows : Newer(s, r)}) < RetiredMax}

Merge_M(req, doc, claims, sealed, ops, at) ==   \* retired is not carried on
  [entries |-> [q \in Path |-> MergedEntry(req, doc, sealed, ops, q)]]

(* at is the time the run loaded the document.                             *)
Merge(req, doc, claims, sealed, ops, at) ==
  [entries |-> [q \in Path |-> MergedEntry(req, doc, sealed, ops, q)],
   retired |-> Newest(doc.retired \cup RetiredRows(claims, sealed, ops, at))]

=============================================================================
