------------------------------ MODULE SaveRecord ------------------------------
(***************************************************************************)
(* What the save manifest promises its readers: one record, changed only   *)
(* by whole steps, each computed from the record as it stands.  A pass     *)
(* over saves records new versions and moves old ones; a copy adds one     *)
(* entry; a deletion takes entries away and leaves a row for each.         *)
(* CloudCapture, with its lock, its detection and its re-runs, implements  *)
(* this.                                                                   *)
(***************************************************************************)
EXTENDS CaptureOps

VARIABLE record

Init == record \in Doc

(* The version of q goes on elsewhere in its unit, with its credit.        *)
MovedAway(q) ==
  \E p \in Path \ {q} :
    /\ UnitOf[p] = UnitOf[q]
    /\ record'.entries[p] # None
    /\ record'.entries[p].sha = record.entries[q].sha
    /\ record'.entries[p].by = record.entries[q].by

(* A path keeps its entry; or its version stays, credit and all, with a    *)
(* new time; or a new version is claimed there; or its version moved away. *)
Record ==
  /\ record'.retired = record.retired
  /\ record'.entries \in Entries
  /\ \A q \in Path :
       LET old == record.entries[q]
           new == record'.entries[q]
       IN  \/ new = old
           \/ old = None
           \/ new # None /\ (new.sha = old.sha => new.by = old.by)
           \/ new = None /\ MovedAway(q)

Copy(q) ==
  /\ record'.retired = record.retired
  /\ record'.entries[q] \in Entry
  /\ record' = [record EXCEPT !.entries[q] = record'.entries[q]]

(* The rows name the versions that were claimed, or bytes nothing claimed. *)
Delete(paths) ==
  \E at \in {r.at : r \in record'.retired} :
  \E shas \in [paths -> Sha] :
    /\ \A q \in paths : record.entries[q] # None => shas[q] = record.entries[q].sha
    /\ record' = [entries |-> [q \in Path |-> IF q \in paths THEN None
                                              ELSE record.entries[q]],
                  retired |-> Newest(record.retired \cup
                                {[path |-> q, sha |-> shas[q], at |-> at] : q \in paths})]

Next == \/ Record
        \/ \E q \in Path : Copy(q)
        \/ \E paths \in (SUBSET Path) \ {{}} : Delete(paths)

Spec == Init /\ [][Next]_record

=============================================================================
