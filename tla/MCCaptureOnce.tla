----------------------------- MODULE MCCaptureOnce -----------------------------
(* Three slots of one game beside a save of another.  Any slot can hold    *)
(* any of three contents; two of them can be newer than the session.       *)
EXTENDS CaptureOnce

MCPath == 1..4
MCUnitOf == [q \in MCPath |-> IF q = 4 THEN "tetris" ELSE "zelda"]

File(s, t) == [sha |-> s, mt |-> t]
Slot == {None, File("x", 0), File("x", 1), File("y", 0), File("z", 1)}
Other == {None, File("x", 0)}
MCFiles == {f \in [MCPath -> Slot] : f[4] \in Other}
=============================================================================
