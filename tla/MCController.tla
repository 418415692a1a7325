---- MODULE MCController ----
EXTENDS ControllerLedger, TLC
CONSTANTS r1, r2, c1, o1, a1, a2, a3, a4
MCOwnerOf == [n \in Nodes |-> o1]
MCVariants == [n \in Nodes |-> IF n = r1 THEN {1, 2} ELSE {1}]
Ev(class, captured, invalid, overrun) ==
  [class |-> class, captured |-> captured, invalid |-> invalid, overrun |-> overrun]
MCOutcomes == {Ev("success", TRUE, FALSE, FALSE),
               Ev("success", TRUE, FALSE, TRUE),
               Ev("retryable_output", TRUE, FALSE, FALSE),
               Ev("nonretryable", FALSE, TRUE, FALSE),
               Ev("ambiguous", FALSE, FALSE, FALSE)}
Perms == Permutations(Attempts)
====
