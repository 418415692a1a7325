---- MODULE MCStaged ----
EXTENDS StagedController, TLC
CONSTANTS r1, r2, o1, a1, a2, p1, p2
MCOwnerOf == [n \in Nodes |-> o1]
MCVariants == [n \in Nodes |-> {1}]
Ev(class, captured, invalid, overrun) ==
  [class |-> class, captured |-> captured, invalid |-> invalid, overrun |-> overrun]
MCResults == {Ev("success", TRUE, FALSE, FALSE),
              Ev("success", TRUE, FALSE, TRUE)}
MCOutcomes == MCResults \cup
              {Ev("nonretryable", FALSE, TRUE, FALSE),
               Ev("ambiguous", FALSE, FALSE, FALSE),
               Ev("not_dispatched", FALSE, FALSE, FALSE)}
Perms == Permutations(Attempts) \cup Permutations(Procs)
         \cup Permutations(Nodes)
====
