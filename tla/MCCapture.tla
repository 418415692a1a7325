------------------------------- MODULE MCCapture -------------------------------
(* Instances of CloudCapture for TLC.  A scenario says how much of each    *)
(* event can happen; a run of TLC explores every scenario of its set.      *)
EXTENDS CloudCapture, TLC

MCPath == {1, 2}
MCPathOne == {1}
MCUnitOf == [q \in Path |-> "zelda"]
ProcSymmetry == Permutations(Proc)

-----------------------------------------------------------------------------
(* What the cards hold when the device comes up.                           *)
File(s) == [sha |-> s, mt |-> 0]
Cards(d) == [c \in Card |-> d]
StartOne == {Cards([q \in Path |-> IF q = 1 THEN File("x") ELSE None])}
StartEither == StartOne \cup {Cards(NoFiles)}

-----------------------------------------------------------------------------
Quiet == [e \in Events |-> 0]
(* One game, which saves once or more.                                     *)
Game(saves) == [Quiet EXCEPT !["launch"] = 1, !["save"] = saves]

(* An exit capture can overlap boot passes and the manager's deletions;    *)
(* with no game, the manager deletes and copies beside a boot pass; and    *)
(* restores and copies come before, between and after games.               *)
ScenariosPair ==
  {[Game(1) EXCEPT !["full"] = 2],
   [Game(1) EXCEPT !["full"] = 1, !["retire"] = 1],
   [Quiet EXCEPT !["restore"] = 1, !["retire"] = 2],
   [Quiet EXCEPT !["restore"] = 1, !["full"] = 1, !["retire"] = 1, !["adopt"] = 1],
   [Game(1) EXCEPT !["launch"] = 2, !["restore"] = 1],
   [Game(1) EXCEPT !["restore"] = 1, !["adopt"] = 1]}

(* Games that save, pass over hung captures, or meet a boot pass; a card   *)
(* that is swapped; runs that fail or are killed.                          *)
ScenariosGames ==
  {[Quiet EXCEPT !["launch"] = 3, !["save"] = 1],
   [Game(2) EXCEPT !["full"] = 1],
   [Game(1) EXCEPT !["full"] = 1, !["kill"] = 1],
   [Game(1) EXCEPT !["full"] = 1, !["fault"] = 1],
   [Game(1) EXCEPT !["rescan"] = 1, !["swap"] = 1]}

(* Both sets in one run; the first starts from a good manifest.            *)
ScenariosDevice == ScenariosPair \cup ScenariosGames
DeviceInit ==
  /\ Init
  /\ left \in ScenariosPair => manifest.kind = "good" /\ disk \in StartOne
DeviceSpec == DeviceInit /\ [][Next]_vars

(* One run after the other, in every mode.                                 *)
ScenariosAlone ==
  {[Game(1) EXCEPT ![m] = 1, ![n] = 1, !["kill"] = 1] : m, n \in Modes \ {"exit"}}
  \cup {[Game(1) EXCEPT !["full"] = 2, !["fault"] = 1]}

(* A boot pass and an exit capture beside each other, no manager.          *)
ScenariosBoots ==
  {[Game(1) EXCEPT !["full"] = 1], [Game(0) EXCEPT !["full"] = 1, !["rescan"] = 1]}

ScenariosSealRace == {[Game(1) EXCEPT !["full"] = 1, !["adopt"] = 1]}
ScenariosDeletion == {[Game(1) EXCEPT !["retire"] = 1]}

(* A game's exit beside the manager's deletion.  With one card nothing can *)
(* be swapped: a swap left over only marks that runs may overlap.          *)
ScenariosEnds == {[Game(1) EXCEPT !["retire"] = 1, !["swap"] = 1]}
ScenariosAloneOrEnds == ScenariosAlone \cup ScenariosEnds

Overlapping == left["swap"] = 1
First == CHOOSE p \in Proc : TRUE
Beside(p) == Overlapping /\ Asked(p)
AloneInit == Init /\ (Overlapping => manifest.kind = "good")
AloneNext ==
  \/ Environment \/ Asked(First)
  \/ \E p \in Proc : Beside(p) \/ Run(p) \/ Elapse(p) \/ Kill(p)

AloneSpec == AloneInit /\ [][AloneNext]_vars /\ \A p \in Proc : WF_vars(Run(p))
=============================================================================
