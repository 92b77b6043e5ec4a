---------------------------- MODULE MCTurnLife -----------------------------
(* Instances of TurnLife for TLC.                                           *)
EXTENDS TurnLife, TLC

(* Lanes are interchangeable, and so are the clients' calls.                 *)
Symmetry == Permutations(Agents) \cup Permutations(Callers)

(* A move is the only call of its run, and no drive fails beside it. MCHost  *)
(* has moves beside other calls; MCTurnLifeFail shows what a failing drive   *)
(* and a move do together.                                                   *)
MoveAlone ==
    \A c \in Callers : cMode'[c] = "move" =>
        /\ \A d \in Callers \ {c} : cMode'[d] = "none"
        /\ \A w \in Tasks : out'[w] # "fail"
=============================================================================
