------------------------------ MODULE MCLanes ------------------------------
(* Instances of Lanes for TLC: the bounds of the rare events, and symmetry.  *)
EXTENDS Lanes, TLC

(* How often each rare event may happen in a run.                           *)
Rarely(stop, move, close, expire, crash) ==
    [r \in Rare |-> CASE r = "stop" -> stop [] r = "move" -> move
                      [] r = "close" -> close [] r = "expire" -> expire
                      [] r = "crash" -> crash]

BudgetNone == Rarely(0, 0, 0, 0, 0)
BudgetMoveCrash == Rarely(0, 1, 0, 0, 1)
BudgetStopCloseExpire == Rarely(1, 0, 1, 1, 0)
BudgetCrash == Rarely(0, 0, 0, 0, 1)

Symmetry == Permutations(Agents) \cup Permutations(Jobs)
=============================================================================
