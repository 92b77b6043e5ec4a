------------------------------ MODULE MCOpLog ------------------------------
(***************************************************************************)
(* Instances of OpLog. Ops share nothing but the host's crashes, so one     *)
(* op_id is enough: a and b retry one call, d reuses its op_id with other   *)
(* params.                                                                  *)
(***************************************************************************)
EXTENDS OpLog

CONSTANTS o1, a, b, d

MCOps == {o1}
MCReqs == {a, b, d}
MCOpOf == [r \in MCReqs |-> o1]
MCMethodOf == [r \in MCReqs |-> IF r = d THEN "other" ELSE "same"]
=============================================================================
