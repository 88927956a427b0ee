------------------------------- MODULE VarMasks ------------------------------
(***************************************************************************)
(* Which variables are meant, in one word (term/expr.rs): a mask is the    *)
(* set of its bits, a bit for each of the nearest NEAR variables and bit   *)
(* FAR for all that lie further out.                                       *)
(***************************************************************************)
EXTENDS Integers

CONSTANT NEAR       \* NEAR_VARS, 63 in the code

ASSUME VarMasksAssumption == NEAR \in Nat \ {0}

FAR         == NEAR
MAX_TRACKED == NEAR + 1

Lesser(m, n) == IF m < n THEN m ELSE n
=============================================================================
