----------------------------- MODULE MCVmaCalls -----------------------------
(***************************************************************************)
(* The pages behind the dummy are few enough for every arrangement of      *)
(* areas on them to be reached, and enough for one area to have neighbours *)
(* on both sides, with and without a gap.  What the last call was has no   *)
(* influence on the next one: states are told apart by the list alone.     *)
(***************************************************************************)
EXTENDS VmaCalls

ListOnly == areas
==============================================================================
