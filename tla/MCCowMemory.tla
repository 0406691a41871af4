----------------------------- MODULE MCCowMemory -----------------------------
(***************************************************************************)
(* Two process slots, so that exit and cfork reuse one; two pages of the   *)
(* mmap area, so that a region can be cut in two and page_table_protect    *)
(* can stop between its pages; one page of a segment, which is writable    *)
(* without an area; fewer frames than pages, so that frames run out.  The  *)
(* theorems cover any number of slots, frames and pages.                   *)
(*                                                                         *)
(* Nothing is asked of frames, slots and contents but whether they are the *)
(* same.                                                                   *)
(***************************************************************************)
EXTENDS CowMemory, TLC

Symmetry == Permutations(Frames) \cup Permutations(Procs) \cup Permutations(Values)
==============================================================================
