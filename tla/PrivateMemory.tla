---------------------------- MODULE PrivateMemory ----------------------------
(***************************************************************************)
(* What copy-on-write must not let a program notice: every process has a   *)
(* memory of its own.  A write shows at one page of one process, and a     *)
(* child starts with a copy of what its parent had.                        *)
(***************************************************************************)
CONSTANTS Procs, Page, Values,
          Nothing          \* what a page holds that has no memory behind it

VARIABLE mem               \* mem[p][v]: what process p finds at page v

NoMemory == [v \in Page |-> Nothing]

Init == mem = [p \in Procs |-> NoMemory]

\* Fresh memory holds whatever its last owner left in it.
Populate(p, v, x) ==
  /\ mem[p][v] = Nothing
  /\ mem' = [mem EXCEPT ![p][v] = x]

Write(p, v, x) ==
  /\ mem[p][v] # Nothing
  /\ mem' = [mem EXCEPT ![p][v] = x]

Discard(p, S) ==
  mem' = [mem EXCEPT ![p] = [v \in Page |-> IF v \in S THEN Nothing ELSE @[v]]]

Clone(p, c, S) ==
  /\ mem[c] = NoMemory
  /\ mem' = [mem EXCEPT ![c] = [v \in Page |-> IF v \in S THEN mem[p][v] ELSE Nothing]]

Next ==
  \E p \in Procs :
    \/ \E v \in Page, x \in Values : Populate(p, v, x) \/ Write(p, v, x)
    \/ \E S \in SUBSET Page : Discard(p, S)
    \/ \E c \in Procs, S \in SUBSET Page : Clone(p, c, S)

Spec == Init /\ [][Next]_mem
==============================================================================
