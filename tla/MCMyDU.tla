------------------------------- MODULE MCMyDU -------------------------------
(***************************************************************************)
(* A root with a file and two subdirectories, one of which has a file and  *)
(* a subdirectory of its own: a walk that goes down, a second child, a     *)
(* second pipe.  Limits go from "no pipe at all" over "the second pipe     *)
(* fails" and "the inner directory cannot be opened" to "enough".          *)
(***************************************************************************)
EXTENDS MyDU

CONSTANTS root, a, b, inner, f, g

Tree == [d \in Dirs |-> CASE d = root  -> {a, b, f}
                          [] d = a     -> {inner, g}
                          [] OTHER     -> {}]

Weights == [n \in Nodes |-> CASE n = f -> 1 [] n = g -> 2 [] n = inner -> 4
                              [] n = a -> 8 [] n = b -> 16 [] n = root -> 32]
==============================================================================
