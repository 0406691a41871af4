------------------------------ MODULE MCFtrace ------------------------------
(***************************************************************************)
(* Two functions that call each other, to a depth of two, and a third one  *)
(* that competes with them for the two places in the list, and a ring of   *)
(* seven words.  A record takes from two words (a call without arguments)  *)
(* to six (one argument and the callers), so records lie across the end of *)
(* the ring at every word and fill it exactly.  The argument has the value *)
(* of a length.  Neither the last call nor the words between the write and *)
(* the read offset have any influence on the next call.                    *)
(***************************************************************************)
EXTENDS Ftrace

SomeRegisters == {<<2>>}

\* The addresses are above every length, so that a record with one of them where
\* its length should be would not be a record.
CONSTANTS f, g, idle

SomeFuncts == {f, g, idle}

SomeArities == [k \in Functs |-> IF k = g THEN {-1, 1} ELSE {0}]

\* Bound: the third function is added and removed like the others; what follows
\* when it is traced or called is left to the two others.
IdleStaysIdle == code[idle] = Prologue /\ idle \notin Range(stack)

Relevant ==
  <<tracing, stack, mode, readOffset, writeOffset, isFull,
    [i \in 1 .. Size - Room |-> buffer[(readOffset + i - 1) % Size]]>>
==============================================================================
