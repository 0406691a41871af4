------------------------------ MODULE MCStrace ------------------------------
(***************************************************************************)
(* A ring of six words, getpid (2), sleep (7) and getppid (61, which       *)
(* perform_tracing does not know) next to strace and read_strace.  The     *)
(* parameters of sleep look like the numbers of system calls.  A traced    *)
(* read_strace alone takes four words, so records go round the end of the  *)
(* ring at every place.  What the last call was, and the words between the *)
(* write and the read offset, have no influence on the next one.           *)
(***************************************************************************)
EXTENDS Strace

SomeCalls == {[num |-> 2, params |-> <<>>], [num |-> 7, params |-> <<2>>],
              [num |-> 7, params |-> <<39>>], [num |-> 61, params |-> <<>>]}

Relevant ==
  <<head, readOffset, writeOffset, isFull,
    [i \in 1 .. Distance(readOffset, writeOffset) |-> buffer[(readOffset + i - 1) % Size]]>>
==============================================================================
