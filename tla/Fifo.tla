-------------------------------- MODULE Fifo --------------------------------
(***************************************************************************)
(* What a trace buffer promises the processes that write to it and read    *)
(* from it: a first-in first-out queue of at most Size bytes.  A write     *)
(* takes as many bytes as there is room for, a read gives as many as there *)
(* are, and both say how many that was.                                    *)
(***************************************************************************)
EXTENDS Integers, Sequences

CONSTANTS Size,     \* bytes the queue can hold
          Inputs,   \* what may be written: sequences of bytes
          Counts,   \* how much may be asked for
          Errors    \* what a refused call returns

VARIABLES queue,    \* the bytes not read yet, oldest first
          call      \* the last call: op, data passed or received, result

Lesser(a, b) == IF a < b THEN a ELSE b

Init == queue = <<>> /\ call = [op |-> "create", data |-> <<>>, ret |-> 0]

Write(data) ==
  LET n == Lesser(Len(data), Size - Len(queue))
  IN  /\ queue' = queue \o SubSeq(data, 1, n)
      /\ call' = [op |-> "write", data |-> data, ret |-> n]

Read(count) ==
  LET n == Lesser(count, Len(queue))
  IN  /\ queue' = SubSeq(queue, n + 1, Len(queue))
      /\ call' = [op |-> "read", data |-> SubSeq(queue, 1, n), ret |-> n]

\* A call on a buffer of another mode, or with memory it must not use.
Refuse ==
  /\ \E op \in {"read", "write"}, error \in Errors :
       call' = [op |-> op, data |-> <<>>, ret |-> error]
  /\ queue' = queue

\* A queue of a new file, and what else is done with the file of an old one.
Create == queue' = <<>> /\ call' = [op |-> "create", data |-> <<>>, ret |-> 0]

Keep ==
  /\ \E op \in {"dup", "close"} : call' = [op |-> op, data |-> <<>>, ret |-> 0]
  /\ queue' = queue

Next ==
  \/ \E data \in Inputs : Write(data)
  \/ \E count \in Counts : Read(count)
  \/ Refuse
  \/ Create
  \/ Keep

Spec == Init /\ [][Next]_<<queue, call>>
==============================================================================
