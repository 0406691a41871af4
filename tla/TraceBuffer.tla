----------------------------- MODULE TraceBuffer -----------------------------
(***************************************************************************)
(* The ring of a trace buffer (tracer.c): the byte interface read() and    *)
(* write() have to it.  One system call at a time runs in the kernel.      *)
(***************************************************************************)
EXTENDS Integers, Sequences

CONSTANTS Size,     \* 4096, the bytes of the page behind the buffer
          Bytes,    \* values of a byte
          Inputs,   \* what may be written: sequences of bytes
          Counts    \* how much may be asked for

ASSUME TraceBufferAssumption ==
  /\ Size \in Nat \ {0}
  /\ Inputs \subseteq Seq(Bytes)
  /\ Counts \subseteq Nat

VARIABLES mode,          \* what the file was created for
          readOffset,    \* where the next read begins
          writeOffset,   \* where the next write begins
          isFull,        \* set by the write that fills the ring
          buffer,        \* the page
          call           \* the last call: op, data passed or received, result

ring == <<readOffset, writeOffset, isFull, buffer>>
vars == <<mode, ring, call>>

EINVAL  == -1
EBADMEM == -6

Cells == 0 .. Size - 1

Lesser(a, b) == IF a < b THEN a ELSE b

\* The cells from one offset up to another, going round: 0 when they agree.
Distance(from, to) == (Size + to - from) % Size

\* read_capacity and write_capacity: equal offsets are told apart by isFull.
ReadCapacity ==
  LET held == Distance(readOffset, writeOffset)
  IN  IF held = 0 /\ isFull THEN Size ELSE held

WriteCapacity ==
  LET room == Distance(writeOffset, readOffset)
  IN  IF room = 0 /\ ~isFull THEN Size ELSE room

Called(op, data, ret) == call' = [op |-> op, data |-> data, ret |-> ret]
------------------------------------------------------------------------------
\* The page comes from os_page_alloc with what it last held.
Init ==
  /\ mode \in SUBSET {"read", "write"}
  /\ readOffset = 0
  /\ writeOffset = 0
  /\ isFull = FALSE
  /\ buffer \in [Cells -> Bytes]
  /\ call = [op |-> "create", data |-> <<>>, ret |-> 0]

\* validRange: what is_valid_mem_range says of the caller's memory.
Refused(op, validRange) ==
  /\ op \notin mode \/ ~validRange
  /\ Called(op, <<>>, IF op \notin mode THEN EINVAL ELSE EBADMEM)
  /\ UNCHANGED <<mode, ring>>

\* Mutant of Read: every read takes the flag back.
ReadClearsFull(count) ==
  LET n == Lesser(count, ReadCapacity)
  IN  /\ "read" \in mode
      /\ Called("read", [i \in 1 .. n |-> buffer[(readOffset + i - 1) % Size]], n)
      /\ readOffset' = (readOffset + n) % Size
      /\ isFull' = FALSE
      /\ UNCHANGED <<mode, writeOffset, buffer>>

Read(count) ==
  LET n == Lesser(count, ReadCapacity)
  IN  /\ "read" \in mode
      /\ Called("read", [i \in 1 .. n |-> buffer[(readOffset + i - 1) % Size]], n)
      /\ readOffset' = (readOffset + n) % Size
      /\ isFull' = (isFull /\ n # ReadCapacity)
      /\ UNCHANGED <<mode, writeOffset, buffer>>

\* Mutant of Write: the new offset does not go round.
WriteRunsOver(data) ==
  LET n == Lesser(Len(data), WriteCapacity)
  IN  /\ "write" \in mode
      /\ Called("write", data, n)
      /\ buffer' = [k \in Cells |-> LET i == Distance(writeOffset, k)
                                    IN  IF i < n THEN data[i + 1] ELSE buffer[k]]
      /\ writeOffset' = writeOffset + n
      /\ isFull' = (isFull \/ n = WriteCapacity)
      /\ UNCHANGED <<mode, readOffset>>

Write(data) ==
  LET n == Lesser(Len(data), WriteCapacity)
  IN  /\ "write" \in mode
      /\ Called("write", data, n)
      /\ buffer' = [k \in Cells |-> LET i == Distance(writeOffset, k)
                                    IN  IF i < n THEN data[i + 1] ELSE buffer[k]]
      /\ writeOffset' = (writeOffset + n) % Size
      /\ isFull' = (isFull \/ n = WriteCapacity)
      /\ UNCHANGED <<mode, readOffset>>

Next ==
  \/ \E op \in {"read", "write"}, validRange \in BOOLEAN : Refused(op, validRange)
  \/ \E count \in Counts : Read(count)
  \/ \E data \in Inputs : Write(data)

Spec == Init /\ [][Next]_vars
------------------------------------------------------------------------------
TypeOK ==
  /\ mode \subseteq {"read", "write"}
  /\ readOffset \in Cells
  /\ writeOffset \in Cells
  /\ isFull \in BOOLEAN
  /\ buffer \in [Cells -> Bytes]

\* The bytes not read yet.
Contents == [i \in 1 .. ReadCapacity |-> buffer[(readOffset + i - 1) % Size]]

Queue == INSTANCE Fifo WITH queue <- Contents, Errors <- {EINVAL, EBADMEM}

\* Whatever the reads and writes, and wherever in the ring they begin and end,
\* the buffer is a bounded queue: no byte is lost, repeated or reordered, and
\* the two states with equal offsets, empty and full, are never mixed up,
\* although isFull stays set after a read that leaves bytes behind.
IsFifo == Queue!Spec
==============================================================================
