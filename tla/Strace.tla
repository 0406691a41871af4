------------------------------- MODULE Strace -------------------------------
(***************************************************************************)
(* System-call tracing (tracer.c): every system call of the process goes   *)
(* through perform_tracing, which leaves a record of the call in the ring  *)
(* of a trace buffer, before its handler runs; read_strace takes records   *)
(* out.  Everything is written in words of 8 bytes, so the ring is counted *)
(* in words.  The buffer is used for this alone.                           *)
(***************************************************************************)
EXTENDS Integers, Sequences, SequencesExt, FiniteSets, Functions

CONSTANTS Size,        \* 512, the words of the page behind the buffer
          StraceMax,   \* STRACE_MAX
          NoHead,      \* st_md_base == NULL
          Garbage,     \* a word of a page fresh from os_page_alloc
          Numbers,     \* the system calls that strace may be told of
          Calls,       \* other calls the process makes: [num, params]
          Counts,      \* how many records read_strace may be asked for
          Held         \* bound: the words the process lets pile up

ASSUME StraceAssumption ==
  /\ Size \in Nat \ {0}
  /\ StraceMax \in Nat \ {0}
  /\ Garbage \in Nat
  /\ Numbers \subseteq Nat
  /\ Counts \subseteq Nat
  /\ Held \in 0 .. Size
  /\ NoHead \notin [count : Nat, is_traced : BOOLEAN, tracing_mode : Nat, list : Seq(Nat)]

VARIABLES head,          \* st_md_base: the traced list and the mode
          readOffset, writeOffset, isFull, buffer,
          call           \* the last call, what it returned

ring == <<readOffset, writeOffset, isFull, buffer>>
vars == <<head, ring, call>>

EINVAL == -1

SYSCALL_READ_STRACE == 39
SYSCALL_STRACE      == 40
FULL_TRACING        == 0
FILTERED_TRACING    == 1
ADD_STRACE          == 0
REMOVE_STRACE       == 1

Cells == 0 .. Size - 1

\* How many of its parameters a system call uses.
NoArgument    == {2, 10, 11, 13, 15, 20, 21, 22, 38}
OneArgument   == {1, 6, 7, 12, 14, 19, 27, 29, 36}
TwoArguments  == {4, 8, 9, 17, 23, 28, 37, 40}
ThreeArguments == {5, 18, 24, 25, 30, 39, 41}
FourArguments == {16, 35}

Known == NoArgument \cup OneArgument \cup TwoArguments \cup ThreeArguments \cup FourArguments

NumArgs(num) ==
  CASE num \in OneArgument    -> 1
    [] num \in TwoArguments   -> 2
    [] num \in ThreeArguments -> 3
    [] num \in FourArguments  -> 4
    [] OTHER                  -> 0

\* The entry code passes every call the registers its parameters are in.
ASSUME CallsAssumption ==
  \A c \in Calls : /\ c.num \in Nat /\ c.params \in Seq(Nat)
                   /\ NumArgs(c.num) <= Len(c.params)
------------------------------------------------------------------------------
(* The ring, as a record, because one call may both write and read it *)

Ring == [readOffset |-> readOffset, writeOffset |-> writeOffset,
         isFull |-> isFull, buffer |-> buffer]

SetRing(r) ==
  /\ readOffset' = r.readOffset
  /\ writeOffset' = r.writeOffset
  /\ isFull' = r.isFull
  /\ buffer' = r.buffer

\* The words from one offset up to another, going round.
Distance(from, to) == (Size + to - from) % Size

\* Mutant of Put: the new offset does not go round.
PutRunsOver(r, words) ==
  [readOffset  |-> r.readOffset,
   writeOffset |-> r.writeOffset + Len(words),
   isFull      |-> r.isFull \/ r.readOffset = r.writeOffset,
   buffer      |-> [k \in Cells |-> LET i == Distance(r.writeOffset, k)
                                    IN  IF i < Len(words) THEN words[i + 1] ELSE r.buffer[k]]]

\* isFull is set by the first record in an empty ring, and nobody looks whether
\* there is room.
Put(r, words) ==
  [readOffset  |-> r.readOffset,
   writeOffset |-> (r.writeOffset + Len(words)) % Size,
   isFull      |-> r.isFull \/ r.readOffset = r.writeOffset,
   buffer      |-> [k \in Cells |-> LET i == Distance(r.writeOffset, k)
                                    IN  IF i < Len(words) THEN words[i + 1] ELSE r.buffer[k]]]

IsOn == head # NoHead /\ head.is_traced

IsTraced(num) ==
  /\ IsOn
  /\ num \in Known
  /\ head.tracing_mode = FILTERED_TRACING => num \in Range(head.list)

RecordOf(c) == <<c.num>> \o SubSeq(c.params, 1, NumArgs(c.num))

\* perform_tracing(num, params)
Traced(num, params) ==
  IF IsTraced(num) THEN Put(Ring, RecordOf([num |-> num, params |-> params])) ELSE Ring

RecordAt(r, offset) ==
  [i \in 1 .. 1 + NumArgs(r.buffer[offset]) |-> r.buffer[(offset + i - 1) % Size]]

\* The loop of read_strace, from an offset and for n more records: it ends early
\* when it meets the write offset.
Take(r, count) ==
  LET take[n \in 0 .. count] == [offset \in Cells |->
        IF n = 0 \/ offset = r.writeOffset
        THEN [offset |-> offset, records |-> <<>>, met |-> n # 0]
        ELSE LET words == RecordAt(r, offset)
             IN  [take[n - 1][(offset + Len(words)) % Size] EXCEPT !.records = <<words>> \o @]]
  IN  take[count][r.readOffset]
------------------------------------------------------------------------------
(* System calls *)

Called(op, num, params, num1, data, ret) ==
  [op |-> op, num |-> num, params |-> params, num1 |-> num1, data |-> data, ret |-> ret]

\* A context begins without tracing, with a new trace buffer.
Init ==
  /\ head = NoHead
  /\ readOffset = 0
  /\ writeOffset = 0
  /\ isFull = FALSE
  /\ buffer = [k \in Cells |-> Garbage]
  /\ call = Called("none", 0, <<>>, 0, <<>>, 0)

NewHead(traced, mode) ==
  [count |-> 0, is_traced |-> traced, tracing_mode |-> mode, list |-> <<>>]

\* start_strace and end_strace are the two calls perform_tracing lets by.
StartStrace(mode) ==
  /\ call' = Called("start", 37, <<>>, 0, <<>>,
                    IF mode \in {FULL_TRACING, FILTERED_TRACING} THEN 0 ELSE EINVAL)
  /\ head' = IF mode \notin {FULL_TRACING, FILTERED_TRACING} THEN head
             ELSE IF head = NoHead THEN NewHead(TRUE, mode)
             ELSE [head EXCEPT !.is_traced = TRUE, !.tracing_mode = mode]
  /\ UNCHANGED ring

\* end_strace follows st_md_base without looking whether there is one.
EndStrace ==
  /\ head # NoHead
  /\ call' = Called("end", 38, <<>>, 0, <<>>, 0)
  /\ head' = NoHead
  /\ UNCHANGED ring

\* Mutant of Add: a call that is in the list is added again.
AddAgain(h, num) ==
  IF h.list # <<>> /\ h.count = StraceMax THEN h
  ELSE [h EXCEPT !.list = Append(@, num), !.count = @ + 1]

\* The head as ADD_STRACE leaves it; a head it has to make is not tracing yet,
\* and what its mode is does not matter before start_strace.
Add(h, num) ==
  IF h.list # <<>> /\ (h.count = StraceMax \/ num \in Range(h.list)) THEN h
  ELSE [h EXCEPT !.list = Append(@, num), !.count = @ + 1]

AddStrace(num) ==
  LET old == IF head = NoHead THEN NewHead(FALSE, FULL_TRACING) ELSE head
      new == Add(old, num)
  IN  /\ SetRing(Traced(SYSCALL_STRACE, <<num, ADD_STRACE>>))
      /\ head' = new
      /\ call' = Called("add", SYSCALL_STRACE, <<num, ADD_STRACE>>, num, <<>>,
                        IF new = old THEN EINVAL ELSE 0)

\* The first element with the number is unlinked.
RemoveStrace(num) ==
  LET found == head # NoHead /\ num \in Range(head.list)
  IN  /\ SetRing(Traced(SYSCALL_STRACE, <<num, REMOVE_STRACE>>))
      /\ head' = IF found
                 THEN [head EXCEPT !.list = RemoveFirst(@, num), !.count = @ - 1]
                 ELSE head
      /\ call' = Called("remove", SYSCALL_STRACE, <<num, REMOVE_STRACE>>, num, <<>>,
                        IF found THEN 0 ELSE EINVAL)

\* Mutant of AfterTake: the ring counts as empty when the records asked for are
\* out, whether or not more follow.
AfterTakeEmptied(r, scan) ==
  [r EXCEPT !.readOffset = scan.offset, !.isFull = FALSE, !.writeOffset = scan.offset]

\* isFull goes back only when the loop met the write offset.
AfterTake(r, scan) ==
  [r EXCEPT !.readOffset = scan.offset, !.isFull = @ /\ ~scan.met]

ReadStrace(count) ==
  LET params == <<0, 0, count>>
      r      == Traced(SYSCALL_READ_STRACE, params)
      scan   == Take(r, count)
      data   == FlattenSeq(scan.records)
  IN  /\ SetRing(AfterTake(r, scan))
      /\ call' = Called("read", SYSCALL_READ_STRACE, params, count, data, Len(data))
      /\ UNCHANGED head

\* A call that perform_tracing does not know fails while tracing is on.
OtherCall(c) ==
  /\ SetRing(Traced(c.num, c.params))
  /\ call' = Called("other", c.num, c.params, 0, <<>>,
                    IF IsOn /\ c.num \notin Known THEN EINVAL ELSE 0)
  /\ UNCHANGED head

\* A call is only made while what it leaves in the ring stays within the bound:
\* nothing in perform_tracing keeps one record off another.
WithinBound(num) ==
  LET words == IF IsTraced(num) THEN 1 + NumArgs(num) ELSE 0
  IN  Distance(readOffset, writeOffset) + words <= Held

Next ==
  \/ \E mode \in {FULL_TRACING, FILTERED_TRACING, 2} : StartStrace(mode)
  \/ EndStrace
  \/ WithinBound(SYSCALL_STRACE) /\ \E num \in Numbers : AddStrace(num) \/ RemoveStrace(num)
  \/ WithinBound(SYSCALL_READ_STRACE) /\ \E count \in Counts : ReadStrace(count)
  \/ \E c \in Calls : WithinBound(c.num) /\ OtherCall(c)

Spec == Init /\ [][Next]_vars
------------------------------------------------------------------------------
TypeOK ==
  /\ readOffset \in Cells
  /\ writeOffset \in Cells
  /\ isFull \in BOOLEAN
  /\ DOMAIN buffer = Cells
  /\ head # NoHead => head.tracing_mode \in {FULL_TRACING, FILTERED_TRACING}

\* The traced list names no system call twice, holds at most STRACE_MAX of them
\* and has the length the head counts: the search of perform_tracing and the
\* removal of the first match rest on it, in whatever order calls are added,
\* removed, added again and dropped by end_strace.
TracedListIsSet ==
  head # NoHead =>
    /\ head.count = Len(head.list)
    /\ head.count <= StraceMax
    /\ IsInjective(head.list)

\* The log as it stands in the ring: all of the records, from the read offset.
\* Equal offsets are an empty log: isFull stays set when the last record goes.
Log == Take(Ring, Size).records

Promise == INSTANCE TraceLog
  WITH tracing  <- IF ~IsOn THEN "off"
                   ELSE IF head.tracing_mode = FULL_TRACING THEN "all" ELSE "selected",
       selected <- IF head = NoHead THEN {} ELSE Range(head.list),
       log      <- Log

\* Every selected call is logged with its number and its parameters, and every
\* read_strace delivers the oldest records, whole, once and in order, wherever
\* in the ring they lie, while calls to strace and read_strace are logged too.
LogIsKept == Promise!Spec

\* A read_strace that is logged itself finds that record at least, as long as
\* every record had room (assignment text, 2.2: "the trace buffer will always
\* have enough space to store the tracing information").
TracedReadFindsItself ==
  [][call'.op = "read" /\ call'.num1 > 0 /\ IsTraced(SYSCALL_READ_STRACE)
       => call'.data # <<>>]_vars
==============================================================================
