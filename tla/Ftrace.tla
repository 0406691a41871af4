------------------------------- MODULE Ftrace -------------------------------
(***************************************************************************)
(* Function tracing (tracer.c): a traced function has the instructions of  *)
(* its prologue replaced by invalid ones; the fault they raise logs the    *)
(* call in the ring of a trace buffer, does what the prologue would have   *)
(* done and goes on behind it.  All is written in words of 8 bytes, so the *)
(* ring is counted in words; the four bytes of code that are exchanged are *)
(* one value.  The process has one trace buffer, used for this alone.      *)
(*                                                                         *)
(* A NULL ft_md_base and a head with an empty list answer every call in    *)
(* the same way, so both are the empty list here.  The head of a list      *)
(* whose last function was removed is freed and still used: the model      *)
(* covers the runs in which its memory is not handed out again meanwhile   *)
(* (os_alloc reuses freed blocks in the order they were freed).            *)
(***************************************************************************)
EXTENDS Integers, Sequences, SequencesExt, FiniteSets, Functions

CONSTANTS Size,        \* 512, the words of the page behind the buffer
          FtraceMax,   \* FTRACE_MAX
          Functs,      \* the addresses of functions that may be traced
          Main,        \* the function that calls the others first
          Arities,     \* the numbers of arguments ADD_FTRACE may be given, by function
          Registers,   \* what the argument registers may hold at a call
          Counts,      \* how many records read_ftrace may be asked for
          Depth,       \* bound: the calls inside one another
          Prologue,    \* push %rbp; mov %rsp, %rbp
          Invalid,     \* four times INV_OPCODE
          Garbage      \* memory fresh from os_alloc or os_page_alloc

ASSUME FtraceAssumption ==
  /\ Size \in Nat \ {0}
  /\ FtraceMax \in Nat \ {0}
  /\ Functs \subseteq Nat /\ Main \in Nat
  /\ Garbage \in Nat
  /\ Arities \in [Functs -> SUBSET Int]
  /\ Registers \subseteq Seq(Nat)
  /\ \A regs \in Registers, f \in Functs : \A n \in Arities[f] : n <= Len(regs)
  /\ Counts \subseteq Nat
  /\ Depth \in Nat
  /\ Prologue # Invalid

VARIABLES list,      \* ft_md_base->next and on: the traced functions
          count,     \* ft_md_base->count
          code,      \* the first instructions of every function
          stack,     \* the functions that run, the innermost last
          mode,      \* what the trace buffer file was created for
          readOffset, writeOffset, isFull, buffer,
          call       \* the last call, what it returned

tracing == <<list, count, code>>
ring == <<readOffset, writeOffset, isFull, buffer>>
vars == <<tracing, stack, mode, ring, call>>

EINVAL == -1

Cells == 0 .. Size - 1

Called(op, f, n, args, data, ret) ==
  [op |-> op, f |-> f, n |-> n, args |-> args, data |-> data, ret |-> ret]

Init ==
  /\ list = <<>>
  /\ count = 0
  /\ code = [f \in Functs |-> Prologue]
  /\ stack = <<>>
  /\ mode \in SUBSET {"read", "write"}
  /\ readOffset = 0
  /\ writeOffset = 0
  /\ isFull = FALSE
  /\ buffer = [k \in Cells |-> Garbage]
  /\ call = Called("none", Main, 0, <<>>, <<>>, 0)
------------------------------------------------------------------------------
(* ftrace: the list of functions and their code *)

IsListed(f) == \E i \in DOMAIN list : list[i].faddr = f

\* The element the search for a function stops at: the first one.
IndexOf(f) ==
  CHOOSE i \in DOMAIN list :
    /\ list[i].faddr = f
    /\ \A j \in 1 .. i - 1 : list[j].faddr # f

Info(f, nargs) ==
  [faddr |-> f, num_args |-> nargs, capture_backtrace |-> FALSE, code_backup |-> Garbage]

\* Mutant of AddFtrace: the search for the function is left out.
AddAgain(f, nargs) ==
  LET refused == count = FtraceMax \/ nargs < 0
  IN  /\ list' = IF refused THEN list ELSE Append(list, Info(f, nargs))
      /\ count' = IF refused THEN count ELSE count + 1
      /\ call' = Called("add", f, nargs, <<>>, <<>>, IF refused THEN EINVAL ELSE 0)
      /\ UNCHANGED <<code, stack, mode, ring>>

AddFtrace(f, nargs) ==
  LET refused == count = FtraceMax \/ IsListed(f) \/ nargs < 0
  IN  /\ list' = IF refused THEN list ELSE Append(list, Info(f, nargs))
      /\ count' = IF refused THEN count ELSE count + 1
      /\ call' = Called("add", f, nargs, <<>>, <<>>, IF refused THEN EINVAL ELSE 0)
      /\ UNCHANGED <<code, stack, mode, ring>>

\* The code of f without the trap: only a trap is overwritten.
Untrapped(f) ==
  IF code[f] = Invalid THEN [code EXCEPT ![f] = list[IndexOf(f)].code_backup] ELSE code

\* Mutant of RemoveFtrace: a function is removed with its trap in place.
RemoveTrapped(f) ==
  /\ IF IsListed(f)
     THEN /\ list' = RemoveAt(list, IndexOf(f))
          /\ count' = count - 1
          /\ code' = code
     ELSE UNCHANGED tracing
  /\ call' = Called("remove", f, 0, <<>>, <<>>, IF IsListed(f) THEN 0 ELSE EINVAL)
  /\ UNCHANGED <<stack, mode, ring>>

RemoveFtrace(f) ==
  /\ IF IsListed(f)
     THEN /\ list' = RemoveAt(list, IndexOf(f))
          /\ count' = count - 1
          /\ code' = Untrapped(f)
     ELSE UNCHANGED tracing
  /\ call' = Called("remove", f, 0, <<>>, <<>>, IF IsListed(f) THEN 0 ELSE EINVAL)
  /\ UNCHANGED <<stack, mode, ring>>

\* ENABLE_FTRACE and ENABLE_BACKTRACE, which differ in the flag: what is saved
\* is never a trap set before.
EnableFtrace(op, f) ==
  /\ IF IsListed(f)
     THEN LET info == [list[IndexOf(f)] EXCEPT
                         !.capture_backtrace = (@ \/ op = "enable_backtrace"),
                         !.code_backup = IF code[f] = Invalid THEN @ ELSE code[f]]
          IN  /\ list' = [list EXCEPT ![IndexOf(f)] = info]
              /\ code' = [code EXCEPT ![f] = Invalid]
              /\ UNCHANGED count
     ELSE UNCHANGED tracing
  /\ call' = Called(op, f, 0, <<>>, <<>>, IF IsListed(f) THEN 0 ELSE EINVAL)
  /\ UNCHANGED <<stack, mode, ring>>

\* DISABLE_FTRACE and DISABLE_BACKTRACE; both stop tracing.
DisableFtrace(op, f) ==
  /\ IF IsListed(f)
     THEN /\ list' = [list EXCEPT ![IndexOf(f)].capture_backtrace =
                                     (@ /\ op # "disable_backtrace")]
          /\ code' = Untrapped(f)
          /\ UNCHANGED count
     ELSE UNCHANGED tracing
  /\ call' = Called(op, f, 0, <<>>, <<>>, IF IsListed(f) THEN 0 ELSE EINVAL)
  /\ UNCHANGED <<stack, mode, ring>>
------------------------------------------------------------------------------
(* A call of a function and the fault it may raise *)

\* The words from one offset up to another, going round.
Distance(from, to) == (Size + to - from) % Size

Room ==
  IF readOffset = writeOffset THEN (IF isFull THEN 0 ELSE Size)
  ELSE Distance(writeOffset, readOffset)

\* The return addresses from the frame that rbp points to up to the frame of
\* Main, whose own is END_ADDR; each is known by the function it leads back to.
Backtrace(frames) == Reverse(<<Main>> \o Front(frames))

\* What is logged of a call of f, with frames the stack behind its prologue.
RecordOf(f, regs, frames) ==
  LET info == list[IndexOf(f)]
  IN  <<f>> \o SubSeq(regs, 1, info.num_args)
        \o IF info.capture_backtrace THEN <<f>> \o Backtrace(frames) ELSE <<>>

\* Mutant of Put: the new offset does not go round.
PutRunsOver(words) ==
  LET record == <<Len(words)>> \o words
      end    == writeOffset + Len(record)
  IN  /\ buffer' = [k \in Cells |-> LET i == Distance(writeOffset, k)
                                    IN  IF i < Len(record) THEN record[i + 1] ELSE buffer[k]]
      /\ writeOffset' = end
      /\ isFull' = (isFull \/ end = readOffset)
      /\ UNCHANGED readOffset

\* The length is written last, into the word kept free for it.
Put(words) ==
  LET record == <<Len(words)>> \o words
      end    == (writeOffset + Len(record)) % Size
  IN  /\ buffer' = [k \in Cells |-> LET i == Distance(writeOffset, k)
                                    IN  IF i < Len(record) THEN record[i + 1] ELSE buffer[k]]
      /\ writeOffset' = end
      /\ isFull' = (isFull \/ end = readOffset)
      /\ UNCHANGED readOffset

\* handle_ftrace_fault; what it returns is not looked at.
Fault(f, regs, frames) ==
  IF "write" \in mode /\ ~(readOffset = writeOffset /\ isFull)
  THEN Put(RecordOf(f, regs, frames))
  ELSE UNCHANGED ring

\* Bound: a record is only made when it has room, or when there is no room at all.
\* Nothing in the handler keeps one record off another.
WithinBound(f, regs, frames) ==
  code[f] = Invalid => Room = 0 \/ 1 + Len(RecordOf(f, regs, frames)) <= Room

\* The processor and the function's own prologue, or the fault handler for it.
CallFunction(f, regs) ==
  LET frames == Append(stack, f)
  IN  /\ Len(stack) < Depth
      /\ WithinBound(f, regs, frames)
      /\ stack' = frames
      /\ IF code[f] = Invalid THEN Fault(f, regs, frames) ELSE UNCHANGED ring
      /\ call' = Called("call", f, 0, regs, <<>>, 0)
      /\ UNCHANGED <<tracing, mode>>

ReturnFromFunction ==
  /\ stack # <<>>
  /\ stack' = Front(stack)
  /\ call' = Called("return", Last(stack), 0, <<>>, <<>>, 0)
  /\ UNCHANGED <<tracing, mode, ring>>
------------------------------------------------------------------------------
(* read_ftrace *)

RecordAt(offset) ==
  [i \in 1 .. buffer[offset] |-> buffer[(offset + i) % Size]]

\* The loop, from an offset and for n more records: it ends early behind the
\* record that ends at the write offset.
Take(from, most) ==
  LET take[n \in 0 .. most] == [offset \in Cells |->
        IF n = 0 THEN [offset |-> offset, records |-> <<>>, met |-> FALSE]
        ELSE LET words == RecordAt(offset)
                 next  == (offset + 1 + Len(words)) % Size
             IN  IF next = writeOffset
                 THEN [offset |-> next, records |-> <<words>>, met |-> TRUE]
                 ELSE [take[n - 1][next] EXCEPT !.records = <<words>> \o @]]
  IN  take[most][from]

IsEmpty == readOffset = writeOffset /\ ~isFull

\* Mutant of ReadFtrace: the full flag stays when the last record is taken.
ReadKeepsFull(most) ==
  LET scan == Take(readOffset, most)
      data == FlattenSeq(scan.records)
  IN  /\ IF "read" \in mode /\ ~IsEmpty
         THEN /\ readOffset' = scan.offset
              /\ isFull' = isFull
              /\ call' = Called("read", Main, most, <<>>, data, Len(data))
         ELSE /\ UNCHANGED <<readOffset, isFull>>
              /\ call' = Called("read", Main, most, <<>>, <<>>,
                                IF "read" \in mode THEN 0 ELSE EINVAL)
      /\ UNCHANGED <<tracing, stack, mode, writeOffset, buffer>>

ReadFtrace(most) ==
  LET scan == Take(readOffset, most)
      data == FlattenSeq(scan.records)
  IN  /\ IF "read" \in mode /\ ~IsEmpty
         THEN /\ readOffset' = scan.offset
              /\ isFull' = (isFull /\ ~scan.met)
              /\ call' = Called("read", Main, most, <<>>, data, Len(data))
         ELSE /\ UNCHANGED <<readOffset, isFull>>
              /\ call' = Called("read", Main, most, <<>>, <<>>,
                                IF "read" \in mode THEN 0 ELSE EINVAL)
      /\ UNCHANGED <<tracing, stack, mode, writeOffset, buffer>>
------------------------------------------------------------------------------
Next ==
  \/ \E f \in Functs : \E nargs \in Arities[f] : AddFtrace(f, nargs)
  \/ \E f \in Functs : RemoveFtrace(f)
  \/ \E f \in Functs, op \in {"enable", "enable_backtrace"} : EnableFtrace(op, f)
  \/ \E f \in Functs, op \in {"disable", "disable_backtrace"} : DisableFtrace(op, f)
  \/ \E f \in Functs, regs \in Registers : CallFunction(f, regs)
  \/ ReturnFromFunction
  \/ \E most \in Counts : ReadFtrace(most)

Spec == Init /\ [][Next]_vars
------------------------------------------------------------------------------
TypeOK ==
  /\ list \in Seq([faddr : Functs, num_args : Nat, capture_backtrace : BOOLEAN,
                   code_backup : {Prologue, Invalid, Garbage}])
  /\ count \in Nat
  /\ code \in [Functs -> {Prologue, Invalid, Garbage}]
  /\ stack \in Seq(Functs)
  /\ mode \subseteq {"read", "write"}
  /\ readOffset \in Cells
  /\ writeOffset \in Cells
  /\ isFull \in BOOLEAN
  /\ buffer \in [Cells -> Nat]

\* The list names no function twice, holds at most FTRACE_MAX of them and has
\* the length the head counts, in whatever order functions are added, removed
\* and added again: the searches that stop at the first match rest on it.
FunctionListIsSet ==
  /\ count = Len(list)
  /\ count <= FtraceMax
  /\ \A i, j \in DOMAIN list : list[i].faddr = list[j].faddr => i = j

\* No function is ever left with other code than its own or the trap, a trap is
\* only where a listed function is traced, and its own code is kept with it
\* then, in whatever order tracing and backtracing are switched and functions
\* are removed.
CodeIsIntact ==
  \A f \in Functs :
    \/ code[f] = Prologue
    \/ /\ code[f] = Invalid
       /\ \E i \in DOMAIN list : list[i].faddr = f /\ list[i].code_backup = Prologue

Log == IF IsEmpty THEN <<>> ELSE Take(readOffset, Size).records

\* The list as a function of what is traced.
Listing ==
  [f \in {list[i].faddr : i \in DOMAIN list} |-> list[IndexOf(f)].num_args]

Promise == INSTANCE FunctionLog
  WITH Room       <- Size,
       Errors     <- {EINVAL},
       arity      <- Listing,
       enabled    <- {f \in Functs : code[f] = Invalid},
       backtraced <- {f \in DOMAIN Listing : list[IndexOf(f)].capture_backtrace},
       open       <- mode,
       log        <- Log

\* Exactly the calls of functions that are traced at that moment are logged,
\* with the arguments and the callers they had, and read_ftrace delivers the
\* oldest records, whole, once and in order, wherever in the ring they lie and
\* also when they fill it to the last word.
CallsAreLogged == Promise!Spec
==============================================================================
