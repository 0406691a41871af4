----------------------------- MODULE TraceFiles -----------------------------
(***************************************************************************)
(* The life of trace buffer files (tracer.c): sys_create_trace_buffer      *)
(* takes four pieces of memory, any of which may be refused, the           *)
(* descriptors of a process share the file, and its last close gives the   *)
(* memory back.  In between the ring of TraceBuffer is used.  dup, dup2,   *)
(* close and exit are the kernel's (file.o); they call trace_buffer_close. *)
(*                                                                         *)
(* Bounds: one trace buffer at a time, one process and no fork, which      *)
(* copies descriptors without counting them.                               *)
(***************************************************************************)
EXTENDS TraceBuffer, FiniteSets

CONSTANTS MaxOpenFiles,   \* MAX_OPEN_FILES, 16
          Standard        \* 3, the descriptors below it are for standard files

ASSUME TraceFilesAssumption ==
  /\ MaxOpenFiles \in Nat
  /\ Standard \in 0 .. MaxOpenFiles

VARIABLES files,      \* current->files
          refCount,   \* filep->ref_count, while the file is there
          heap        \* how many pieces of every kind are taken

fileVars == <<files, refCount, heap>>
filesVars == <<vars, fileVars>>

\* In the order they are taken.
Pieces == {"file", "trace_buffer", "buffer", "fops"}

Descriptors == 0 .. MaxOpenFiles - 1

Free == {fd \in Descriptors : files[fd] = "none"}

\* What a search from 0 on finds.
Lowest(fds) == {fd \in fds : \A d \in fds : fd <= d}

Traces == {fd \in Descriptors : files[fd] = "trace"}

AtStart == [fd \in Descriptors |-> IF fd < Standard THEN "standard" ELSE "none"]

FilesInit ==
  /\ Init
  /\ files = AtStart
  /\ refCount = 0
  /\ heap = [p \in Pieces |-> 0]
------------------------------------------------------------------------------
Plus(pieces, n) == [p \in Pieces |-> IF p \in pieces THEN heap[p] + n ELSE heap[p]]

\* What is taken when the n-th piece is refused, and what is given back then.
TakenBefore(n) ==
  {p \in Pieces : \E i \in 1 .. n - 1 : <<"file", "trace_buffer", "buffer", "fops">>[i] = p}

\* Mutant of GivenBack: the page is forgotten.
GivenBackButPage(n) == TakenBefore(n) \ {"buffer"}

GivenBack(n) ==
  CASE n = 1 -> {}
    [] n = 2 -> {"file"}
    [] n = 3 -> {"trace_buffer", "file"}
    [] n = 4 -> {"buffer", "trace_buffer", "file"}

\* No memory, or no descriptor and nothing is taken at all.
CreateFails ==
  /\ Traces = {}
  /\ \/ Free = {} /\ heap' = heap
     \/ /\ Free # {}
        /\ \E n \in 1 .. 4 :
             heap' = [p \in Pieces |-> Plus(TakenBefore(n), 1)[p]
                                         - IF p \in GivenBack(n) THEN 1 ELSE 0]
  /\ UNCHANGED <<vars, files, refCount>>

\* Mutant of Create: the new file does not count its first descriptor.
CreateUncounted ==
  /\ Traces = {}
  /\ \E fd \in Lowest(Free) : files' = [files EXCEPT ![fd] = "trace"]
  /\ UNCHANGED refCount
  /\ heap' = Plus(Pieces, 1)
  /\ mode' \in SUBSET {"read", "write"}
  /\ readOffset' = 0 /\ writeOffset' = 0 /\ isFull' = FALSE
  /\ buffer' \in [Cells -> Bytes]
  /\ Called("create", <<>>, 0)

\* The page holds what it last held.
Create ==
  /\ Traces = {}
  /\ \E fd \in Lowest(Free) : files' = [files EXCEPT ![fd] = "trace"]
  /\ refCount' = 1
  /\ heap' = Plus(Pieces, 1)
  /\ mode' \in SUBSET {"read", "write"}
  /\ readOffset' = 0 /\ writeOffset' = 0 /\ isFull' = FALSE
  /\ buffer' \in [Cells -> Bytes]
  /\ Called("create", <<>>, 0)

\* trace_buffer_close for n of the descriptors, one after the other.
TraceBufferClose(n) ==
  /\ refCount' = refCount - n
  /\ heap' = IF n > 0 /\ refCount' = 0 THEN Plus(Pieces, -1) ELSE heap

Closing(fds) == Cardinality(fds \cap Traces)

Close(fd) ==
  /\ files[fd] # "none"
  /\ files' = [files EXCEPT ![fd] = "none"]
  /\ TraceBufferClose(Closing({fd}))
  /\ Called("close", <<>>, 0)
  /\ UNCHANGED <<mode, ring>>

\* do_file_exit; the next program begins.
Exit ==
  /\ files' = AtStart
  /\ TraceBufferClose(Closing(Descriptors))
  /\ Called("close", <<>>, 0)
  /\ UNCHANGED <<mode, ring>>

\* fd_dup of a trace buffer: the lowest descriptor behind the standard ones.
Dup ==
  /\ Traces # {}
  /\ \E fd \in Lowest(Free \ 0 .. Standard - 1) : files' = [files EXCEPT ![fd] = "trace"]
  /\ refCount' = refCount + 1
  /\ Called("dup", <<>>, 0)
  /\ UNCHANGED <<mode, ring, heap>>

\* fd_dup2: what new leads to is closed first.
Dup2(old, new) ==
  /\ files[old] # "none" /\ old # new
  /\ files' = [files EXCEPT ![new] = files[old]]
  /\ LET left == refCount - Closing({new})
     IN  /\ refCount' = left + Closing({old})
         /\ heap' = IF new \in Traces /\ left = 0 THEN Plus(Pieces, -1) ELSE heap
  /\ Called("dup", <<>>, 0)
  /\ UNCHANGED <<mode, ring>>

\* A system call that reads or writes through a descriptor of the buffer.
Use == Traces # {} /\ Next /\ UNCHANGED fileVars

FilesNext ==
  \/ Create
  \/ CreateFails
  \/ \E fd \in Descriptors : Close(fd)
  \/ Exit
  \/ Dup
  \/ \E old, new \in Descriptors : Dup2(old, new)
  \/ Use

FilesSpec == FilesInit /\ [][FilesNext]_filesVars
------------------------------------------------------------------------------
\* The file counts exactly the descriptors that lead to it, whatever is closed,
\* duplicated or overwritten in whatever order: it is never freed under a
\* descriptor and never outlives the last one.
DescriptorsAreCounted ==
  /\ files \in [Descriptors -> {"none", "standard", "trace"}]
  /\ refCount = Cardinality(Traces)

\* The four pieces of memory are there exactly as long as a descriptor is:
\* a creation that fails half-way gives back all it took, the last close gives
\* back all four, and none is given back twice.
NothingLeaks == \A p \in Pieces : heap[p] = IF Traces # {} THEN 1 ELSE 0
==============================================================================
