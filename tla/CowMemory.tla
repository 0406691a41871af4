------------------------------ MODULE CowMemory ------------------------------
(***************************************************************************)
(* The user memory of gemOS processes on one processor: area lists, page   *)
(* tables, reference-counted frames and the translations the processor     *)
(* caches, under mmap, munmap, mprotect, page faults, cfork, exit and      *)
(* context switches.  The four levels of a page table are one function     *)
(* from pages to entries.                                                  *)
(***************************************************************************)
EXTENDS Integers, Sequences, FiniteSets, Vma

CONSTANTS Procs,          \* process slots
          Frames,         \* frames of the user region
          NoFrame,        \* the frame of an entry that is not present
          Values,         \* contents of a page
          SegPages,       \* pages of the data and stack segments, past the area
          Top,            \* bound: no area reaches past page Top
          Lengths,        \* the lengths, in pages, a call may pass
          TlbMayBeStale   \* does the processor keep translations across cfork?

ASSUME CowAssumption ==
  /\ IsFiniteSet(Procs) /\ IsFiniteSet(Frames) /\ IsFiniteSet(SegPages)
  /\ NoFrame \notin Frames \cup Values
  /\ Top \in Nat
  /\ SegPages \cap (AreaStart .. Top) = {}
  /\ TlbMayBeStale \in BOOLEAN

VARIABLES running,   \* the process on the processor
          live,      \* the slots in use
          areas,     \* vm_area lists
          pte,       \* page tables
          ref,       \* reference counts of frames
          data,      \* contents of frames
          tlb        \* translations cached for the running process

vars == <<running, live, areas, pte, ref, data, tlb>>

Page   == (AreaStart .. Top) \cup SegPages
Entry  == [frame : Frames \cup {NoFrame}, w : BOOLEAN]
Absent == [frame |-> NoFrame, w |-> FALSE]
Empty  == [v \in Page |-> Absent]

Present(p, v) == pte[p][v].frame # NoFrame

\* mms[i].access_flags for a segment, the area's access_flags otherwise.
Access(p, v) == IF v \in SegPages THEN ReadWrite ELSE ProtOf(areas[p], v)

Drop(table, S) == [v \in Page |-> IF v \in S THEN Absent ELSE table[v]]

SetWrite(table, S, w) ==
  [v \in Page |-> IF v \in S THEN [frame |-> table[v].frame, w |-> w] ELSE table[v]]

\* Mutant of Put: the frame is freed without asking who else has it.
PutAll(p, S) ==
  [f \in Frames |-> IF \E v \in S : pte[p][v].frame = f THEN 0 ELSE ref[f]]

\* put_pfn once for every present page of S; at 0 the frame is free again.
Put(p, S) ==
  [f \in Frames |-> ref[f] - Cardinality({v \in S : pte[p][v].frame = f})]

\* Mutant of Get: get_pfn is not called.
GetNothing(p, S) == ref

Get(p, S) ==
  [f \in Frames |-> ref[f] + Cardinality({v \in S : pte[p][v].frame = f})]

FreeFrames == {f \in Frames : ref[f] = 0}

WithinBound(list) == \A i \in DOMAIN list : list[i].end <= Top + 1
------------------------------------------------------------------------------
Init ==
  /\ running \in Procs
  /\ live = {running}
  /\ areas = [p \in Procs |-> <<>>]
  /\ pte = [p \in Procs |-> Empty]
  /\ ref = [f \in Frames |-> 0]
  /\ data \in [Frames -> Values]
  /\ tlb = Empty

Mmap(addr, length, prot) ==
  LET result == Map(areas[running], addr, length, prot, FALSE)
  IN  /\ WithinBound(result.areas)
      /\ areas' = [areas EXCEPT ![running] = result.areas]
      /\ UNCHANGED <<running, live, pte, ref, data, tlb>>

\* Mutant of Munmap: invalidate_page is not called.
MunmapKeepsTlb(addr, length) ==
  LET gone == {v \in CoveredPages(areas[running], addr, addr + length) \cap Page :
                 Present(running, v)}
  IN  /\ areas' = [areas EXCEPT ![running] = Unmap(@, addr, addr + length)]
      /\ pte' = [pte EXCEPT ![running] = Drop(@, gone)]
      /\ ref' = Put(running, gone)
      /\ UNCHANGED <<running, live, data, tlb>>

\* The pages behind the parts of areas that go are given back; a page that no
\* area covers is not looked at.
Munmap(addr, length) ==
  LET gone == {v \in CoveredPages(areas[running], addr, addr + length) \cap Page :
                 Present(running, v)}
  IN  /\ areas' = [areas EXCEPT ![running] = Unmap(@, addr, addr + length)]
      /\ pte' = [pte EXCEPT ![running] = Drop(@, gone)]
      /\ ref' = Put(running, gone)
      /\ tlb' = Drop(tlb, gone)
      /\ UNCHANGED <<running, live, data>>

\* Mutant of Reached: shared frames are changed like the others.
ReachedShared(lo, hi) == {v \in (lo .. hi - 1) \cap Page : Present(running, v)}

\* page_table_protect goes through the pages of a region and returns at the
\* first one whose frame is shared: the pages it gets to.
Reached(lo, hi) ==
  {v \in (lo .. hi - 1) \cap Page :
     /\ Present(running, v)
     /\ \A u \in (lo .. v) \cap Page : Present(running, u) => ref[pte[running][u].frame] = 1}

Mprotect(addr, length, prot) ==
  /\ areas[running] # <<>>
  /\ LET walk    == Protect(areas[running], addr, addr + length, prot)
         reached == UNION {Reached(walk.regions[i][1], walk.regions[i][2]) :
                             i \in DOMAIN walk.regions}
     IN  /\ areas' = [areas EXCEPT ![running] = walk.areas]
         /\ pte' = [pte EXCEPT ![running] = SetWrite(@, reached, prot = ReadWrite)]
         /\ tlb' = Drop(tlb, reached)
  /\ UNCHANGED <<running, live, ref, data>>
------------------------------------------------------------------------------
(* Page faults.  The processor forgets its translation of the page. *)

Forget(v) == tlb' = [tlb EXCEPT ![v] = Absent]

\* "access_flags == PROT_READ | PROT_WRITE" is never 0 in C: the comparison
\* binds tighter than the bitwise or.
EntryWritable(prot) == TRUE

\* A page without memory is touched (error codes 4 and 6; a read needs a
\* readable area, a write a writable one).  The frame is not cleared.
DemandFault(v, f) ==
  /\ ~Present(running, v)
  /\ Access(running, v) # NoAccess
  /\ f \in FreeFrames
  /\ pte' = [pte EXCEPT ![running][v] =
               [frame |-> f, w |-> EntryWritable(Access(running, v))]]
  /\ ref' = [ref EXCEPT ![f] = 1]
  /\ Forget(v)
  /\ UNCHANGED <<running, live, areas, data>>

WriteFault(v) ==
  /\ Present(running, v)
  /\ ~pte[running][v].w
  /\ Access(running, v) = ReadWrite
  /\ Forget(v)
  /\ UNCHANGED <<running, live, areas>>

\* A write to a shared frame (error code 7) moves the page to a copy.
CowCopy(v, f) ==
  LET old == pte[running][v].frame
  IN  /\ WriteFault(v)
      /\ ref[old] > 1
      /\ f \in FreeFrames
      /\ data' = [data EXCEPT ![f] = data[old]]
      /\ pte' = [pte EXCEPT ![running][v] = [frame |-> f, w |-> TRUE]]
      /\ ref' = [ref EXCEPT ![f] = 1, ![old] = @ - 1]

\* Mutant of CowReuse: the reference count is not asked for.
CowReuseShared(v) ==
  /\ WriteFault(v)
  /\ pte' = [pte EXCEPT ![running] = SetWrite(@, {v}, TRUE)]
  /\ UNCHANGED <<ref, data>>

\* The last user of a frame gets its write access back.
CowReuse(v) ==
  /\ WriteFault(v)
  /\ ref[pte[running][v].frame] <= 1
  /\ pte' = [pte EXCEPT ![running] = SetWrite(@, {v}, TRUE)]
  /\ UNCHANGED <<ref, data>>
------------------------------------------------------------------------------
(* Processes *)

\* Mutant of Inherited: read-only areas are left out.
InheritedWritable(p) == {v \in Page : Present(p, v) /\ Access(p, v) = ReadWrite}

\* What create_page_table_entries is called for: areas and segments.
Inherited(p) == {v \in Page : Present(p, v) /\ Access(p, v) # NoAccess}

\* A fresh dummy and a copy of every area behind the parent's.  A parent that
\* never called mmap has a NULL list, which the copy follows all the same: it
\* finds zeroes at the bottom of physical memory and takes them for its end.
CopyAreas(list) == <<Dummy>> \o SubSeq(list, 2, Len(list))

\* Parent and child share the frames, and both tables lose the write bit; the
\* parent's cached translations are not invalidated.
Cfork(c) ==
  LET shared == Inherited(running)
  IN  /\ c \in Procs \ live
      /\ live' = live \cup {c}
      /\ areas' = [areas EXCEPT ![c] = CopyAreas(areas[running])]
      /\ pte' = [pte EXCEPT ![running] = SetWrite(@, shared, FALSE),
                            ![c] = [v \in Page |->
                                      IF v \in shared
                                      THEN [frame |-> pte[running][v].frame, w |-> FALSE]
                                      ELSE Absent]]
      /\ ref' = Get(running, shared)
      /\ tlb' = IF TlbMayBeStale THEN tlb ELSE Empty
      /\ UNCHANGED <<running, data>>

\* schedule() loads CR3, which empties the cache.
Switch(q) ==
  /\ q \in live \ {running}
  /\ running' = q
  /\ tlb' = Empty
  /\ UNCHANGED <<live, areas, pte, ref, data>>

\* exit, and the end of a process whose access a fault handler refuses
\* (destroy_user_mappings and do_vma_exit); another process goes on.
Exit(q) ==
  LET gone == {v \in Page : Present(running, v)}
  IN  /\ q \in live \ {running}
      /\ live' = live \ {running}
      /\ running' = q
      /\ areas' = [areas EXCEPT ![running] = <<>>]
      /\ pte' = [pte EXCEPT ![running] = Empty]
      /\ ref' = Put(running, gone)
      /\ tlb' = Empty
      /\ UNCHANGED data
------------------------------------------------------------------------------
(* User instructions: the processor uses a cached translation or walks the *)
(* page table.                                                             *)

Read(v) ==
  /\ tlb[v].frame = NoFrame
  /\ Present(running, v)
  /\ tlb' = [tlb EXCEPT ![v] = pte[running][v]]
  /\ UNCHANGED <<running, live, areas, pte, ref, data>>

Write(v, x) ==
  \E entry \in {tlb[v], pte[running][v]} :
    /\ entry.frame # NoFrame
    /\ entry.w
    /\ data' = [data EXCEPT ![entry.frame] = x]
    /\ tlb' = [tlb EXCEPT ![v] = entry]
    /\ UNCHANGED <<running, live, areas, pte, ref>>
------------------------------------------------------------------------------
Call ==
  \E addr \in AreaStart + 1 .. Top, length \in Lengths :
    \/ \E prot \in ValidProt : \/ Mmap(addr, length, prot)
                              \/ Mmap(Null, length, prot)
                              \/ Mprotect(addr, length, prot)
    \/ Munmap(addr, length)

Fault ==
  \E v \in Page :
    \/ \E f \in Frames : DemandFault(v, f) \/ CowCopy(v, f)
    \/ CowReuse(v)

Instruction == \E v \in Page : Read(v) \/ \E x \in Values : Write(v, x)

Process == \E q \in Procs : Cfork(q) \/ Switch(q) \/ Exit(q)

Next == Call \/ Fault \/ Instruction \/ Process

Spec == Init /\ [][Next]_vars
------------------------------------------------------------------------------
TypeOK ==
  /\ running \in live
  /\ live \subseteq Procs
  /\ pte \in [Procs -> [Page -> Entry]]
  /\ ref \in [Frames -> Nat]
  /\ data \in [Frames -> Values]
  /\ tlb \in [Page -> Entry]

MappersIn(tables, f) == {m \in Procs \X Page : tables[m[1]][m[2]].frame = f}
Mappers(f) == MappersIn(pte, f)

\* The count of a frame is the number of page-table entries that hold it, over
\* all processes: a count too low frees a frame in use, a count too high leaks
\* it or copies a page nobody shares.
RefCountsExact == \A f \in Frames : ref[f] = Cardinality(Mappers(f))

\* A frame that some page may be written through has no other page: no process
\* can write where another one reads, however mprotect, copy-on-write and
\* cfork take turns at the write bit.
WritableIsExclusive ==
  \A p, q \in Procs, v, u \in Page :
    /\ Present(p, v)
    /\ pte[p][v].w
    /\ pte[q][u].frame = pte[p][v].frame
    => p = q /\ v = u

\* A cached translation leads to the frame the page has now: the pages that
\* munmap, exit and copy-on-write moved away from cannot be reached any more.
TlbFollowsTable ==
  \A v \in Page : tlb[v].frame # NoFrame => tlb[v].frame = pte[running][v].frame

\* A write bit says that the area allows writing (page_table_walk: "set write
\* bit if write access").
WriteBitNeedsWriteAccess ==
  \A p \in Procs, v \in Page : pte[p][v].w => Access(p, v) = ReadWrite

\* A page that mprotect makes read-only cannot be written any more (part2's
\* testcase2: "Writing to a read only address. Process should be terminated").
MprotectTakesWriteAway ==
  [][\A v \in Page :
       running' = running /\ Access(running, v) = ReadWrite /\ Access(running, v)' = ReadOnly
         => ~pte'[running][v].w]_vars

\* What process p finds at page v.
Seen(p, v) == IF Present(p, v) THEN data[pte[p][v].frame] ELSE NoFrame

\* A child finds at every page its parent could use what the parent found there.
ChildSeesParentsMemory ==
  [][\A c \in live' \ live, v \in Page :
       Access(running, v) # NoAccess => Seen(c, v)' = Seen(running, v)]_vars

Private == INSTANCE PrivateMemory
  WITH mem <- [p \in Procs |-> [v \in Page |-> Seen(p, v)]], Nothing <- NoFrame

\* Sharing frames is invisible: the processes behave as with a memory each.
ProcessesArePrivate == Private!Spec
==============================================================================
