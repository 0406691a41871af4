# Verification of the CS-330 operating-system assignments

The repository holds three assignments written for a course on operating
systems: user programs and a memory allocator (Assignment 1), tracing in the
teaching kernel gemOS (Assignment 2), and memory management in gemOS
(Assignment 3). The kernel runs on one processor and a system call or a fault
handler is not interrupted, so one call of the kernel is one step here. The
programs of Assignment 1 run on an ordinary host: there a step is a system call
of a process (myDU) or a call of the library (the allocator).

## 1. Inventory

| Component | Source | State | Operations | Used by / uses |
|---|---|---|---|---|
| Memory areas | `v2p.c` (Assignment 3) | list of `vm_area` per process, dummy first | `vm_area_map`, `vm_area_unmap`, `vm_area_mprotect` | read by the fault handler and by `cfork`; munmap and mprotect also change page tables |
| Pages and copy-on-write | `v2p.c` | page table per process, reference count per frame, translations cached by the processor | `vm_area_pagefault`, `handle_cow_fault`, `do_cfork`, the page-table parts of munmap and mprotect; scheduler and exit in object files | frames shared by processes after `cfork` |
| Trace buffer | `tracer.c` (Assignment 2), l. 12-286 | a page as a ring, two offsets, `isFull`, a reference count | `create_trace_buffer`, `read`, `write`, `close` | the ring is also written by strace and ftrace |
| strace | `tracer.c`, l. 292-691 | `st_md_base`: traced list, mode, descriptor | `perform_tracing` before every system call; `start_strace`, `end_strace`, `strace`, `read_strace` | trace buffer |
| ftrace | `tracer.c`, l. 697-1152 | list of functions, saved code bytes, the code itself | `do_ftrace`, the fault handler, `read_ftrace` | trace buffer |
| File table | object files, `trace_buffer_close` | descriptors, `ref_count` | open, dup, dup2, fork, close, exit | trace buffers |
| Allocator | `Part3/mylib.c` | size words and a doubly linked free list inside 4 MB chunks | `memalloc`, `memfree` | user programs, which own the words of a block |
| myDU | `Part2/myDU.c` | a child and a pipe per subdirectory | walk, fork, collect | - |
| exec chain | `Part1/*.c` | one number | compute, `execv` the next program | - |
| User library, tests | `user/` | - | system-call stubs, printf, tests | - |

What is hard in it: frames shared by several processes whose faults, calls and
exits come in any order; three places that set the write bit (first touch,
copy-on-write, mprotect) and one that clears it behind the processor's back
(cfork); a list that is split, trimmed and merged by three calls with
different comparisons; a ring whose empty and full states have the same
offsets and whose flag is used in three different ways by read/write, strace
and ftrace; code that is overwritten and put back by five commands; a file that
is freed by whichever close comes last; links of a free list in memory callers
had before; a parent that reads from a pipe its child may never write to.
`PROJECT.json` lists the hazards with their lines.

What makes each component correct:

* areas: the list is sorted, disjoint, merged; each call changes the access of
  exactly the pages it names;
* pages: counts are exact, a writable frame has one page, no translation leads
  to a frame the page has lost, and processes cannot see that they share;
* trace buffer: a bounded queue of bytes, whose memory is there exactly as long
  as a descriptor leads to it;
* strace: a log of the selected calls, delivered once, whole and in order;
* ftrace: the same for function calls, the functions run as ever, and code that
  is not traced is intact;
* allocator: blocks disjoint and the caller's own, every word of a chunk in one
  block (which the code gives up in one place);
* myDU: it ends, the total it prints is the sum, an error is an error.

## 2. Modules

| Module | Models |
|---|---|
| `PageMap` | abstract: pages with an access, and what mmap, munmap, mprotect promise about them |
| `Vma` | the area list as operators: insertion with its merges, removal with its splits, the walk of mprotect |
| `VmaCalls` | one process making the three calls; implements `PageMap` |
| `VmaCalls_proofs` | theorems about `VmaCalls`: the shape of the list, and that it implements `PageMap` |
| `PrivateMemory` | abstract: every process has a memory of its own, copied by cfork |
| `CowMemory` | lists, page tables, counts, contents and cached translations of all processes; implements `PrivateMemory` |
| `CowMemory_proofs` | theorems about `CowMemory`: types, counts, exclusive writers, translations, and that it implements `PrivateMemory` |
| `Fifo` | abstract: a bounded queue |
| `TraceBuffer` | the ring under read() and write(); implements `Fifo` |
| `TraceFiles` | composes the ring with the file table: creation and its failures, dup, dup2, close, exit; implements `Fifo` |
| `TraceFiles_proofs` | theorems about `TraceBuffer`, and those about `TraceFiles` that rest on them |
| `TraceLog` | abstract: a log of calls |
| `Strace` | perform_tracing and the four strace calls on a ring of words; implements `TraceLog` |
| `Strace_proofs` | theorems about `Strace`: the list, the types, and that it implements `TraceLog` |
| `FunctionLog` | abstract: a log of function calls, with their callers |
| `Ftrace` | do_ftrace, the fault handler and read_ftrace on a ring of words; implements `FunctionLog` |
| `Ftrace_proofs` | theorems about `Ftrace`: the list, the code, the types, and that it implements `FunctionLog` |
| `Heap` | abstract: blocks that are disjoint and keep their data |
| `MemAlloc` | memalloc and memfree over the words of memory; implements `Heap` |
| `MemAlloc_proofs` | theorems about `MemAlloc`: the free list, the blocks, and that it implements `Heap` |
| `MyDU` | the parent and its children, with the pipe between them |
| `MyDU_proofs` | theorems about `MyDU`: the children, the types and the total |
| `ListLemmas` | lemmas of several proofs: lists with an element removed or a part replaced, lists joined, recursive functions, records in a ring, sums over finite sets |
| `MC...` | the instances TLC checks |

`CowMemory` uses `Vma` for its area lists, so its mmap, munmap and mprotect are
the whole calls, with the list and the page table changed in one step.

### How state and actions correspond to the code

* `areas` is the linked list in order; `<<>>` is the NULL pointer. Addresses and
  lengths are in pages: the code rounds lengths up itself, and addresses are
  taken to be page-aligned. `Insert` stands for the nine cases of
  `vm_area_map` and the six of `search_lowest_free_region`, which differ only
  in how they express "join what touches and has the same access";
  `MissingCase` is the one that no branch handles. The refusal of flags
  other than 0 and MAP_FIXED, an early return that changes nothing, is left out:
  `fixed` is a Boolean.
* `Protect` follows the walk of `vm_area_mprotect`: page tables first, then
  `vm_area_unmap_2`, then `vm_area_map` with MAP_FIXED, then `vm_next` of an
  area that may have been freed; the freed structure is read as it was, which
  is what the kernel's allocator gives as long as nothing is allocated over it.
* `pte` flattens the four levels, none of which is ever removed while a
  process lives. `Absent` entries are what `install_page_table` zeroes.
* `ref` is the count get_pfn/put_pfn keep (8 bits wide; with at most 32
  processes it cannot overflow). A frame with count 0 is free.
* `tlb` is the processor: an entry may be loaded by an access and is dropped by
  invlpg, by the fault on its page and by a change of process.
  `TlbMayBeStale` says whether entries survive cfork, which invalidates none of
  the parent's. The passing runs take the case that they were evicted; the run
  `cow_stale_tlb` the other.
* cfork copies a segment from its start to `next_free`, the stack to its end.
  `Inherited` takes a segment as a whole: which of its pages are in use is up to
  exec and the segment faults, which are object code.
* A NULL list in cfork reads low memory; it is taken for an empty list.
  mprotect, which follows the same NULL pointer, is called after a first mmap.
* `Switch`, `Exit`, frames and the processor are external: their code is not in
  the sources and they are modelled from how `v2p.c` uses them.
* In `TraceBuffer` a call copies its bytes in one step, as the kernel does.
  `Refused` covers the mode and the memory-range test, whose result is left open.
* In `Strace` a ring cell is a word of eight bytes. perform_tracing and the
  handler of the same call are one action: `Traced` first, then the handler on
  the ring it leaves. The `last` pointer of the list is written and never used,
  and left out. A process without a list head is not traced.
* In `TraceFiles` a descriptor holds nothing, a standard file or the trace
  buffer; `heap` counts the pieces of memory of every kind that are taken. A
  creation is one step, with the piece that is refused chosen freely.
  `TraceBufferClose` is the code's; dup, dup2, close and exit are object code and
  modelled from their use: dup takes the lowest descriptor behind the standard
  ones and counts, dup2 closes its target first and counts, exit closes all.
* In `Ftrace` the four bytes at the start of a function are one value: its
  prologue, the trap, or what fresh memory holds. `CallFunction` is the
  processor: own code runs the prologue, a trap raises the fault, and the handler
  does what the prologue would have done and logs. Its result is ignored by the
  caller, so a full ring costs the record and not the call. A return address is
  known by the function it leads back to; the loop over saved frame pointers is
  then the stack read from the top. `ENABLE_BACKTRACE` and `ENABLE_FTRACE` differ
  in the flag, the two that disable likewise, so they share an action. The field
  `last`, `offp` and the `fd` of an element are left out: nothing in the model's
  reach reads them, and there is one trace buffer.
* In `MemAlloc` memory is a function from word addresses to numbers, so the size
  words, the links and the callers' data share it as they do in the program. The
  code's search for a left neighbour compares with an address one byte before the
  block and never succeeds: the two branches behind it are not modelled because
  they cannot be taken. The branch for a right neighbour writes the size of both
  blocks to the second word, as the code does, and the link then overwrites it.
* In `MyDU` every system call of `main` is an action and the walk of a child is
  one, because nobody sees what happens inside. `FolderSize` and `Reached` follow the
  recursion, with the descriptors every open directory takes. The pipe is what
  fd[0] and fd[1] lead to, with the processes that hold a write end; when pipe()
  fails, that is the last pipe, which nobody can write to. stat follows links, so
  the branches for links cannot be taken.

## 3. What the runs check

Passing:

* `vma_calls` - five pages behind the dummy and one beyond MMAP_AREA_END, lengths up to three. Every
  arrangement of areas with two accesses is reached. The calls
  that met `MissingCase`, or re-mapped a part past the end of the area, do not do
  what `PageMap` says; of them `CallsKeepPromise` says that they change only
  pages of their own region that had an access, to none or to the one asked for. The last call is hidden by a VIEW: no action reads it.
* `cow` - two processes, two pages of the mmap area and one of a segment, two
  frames, two contents: fewer frames than pages, so they run out; two pages of an
  area, so page_table_protect stops between them; two slots, so a slot is used
  again after exit. Frames, slots and contents are only compared for equality,
  hence the symmetry. Grandchildren and more frames are covered by the theorems.
* `trace_buffer` - a ring of four bytes, calls of up to five, a file table of
  three, one of them standard. Two descriptors of the file and a third one that
  dup2 may overwrite are enough for every order of closing; one trace buffer at a
  time, since buffers share nothing but the table.
* `strace` - a ring of six words, of which five are used, a list of at most two out of three
  numbers; parameters that look like system-call numbers. The VIEW leaves out the
  last call and the words outside the log.
* `ftrace` - two functions, one without arguments and one with one argument,
  which call each other to a depth of two, a third one that competes with them for
  two places in the list, and a ring of seven words. A CONSTRAINT (`IdleStaysIdle`)
  ends the exploration where the third function is traced or called. Records of
  two to six words lie across the end of the ring at every place and fill it
  exactly. The functions, `Main` and `Garbage` are numbers above every length, so
  that no address can be taken for the length of a record. Calls whose record has less room than it takes, but some, are left
  out (`WithinBound`): the code runs over the oldest records then, and the
  assignment text says that a trace buffer has room.
* `memalloc` - two chunks of ten words, side by side or apart, and requests
  that leave a block, a rest too small for one and no rest, and one that takes
  both chunks. `BlocksAreKept` is the refinement of `Heap`. `OnlyMergesLose` says
  exactly which memory the code loses. The VIEW leaves out words that are neither
  sizes nor links nor data.
* `mydu` - a root with a file and two subdirectories, one of them with a file
  and a subdirectory; stat and opendir fail for any subset, fork fails or not,
  children are killed at any point, and limits on descriptors range from "not
  even the root" over "the second pipe is not made" to "enough". The program stops
  when it is done, so deadlock is not checked; `Terminates` is instead.

Violated, each by what the code does against what a comment, a test or the
assignment says (`PROJECT.json`, findings):

* `vma_lost` - a hinted mmap right before an area of the same access is lost;
* `cow_readonly` - the first touch of a read-only page maps it writable;
* `cow_mprotect` - mprotect stops at the first shared page;
* `cow_stale_tlb` - a parent writes past copy-on-write through a translation
  cached before cfork;
* `strace_full` - a ring filled to the last word reads as empty.

Fairness is assumed in `mydu` alone: weak fairness of the parent's and of the
child's next step, which is what a host gives that runs every process that can
run. `KillChild` has none, and a read from an empty pipe with a writer left is not
enabled, so termination has to come from the order of wait, close and read. The
kernel promises no progress of its own: a call runs to its end or not at all, so
the other runs are about safety. Deadlock is checked in every other run.

Every property of a passing run has a mutant in `PROJECT.json`: a plausible slip
in one mapped definition (the operators commented "Mutant of") under which TLC
finds the property violated.

## 4. What is proved

With TLAPS, for every value of the constants that the named assumptions allow.
Every property of a passing run is a theorem, but for `Terminates`.

* `VmaCalls_proofs`: `VmaCallsTyped`, `ListStaysSorted`, `NeighboursAreMerged` and
  `CallsDoWhatTheyPromise`. The inductive invariant, `Inv`, says that the list is
  empty or well formed (dummy first, areas not empty, in order, and different in
  access where they touch) and ends by the top. One lemma, `SpliceKeepsShape`,
  carries it: a list keeps its shape when what lies between two of its elements
  is replaced by one area that fits there. An insertion with its merges is such a
  replacement; a removal builds the new list area by area, and each part follows
  what is left of the areas before; the walk of mprotect is one removal and one
  insertion per area. The refinement of `PageMap` says of each list
  operation which pages it gives which access: an insertion puts a region
  (`Puts`), a removal takes one (`Takes`), the search finds the first gap and so
  the lowest page that is free. The walk needs more, because it goes on in a list
  it has changed: after n areas, the pages up to the end of the n-th old area are
  done, the others are as before, and the ends behind it are those of the old
  list, so the next area it meets is the next old one or what is left of it
  (`Visited`, `NextAreaIsNext`). A walk that has lost a part keeps less, but enough for
  what is said of it: the area it meets next lies in one of the list, so the pages it
  takes out and puts back had an access and belong to the region (`Harmless`).
* `CowMemory_proofs`: `TypesCorrect`, `CountsAreExact`, `WritersAreAlone`,
  `NoDanglingTranslation`. The inductive invariant is the conjunction of the
  type invariant, "a free slot has an empty table" (needed because cfork
  overwrites the child's table), the exact counts and the exclusive writers.
  Exact counts need the cardinality of the set of (process, page) pairs that
  hold a frame: each handler changes the set by one entry, by the entries of one
  process (munmap, exit) or by a copy of them (cfork), and the lemmas give the
  cardinality of each change. Exclusiveness needs exact counts: mprotect and
  copy-on-write decide by "count is 1" that nobody else has the frame.
  Nothing is assumed of the area lists, so the theorems hold whatever the list
  code does.
  `ForkIsPrivate` and `ChildrenInherit` take the same invariant,
  plus: a translation agrees with the entry of its page, and one that allows
  writing leads to an entry that does. A write then reaches a frame with one page,
  so no other process sees it; every other step leaves what the processes read as
  it is. `ForkIsPrivate` assumes that translations do not outlive cfork
  (`~TlbMayBeStale`); the run `cow_stale_tlb` shows that it needs to.
  `ChildrenInherit` does not.
* `TraceFiles_proofs`: `RingTypes` and `RingIsFifo`, that the ring of any size
  implements the queue: the initial states agree and every read, write and
  refusal is the queue's step, by arithmetic on offsets modulo the size. Then
  `FilesAreCounted`, `FilesDoNotLeak` and `FilesAreQueues`. The
  inductive invariant is the first two together: the count is the number of
  descriptors, and every piece of memory is there while that number is positive.
  dup2 needs both, because it closes one descriptor and makes another in a step.
  The last theorem adds the steps of the file table to those of the ring.
* `Strace_proofs`: `SpecImpliesTracedListIsSet`, `StraceTyped` and `LogKept`. For
  the list, the inductive invariant adds
  that it is a sequence of numbers and the count a natural number. An
  addition keeps it because the code searches the whole list and the count is
  tested first; the empty list skips both tests, which is sound because
  STRACE_MAX is positive. A removal keeps it because in a list without
  repetition the first match is the only one. For the log, the invariant
  (`LogInv`) says that the words between the two offsets are the records put in
  and not yet read, one behind the other, which may go round the end of the
  ring (`RingHolds`): a write lays one record more behind them, and a read takes
  as many from the front as it is asked for, stops where the offsets meet, and
  leaves the rest. `LogKept` assumes `Held < Size`, that the ring is never filled to its
  last word; the run `strace_full` shows that it needs to.
* `Ftrace_proofs`: `ListIsSet`, `OwnCodeIsKept`, `FtraceTyped` and `CallsLogged`. The
  inductive invariant joins
  the first two: no repetition in the list, and every function has its own code
  or a trap with its own code kept in its element. The second needs the first: a command
  restores from the first element that names the function, and a removal drops
  one element, which must be the only one. For the log it adds the same fact
  about the ring as for strace, with a length before every record; here the flag
  tells a full ring from an empty one, so the full ring is covered. Records that
  have some room but too little are outside the model (`WithinBound`, a guard of
  the call), and so outside the theorem.
* `MemAlloc_proofs`: `AllocatorTyped`, `FreeListIsLinked`, `BlocksStayDisjoint`,
  `OnlyMergingLoses` and `AllocatorKeepsBlocks`. The inductive invariant (`Sound`)
  says that there is a set of free blocks, with ranks that fall along the links,
  such that the links lead through just these blocks and back; that the free
  blocks and those of the caller lie side by side by their size words, without
  overlap, in mapped memory; and that a caller's block has room for what was
  asked for. The ranks are what makes a walk end, and so what lets a proof say
  what the search of memalloc finds. Since sizes, links and data share the
  memory, most of the argument is about which words a call writes and whose they
  are; it covers the merge that writes the size to the wrong word.
* `MyDU_proofs`: `ChildrenAreCollected`, `DiskUsageTyped` and `PrintedTotalIsRight`. The
  inductive invariant says for every
  point of the parent which child there is, what the pipe holds and who can write
  to it (`StageInv`); for the total it adds how many descriptors are open by then
  and what has been added up (`AccountInv`). That a complete walk adds up to the
  size of a subtree goes by induction over the tree, and over the descriptors
  that are left for the recursive functions that model it.

Recursion. The library states induction with an operator as a parameter, which the
provers at hand cannot instantiate. `ListLemmas` states it of a set (`Induction`,
`SetInduction`): the property becomes a set of numbers, or of sets. `Recursion` and
`ScanExists` say that a function defined by recursion over a number, or over a
number and a place, exists, without which nothing is known of one; `FlattenIterates` and the
sum lemmas do the same for the folds of the community modules.

The assumptions are the named ASSUMEs of the modules, which TLC evaluates on the
instances:

| Assumption | What it asks for, and why the code may count on it |
|---|---|
| `AreaAssumption`, `VmaCallsAssumption` | the mmap area does not start at 0, which stands for "no address" (MMAP_AREA_START is not 0); lengths are positive, as the assignment text says |
| `CowAssumption` | finitely many processes, frames and pages; segments lie outside the mmap area |
| `TraceBufferAssumption`, `TraceFilesAssumption` | a ring of at least one byte; standard descriptors fit into the table |
| `StraceAssumption`, `CallsAssumption` | a ring of at least one word and a positive STRACE_MAX; numbers and words are natural numbers; a call has at least the parameters its number says |
| `FtraceAssumption` | a ring of at least one word and a positive FTRACE_MAX; addresses and words are natural numbers; there is a register for every argument a function can have; the trap is not the code a function starts with |
| `MemAllocAssumption` | a chunk has room for a smallest block; sizes are natural numbers |
| `MyDUAssumption` | the nodes are finitely many and form a tree below the root (no link leads upwards); bytes are natural numbers; the limit on descriptors is not 4 or 5, with which the root opens and the first pipe is refused |

Left to TLC: `Terminates`, which is about fairness. The properties of the
violated runs are false of the code, and so of the models.

## 5. What the models say about the code

Apart from the five violations above, reading and modelling showed the following,
which no run refutes because the model states what the code does, or because it
is outside the bounds:

* `memfree` loses the right neighbour it merges with (`mylib.c:227` writes the size
  to the wrong word), and never merges with the left one (`mylib.c:192`).
  `OnlyMergesLose` states it exactly.
* mprotect loses memory as mmap does. It takes a part out and puts it back through
  `vm_area_map` with MAP_FIXED (`v2p.c:608`). A part that meets the missing case of
  `v2p.c:765` is not put back and the call reports success; one that begins past
  MMAP_AREA_END is refused after it was taken out. Either way it is unmapped instead
  of protected. The model does the same and marks the call as `lost`.
  `CallsKeepPromise` says that such a call changes no page outside its region and
  none that had no access; that it loses pages is stated, not refuted.
  `MmapMapsRegion` refutes the missing case for mmap alone.
* `new_chunk` takes 4 MB more than needed when the size with its header is a
  multiple of 4 MB; `memalloc(0)` returns a block.
* `myDU` prints a total that is too small when a directory cannot be opened
  (`myDU.c:141`), for want of descriptors too, which the pipes it leaves open
  (`myDU.c:59`) bring about. `TotalIsRight` states both.
* `trace_buffer_close` looks for NULL after it has used the pointer.
* Removing the last traced function frees the list head and keeps using it.

## 6. Not modelled, and why

* Failure of `os_alloc` but in the creation of a trace buffer; exhaustion of
  frames on first touch (the kernel would map frame 0); addresses that are not
  page-aligned; code whose effect depends on low physical memory or on freed
  memory that is handed out again. Listed under hazards.
* fork of a process with trace buffers: it is object code that does not count the
  descriptors it copies, and the assignment text excludes it.
* A function traced with more arguments than registers hold. ADD_FTRACE accepts any
  number that is not negative (`tracer.c:730`), and the fault handler reserves a word for
  each but writes six at most (`tracer.c:995`), so the others keep what the ring
  held; the assumption on `Arities` leaves these out.
* strace and ftrace records that run over each other: excluded by the assignment
  text. Which memory ranges `is_valid_mem_range` refuses: left open, so that both
  outcomes are covered.
* Failure of mmap in `memalloc`, sizes near 2^64, and directory links that lead to a
  directory above, whose walk by myDU has no end.
* Object files, boot, scheduler policy, file system: no source.
* Part 1 of Assignment 1 and the user library: sequential programs whose only
  state is a number or a format string.

## 7. What could follow

* The two traces and plain read and write on one trace buffer: the flag `isFull` is
  kept differently by the three, and the texts do not say what mixing them means.
* A ring whose records may run over each other: `Strace` and `Ftrace` stop where
  the assignment text does, and what is read after that is not stated anywhere.
* Liveness of myDU for every tree: it would rest on the invariant of `MyDU_proofs`,
  but not on a proof about fairness with the provers at hand.
