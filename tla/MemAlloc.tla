------------------------------ MODULE MemAlloc ------------------------------
(***************************************************************************)
(* The allocator of a user program (Part3/mylib.c): memory comes from mmap *)
(* in chunks, is cut into blocks and kept in a doubly linked list when it  *)
(* is free.  The first word of a block is its size in bytes; the next two  *)
(* link it when it is free and are the caller's when it is not.  Addresses *)
(* count words of 8 bytes.  Sizes near the end of the address space, for   *)
(* which size + 8 overflows, are not asked for, and mmap succeeds.         *)
(***************************************************************************)
EXTENDS Integers, Functions

CONSTANTS ChunkWords,   \* 524288, the words of 4 MB
          Slots,        \* bound: how many chunks the system has room for
          Requests,     \* sizes asked for, in bytes
          Data          \* what callers write to their blocks

ASSUME MemAllocAssumption ==
  /\ ChunkWords \in Nat \ {0, 1, 2}
  /\ Slots \in Nat
  /\ Requests \subseteq Nat
  /\ Data \subseteq Int

VARIABLES mem,      \* the words of memory
          head,     \* the first free block
          mapped,   \* the words obtained with mmap
          live,     \* the blocks the caller has: size asked for, by address
          call      \* the last call, what it returned

vars == <<mem, head, mapped, live, call>>

NULL == 0

\* The chunks lie side by side, from address 1 on.
Addresses == 1 .. Slots * ChunkWords

SlotStart(i) == 1 + i * ChunkWords

WordsOf(bytes) == (bytes + 7) \div 8

\* Mutant of BlockBytes: the size word is forgotten.
BlockBytesBare(size) ==
  LET bytes == 8 * WordsOf(size)
  IN  IF bytes < 24 THEN 24 ELSE bytes

\* With the size word, rounded up to words; a free block needs three of them.
BlockBytes(size) ==
  LET bytes == 8 * WordsOf(size + 8)
  IN  IF bytes < 24 THEN 24 ELSE bytes

Init ==
  /\ mem = [a \in Addresses |-> 0]
  /\ head = NULL
  /\ mapped = {}
  /\ live = <<>>
  /\ call = [op |-> "none", size |-> 0, ptr |-> NULL, value |-> 0, ret |-> 0]
------------------------------------------------------------------------------
(* The free list, as a record of memory and head *)

Free == [mem |-> mem, head |-> head]

\* insert_chunk_in_freelist: the previous block of the first one is itself.
InsertFree(free, b) ==
  IF free.head = NULL
  THEN [mem |-> [free.mem EXCEPT ![b + 1] = NULL, ![b + 2] = b], head |-> b]
  ELSE [mem |-> [free.mem EXCEPT ![free.head + 2] = b, ![b + 1] = free.head, ![b + 2] = b],
        head |-> b]

\* Mutant of RemoveFree: the block behind keeps its link back.
RemoveOneWay(free, b) ==
  LET next == free.mem[b + 1]
      prev == free.mem[b + 2]
  IN  IF b = free.head
      THEN [mem  |-> free.mem, head |-> next]
      ELSE [mem  |-> [free.mem EXCEPT ![prev + 1] = next], head |-> free.head]

\* remove_chunk_from_freelist
RemoveFree(free, b) ==
  LET next == free.mem[b + 1]
      prev == free.mem[b + 2]
  IN  IF b = free.head
      THEN [mem  |-> IF next = NULL THEN free.mem ELSE [free.mem EXCEPT ![next + 2] = next],
            head |-> next]
      ELSE [mem  |-> IF next = NULL THEN [free.mem EXCEPT ![prev + 1] = NULL]
                     ELSE [free.mem EXCEPT ![prev + 1] = next, ![next + 2] = prev],
            head |-> free.head]

\* The block behind b in the list, which would end at a link that leaves memory.
NextFree(b) == IF mem[b + 1] \in Addresses THEN mem[b + 1] ELSE NULL

\* search_free_chunk: the first block from b on that is large enough.
FirstFit(size) ==
  LET fit[b \in Addresses \cup {NULL}] ==
        IF b = NULL \/ size + 8 <= mem[b] THEN b ELSE fit[NextFree(b)]
  IN  fit[head]

FreeBlocks ==
  LET walk[b \in Addresses \cup {NULL}] ==
        IF b = NULL THEN {} ELSE {b} \cup walk[NextFree(b)]
  IN  walk[head]

\* A block that is not in the list is cut to size: the rest of it is free,
\* unless it is too small for a block and stays padding.
Carve(free, b, bytes) ==
  LET rest  == b + bytes \div 8
      extra == free.mem[b] - bytes
  IN  IF extra < 24 THEN free
      ELSE InsertFree([free EXCEPT !.mem[b] = bytes, !.mem[rest] = extra], rest)
------------------------------------------------------------------------------
SetFree(free) == mem' = free.mem /\ head' = free.head

\* The caller gets the address behind the size word.
Allocated(b, size) ==
  /\ live' = [p \in DOMAIN live \cup {b + 1} |-> IF p = b + 1 THEN size ELSE live[p]]
  /\ call' = [op |-> "memalloc", size |-> size, ptr |-> NULL, value |-> 0, ret |-> b + 1]

MemallocFree(size) ==
  LET b == FirstFit(size)
  IN  /\ b # NULL
      /\ SetFree(Carve(RemoveFree(Free, b), b, BlockBytes(size)))
      /\ Allocated(b, size)
      /\ UNCHANGED mapped

\* Mutant of NewChunkWords: the size is not made a multiple of 4 MB.
NewChunkBare(size) == WordsOf(size + 8)

\* new_chunk: a size that is a multiple of 4 MB with its size word gets 4 MB more.
NewChunkWords(size) == ((size + 8) \div (8 * ChunkWords) + 1) * ChunkWords

\* The system maps the chunk wherever there is room, next to another one too.
MemallocNew(size) ==
  LET words == NewChunkWords(size)
  IN  /\ FirstFit(size) = NULL
      /\ \E i \in 0 .. Slots - 1 :
           LET b     == SlotStart(i)
               chunk == b .. b + words - 1
           IN  /\ chunk \subseteq Addresses \ mapped
               /\ mapped' = mapped \cup chunk
               /\ SetFree(Carve([Free EXCEPT !.mem[b] = 8 * words], b, BlockBytes(size)))
               /\ Allocated(b, size)

\* Mutant of MemfreeAndMerge: the right neighbour stays in the list.
MergeWithoutRemoval(b) ==
  LET right == b + mem[b] \div 8
  IN  InsertFree([Free EXCEPT !.mem[b] = mem[right] + mem[b]], b)

\* A free right neighbour leaves the list.  The size of both is written to the
\* second word of the block, where the link then goes, so the block keeps its
\* own size.
MemfreeAndMerge(b) ==
  LET right == b + mem[b] \div 8
      free  == RemoveFree(Free, right)
  IN  InsertFree([free EXCEPT !.mem[b + 1] = mem[right] + mem[b]], b)

\* The search for a left neighbour compares with an address that is one byte
\* and not one word before the block, and never finds one.
Memfree(p) ==
  LET b     == p - 1
      right == b + mem[b] \div 8
  IN  /\ SetFree(IF right \in FreeBlocks THEN MemfreeAndMerge(b) ELSE InsertFree(Free, b))
      /\ live' = Restrict(live, DOMAIN live \ {p})
      /\ call' = [op |-> "memfree", size |-> 0, ptr |-> p, value |-> 0, ret |-> 0]
      /\ UNCHANGED mapped

\* The caller uses a block it has.
WriteBlock(p, value) ==
  /\ mem' = [a \in Addresses |-> IF a \in p .. p + WordsOf(live[p]) - 1
                                 THEN value ELSE mem[a]]
  /\ call' = [op |-> "write", size |-> 0, ptr |-> p, value |-> value, ret |-> 0]
  /\ UNCHANGED <<head, mapped, live>>

Next ==
  \/ \E size \in Requests : MemallocFree(size) \/ MemallocNew(size)
  \/ \E p \in DOMAIN live : Memfree(p)
  \/ \E p \in DOMAIN live, value \in Data : WriteBlock(p, value)

Spec == Init /\ [][Next]_vars
------------------------------------------------------------------------------
TypeOK ==
  /\ mem \in [Addresses -> Int]
  /\ head \in Addresses \cup {NULL}
  /\ mapped \subseteq Addresses
  /\ \A i \in 0 .. Slots - 1 :   \* chunk by chunk
       \A a, c \in SlotStart(i) .. SlotStart(i) + ChunkWords - 1 : a \in mapped => c \in mapped
  /\ live \in [DOMAIN live -> Requests]

\* The links of the list lead to its blocks and back: every block of it is the
\* previous one of its next, and the first is its own, although the words that
\* hold them belonged to callers before and are taken out of the middle, cut
\* and put back in any order of calls.
ListIsLinked ==
  /\ head # NULL => mem[head + 2] = head
  /\ \A b \in FreeBlocks :
       mem[b + 1] # NULL => /\ mem[b + 1] \in FreeBlocks \ {head}
                            /\ mem[mem[b + 1] + 2] = b

Blocks == FreeBlocks \cup {p - 1 : p \in DOMAIN live}

Extent(b) == b .. b + mem[b] \div 8 - 1

\* All blocks, in use and free, are disjoint, large enough for the list and made
\* of mapped words, and the size words they have add up: no block was cut to
\* overlap its neighbour, no list entry is in use, no caller's data took a size
\* word.
BlocksAreDisjoint ==
  \A b \in Blocks :
    /\ mem[b] >= 24 /\ mem[b] % 8 = 0
    /\ Extent(b) \subseteq mapped
    /\ \A c \in Blocks \ {b} : Extent(b) \cap Extent(c) = {}

Owned == UNION {Extent(b) : b \in Blocks}

\* What the caller sees: blocks of its own that keep its data.
Promise == INSTANCE Heap
  WITH data <- [p \in DOMAIN live |-> [i \in 1 .. WordsOf(live[p]) |-> mem[p + i - 1]]]

BlocksAreKept == Promise!Spec

\* Memory is lost in one way only: when a block is freed and its right neighbour
\* is free, the words of that neighbour leave the list for good, instead of
\* making one block with those of the other.  Every other call leaves every
\* word in one block.
OnlyMergesLose ==
  [][LET b == call'.ptr - 1
         right == b + mem[b] \div 8
     IN  Owned \ Owned' =
           IF call'.op = "memfree" /\ right \in FreeBlocks THEN Extent(right) ELSE {}]_vars
==============================================================================
