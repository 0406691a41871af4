--------------------------- MODULE MemAlloc_proofs ---------------------------
(***************************************************************************)
(* The proofs about the allocator.  The inductive invariant, Sound, says   *)
(* that the links of the free list lead from block to block and back,      *)
(* along ranks that fall, so that a walk ends and finds the free blocks F; *)
(* that the blocks, free ones and those of the caller, tile part of the    *)
(* mapped memory by their size words; and that a caller's block has room   *)
(* for what was asked for.  Sizes and links share memory with each other   *)
(* and with what callers write: most of the work is to show which words    *)
(* an operation touches, and whose they are.                               *)
(***************************************************************************)
EXTENDS MemAlloc, ListLemmas

\* Where the link of a block leads in memory m.
After(m, b) == IF m[b + 1] \in Addresses THEN m[b + 1] ELSE NULL

\* The list that starts at h in memory m: its blocks are F, the links lead from
\* block to block and back, and ranks that fall along the list show that it ends.
Linked(m, h, F, rank) ==
  /\ F \subseteq Addresses
  /\ rank \in [F -> Nat]
  /\ h = NULL => F = {}
  /\ h # NULL => h \in F /\ m[h + 2] = h
  /\ \A b \in F : rank[b] <= rank[h]
  /\ \A b \in F : m[b + 1] # NULL => /\ m[b + 1] \in F \ {h}
                                     /\ m[m[b + 1] + 2] = b
                                     /\ rank[m[b + 1]] < rank[b]
  /\ \A b \in F \ {h} : m[b + 2] \in F /\ m[m[b + 2] + 1] = b

IsWalk(w, m) ==
  w = [b \in Addresses \cup {NULL} |-> IF b = NULL THEN {} ELSE {b} \cup w[After(m, b)]]

FreeIn(m, h) == (CHOOSE w : IsWalk(w, m))[h]

\* The blocks of a list, a function by recursion over any links, exist.
LEMMA WalkExists ==
  ASSUME NEW m
  PROVE  \E w : IsWalk(w, m)
<1> DEFINE Closed(S) == \A c \in S : After(m, c) # NULL => After(m, c) \in S
           Reach(b) == {c \in Addresses : \A S \in SUBSET Addresses :
                                            b \in S /\ Closed(S) => c \in S}
           w == [b \in Addresses \cup {NULL} |-> IF b = NULL THEN {} ELSE Reach(b)]
<1>1. NULL \notin Addresses
  BY DEF NULL, Addresses
<1>2. \A b : After(m, b) \in Addresses \cup {NULL}
  BY DEF After
<1>3. ASSUME NEW b \in Addresses
      PROVE  Reach(b) = {b} \cup w[After(m, b)]
  <2>1. b \in Reach(b)
    OBVIOUS
  <2>2. Closed(Reach(b))
    BY <1>2
  <2> DEFINE next == After(m, b)
  <2>3. CASE next = NULL
    <3>1. w[next] = {}
      BY <2>3
    <3>2. {b} \in SUBSET Addresses /\ b \in {b} /\ Closed({b})
      BY <2>3
    <3>3. \A c \in Reach(b) : c \in {b}
      BY <3>2
    <3>4. QED
      BY <2>1, <3>1, <3>3
  <2>4. CASE next # NULL
    <3>1. next \in Addresses /\ w[next] = Reach(next)
      BY <1>2, <2>4
    <3>2. next \in Reach(b)
      BY <2>1, <2>2, <2>4
    <3>3. Reach(b) \in SUBSET Addresses
      OBVIOUS
    <3>4. Reach(next) \subseteq Reach(b)
      BY <2>2, <3>2, <3>3
    <3> DEFINE T == {b} \cup Reach(next)
    <3>5. T \in SUBSET Addresses /\ b \in T
      OBVIOUS
    <3>6. Closed(T)
      <4>1. next \in Reach(next)
        BY <3>1
      <4>2. Closed(Reach(next))
        BY <1>2
      <4> HIDE DEF Reach
      <4>3. QED
        BY <4>1, <4>2
    <3>7. Reach(b) \subseteq T
      BY <3>5, <3>6
    <3>8. QED
      BY <2>1, <3>1, <3>4, <3>7
  <2>5. QED
    BY <2>3, <2>4
<1>4. IsWalk(w, m)
  <2>1. \A b \in Addresses : w[b] = {b} \cup w[After(m, b)]
    <3> HIDE DEF Reach
    <3>1. QED
      BY <1>1, <1>3
  <2>2. w[NULL] = {}
    OBVIOUS
  <2>3. w = [b \in Addresses \cup {NULL} |-> w[b]]
    OBVIOUS
  <2> HIDE DEF w
  <2>4. QED
    BY <1>1, <2>1, <2>2, <2>3 DEF IsWalk
<1>5. QED
  BY <1>4

\* A linked list has the blocks that its links say, and the walk finds them.
LEMMA LinkedIsFree ==
  ASSUME NEW m, NEW h, NEW F, NEW rank, Linked(m, h, F, rank)
  PROVE  FreeIn(m, h) = F
<1> DEFINE w == CHOOSE w : IsWalk(w, m)
           Closed(S) == \A c \in S : After(m, c) # NULL => After(m, c) \in S
           Good(c) == w[c] \subseteq F /\ c \in w[c] /\ Closed(w[c])
           Ranks == {n \in Nat : \A c \in F : rank[c] <= n => Good(c)}
           Found == {n \in Nat : \A c \in F : rank[h] <= n + rank[c] => c \in w[h]}
<1>1. IsWalk(w, m)
  BY WalkExists
<1>2. NULL \notin Addresses
  BY DEF NULL, Addresses
<1> HIDE DEF w
<1>3. w[NULL] = {} /\ \A b \in Addresses : w[b] = {b} \cup w[After(m, b)]
  BY <1>1, <1>2 DEF IsWalk
<1>4. /\ F \subseteq Addresses
      /\ \A c \in F : rank[c] \in Nat
      /\ h = NULL => F = {}
      /\ h # NULL => h \in F
      /\ \A c \in F : rank[c] <= rank[h]
      /\ \A c \in F : After(m, c) # NULL => After(m, c) \in F /\ rank[After(m, c)] < rank[c]
      /\ \A c \in F \ {h} : \E d \in F : After(m, d) = c /\ rank[c] < rank[d]
  <2>1. \A c \in F : After(m, c) # NULL => After(m, c) = m[c + 1] /\ m[c + 1] # NULL
    BY <1>2 DEF After
  <2>2. \A c \in F \ {h} : m[c + 2] \in F /\ m[m[c + 2] + 1] = c
    BY DEF Linked
  <2>3. \A c \in F \ {h} : After(m, m[c + 2]) = c /\ m[m[c + 2] + 1] # NULL
    BY <1>2, <2>2 DEF Linked, After
  <2>4. QED
    BY <2>1, <2>2, <2>3 DEF Linked
<1>5. \A c \in F : After(m, c) = NULL => Good(c)
  BY <1>3, <1>4
<1>6. \A c \in F : After(m, c) # NULL /\ Good(After(m, c)) => Good(c)
  <2>1. SUFFICES ASSUME NEW c \in F, After(m, c) # NULL, Good(After(m, c)) PROVE Good(c)
    OBVIOUS
  <2>2. w[c] = {c} \cup w[After(m, c)]
    BY <1>3, <1>4
  <2>3. QED
    BY <2>1, <2>2
<1> HIDE DEF Good
<1>7. 0 \in Ranks
  <2>1. \A c \in F : rank[c] <= 0 => After(m, c) = NULL
    <3>1. SUFFICES ASSUME NEW c \in F, rank[c] <= 0, After(m, c) # NULL PROVE FALSE
      OBVIOUS
    <3>2. rank[c] \in Nat /\ rank[After(m, c)] \in Nat /\ rank[After(m, c)] < rank[c]
      BY <1>4, <3>1
    <3>3. QED
      BY <3>1, <3>2
  <2>2. QED
    BY <1>5, <2>1
<1>8. ASSUME NEW n \in Nat, n \in Ranks
      PROVE  n + 1 \in Ranks
  <2>1. SUFFICES ASSUME NEW c \in F, rank[c] <= n + 1 PROVE Good(c)
    OBVIOUS
  <2>2. CASE After(m, c) # NULL
    <3>1. /\ After(m, c) \in F /\ rank[c] \in Nat
          /\ rank[After(m, c)] \in Nat /\ rank[After(m, c)] < rank[c]
      BY <1>4, <2>2
    <3>2. rank[After(m, c)] <= n
      BY <2>1, <3>1
    <3>3. QED
      BY <1>6, <1>8, <2>2, <3>1, <3>2
  <2>3. QED
    BY <1>5, <2>2
<1>9. \A c \in F : Good(c)
  <2>1. Nat \subseteq Ranks
    <3> HIDE DEF Ranks
    <3>1. QED
      BY <1>7, <1>8, Induction
  <2>2. QED
    BY <1>4, <2>1
<1>10. CASE h = NULL
  BY <1>3, <1>4, <1>10 DEF FreeIn, w
<1>11. CASE h # NULL
  <2>1. h \in F /\ w[h] \subseteq F /\ h \in w[h] /\ Closed(w[h])
    BY <1>4, <1>9, <1>11 DEF Good
  <2>2. 0 \in Found
    <3>1. SUFFICES ASSUME NEW c \in F, rank[h] <= 0 + rank[c] PROVE c \in w[h]
      OBVIOUS
    <3>2. CASE c # h
      <4>1. PICK d \in F : After(m, d) = c /\ rank[c] < rank[d]
        BY <1>4, <3>2
      <4>2. rank[d] \in Nat /\ rank[c] \in Nat /\ rank[h] \in Nat /\ rank[d] <= rank[h]
        BY <1>4, <2>1
      <4>3. QED
        BY <3>1, <4>1, <4>2
    <3>3. QED
      BY <2>1, <3>2
  <2>3. ASSUME NEW n \in Nat, n \in Found
        PROVE  n + 1 \in Found
    <3>1. SUFFICES ASSUME NEW c \in F, rank[h] <= (n + 1) + rank[c] PROVE c \in w[h]
      OBVIOUS
    <3>2. CASE c # h
      <4>1. PICK d \in F : After(m, d) = c /\ rank[c] < rank[d]
        BY <1>4, <3>2
      <4>2. rank[d] \in Nat /\ rank[c] \in Nat /\ rank[h] \in Nat
        BY <1>4, <2>1
      <4>3. rank[h] <= n + rank[d]
        BY <3>1, <4>1, <4>2
      <4>4. d \in w[h]
        BY <2>3, <4>3
      <4>5. c # NULL
        BY <1>2, <1>4
      <4>6. QED
        BY <2>1, <4>1, <4>4, <4>5
    <3>3. QED
      BY <2>1, <3>2
  <2>4. Nat \subseteq Found
    <3> HIDE DEF Found
    <3>1. QED
      BY <2>2, <2>3, Induction
  <2>5. ASSUME NEW c \in F
        PROVE  c \in w[h]
    <3>1. rank[h] \in Nat /\ rank[c] \in Nat
      BY <1>4, <2>1
    <3>2. rank[h] \in Found /\ rank[h] <= rank[h] + rank[c]
      BY <2>4, <3>1
    <3>3. QED
      BY <3>2
  <2>6. QED
    BY <2>1, <2>5 DEF FreeIn, w
<1>12. QED
  BY <1>10, <1>11

\* The free blocks of the model are those of a linked list.
LEMMA FreeBlocksAre ==
  ASSUME NEW F, NEW rank, Linked(mem, head, F, rank)
  PROVE  FreeBlocks = F
<1>1. FreeBlocks = FreeIn(mem, head)
  BY DEF FreeBlocks, FreeIn, IsWalk, After, NextFree
<1>2. QED
  BY <1>1, LinkedIsFree

\* What FirstFit chooses.
IsFit(f, size) ==
  f = [b \in Addresses \cup {NULL} |-> IF b = NULL \/ size + 8 <= mem[b] THEN b
                                       ELSE f[NextFree(b)]]

\* The search has a result over any links: at a block that ends the search that
\* block, at another one what the search from its next block on has.
LEMMA FitExists ==
  ASSUME NEW size
  PROVE  \E f : IsFit(f, size)
<1> DEFINE All == Addresses \cup {NULL}
           Stop(b) == b = NULL \/ size + 8 <= mem[b]
           Closed(S) == \A c \in S : ~Stop(c) => NextFree(c) \in S
           Reach(b) == {c \in All : \A S \in SUBSET All : b \in S /\ Closed(S) => c \in S}
           Ends(b) == {c \in Reach(b) : Stop(c)}
           f == [b \in All |-> CHOOSE c : c \in Ends(b)]
<1>1. \A b : NextFree(b) \in All
  BY DEF NextFree
<1> HIDE DEF All, Stop
<1>2. ASSUME NEW b \in All, Stop(b)
      PROVE  Ends(b) = {b}
  <2>1. {b} \in SUBSET All /\ b \in {b} /\ Closed({b})
    BY <1>2
  <2>2. Reach(b) \subseteq {b}
    BY <2>1
  <2>3. b \in Reach(b)
    OBVIOUS
  <2> HIDE DEF Reach
  <2>4. QED
    BY <1>2, <2>2, <2>3
<1>3. ASSUME NEW b \in All, ~Stop(b)
      PROVE  Ends(b) = Ends(NextFree(b))
  <2> DEFINE next == NextFree(b)
             T == {b} \cup Reach(next)
  <2>1. next \in All /\ next \in Reach(next) /\ Closed(Reach(next))
    BY <1>1
  <2>2. b \in Reach(b) /\ Closed(Reach(b)) /\ Reach(b) \in SUBSET All
    BY <1>1
  <2>3. next \in Reach(b)
    BY <1>3, <2>2
  <2>4. Reach(next) \subseteq Reach(b)
    BY <2>2, <2>3
  <2>5. T \in SUBSET All /\ b \in T /\ Closed(T)
    <3>1. Reach(next) \subseteq All
      OBVIOUS
    <3> HIDE DEF Reach
    <3>2. QED
      BY <2>1, <3>1
  <2>6. Reach(b) \subseteq T
    BY <2>5
  <2> HIDE DEF Reach
  <2>7. QED
    BY <1>3, <2>4, <2>6
<1> HIDE DEF Ends
<1>4. \A b \in All : Stop(b) => f[b] = b
  BY <1>2
<1>5. \A b \in All : ~Stop(b) => f[b] = f[NextFree(b)]
  BY <1>1, <1>3
<1>6. f = [b \in All |-> f[b]]
  OBVIOUS
<1> HIDE DEF f
<1>7. f = [b \in All |-> IF Stop(b) THEN b ELSE f[NextFree(b)]]
  BY <1>4, <1>5, <1>6
<1>8. IsFit(f, size)
  BY <1>7 DEF IsFit, All, Stop
<1>9. QED
  BY <1>8

\* What the search finds is a block of the list that is large enough.
LEMMA FirstFitFits ==
  ASSUME NEW F, NEW rank, Linked(mem, head, F, rank), NEW size, FirstFit(size) # NULL
  PROVE  FirstFit(size) \in F /\ size + 8 <= mem[FirstFit(size)]
<1> DEFINE f == CHOOSE f : IsFit(f, size)
           Good(c) == f[c] # NULL => f[c] \in F /\ size + 8 <= mem[f[c]]
           Ranks == {n \in Nat : \A c \in F : rank[c] <= n => Good(c)}
<1>1. IsFit(f, size)
  BY FitExists
<1>2. FirstFit(size) = f[head]
  BY DEF FirstFit, IsFit
<1> HIDE DEF f
<1>3. f[NULL] = NULL
  BY <1>1 DEF IsFit
<1>4. \A b \in Addresses : \/ f[b] = b /\ (b = NULL \/ size + 8 <= mem[b])
                           \/ f[b] = f[NextFree(b)]
  BY <1>1 DEF IsFit
<1>5. /\ F \subseteq Addresses
      /\ \A c \in F : rank[c] \in Nat
      /\ head = NULL => F = {}
      /\ head # NULL => head \in F
      /\ \A c \in F : NextFree(c) # NULL => NextFree(c) \in F /\ rank[NextFree(c)] < rank[c]
      /\ NULL \notin Addresses
  <2>1. NULL \notin Addresses
    BY DEF NULL, Addresses
  <2>2. \A c \in F : NextFree(c) # NULL => NextFree(c) = mem[c + 1] /\ mem[c + 1] # NULL
    BY <2>1 DEF NextFree
  <2>3. QED
    BY <2>1, <2>2 DEF Linked
<1>6. \A c \in F : NextFree(c) = NULL \/ Good(NextFree(c)) => Good(c)
  BY <1>3, <1>4, <1>5
<1> HIDE DEF Good
<1>7. \A n \in Nat : (\A c \in F : rank[c] < n => Good(c)) => n \in Ranks
  <2>1. SUFFICES ASSUME NEW n \in Nat, \A c \in F : rank[c] < n => Good(c),
                        NEW c \in F, rank[c] <= n
                 PROVE  Good(c)
    OBVIOUS
  <2>2. CASE NextFree(c) # NULL
    <3>1. /\ NextFree(c) \in F /\ rank[c] \in Nat
          /\ rank[NextFree(c)] \in Nat /\ rank[NextFree(c)] < rank[c]
      BY <1>5, <2>2
    <3>2. rank[NextFree(c)] < n
      BY <2>1, <3>1
    <3>3. QED
      BY <1>6, <2>1, <3>1, <3>2
  <2>3. QED
    BY <1>6, <2>2
<1>8. 0 \in Ranks
  <2>1. \A c \in F : ~(rank[c] < 0)
    BY <1>5
  <2> HIDE DEF Ranks
  <2>2. QED
    BY <1>7, <2>1
<1>9. ASSUME NEW n \in Nat, n \in Ranks
      PROVE  n + 1 \in Ranks
  <2>1. \A c \in F : rank[c] < n + 1 => Good(c)
    BY <1>5, <1>9
  <2> HIDE DEF Ranks
  <2>2. QED
    BY <1>7, <2>1
<1>10. Nat \subseteq Ranks
  <2> HIDE DEF Ranks
  <2>1. QED
    BY <1>8, <1>9, Induction
<1>11. \A c \in F : Good(c)
  BY <1>5, <1>10
<1>12. QED
  BY <1>2, <1>3, <1>5, <1>11 DEF Good
------------------------------------------------------------------------------
\* Addresses are numbers from 1 on.
LEMMA AddressesUpTo == \E n \in Nat : Addresses = 1 .. n
<1>1. Slots * ChunkWords \in Nat
  BY MemAllocAssumption
<1>2. QED
  BY <1>1 DEF Addresses

\* Blocks have room for a size and two links.
Spaced(B) ==
  /\ B \subseteq Addresses
  /\ \A b \in B : b + 2 \in Addresses
  /\ \A b, c \in B : b < c => b + 3 <= c

\* The words of links of different blocks are different, and no sizes.
LEMMA LinksApart ==
  ASSUME NEW B, Spaced(B), NEW b \in B, NEW c \in B
  PROVE  /\ b + 1 \in Addresses /\ b + 2 \in Addresses
         /\ b + 1 # c + 2 /\ b # c + 1 /\ b # c + 2
         /\ b + 1 = c + 1 => b = c
         /\ b + 2 = c + 2 => b = c
<1>1. b \in Addresses /\ c \in Addresses /\ b + 2 \in Addresses
  BY DEF Spaced
<1>2. b \in Int /\ c \in Int /\ b + 1 \in Addresses
  BY <1>1, AddressesUpTo
<1>3. b < c => b + 3 <= c
  BY DEF Spaced
<1>4. c < b => c + 3 <= b
  BY DEF Spaced
<1>5. QED
  BY <1>1, <1>2, <1>3, <1>4

\* Behind the first block of a list comes the one with the next lower rank.
LEMMA SecondBlock ==
  ASSUME NEW m, NEW h, NEW F, NEW rank, Linked(m, h, F, rank), F \ {h} # {}
  PROVE  /\ m[h + 1] \in F \ {h}
         /\ \A c \in F \ {h} : rank[c] <= rank[m[h + 1]]
<1>1. h \in F /\ \A c \in F : rank[c] \in Nat /\ rank[c] <= rank[h]
  BY DEF Linked
<1> DEFINE T == {rank[h] - rank[c] : c \in F \ {h}}
<1>2. T \subseteq Nat /\ T # {}
  <2>1. \A c \in F : rank[h] - rank[c] \in Nat
    BY <1>1
  <2>2. QED
    BY <2>1
<1>3. PICK k \in T : \A j \in Nat : j < k => j \notin T
  <2> HIDE DEF T
  <2>1. QED
    BY <1>2, FirstPosition
<1>4. PICK c \in F \ {h} : k = rank[h] - rank[c]
  OBVIOUS
<1>5. \A d \in F \ {h} : rank[d] <= rank[c]
  <2>1. SUFFICES ASSUME NEW d \in F \ {h}, ~(rank[d] <= rank[c]) PROVE FALSE
    OBVIOUS
  <2>2. rank[h] - rank[d] \in T
    OBVIOUS
  <2>3. rank[d] \in Nat /\ rank[c] \in Nat /\ rank[h] \in Nat
    BY <1>1
  <2>4. rank[h] - rank[d] < k
    BY <1>4, <2>1, <2>3
  <2>5. rank[h] - rank[d] \in Nat
    BY <1>2, <2>2
  <2> HIDE DEF T
  <2>6. QED
    BY <1>3, <2>2, <2>4, <2>5
<1>6. m[c + 2] \in F /\ m[m[c + 2] + 1] = c
  BY DEF Linked
<1>7. rank[c] < rank[m[c + 2]]
  <2>1. c # NULL
    BY DEF Linked, NULL, Addresses
  <2>2. QED
    BY <1>6, <2>1 DEF Linked
<1>8. m[c + 2] = h
  <2>1. rank[c] \in Nat /\ rank[m[c + 2]] \in Nat
    BY <1>1, <1>6
  <2>2. ~(rank[m[c + 2]] <= rank[c])
    BY <1>7, <2>1
  <2>3. QED
    BY <1>5, <1>6, <2>2
<1>9. QED
  BY <1>5, <1>6, <1>8

\* Memory in which block b is put in front of the list that starts at h.
IsInserted(n, m, h, b) ==
  \A a \in Addresses : n[a] = IF a = b + 1 THEN h
                              ELSE IF a = b + 2 THEN b
                              ELSE IF h # NULL /\ a = h + 2 THEN b
                              ELSE m[a]

\* A block in front of a linked list makes a linked list.
LEMMA InsertKeepsLinks ==
  ASSUME NEW m, NEW n, NEW h, NEW F, NEW rank, Linked(m, h, F, rank),
         NEW b, b \notin F, Spaced(F \cup {b}), IsInserted(n, m, h, b)
  PROVE  \E r : Linked(n, b, F \cup {b}, r)
<1> DEFINE r == [c \in F \cup {b} |-> IF c = b THEN (IF h = NULL THEN 0 ELSE rank[h] + 1)
                                      ELSE rank[c]]
<1>1. /\ h = NULL => F = {}
      /\ h # NULL => h \in F /\ m[h + 2] = h
      /\ \A c \in F : rank[c] \in Nat /\ rank[c] <= rank[h]
  BY DEF Linked
<1>2. n[b + 1] = h /\ n[b + 2] = b
  BY LinksApart DEF IsInserted
<1>3. \A c \in F : n[c + 1] = m[c + 1]
  <2>1. ASSUME NEW c \in F
        PROVE  n[c + 1] = m[c + 1]
    <3>1. c + 1 \in Addresses /\ c + 1 # b + 1 /\ c + 1 # b + 2
      BY LinksApart
    <3>2. h # NULL => c + 1 # h + 2
      BY <1>1, LinksApart
    <3>3. QED
      BY <3>1, <3>2 DEF IsInserted
  <2>2. QED
    BY <2>1
<1>4. \A c \in F \ {h} : n[c + 2] = m[c + 2]
  <2>1. ASSUME NEW c \in F \ {h}
        PROVE  n[c + 2] = m[c + 2]
    <3>1. c + 2 \in Addresses /\ c + 2 # b + 1 /\ c + 2 # b + 2
      BY LinksApart
    <3>2. h # NULL => c + 2 # h + 2
      BY <1>1, LinksApart
    <3>3. QED
      BY <3>1, <3>2 DEF IsInserted
  <2>2. QED
    BY <2>1
<1>5. h # NULL => n[h + 2] = b
  <2>1. h # NULL => h + 2 \in Addresses /\ h + 2 # b + 1 /\ h + 2 # b + 2
    BY <1>1, LinksApart
  <2>2. QED
    BY <2>1 DEF IsInserted
<1>6. /\ r \in [F \cup {b} -> Nat]
      /\ \A c \in F : r[c] = rank[c]
      /\ h # NULL => r[b] = rank[h] + 1
  <2>1. h # NULL => rank[h] + 1 \in Nat
    BY <1>1
  <2>2. QED
    BY <1>1, <2>1
<1>7. b # NULL /\ b \in Addresses /\ F \subseteq Addresses
  BY AddressesUpTo DEF Spaced, NULL
<1>8. \A c \in F \cup {b} : r[c] <= r[b]
  <2>1. r[b] \in Nat
    BY <1>6
  <2> HIDE DEF r
  <2>2. \A c \in F : rank[c] <= rank[h] /\ rank[c] \in Nat /\ rank[h] \in Nat /\ h # NULL
    BY <1>1
  <2>3. QED
    BY <1>6, <2>1, <2>2
<1> HIDE DEF r
<1>9. ASSUME NEW c \in F \cup {b}, n[c + 1] # NULL
      PROVE  n[c + 1] \in (F \cup {b}) \ {b} /\ n[n[c + 1] + 2] = c /\ r[n[c + 1]] < r[c]
  <2>1. CASE c = b
    <3>1. h \in F /\ rank[h] \in Nat /\ n[c + 1] = h
      BY <1>1, <1>2, <1>9, <2>1
    <3>2. QED
      BY <1>5, <1>6, <1>7, <1>9, <2>1, <3>1
  <2>2. CASE c \in F
    <3>1. /\ m[c + 1] \in F \ {h}
          /\ m[m[c + 1] + 2] = c
          /\ rank[m[c + 1]] < rank[c]
      BY <1>3, <1>9, <2>2 DEF Linked
    <3>2. QED
      BY <1>3, <1>4, <1>6, <2>2, <3>1
  <2>3. QED
    BY <2>1, <2>2
<1>10. ASSUME NEW c \in (F \cup {b}) \ {b}
       PROVE  n[c + 2] \in F \cup {b} /\ n[n[c + 2] + 1] = c
  <2>1. CASE c = h
    <3>1. h # NULL
      BY <1>1, <1>10, <2>1
    <3>2. n[c + 2] = b
      BY <1>5, <2>1, <3>1
    <3>3. QED
      BY <1>2, <2>1, <3>2
  <2>2. CASE c # h
    <3>1. m[c + 2] \in F /\ m[m[c + 2] + 1] = c
      BY <1>10, <2>2 DEF Linked
    <3>2. QED
      BY <1>3, <1>4, <1>10, <2>2, <3>1
  <2>3. QED
    BY <2>1, <2>2
<1>11. Linked(n, b, F \cup {b}, r)
  BY <1>2, <1>6, <1>7, <1>8, <1>9, <1>10 DEF Linked
<1>12. QED
  BY <1>11

\* Memory from whose list the block b is taken.
IsRemoved(n, m, h, b) ==
  \A a \in Addresses :
    n[a] = IF m[b + 1] # NULL /\ a = m[b + 1] + 2 THEN (IF b = h THEN m[b + 1] ELSE m[b + 2])
           ELSE IF b # h /\ a = m[b + 2] + 1 THEN m[b + 1]
           ELSE m[a]

\* A linked list from which a block is taken, first or not, is a linked list.
LEMMA RemoveKeepsLinks ==
  ASSUME NEW m, NEW n, NEW h, NEW F, NEW rank, Linked(m, h, F, rank), Spaced(F),
         NEW b \in F, IsRemoved(n, m, h, b)
  PROVE  \E r : Linked(n, IF b = h THEN m[b + 1] ELSE h, F \ {b}, r)
<1> DEFINE G == F \ {b}
           r == [c \in G |-> rank[c]]
           next == m[b + 1]
           prev == m[b + 2]
           first == IF b = h THEN next ELSE h
<1>0. /\ r \in [G -> Nat] /\ \A c \in G : r[c] = rank[c]
      /\ G \subseteq Addresses /\ G \subseteq F
  BY DEF Linked
<1> HIDE DEF r
<1>1. /\ h # NULL /\ h \in F
      /\ next # NULL => /\ next \in F \ {h}
                        /\ m[next + 2] = b /\ rank[next] < rank[b]
      /\ b # h => prev \in F /\ m[prev + 1] = b /\ rank[b] < rank[prev]
      /\ \A c \in F : rank[c] \in Nat /\ rank[c] <= rank[h]
      /\ NULL \notin Addresses /\ F \subseteq Addresses
  <2>1. NULL \notin Addresses /\ F \subseteq Addresses
    BY AddressesUpTo DEF NULL, Linked
  <2>2. b # NULL
    BY <2>1
  <2>3. b # h => prev \in F /\ m[prev + 1] = b
    BY DEF Linked
  <2>4. b # h => rank[b] < rank[prev]
    BY <2>2, <2>3 DEF Linked
  <2>5. h # NULL /\ h \in F
    BY <2>1 DEF Linked
  <2>6. next # NULL => next \in F \ {h} /\ m[next + 2] = b /\ rank[next] < rank[b]
    BY DEF Linked
  <2>7. \A c \in F : rank[c] \in Nat /\ rank[c] <= rank[h]
    BY DEF Linked
  <2> HIDE DEF next, prev
  <2>8. QED
    BY <2>1, <2>3, <2>4, <2>5, <2>6, <2>7
<1>2. ASSUME NEW c \in F
      PROVE  /\ n[c + 1] = IF b # h /\ c = prev THEN next ELSE m[c + 1]
             /\ n[c + 2] = IF c = next THEN (IF b = h THEN next ELSE prev) ELSE m[c + 2]
  <2>1. c + 1 \in Addresses /\ c + 2 \in Addresses /\ c # NULL
    BY <1>1, LinksApart
  <2>2. next # NULL => /\ c + 1 # next + 2
                       /\ c + 2 = next + 2 <=> c = next
    BY <1>1, LinksApart
  <2>3. b # h => /\ c + 2 # prev + 1
                 /\ c + 1 = prev + 1 <=> c = prev
    BY <1>1, LinksApart
  <2>4. n[c + 1] = IF b # h /\ c = prev THEN next ELSE m[c + 1]
    BY <2>1, <2>2, <2>3 DEF IsRemoved
  <2>5. n[c + 2] = IF c = next THEN (IF b = h THEN next ELSE prev) ELSE m[c + 2]
    BY <2>1, <2>2, <2>3 DEF IsRemoved
  <2>6. QED
    BY <2>4, <2>5
<1>3. next # b /\ (b # h => prev # b /\ (next # NULL => next # prev))
  <2>1. next # b
    BY <1>1
  <2>2. b # h => prev # b
    BY <1>1
  <2>3. ASSUME b # h, next # NULL, next = prev
        PROVE  FALSE
    <3>1. rank[b] \in Nat /\ rank[prev] \in Nat /\ rank[prev] < rank[b] /\ rank[b] < rank[prev]
      BY <1>1, <2>3
    <3>2. QED
      BY <3>1
  <2>4. QED
    BY <2>1, <2>2, <2>3
<1> HIDE DEF next, prev
<1>4. first = NULL => G = {}
  <2>1. SUFFICES ASSUME first = NULL, F \ {h} # {} PROVE G = {}
    BY <1>1
  <2>2. b = h /\ next = NULL
    BY <1>1, <2>1
  <2>3. m[h + 1] \in F \ {h}
    BY <2>1, SecondBlock
  <2>4. QED
    BY <1>1, <2>2, <2>3 DEF next
<1>5. first # NULL => first \in G /\ n[first + 2] = first
  <2>1. CASE b = h
    BY <1>1, <1>2, <1>3, <2>1
  <2>2. CASE b # h
    <3>1. h \in G /\ m[h + 2] = h /\ h # next
      BY <1>1, <2>2 DEF Linked
    <3>2. QED
      BY <1>2, <2>2, <3>1
  <2>3. QED
    BY <2>1, <2>2
<1>6. \A c \in G : r[c] <= r[first]
  <2>1. CASE b = h
    <3>1. G # {} => /\ m[h + 1] \in F \ {h}
                    /\ \A c \in F \ {h} : rank[c] <= rank[m[h + 1]]
      BY <2>1, SecondBlock
    <3>2. first = m[h + 1]
      BY <2>1 DEF next
    <3>3. QED
      BY <1>0, <2>1, <3>1, <3>2
  <2>2. CASE b # h
    BY <1>0, <1>1, <2>2
  <2>3. QED
    BY <2>1, <2>2
<1>7. ASSUME NEW c \in G, n[c + 1] # NULL
      PROVE  n[c + 1] \in G \ {first} /\ n[n[c + 1] + 2] = c /\ r[n[c + 1]] < r[c]
  <2>1. CASE b # h /\ c = prev
    <3>1. n[c + 1] = next /\ next # NULL
      BY <1>0, <1>2, <1>7, <2>1
    <3>2. next \in G \ {first} /\ n[next + 2] = prev
      BY <1>1, <1>2, <1>3, <2>1, <3>1
    <3>3. rank[next] < rank[b] /\ rank[b] < rank[prev]
      BY <1>1, <2>1, <3>1
    <3>4. rank[next] \in Nat /\ rank[b] \in Nat /\ rank[prev] \in Nat
      BY <1>1, <2>1, <3>1
    <3>5. rank[next] < rank[prev]
      BY <3>3, <3>4
    <3>6. QED
      BY <1>0, <2>1, <3>1, <3>2, <3>5
  <2>2. CASE ~(b # h /\ c = prev)
    <3>1. n[c + 1] = m[c + 1]
      BY <1>0, <1>2, <2>2
    <3>2. m[c + 1] \in F \ {h} /\ m[m[c + 1] + 2] = c /\ rank[m[c + 1]] < rank[c]
      BY <1>0, <1>7, <3>1 DEF Linked
    <3>3. m[c + 1] # b
      <4>1. SUFFICES ASSUME m[c + 1] = b PROVE FALSE
        OBVIOUS
      <4>2. c = prev /\ b # h
        BY <3>2, <4>1 DEF prev
      <4>3. QED
        BY <2>2, <4>2
    <3>4. m[c + 1] # next
      <4>1. next # NULL => m[next + 2] = b
        BY <1>1
      <4>2. QED
        BY <1>0, <1>7, <3>1, <3>2, <4>1
    <3>5. m[c + 1] # first
      BY <3>2, <3>4
    <3>6. QED
      BY <1>0, <1>2, <3>1, <3>2, <3>3, <3>4, <3>5
  <2>3. QED
    BY <2>1, <2>2
<1>8. ASSUME NEW c \in G \ {first}
      PROVE  n[c + 2] \in G /\ n[n[c + 2] + 1] = c
  <2>1. CASE c = next
    <3>1. b # h /\ next # NULL /\ n[c + 2] = prev /\ prev \in G
      BY <1>0, <1>1, <1>2, <1>3, <1>8, <2>1
    <3>2. QED
      BY <1>0, <1>2, <2>1, <3>1
  <2>2. CASE c # next
    <3>1. n[c + 2] = m[c + 2] /\ c \in F /\ c # b
      BY <1>0, <1>2, <1>8, <2>2
    <3>2. c # h
      BY <1>8, <3>1
    <3>3. m[c + 2] \in F /\ m[m[c + 2] + 1] = c
      BY <3>1, <3>2 DEF Linked
    <3>4. m[c + 2] # b
      BY <2>2, <3>3 DEF next
    <3>5. ~(b # h /\ m[c + 2] = prev)
      <4>1. b # h => m[prev + 1] = b
        BY <1>1
      <4>2. QED
        BY <3>1, <3>3, <4>1
    <3>6. QED
      BY <1>2, <3>1, <3>3, <3>4, <3>5
  <2>3. QED
    BY <2>1, <2>2
<1> HIDE DEF G, first
<1>9. Linked(n, first, G, r)
  BY <1>0, <1>4, <1>5, <1>6, <1>7, <1>8 DEF Linked
<1>10. QED
  BY <1>9 DEF G, first, next
------------------------------------------------------------------------------
\* The words of a block in memory m, and those of a set of blocks.
Area(m, b) == b .. b + m[b] \div 8 - 1

Region(m, B) == UNION {Area(m, b) : b \in B}

LinkWords(B) == {b + 1 : b \in B} \cup {b + 2 : b \in B}

IsSize(x) == x \in Nat /\ x >= 24 /\ x % 8 = 0

\* The blocks B lie in M side by side, each with a size of its own.
Tiled(m, B, M) ==
  /\ B \subseteq Addresses
  /\ M \subseteq Addresses
  /\ \A b \in B : IsSize(m[b]) /\ Area(m, b) \subseteq M
  /\ \A b, c \in B : b < c => b + m[b] \div 8 <= c

\* A size is a whole number of words, at least three.
LEMMA SizeInWords ==
  ASSUME NEW x, IsSize(x)
  PROVE  x \div 8 \in Nat /\ x \div 8 >= 3 /\ x = 8 * (x \div 8)
BY DEF IsSize

\* Three words or more make a size.
LEMMA WordsAreSize ==
  ASSUME NEW k \in Nat, k >= 3
  PROVE  IsSize(8 * k) /\ (8 * k) \div 8 = k
BY DEF IsSize

\* What the arithmetic of addresses says of blocks.
LEMMA AreaFacts ==
  ASSUME NEW m, NEW B, NEW M, Tiled(m, B, M), NEW b \in B
  PROVE  /\ b \in Int /\ b \in Addresses
         /\ m[b] \div 8 \in Nat /\ m[b] \div 8 >= 3 /\ m[b] = 8 * (m[b] \div 8)
         /\ b \in Area(m, b) /\ b + 1 \in Area(m, b) /\ b + 2 \in Area(m, b)
         /\ Area(m, b) \subseteq M /\ Area(m, b) \subseteq Addresses
         /\ \A c \in B \ {b} : Area(m, b) \cap Area(m, c) = {}
         /\ \A c \in B \ {b}, a \in Area(m, b) : a \notin Area(m, c)
<1>1. b \in Int /\ b \in Addresses
  BY AddressesUpTo DEF Tiled
<1>2. \A c \in B : c \in Int /\ m[c] \div 8 \in Nat /\ m[c] \div 8 >= 3 /\ m[c] = 8 * (m[c] \div 8)
  BY AddressesUpTo, SizeInWords DEF Tiled
<1>3. b \in Area(m, b) /\ b + 1 \in Area(m, b) /\ b + 2 \in Area(m, b)
  BY <1>1, <1>2 DEF Area
<1>4. ASSUME NEW c \in B \ {b}
      PROVE  Area(m, b) \cap Area(m, c) = {}
  <2>1. b + m[b] \div 8 <= c \/ c + m[c] \div 8 <= b
    <3>1. b < c \/ c < b
      BY <1>2
    <3>2. QED
      BY <3>1 DEF Tiled
  <2>2. /\ b \in Int /\ c \in Int /\ m[b] \div 8 \in Nat /\ m[c] \div 8 \in Nat
    BY <1>2
  <2>3. QED
    BY <2>1, <2>2 DEF Area
<1>5. Area(m, b) \subseteq M /\ Area(m, b) \subseteq Addresses
  BY DEF Tiled
<1>6. QED
  BY <1>1, <1>2, <1>3, <1>4, <1>5

\* Side by side, blocks have room for their links.
LEMMA TiledIsSpaced ==
  ASSUME NEW m, NEW B, NEW M, Tiled(m, B, M)
  PROVE  Spaced(B)
<1>1. ASSUME NEW b \in B
      PROVE  b + 2 \in Addresses
  BY AreaFacts
<1>2. ASSUME NEW b \in B, NEW c \in B, b < c
      PROVE  b + 3 <= c
  <2>1. b \in Int /\ c \in Int /\ m[b] \div 8 \in Nat /\ m[b] \div 8 >= 3
    BY AreaFacts
  <2>2. b + m[b] \div 8 <= c
    BY <1>2 DEF Tiled
  <2>3. QED
    BY <2>1, <2>2
<1>3. QED
  BY <1>1, <1>2 DEF Spaced, Tiled

\* A part of the blocks lies side by side too.
LEMMA TiledSubset ==
  ASSUME NEW m, NEW B, NEW M, Tiled(m, B, M), NEW C \in SUBSET B
  PROVE  Tiled(m, C, M)
BY DEF Tiled

\* The blocks do not change when their sizes do not.
LEMMA TiledFrame ==
  ASSUME NEW m, NEW n, NEW B, NEW M, Tiled(m, B, M), \A b \in B : n[b] = m[b]
  PROVE  /\ Tiled(n, B, M)
         /\ \A b \in B : Area(n, b) = Area(m, b)
         /\ Region(n, B) = Region(m, B)
<1>1. \A b \in B : Area(n, b) = Area(m, b)
  BY DEF Area
<1>2. QED
  BY <1>1 DEF Tiled, Region

\* A part of the blocks has room for its links too.
LEMMA SpacedSubset ==
  ASSUME NEW B, Spaced(B), NEW C \in SUBSET B
  PROVE  Spaced(C)
BY DEF Spaced

\* A list stays linked when the words of its links stay.
LEMMA LinkedFrame ==
  ASSUME NEW m, NEW n, NEW h, NEW F, NEW rank, Linked(m, h, F, rank),
         \A a \in LinkWords(F) : n[a] = m[a]
  PROVE  Linked(n, h, F, rank)
<1>1. \A b \in F : n[b + 1] = m[b + 1] /\ n[b + 2] = m[b + 2]
  BY DEF LinkWords
<1>2. h = NULL => F = {}
  BY DEF Linked
<1>3. h # NULL => h \in F /\ n[h + 2] = h
  BY <1>1 DEF Linked
<1>4. \A b \in F : n[b + 1] # NULL => /\ n[b + 1] \in F \ {h}
                                      /\ n[n[b + 1] + 2] = b
                                      /\ rank[n[b + 1]] < rank[b]
  BY <1>1 DEF Linked
<1>5. \A b \in F \ {h} : n[b + 2] \in F /\ n[n[b + 2] + 1] = b
  BY <1>1 DEF Linked
<1>6. QED
  BY <1>2, <1>3, <1>4, <1>5 DEF Linked

\* Memory n is m but for the words W.
Alike(n, m, W) == \A a \in Addresses \ W : n[a] = m[a]

\* A list in memory: the record of both is r.
IsList(list, n, k, F, r) ==
  /\ list = [mem |-> n, head |-> k]
  /\ n \in [Addresses -> Int]
  /\ Linked(n, k, F, r)

\* insert_chunk_in_freelist: it changes links only, and the list is linked again.
LEMMA InsertKeeps ==
  ASSUME NEW list, NEW m, NEW h, NEW F, NEW rank, IsList(list, m, h, F, rank),
         NEW b, b \notin F, Spaced(F \cup {b})
  PROVE  \E n, r : /\ IsList(InsertFree(list, b), n, b, F \cup {b}, r)
                   /\ Alike(n, m, LinkWords(F \cup {b}))
<1> DEFINE n == IF h = NULL THEN [m EXCEPT ![b + 1] = NULL, ![b + 2] = b]
                ELSE [m EXCEPT ![h + 2] = b, ![b + 1] = h, ![b + 2] = b]
<1>1. list.mem = m /\ list.head = h
  BY DEF IsList
<1>2. InsertFree(list, b) = [mem |-> n, head |-> b]
  BY <1>1 DEF InsertFree
<1>3. b \in Int /\ h \in Int /\ NULL \in Int /\ b + 1 # b + 2 /\ b + 1 \in Addresses /\ b + 2 \in Addresses
  <2>1. b \in Int /\ b + 1 \in Addresses /\ b + 2 \in Addresses
    BY LinksApart, AddressesUpTo DEF Spaced
  <2>2. NULL \in Int
    BY DEF NULL
  <2>3. h = NULL \/ h \in Addresses
    BY DEF IsList, Linked
  <2>4. Addresses \subseteq Int
    BY AddressesUpTo
  <2>5. h \in Int
    BY <2>2, <2>3, <2>4
  <2>6. b + 1 # b + 2
    BY <2>1
  <2>7. QED
    BY <2>1, <2>2, <2>5, <2>6
<1>4. m \in [Addresses -> Int]
  BY DEF IsList
<1>5. h # NULL => h \in F /\ h + 2 \in Addresses /\ h + 2 # b + 1 /\ h + 2 # b + 2
  <2>1. h # NULL => h \in F
    BY DEF IsList, Linked
  <2>2. QED
    BY <2>1, LinksApart
<1>6. n \in [Addresses -> Int]
  BY <1>3, <1>4
<1>7. IsInserted(n, m, h, b)
  <2>1. CASE h = NULL
    BY <1>3, <1>4, <2>1 DEF IsInserted
  <2>2. CASE h # NULL
    BY <1>3, <1>4, <1>5, <2>2 DEF IsInserted
  <2>3. QED
    BY <2>1, <2>2
<1> HIDE DEF n
<1>8. Alike(n, m, LinkWords(F \cup {b}))
  <2>1. b + 1 \in LinkWords(F \cup {b}) /\ b + 2 \in LinkWords(F \cup {b})
    BY DEF LinkWords
  <2>2. h # NULL => h + 2 \in LinkWords(F \cup {b})
    BY <1>5 DEF LinkWords
  <2>3. QED
    BY <1>7, <2>1, <2>2 DEF IsInserted, Alike
<1>9. PICK r : Linked(n, b, F \cup {b}, r)
  BY <1>7, InsertKeepsLinks DEF IsList
<1>10. QED
  BY <1>2, <1>6, <1>8, <1>9 DEF IsList

\* remove_chunk_from_freelist: it changes links only, and the list is linked again.
LEMMA RemoveKeeps ==
  ASSUME NEW list, NEW m, NEW h, NEW F, NEW rank, IsList(list, m, h, F, rank),
         NEW b \in F, Spaced(F)
  PROVE  \E n, k, r : /\ IsList(RemoveFree(list, b), n, k, F \ {b}, r)
                      /\ Alike(n, m, LinkWords(F))
<1> DEFINE next == m[b + 1]
           prev == m[b + 2]
           k == IF b = h THEN next ELSE h
           n == IF b = h
                THEN IF next = NULL THEN m ELSE [m EXCEPT ![next + 2] = next]
                ELSE IF next = NULL THEN [m EXCEPT ![prev + 1] = NULL]
                     ELSE [m EXCEPT ![prev + 1] = next, ![next + 2] = prev]
<1>1. list.mem = m /\ list.head = h /\ m \in [Addresses -> Int]
  BY DEF IsList
<1>2. RemoveFree(list, b) = [mem |-> n, head |-> k]
  BY <1>1 DEF RemoveFree
<1>3. /\ next # NULL => next \in F
      /\ b # h => prev \in F
      /\ F \subseteq Int
  <2>1. F \subseteq Int
    BY AddressesUpTo DEF Spaced
  <2>2. QED
    BY <2>1 DEF IsList, Linked
<1>4. /\ next # NULL => next + 2 \in Addresses /\ next + 2 \in LinkWords(F) /\ next \in Int
      /\ b # h => prev + 1 \in Addresses /\ prev + 1 \in LinkWords(F) /\ prev \in Int
      /\ next # NULL /\ b # h => prev + 1 # next + 2
      /\ NULL \in Int
  <2>1. \A c \in F : c + 1 \in LinkWords(F) /\ c + 2 \in LinkWords(F)
    BY DEF LinkWords
  <2>2. \A c \in F : c + 1 \in Addresses /\ c + 2 \in Addresses
    BY LinksApart
  <2>3. \A c, d \in F : c + 1 # d + 2
    BY LinksApart
  <2> HIDE DEF next, prev, k, n
  <2>4. next # NULL => next + 2 \in Addresses /\ next + 2 \in LinkWords(F) /\ next \in Int
    BY <1>3, <2>1, <2>2
  <2>5. b # h => prev + 1 \in Addresses /\ prev + 1 \in LinkWords(F) /\ prev \in Int
    BY <1>3, <2>1, <2>2
  <2>6. next # NULL /\ b # h => prev + 1 # next + 2
    BY <1>3, <2>3
  <2>7. NULL \in Int
    BY DEF NULL
  <2>8. QED
    BY <2>4, <2>5, <2>6, <2>7
<1> HIDE DEF next, prev
<1>5. n \in [Addresses -> Int]
  BY <1>1, <1>4
<1>6. \A a \in Addresses :
        n[a] = IF next # NULL /\ a = next + 2 THEN (IF b = h THEN next ELSE prev)
               ELSE IF b # h /\ a = prev + 1 THEN next
               ELSE m[a]
  <2>1. CASE b = h
    BY <1>1, <1>4, <2>1
  <2>2. CASE b # h /\ next = NULL
    BY <1>1, <1>4, <2>2
  <2>3. CASE b # h /\ next # NULL
    BY <1>1, <1>4, <2>3
  <2>4. QED
    BY <2>1, <2>2, <2>3
<1> HIDE DEF n
<1>7. IsRemoved(n, m, h, b)
  BY <1>6 DEF IsRemoved, next, prev
<1>8. Alike(n, m, LinkWords(F))
  BY <1>4, <1>6 DEF Alike
<1>9. PICK r : Linked(n, k, F \ {b}, r)
  BY <1>7, RemoveKeepsLinks DEF IsList, next
<1>10. QED
  BY <1>2, <1>5, <1>8, <1>9 DEF IsList

\* The words that hold links are inside free blocks, and hold no sizes.
LEMMA LinksInside ==
  ASSUME NEW m, NEW B, NEW M, Tiled(m, B, M), NEW F \in SUBSET B, NEW a \in LinkWords(F)
  PROVE  /\ a \in Addresses /\ a \notin B
         /\ \A c \in B \ F : a \notin Area(m, c)
<1>1. PICK f \in F : a = f + 1 \/ a = f + 2
  BY DEF LinkWords
<1>2. f \in B /\ a \in Area(m, f)
  BY <1>1, AreaFacts
<1>3. a # f
  BY <1>1, <1>2, AreaFacts
<1>4. \A c \in B \ {f} : a \notin Area(m, c) /\ c \in Area(m, c)
  BY <1>2, AreaFacts
<1>5. a \in Addresses
  BY <1>2, AreaFacts
<1>6. QED
  BY <1>3, <1>4, <1>5

\* When only links change, blocks stay, and so does what those in use hold.
LEMMA AlikeKeepsTiles ==
  ASSUME NEW m, NEW n, NEW B, NEW M, Tiled(m, B, M), NEW F \in SUBSET B,
         Alike(n, m, LinkWords(F))
  PROVE  /\ Tiled(n, B, M)
         /\ Region(n, B) = Region(m, B)
         /\ \A b \in B : n[b] = m[b] /\ Area(n, b) = Area(m, b)
         /\ \A c \in B \ F : \A a \in Area(m, c) : n[a] = m[a]
<1>1. \A b \in B : n[b] = m[b]
  BY LinksInside DEF Alike, Tiled
<1>2. \A c \in B \ F : \A a \in Area(m, c) : n[a] = m[a]
  <2>1. ASSUME NEW c \in B \ F, NEW a \in Area(m, c)
        PROVE  n[a] = m[a]
    <3>1. a \in Addresses
      BY AreaFacts
    <3>2. a \notin LinkWords(F)
      BY LinksInside
    <3>3. QED
      BY <3>1, <3>2 DEF Alike
  <2>2. QED
    BY <2>1
<1>3. Tiled(n, B, M) /\ Region(n, B) = Region(m, B) /\ \A b \in B : Area(n, b) = Area(m, b)
  BY <1>1, TiledFrame
<1>4. QED
  BY <1>1, <1>2, <1>3

\* What is left of memory m with free blocks F when block b of U is cut.
IsCarved(n, G, m, F, U, M, b, bytes) ==
  /\ Tiled(n, G \cup U, M)
  /\ G \cap U = {}
  /\ bytes <= n[b]
  /\ Region(n, G \cup U) = Region(m, F \cup U)
  /\ \A c \in U \ {b} : \A a \in Area(m, c) : n[a] = m[a]

\* Memory in which block b is cut to size, and the rest of it is a block.
IsCut(n, m, b, bytes, rest) ==
  /\ rest = b + bytes \div 8
  /\ n = [m EXCEPT ![b] = bytes, ![rest] = m[b] - bytes]

\* What the cut keeps.
CutKeeps(n, m, B, M, b, bytes, rest) ==
  /\ rest \in Area(m, b) /\ rest \in Addresses \ B
  /\ Tiled(n, B \cup {rest}, M)
  /\ Region(n, B \cup {rest}) = Region(m, B)
  /\ \A c \in B \ {b} : \A a \in Area(m, c) : n[a] = m[a]
  /\ n \in [Addresses -> Int] /\ n[b] = bytes

\* The cut makes two blocks of one and changes no word of the others.
LEMMA CutInTwo ==
  ASSUME NEW m \in [Addresses -> Int], NEW B, NEW M, Tiled(m, B, M), NEW b \in B,
         NEW bytes, IsSize(bytes), IsSize(m[b] - bytes),
         NEW n, NEW rest, IsCut(n, m, b, bytes, rest)
  PROVE  CutKeeps(n, m, B, M, b, bytes, rest)
<1> DEFINE k == bytes \div 8
           j == (m[b] - bytes) \div 8
           C == B \cup {rest}
<1>1. /\ b \in Int /\ b \in Addresses /\ m[b] \div 8 \in Nat /\ m[b] = 8 * (m[b] \div 8)
      /\ Area(m, b) \subseteq M /\ Area(m, b) \subseteq Addresses /\ b \in Area(m, b)
  BY AreaFacts
<1>2. k \in Nat /\ k >= 3 /\ bytes = 8 * k
  BY SizeInWords
<1>3. j \in Nat /\ j >= 3 /\ m[b] - bytes = 8 * j
  BY SizeInWords
<1> HIDE DEF k, j
<1>4. m[b] \div 8 = k + j /\ rest = b + k
  <2>1. rest = b + k
    BY DEF k, IsCut
  <2>2. 8 * (m[b] \div 8) - 8 * k = 8 * j
    BY <1>1, <1>2, <1>3
  <2>3. QED
    BY <1>1, <1>2, <1>3, <2>1, <2>2
<1>5. rest \in Area(m, b) /\ rest # b /\ rest \in Addresses /\ rest \in Int
  <2>1. rest \in Area(m, b) /\ rest # b /\ rest \in Int
    BY <1>1, <1>2, <1>3, <1>4 DEF Area
  <2>2. QED
    BY <1>1, <2>1
<1>6. \A c \in B \ {b} : c \in Area(m, c) /\ rest \notin Area(m, c) /\ b \notin Area(m, c)
  BY <1>1, <1>5, AreaFacts
<1>7. rest \notin B
  BY <1>5, <1>6
<1>8. /\ n \in [Addresses -> Int] /\ n[b] = bytes /\ n[rest] = m[b] - bytes
      /\ \A a \in Addresses : a # b /\ a # rest => n[a] = m[a]
  <2>1. bytes \in Int /\ m[b] - bytes \in Int
    BY DEF IsSize
  <2>2. n = [m EXCEPT ![b] = bytes, ![rest] = m[b] - bytes]
    BY DEF IsCut
  <2>3. QED
    BY <1>1, <1>5, <2>1, <2>2
<1>9. Area(n, b) = b .. b + k - 1 /\ Area(n, rest) = b + k .. b + k + j - 1
  BY <1>4, <1>8 DEF Area, k, j
<1>10. Area(m, b) = Area(n, b) \cup Area(n, rest)
  <2>1. Area(m, b) = b .. b + (k + j) - 1
    BY <1>4 DEF Area
  <2>2. b .. b + (k + j) - 1 = (b .. b + k - 1) \cup (b + k .. b + k + j - 1)
    BY <1>1, <1>2, <1>3
  <2>3. QED
    BY <1>9, <2>1, <2>2
<1>11. \A c \in B \ {b} : n[c] = m[c] /\ Area(n, c) = Area(m, c)
  <2>1. B \subseteq Addresses
    BY DEF Tiled
  <2>2. QED
    BY <1>7, <1>8, <2>1 DEF Area
<1>12. Region(n, C) = Region(m, B)
  <2>1. Region(m, B) = Area(m, b) \cup UNION {Area(m, c) : c \in B \ {b}}
    BY DEF Region
  <2>2. Region(n, C) = Area(n, b) \cup Area(n, rest) \cup UNION {Area(n, c) : c \in B \ {b}}
    BY DEF Region
  <2>3. {Area(n, c) : c \in B \ {b}} = {Area(m, c) : c \in B \ {b}}
    BY <1>11
  <2>4. QED
    BY <1>10, <2>1, <2>2, <2>3, Zenon
<1>13. \A c \in B \ {b} : \A a \in Area(m, c) : n[a] = m[a]
  <2>1. \A c \in B : Area(m, c) \subseteq Addresses
    BY AreaFacts
  <2>2. QED
    BY <1>6, <1>8, <2>1
<1>14. \A c \in C : IsSize(n[c]) /\ Area(n, c) \subseteq M
  BY <1>1, <1>8, <1>10, <1>11 DEF Tiled
<1>15. ASSUME NEW c \in C, NEW d \in C, c < d
       PROVE  c + n[c] \div 8 <= d
  <2>1. \A e \in B : e \in Int /\ m[e] \div 8 \in Nat /\ m[e] \div 8 >= 3
    BY AreaFacts
  <2>2. \A e \in B \ {b} : (e < b => e + m[e] \div 8 <= b) /\ (b < e => b + (k + j) <= e)
    BY <1>4 DEF Tiled
  <2>3. n[b] \div 8 = k /\ n[rest] \div 8 = j
    BY <1>8 DEF k, j
  <2>4. \A e \in B \ {b} : n[e] \div 8 = m[e] \div 8
    BY <1>11
  <2>5. CASE c \in B \ {b} /\ d \in B \ {b}
    BY <1>15, <2>4, <2>5 DEF Tiled
  <2>6. CASE c \in B \ {b} /\ d \notin B \ {b}
    <3>1. d = b \/ d = b + k
      BY <1>4, <2>6
    <3>2. c < b
      <4>1. c # b /\ c \in Int /\ (b < c => b + (k + j) <= c)
        BY <2>1, <2>2, <2>6
      <4>2. QED
        BY <1>1, <1>2, <1>3, <1>15, <3>1, <4>1
    <3>3. c + m[c] \div 8 <= b /\ c \in Int /\ m[c] \div 8 \in Nat
      BY <2>1, <2>2, <2>6, <3>2
    <3>4. c + m[c] \div 8 <= d
      BY <1>1, <1>2, <3>1, <3>3
    <3>5. QED
      BY <2>4, <2>6, <3>4
  <2>7. CASE c \notin B \ {b} /\ d \in B \ {b}
    <3>1. c = b \/ c = b + k
      BY <1>4, <2>7
    <3>2. d \in Int /\ b < d
      BY <1>1, <1>2, <1>15, <2>1, <2>7, <3>1
    <3>3. b + (k + j) <= d
      BY <2>2, <2>7, <3>2
    <3>4. CASE c = b
      BY <1>1, <1>2, <1>3, <2>3, <3>2, <3>3, <3>4
    <3>5. CASE c = b + k
      BY <1>1, <1>2, <1>3, <1>4, <2>3, <3>2, <3>3, <3>5
    <3>6. QED
      BY <3>1, <3>4, <3>5
  <2>8. CASE c \notin B \ {b} /\ d \notin B \ {b}
    <3>1. c = b /\ d = b + k
      BY <1>1, <1>2, <1>4, <1>15, <2>8
    <3>2. QED
      BY <1>1, <1>2, <2>3, <3>1
  <2>9. QED
    BY <2>5, <2>6, <2>7, <2>8
<1>16. Tiled(n, C, M)
  BY <1>5, <1>14, <1>15 DEF Tiled
<1>17. QED
  BY <1>5, <1>7, <1>8, <1>12, <1>13, <1>16 DEF CutKeeps

\* The rest of a block joins the list, or stays in the block as padding.
LEMMA CarveKeeps ==
  ASSUME NEW list, NEW m, NEW h, NEW F, NEW rank, IsList(list, m, h, F, rank),
         NEW U, NEW M, Tiled(m, F \cup U, M), F \cap U = {},
         NEW b \in U, NEW bytes, IsSize(bytes), bytes <= m[b]
  PROVE  \E n, k, G, r : /\ IsList(Carve(list, b, bytes), n, k, G, r)
                         /\ IsCarved(n, G, m, F, U, M, b, bytes)
<1> DEFINE rest == b + bytes \div 8
           extra == m[b] - bytes
           B == F \cup U
<1>1. list = [mem |-> m, head |-> h] /\ m \in [Addresses -> Int] /\ Linked(m, h, F, rank)
  BY DEF IsList
<1>2. CASE extra < 24
  <2>1. Carve(list, b, bytes) = list
    BY <1>1, <1>2 DEF Carve
  <2>2. IsCarved(m, F, m, F, U, M, b, bytes)
    BY DEF IsCarved
  <2>3. QED
    BY <2>1, <2>2
<1>3. CASE ~(extra < 24)
  <2> DEFINE m1 == [m EXCEPT ![b] = bytes, ![rest] = extra]
             list1 == [mem |-> m1, head |-> h]
             G == F \cup {rest}
  <2>1. IsSize(extra)
    <3>1. IsSize(m[b])
      BY DEF Tiled
    <3>2. m[b] \div 8 \in Nat /\ m[b] = 8 * (m[b] \div 8) /\ bytes \div 8 \in Nat /\ bytes = 8 * (bytes \div 8)
      BY <3>1, SizeInWords
    <3>3. extra = 8 * (m[b] \div 8 - bytes \div 8) /\ extra \in Int
      BY <3>2
    <3>4. extra \in Nat /\ extra >= 24
      BY <1>3, <3>3
    <3>5. m[b] \div 8 - bytes \div 8 \in Nat /\ m[b] \div 8 - bytes \div 8 >= 3
      BY <3>2, <3>3, <3>4
    <3>6. QED
      BY <3>3, <3>5, WordsAreSize
  <2>2. Carve(list, b, bytes) = InsertFree(list1, rest)
    <3>1. [list EXCEPT !.mem[b] = bytes, !.mem[rest] = extra] = list1
      <4> DEFINE half == [m EXCEPT ![b] = bytes]
      <4> HIDE DEF rest, extra, B, G
      <4>1. [list EXCEPT !.mem[b] = bytes, !.mem[rest] = extra]
              = [[list EXCEPT !.mem[b] = bytes] EXCEPT !.mem[rest] = extra]
        OBVIOUS
      <4>2. [list EXCEPT !.mem[b] = bytes] = [mem |-> half, head |-> h]
        BY <1>1
      <4>3. m1 = [half EXCEPT ![rest] = extra]
        OBVIOUS
      <4> HIDE DEF half, m1
      <4>4. [[mem |-> half, head |-> h] EXCEPT !.mem[rest] = extra]
              = [mem |-> [half EXCEPT ![rest] = extra], head |-> h]
        OBVIOUS
      <4>5. QED
        BY <4>1, <4>2, <4>3, <4>4
    <3>2. list.mem = m
      BY <1>1
    <3> HIDE DEF list1
    <3>3. QED
      BY <1>3, <3>1, <3>2, Zenon DEF Carve
  <2>3. /\ rest \in Area(m, b) /\ rest \in Addresses \ B
        /\ Tiled(m1, B \cup {rest}, M)
        /\ Region(m1, B \cup {rest}) = Region(m, B)
        /\ \A c \in B \ {b} : \A a \in Area(m, c) : m1[a] = m[a]
        /\ m1 \in [Addresses -> Int] /\ m1[b] = bytes
    <3>1. IsCut(m1, m, b, bytes, rest) /\ IsSize(m[b] - bytes) /\ b \in B /\ Tiled(m, B, M)
      BY <2>1 DEF IsCut
    <3> HIDE DEF m1, rest, B, extra, list1, G
    <3>2. m \in [Addresses -> Int]
      BY <1>1
    <3>3. CutKeeps(m1, m, B, M, b, bytes, rest)
      BY <3>1, <3>2, CutInTwo
    <3>4. QED
      BY <3>3 DEF CutKeeps
  <2> HIDE DEF m1, rest, extra
  <2>4. \A a \in LinkWords(F) : m1[a] = m[a]
    <3>1. ASSUME NEW a \in LinkWords(F)
          PROVE  m1[a] = m[a]
      <4>1. PICK f \in F : a = f + 1 \/ a = f + 2
        BY DEF LinkWords
      <4>2. f \in B \ {b} /\ a \in Area(m, f)
        BY <4>1, AreaFacts
      <4>3. QED
        BY <2>3, <4>2
    <3>2. QED
      BY <3>1
  <2>5. IsList(list1, m1, h, F, rank)
    <3>1. Linked(m1, h, F, rank)
      BY <1>1, <2>4, LinkedFrame
    <3>2. QED
      BY <2>3, <3>1 DEF IsList
  <2>6. Tiled(m1, G \cup U, M) /\ G \cap U = {} /\ rest \notin F /\ Spaced(G)
    <3>1. G \cup U = B \cup {rest}
      OBVIOUS
    <3>2. G \cap U = {} /\ rest \notin F
      BY <2>3
    <3>3. Tiled(m1, G \cup U, M)
      BY <2>3, <3>1
    <3>4. Spaced(G)
      <4>1. Spaced(G \cup U)
        BY <3>3, TiledIsSpaced
      <4>2. QED
        BY <4>1, SpacedSubset
    <3>5. QED
      BY <3>2, <3>3, <3>4
  <2> HIDE DEF list1
  <2>7. PICK n, r : /\ IsList(InsertFree(list1, rest), n, rest, G, r)
                    /\ Alike(n, m1, LinkWords(G))
    BY <2>5, <2>6, InsertKeeps
  <2> HIDE DEF G
  <2>8. /\ Tiled(n, G \cup U, M)
        /\ Region(n, G \cup U) = Region(m1, G \cup U)
        /\ \A c \in G \cup U : n[c] = m1[c] /\ Area(n, c) = Area(m1, c)
        /\ \A c \in (G \cup U) \ G : \A a \in Area(m1, c) : n[a] = m1[a]
    BY <2>6, <2>7, AlikeKeepsTiles
  <2>9. \A c \in U \ {b} : \A a \in Area(m, c) : n[a] = m[a]
    <3>1. \A c \in U \ {b} : c \in Area(m, c) /\ Area(m1, c) = Area(m, c)
      <4>1. \A c \in U \ {b} : c \in Area(m, c) /\ c \in B \ {b}
        BY AreaFacts
      <4>2. QED
        BY <2>3, <4>1 DEF Area
    <3>2. \A c \in U \ {b} : c \in (G \cup U) \ G /\ c \in B \ {b}
      BY <2>6
    <3>3. QED
      BY <2>3, <2>8, <3>1, <3>2
  <2>10. bytes <= n[b]
    <3>1. n[b] = bytes /\ bytes \in Nat
      BY <2>3, <2>8 DEF IsSize
    <3>2. QED
      BY <3>1
  <2>11. Region(n, G \cup U) = Region(m, F \cup U)
    <3>1. G \cup U = B \cup {rest}
      BY DEF G
    <3>2. QED
      BY <2>3, <2>8, <3>1
  <2>12. IsCarved(n, G, m, F, U, M, b, bytes)
    BY <2>6, <2>8, <2>9, <2>10, <2>11 DEF IsCarved
  <2>13. QED
    BY <2>2, <2>7, <2>12
<1>4. QED
  BY <1>2, <1>3
------------------------------------------------------------------------------
\* The blocks of the caller.
InUse(l) == {p - 1 : p \in DOMAIN l}

\* Each is large enough for what was asked for.
Held(m, l) ==
  /\ l \in [DOMAIN l -> Requests]
  /\ DOMAIN l \subseteq Int
  /\ \A p \in DOMAIN l : WordsOf(l[p]) + 1 <= m[p - 1] \div 8

\* Memory is mapped in whole chunks.
Chunked(M) ==
  \A i \in 0 .. Slots - 1 :
    \A a, c \in SlotStart(i) .. SlotStart(i) + ChunkWords - 1 : a \in M => c \in M

\* The inductive invariant, with the free blocks F and their ranks.
Sound(m, h, M, l, F, rank) ==
  /\ m \in [Addresses -> Int]
  /\ Linked(m, h, F, rank)
  /\ Tiled(m, F \cup InUse(l), M)
  /\ F \cap InUse(l) = {}
  /\ Held(m, l)
  /\ Chunked(M)

IInv == \E F, rank : Sound(mem, head, mapped, live, F, rank)

\* The blocks in U hold in n what they hold in m.
Holds(n, m, U) == \A c \in U : \A a \in Area(m, c) : n[a] = m[a]

\* Blocks that hold what they held have the sizes they had.
LEMMA HoldsSizes ==
  ASSUME NEW m, NEW B, NEW M, Tiled(m, B, M), NEW U \in SUBSET B, NEW n, Holds(n, m, U)
  PROVE  \A c \in U : n[c] = m[c] /\ Area(n, c) = Area(m, c)
<1>1. \A c \in U : c \in Area(m, c)
  BY AreaFacts
<1>2. \A c \in U : n[c] = m[c]
  BY <1>1 DEF Holds
<1>3. QED
  BY <1>2 DEF Area

\* A block for size bytes is large enough for them, and no larger than a block
\* that the search finds large enough.
LEMMA BlockBytesFacts ==
  ASSUME NEW size \in Nat
  PROVE  /\ IsSize(BlockBytes(size))
         /\ WordsOf(size) \in Nat
         /\ WordsOf(size) + 1 <= BlockBytes(size) \div 8
         /\ \A x : IsSize(x) /\ size + 8 <= x => BlockBytes(size) <= x
<1> DEFINE k == (size + 7) \div 8
<1>1. k \in Nat /\ size <= 8 * k /\ 8 * k <= size + 7
  OBVIOUS
<1>2. WordsOf(size) = k /\ (size + 8 + 7) \div 8 = k + 1
  BY DEF WordsOf
<1> HIDE DEF k
<1>3. BlockBytes(size) = IF 8 * (k + 1) < 24 THEN 24 ELSE 8 * (k + 1)
  BY <1>2 DEF BlockBytes, WordsOf
<1>4. PICK j \in Nat : BlockBytes(size) = 8 * j /\ j >= 3 /\ k + 1 <= j /\ (j = 3 \/ j = k + 1)
  <2>1. CASE k + 1 < 3
    <3>1. BlockBytes(size) = 8 * 3 /\ 3 \in Nat /\ k + 1 <= 3
      BY <1>1, <1>3, <2>1
    <3>2. QED
      BY <3>1
  <2>2. CASE ~(k + 1 < 3)
    <3>1. BlockBytes(size) = 8 * (k + 1) /\ k + 1 \in Nat /\ k + 1 >= 3 /\ k + 1 <= k + 1
      BY <1>1, <1>3, <2>2
    <3>2. QED
      BY <3>1
  <2>3. QED
    BY <2>1, <2>2
<1>5. IsSize(BlockBytes(size)) /\ BlockBytes(size) \div 8 = j
  BY <1>4, WordsAreSize
<1>6. ASSUME NEW x, IsSize(x), size + 8 <= x
      PROVE  BlockBytes(size) <= x
  <2>1. PICK i \in Nat : x = 8 * i /\ i >= 3
    BY <1>6, SizeInWords
  <2>2. 8 * k + 1 <= x
    BY <1>1, <1>6, <2>1
  <2>3. k + 1 <= i
    BY <1>1, <2>1, <2>2
  <2>4. j <= i
    BY <1>4, <2>1, <2>3
  <2>5. QED
    BY <1>4, <2>1, <2>4
<1>7. QED
  BY <1>1, <1>2, <1>4, <1>5, <1>6

\* A number is less than the next multiple of the divisor.
LEMMA Quotient ==
  ASSUME NEW x \in Nat, NEW d \in Nat \ {0}
  PROVE  x < (x \div d + 1) * d /\ x \div d \in Nat
OBVIOUS

\* Multiplication is monotonic.
LEMMA Times ==
  ASSUME NEW x \in Nat, NEW y \in Nat, NEW c \in Nat, x <= y
  PROVE  x * c <= y * c
OBVIOUS

\* A new chunk is a multiple of 4 MB and large enough for the block.
LEMMA NewChunkFacts ==
  ASSUME NEW size \in Nat
  PROVE  \E k \in Nat \ {0} : /\ NewChunkWords(size) = k * ChunkWords
                              /\ k * ChunkWords \in Nat
                              /\ ChunkWords <= k * ChunkWords
                              /\ IsSize(8 * (k * ChunkWords))
                              /\ size + 8 <= 8 * (k * ChunkWords)
<1> DEFINE q == (size + 8) \div (8 * ChunkWords)
           k == q + 1
<1>1. ChunkWords \in Nat /\ ChunkWords >= 3 /\ 8 * ChunkWords \in Nat \ {0} /\ size + 8 \in Nat
  BY MemAllocAssumption
<1>2. q \in Nat /\ size + 8 < k * (8 * ChunkWords)
  BY <1>1, Quotient
<1>3. NewChunkWords(size) = k * ChunkWords
  BY DEF NewChunkWords
<1> HIDE DEF q
<1>4. k \in Nat \ {0} /\ 1 <= k
  BY <1>2
<1> HIDE DEF k
<1>5. k * (8 * ChunkWords) = 8 * (k * ChunkWords) /\ k * ChunkWords \in Nat
  BY <1>1, <1>4
<1>6. 1 * ChunkWords <= k * ChunkWords
  BY <1>1, <1>4, Times
<1>7. ChunkWords <= k * ChunkWords /\ k * ChunkWords >= 3
  BY <1>1, <1>5, <1>6
<1>8. IsSize(8 * (k * ChunkWords))
  BY <1>5, <1>7, WordsAreSize
<1>9. size + 8 <= 8 * (k * ChunkWords)
  BY <1>2, <1>5
<1>10. QED
  BY <1>3, <1>4, <1>5, <1>7, <1>8, <1>9

\* A new chunk covers whole slots.
LEMMA ChunkedGrows ==
  ASSUME NEW M, Chunked(M), NEW i \in 0 .. Slots - 1, NEW k \in Nat \ {0}
  PROVE  Chunked(M \cup (SlotStart(i) .. SlotStart(i) + k * ChunkWords - 1))
<1> DEFINE chunk == SlotStart(i) .. SlotStart(i) + k * ChunkWords - 1
<1>1. ChunkWords \in Nat /\ Slots \in Nat
  BY MemAllocAssumption
<1>2. ASSUME NEW j \in 0 .. Slots - 1,
             NEW a \in SlotStart(j) .. SlotStart(j) + ChunkWords - 1,
             NEW c \in SlotStart(j) .. SlotStart(j) + ChunkWords - 1,
             a \in chunk
      PROVE  c \in chunk
  <2>1. i \in Nat /\ j \in Nat /\ i + k \in Nat /\ j + 1 \in Nat /\ i + 1 \in Nat /\ k \in Nat
    OBVIOUS
  <2>2. /\ i * ChunkWords \in Nat /\ j * ChunkWords \in Nat /\ k * ChunkWords \in Nat
        /\ (i + k) * ChunkWords = i * ChunkWords + k * ChunkWords
        /\ (j + 1) * ChunkWords = j * ChunkWords + ChunkWords
        /\ (i + k) * ChunkWords \in Nat /\ (j + 1) * ChunkWords \in Nat
    BY <1>1, <2>1
  <2>3. /\ a \in Int /\ c \in Int
        /\ 1 + j * ChunkWords <= a /\ a <= j * ChunkWords + ChunkWords
        /\ 1 + j * ChunkWords <= c /\ c <= j * ChunkWords + ChunkWords
        /\ 1 + i * ChunkWords <= a /\ a <= i * ChunkWords + k * ChunkWords
    BY <1>1, <1>2, <2>2 DEF SlotStart
  <2>4. i <= j
    <3>1. SUFFICES ASSUME j + 1 <= i PROVE FALSE
      BY <2>1
    <3>2. (j + 1) * ChunkWords <= i * ChunkWords
      BY <1>1, <2>1, <3>1, Times
    <3>3. QED
      BY <1>1, <2>2, <2>3, <3>2
  <2>5. j + 1 <= i + k
    <3>1. SUFFICES ASSUME i + k <= j PROVE FALSE
      BY <2>1
    <3>2. (i + k) * ChunkWords <= j * ChunkWords
      BY <1>1, <2>1, <3>1, Times
    <3>3. QED
      BY <1>1, <2>2, <2>3, <3>2
  <2>6. i * ChunkWords <= j * ChunkWords
    BY <1>1, <2>1, <2>4, Times
  <2>7. (j + 1) * ChunkWords <= (i + k) * ChunkWords
    BY <1>1, <2>1, <2>5, Times
  <2>8. 1 + i * ChunkWords <= c /\ c <= i * ChunkWords + k * ChunkWords
    BY <1>1, <2>2, <2>3, <2>6, <2>7
  <2>9. QED
    BY <2>2, <2>3, <2>8 DEF SlotStart
<1> HIDE DEF chunk
<1>3. Chunked(M \cup chunk)
  BY <1>2 DEF Chunked
<1>4. QED
  BY <1>3 DEF chunk
------------------------------------------------------------------------------
(* One step of the program *)

\* Block b, which was cut out of memory m with free blocks F, is the caller's.
IsNewBlock(G, r, m, F, b, l, size) ==
  /\ Sound(mem', head', mapped', l', G, r)
  /\ Region(mem', G \cup InUse(l')) = Region(m, F \cup (InUse(l) \cup {b}))
  /\ Holds(mem', m, InUse(l))
  /\ DOMAIN l' = DOMAIN l \cup {b + 1}
  /\ b + 1 \notin DOMAIN l

\* The end of memalloc, for a block from the list and for a new chunk.
LEMMA CarvedIsSound ==
  ASSUME NEW list, NEW m, NEW h, NEW F, NEW rank, IsList(list, m, h, F, rank),
         NEW b, Tiled(m, F \cup (InUse(live) \cup {b}), mapped'),
         F \cap (InUse(live) \cup {b}) = {}, b \notin InUse(live),
         Held(m, live), Chunked(mapped'),
         NEW size \in Requests, BlockBytes(size) <= m[b],
         SetFree(Carve(list, b, BlockBytes(size))), Allocated(b, size)
  PROVE  \E G, r : IsNewBlock(G, r, m, F, b, live, size)
<1> DEFINE U == InUse(live) \cup {b}
           bytes == BlockBytes(size)
<1>1. size \in Nat
  BY MemAllocAssumption
<1>2. IsSize(bytes) /\ WordsOf(size) \in Nat /\ WordsOf(size) + 1 <= bytes \div 8
  BY <1>1, BlockBytesFacts
<1> HIDE DEF bytes
<1>3. PICK n, k, G, r : /\ IsList(Carve(list, b, bytes), n, k, G, r)
                        /\ IsCarved(n, G, m, F, U, mapped', b, bytes)
  <2>1. b \in U /\ F \cap U = {} /\ Tiled(m, F \cup U, mapped') /\ bytes <= m[b]
    BY DEF bytes
  <2> HIDE DEF U
  <2>2. QED
    BY <1>2, <2>1, CarveKeeps
<1>4. mem' = n /\ head' = k /\ n \in [Addresses -> Int] /\ Linked(n, k, G, r)
  BY <1>3 DEF IsList, SetFree, bytes
<1>5. /\ Tiled(n, G \cup U, mapped') /\ G \cap U = {} /\ bytes <= n[b]
      /\ Region(n, G \cup U) = Region(m, F \cup U)
      /\ Holds(n, m, U \ {b})
  BY <1>3 DEF IsCarved, Holds
<1>6. InUse(live) \subseteq U \ {b} /\ Holds(n, m, InUse(live))
  BY <1>5 DEF Holds
<1>7. \A c \in InUse(live) : n[c] = m[c]
  BY <1>6, HoldsSizes
<1>8. b \in Int
  BY AreaFacts
<1>9. b + 1 \notin DOMAIN live
  <2>1. SUFFICES ASSUME b + 1 \in DOMAIN live PROVE FALSE
    OBVIOUS
  <2>2. (b + 1) - 1 \in InUse(live) /\ (b + 1) - 1 = b
    BY <1>8, <2>1 DEF InUse
  <2>3. QED
    BY <2>2
<1>10. live' = [p \in DOMAIN live \cup {b + 1} |-> IF p = b + 1 THEN size ELSE live[p]]
  BY DEF Allocated
<1>11. /\ DOMAIN live' = DOMAIN live \cup {b + 1}
       /\ live'[b + 1] = size
       /\ \A p \in DOMAIN live : live'[p] = live[p]
  BY <1>9, <1>10
<1>12. InUse(live') = U
  <2>1. (b + 1) - 1 = b
    BY <1>8
  <2>2. {p - 1 : p \in DOMAIN live \cup {b + 1}} = {p - 1 : p \in DOMAIN live} \cup {(b + 1) - 1}
    OBVIOUS
  <2>3. QED
    BY <1>11, <2>1, <2>2 DEF InUse
<1>13. Held(n, live')
  <2>1. live' \in [DOMAIN live' -> Requests]
    BY <1>10 DEF Held
  <2>2. DOMAIN live' \subseteq Int
    BY <1>8, <1>11 DEF Held
  <2>3. \A p \in DOMAIN live : WordsOf(live'[p]) + 1 <= n[p - 1] \div 8
    <3>1. \A p \in DOMAIN live : n[p - 1] = m[p - 1]
      BY <1>7 DEF InUse
    <3>2. QED
      BY <1>11, <3>1 DEF Held
  <2>4. WordsOf(size) + 1 <= n[b] \div 8
    <3>1. IsSize(n[b])
      BY <1>5 DEF Tiled
    <3>2. /\ n[b] \div 8 \in Nat /\ n[b] = 8 * (n[b] \div 8)
          /\ bytes \div 8 \in Nat /\ bytes = 8 * (bytes \div 8)
      BY <1>2, <3>1, SizeInWords
    <3>3. bytes \div 8 <= n[b] \div 8
      BY <1>5, <3>2
    <3>4. QED
      BY <1>2, <3>2, <3>3
  <2>5. (b + 1) - 1 = b
    BY <1>8
  <2>6. \A p \in DOMAIN live' : WordsOf(live'[p]) + 1 <= n[p - 1] \div 8
    BY <1>11, <2>3, <2>4, <2>5
  <2>7. QED
    BY <2>1, <2>2, <2>6 DEF Held
<1> HIDE DEF U
<1>14. Sound(n, k, mapped', live', G, r)
  BY <1>4, <1>5, <1>12, <1>13 DEF Sound
<1>15. QED
  BY <1>4, <1>5, <1>6, <1>9, <1>11, <1>12, <1>14 DEF IsNewBlock, U

\* Memory and head are a linked list.
LEMMA SoundIsList ==
  ASSUME NEW F, NEW rank, Sound(mem, head, mapped, live, F, rank)
  PROVE  IsList(Free, mem, head, F, rank)
BY DEF Sound, IsList, Free

\* A block from the free list.
LEMMA MemallocFreeKeeps ==
  ASSUME NEW F, NEW rank, Sound(mem, head, mapped, live, F, rank),
         NEW size \in Requests, MemallocFree(size)
  PROVE  \E G, r, b : /\ Sound(mem', head', mapped', live', G, r)
                      /\ Region(mem', G \cup InUse(live')) = Region(mem, F \cup InUse(live))
                      /\ Holds(mem', mem, InUse(live))
                      /\ Allocated(b, size) /\ b + 1 \notin DOMAIN live
<1> DEFINE b == FirstFit(size)
           U == InUse(live)
<1>1. b \in F /\ size + 8 <= mem[b]
  BY FirstFitFits DEF MemallocFree, Sound
<1>2. /\ SetFree(Carve(RemoveFree(Free, b), b, BlockBytes(size)))
      /\ Allocated(b, size)
      /\ mapped' = mapped
  BY DEF MemallocFree
<1> HIDE DEF b
<1>3. /\ Tiled(mem, F \cup U, mapped) /\ F \cap U = {}
      /\ Held(mem, live) /\ Chunked(mapped)
  BY DEF Sound
<1>4. Spaced(F)
  BY <1>3, TiledIsSpaced, SpacedSubset
<1>5. PICK n, k, r1 : /\ IsList(RemoveFree(Free, b), n, k, F \ {b}, r1)
                      /\ Alike(n, mem, LinkWords(F))
  BY <1>1, <1>4, SoundIsList, RemoveKeeps
<1>6. F \in SUBSET (F \cup U)
  OBVIOUS
<1>7. /\ Tiled(n, F \cup U, mapped)
      /\ Region(n, F \cup U) = Region(mem, F \cup U)
      /\ \A c \in F \cup U : n[c] = mem[c] /\ Area(n, c) = Area(mem, c)
      /\ \A c \in (F \cup U) \ F : \A a \in Area(mem, c) : n[a] = mem[a]
  BY <1>3, <1>5, <1>6, AlikeKeepsTiles
<1>8. (F \ {b}) \cup (U \cup {b}) = F \cup U /\ (F \ {b}) \cap (U \cup {b}) = {} /\ b \notin U
  BY <1>1, <1>3
<1>9. Held(n, live)
  BY <1>3, <1>7 DEF Held, InUse
<1>10. BlockBytes(size) <= n[b]
  <2>1. IsSize(n[b]) /\ n[b] = mem[b]
    BY <1>1, <1>7 DEF Tiled
  <2>2. QED
    BY <1>1, <2>1, BlockBytesFacts, MemAllocAssumption
<1>11. PICK G, r : IsNewBlock(G, r, n, F \ {b}, b, live, size)
  <2>1. Tiled(n, (F \ {b}) \cup (U \cup {b}), mapped') /\ Chunked(mapped')
    BY <1>2, <1>3, <1>7, <1>8
  <2>2. QED
    BY <1>2, <1>5, <1>8, <1>9, <1>10, <2>1, CarvedIsSound
<1>12. Region(mem', G \cup InUse(live')) = Region(mem, F \cup U)
  BY <1>7, <1>8, <1>11 DEF IsNewBlock
<1>13. Holds(mem', mem, U)
  <2>1. Holds(mem', n, U)
    BY <1>11 DEF IsNewBlock
  <2>2. \A c \in U : c \in F \cup U /\ c \in (F \cup U) \ F
    BY <1>3
  <2>3. QED
    BY <1>7, <2>1, <2>2 DEF Holds
<1>14. QED
  BY <1>2, <1>11, <1>12, <1>13 DEF IsNewBlock

\* A block from a new chunk.
LEMMA MemallocNewKeeps ==
  ASSUME NEW F, NEW rank, Sound(mem, head, mapped, live, F, rank),
         NEW size \in Requests, MemallocNew(size)
  PROVE  \E G, r, b : /\ Sound(mem', head', mapped', live', G, r)
                      /\ Region(mem, F \cup InUse(live)) \subseteq Region(mem', G \cup InUse(live'))
                      /\ Holds(mem', mem, InUse(live))
                      /\ Allocated(b, size) /\ b + 1 \notin DOMAIN live
<1> DEFINE words == NewChunkWords(size)
           U == InUse(live)
<1>1. PICK i \in 0 .. Slots - 1 :
        LET b     == SlotStart(i)
            chunk == b .. b + words - 1
        IN  /\ chunk \subseteq Addresses \ mapped
            /\ mapped' = mapped \cup chunk
            /\ SetFree(Carve([Free EXCEPT !.mem[b] = 8 * words], b, BlockBytes(size)))
            /\ Allocated(b, size)
  BY DEF MemallocNew
<1> DEFINE b == SlotStart(i)
           chunk == b .. b + words - 1
           n == [mem EXCEPT ![b] = 8 * words]
           list == [Free EXCEPT !.mem[b] = 8 * words]
<1>2. PICK k \in Nat \ {0} : /\ words = k * ChunkWords
                             /\ words \in Nat /\ words >= 3
                             /\ IsSize(8 * words) /\ (8 * words) \div 8 = words
                             /\ size + 8 <= 8 * words
  <2>1. size \in Nat
    BY MemAllocAssumption
  <2>2. PICK k \in Nat \ {0} : /\ words = k * ChunkWords
                               /\ words \in Nat
                               /\ ChunkWords <= words
                               /\ IsSize(8 * words)
                               /\ size + 8 <= 8 * words
    BY <2>1, NewChunkFacts
  <2>3. words >= 3
    BY <2>2, MemAllocAssumption
  <2>4. (8 * words) \div 8 = words
    BY <2>2, <2>3, WordsAreSize
  <2> HIDE DEF words
  <2>5. QED
    BY <2>2, <2>3, <2>4
<1>3. Chunked(mapped')
  <2>1. Chunked(mapped)
    BY DEF Sound
  <2>2. mapped' = mapped \cup (SlotStart(i) .. SlotStart(i) + k * ChunkWords - 1)
    BY <1>1, <1>2
  <2>3. QED
    BY <2>1, <2>2, ChunkedGrows
<1>4. chunk \subseteq Addresses \ mapped /\ mapped' = mapped \cup chunk
  BY <1>1
<1>5. SetFree(Carve(list, b, BlockBytes(size))) /\ Allocated(b, size)
  BY <1>1
<1> HIDE DEF words
<1>6. b \in Int /\ b \in chunk /\ b \in Addresses /\ b \notin mapped
  <2>1. b \in Int
    BY MemAllocAssumption DEF SlotStart
  <2> HIDE DEF b
  <2>2. b \in chunk
    BY <1>2, <2>1
  <2>3. QED
    BY <1>4, <2>1, <2>2
<1> HIDE DEF b
<1>7. /\ Tiled(mem, F \cup U, mapped) /\ F \cap U = {}
      /\ Held(mem, live) /\ mem \in [Addresses -> Int] /\ Linked(mem, head, F, rank)
  BY DEF Sound
<1>8. \A c \in F \cup U : Area(mem, c) \subseteq mapped /\ c \in Area(mem, c) /\ c \in Addresses
  BY <1>7, AreaFacts
<1>9. b \notin F \cup U
  BY <1>6, <1>8
<1>10. n \in [Addresses -> Int] /\ n[b] = 8 * words /\ \A a \in Addresses : a # b => n[a] = mem[a]
  <2>1. 8 * words \in Int
    BY <1>2
  <2>2. QED
    BY <1>6, <1>7, <2>1
<1>11. list = [mem |-> n, head |-> head]
  BY <1>7 DEF Free
<1> HIDE DEF n, list
<1>12. \A c \in F \cup U : \A a \in Area(mem, c) : n[a] = mem[a]
  <2>1. mapped \subseteq Addresses
    BY <1>7 DEF Tiled
  <2>2. QED
    BY <1>6, <1>8, <1>10, <2>1
<1>13. IsList(list, n, head, F, rank)
  <2>1. \A a \in LinkWords(F) : n[a] = mem[a]
    <3>1. ASSUME NEW a \in LinkWords(F)
          PROVE  n[a] = mem[a]
      <4>1. PICK f \in F : a = f + 1 \/ a = f + 2
        BY DEF LinkWords
      <4>2. f \in F \cup U /\ a \in Area(mem, f)
        BY <1>7, <4>1, AreaFacts
      <4>3. QED
        BY <1>12, <4>2
    <3>2. QED
      BY <3>1
  <2>2. Linked(n, head, F, rank)
    BY <1>7, <2>1, LinkedFrame
  <2>3. QED
    BY <1>10, <1>11, <2>2 DEF IsList
<1>14. Holds(n, mem, F \cup U)
  BY <1>12 DEF Holds
<1>15. \A c \in F \cup U : n[c] = mem[c] /\ Area(n, c) = Area(mem, c)
  BY <1>7, <1>14, HoldsSizes
<1>16. Area(n, b) = chunk
  BY <1>2, <1>10 DEF Area
<1>17. Tiled(n, F \cup (U \cup {b}), mapped')
  <2> DEFINE C == F \cup (U \cup {b})
  <2>1. C \subseteq Addresses /\ mapped' \subseteq Addresses
    BY <1>4, <1>6, <1>7 DEF Tiled
  <2>2. \A c \in C : IsSize(n[c]) /\ Area(n, c) \subseteq mapped'
    <3>1. \A c \in F \cup U : IsSize(mem[c])
      BY <1>7 DEF Tiled
    <3> HIDE DEF chunk
    <3>2. QED
      BY <1>2, <1>4, <1>8, <1>10, <1>15, <1>16, <3>1
  <2>3. ASSUME NEW c \in C, NEW d \in C, c < d
        PROVE  c + n[c] \div 8 <= d
    <3>1. CASE c \in F \cup U /\ d \in F \cup U
      BY <1>7, <1>15, <2>3, <3>1 DEF Tiled
    <3>2. CASE c \in F \cup U /\ d = b
      <4>1. c \in Int /\ mem[c] \div 8 \in Nat
        BY <1>7, <3>2, AreaFacts
      <4>2. b \notin c .. c + mem[c] \div 8 - 1
        BY <1>6, <1>8, <3>2 DEF Area
      <4>3. c + mem[c] \div 8 <= b
        BY <1>6, <2>3, <3>2, <4>1, <4>2
      <4>4. QED
        BY <1>15, <3>2, <4>3
    <3>3. CASE c = b /\ d \in F \cup U
      <4>1. d \in Int /\ d \in mapped
        BY <1>7, <1>8, <3>3, AreaFacts
      <4>2. d \notin b .. b + words - 1
        BY <1>4, <4>1
      <4>3. b + words <= d
        BY <1>2, <1>6, <2>3, <3>3, <4>1, <4>2
      <4>4. QED
        BY <1>2, <1>10, <3>3, <4>3
    <3>4. CASE c = b /\ d = b
      BY <1>6, <2>3, <3>4
    <3>5. QED
      BY <3>1, <3>2, <3>3, <3>4
  <2> HIDE DEF C
  <2>4. Tiled(n, C, mapped')
    BY <2>1, <2>2, <2>3 DEF Tiled
  <2>5. QED
    BY <2>4 DEF C
<1>18. Held(n, live)
  BY <1>7, <1>15 DEF Held, InUse
<1>19. BlockBytes(size) <= n[b]
  BY <1>2, <1>10, BlockBytesFacts, MemAllocAssumption
<1>20. PICK G, r : IsNewBlock(G, r, n, F, b, live, size)
  <2>1. F \cap (U \cup {b}) = {} /\ b \notin U
    BY <1>7, <1>9
  <2>2. QED
    BY <1>3, <1>5, <1>13, <1>17, <1>18, <1>19, <2>1, CarvedIsSound
<1>21. Region(mem, F \cup U) \subseteq Region(mem', G \cup InUse(live'))
  <2>1. Region(mem, F \cup U) \subseteq Region(n, F \cup (U \cup {b}))
    BY <1>15 DEF Region
  <2>2. QED
    BY <1>20, <2>1 DEF IsNewBlock
<1>22. Holds(mem', mem, U)
  <2>1. Holds(mem', n, U)
    BY <1>20 DEF IsNewBlock
  <2>2. QED
    BY <1>12, <1>15, <2>1 DEF Holds
<1>23. QED
  BY <1>5, <1>20, <1>21, <1>22 DEF IsNewBlock

\* Memory n is m when the block at p is free and the blocks B are left.
IsFreed(n, m, G, B, p) ==
  /\ G \cup InUse(live') = B
  /\ \A c \in B : n[c] = m[c] /\ Area(n, c) = Area(m, c)
  /\ Holds(n, m, InUse(live'))

\* Block b is put in front of a list with free blocks H, which lacks the blocks
\* of F that were taken out, when nothing but links has changed since memory m.
LEMMA FreedIsSound ==
  ASSUME NEW F, NEW rank, Sound(mem, head, mapped, live, F, rank),
         NEW p \in DOMAIN live, live' = Restrict(live, DOMAIN live \ {p}), mapped' = mapped,
         NEW H \in SUBSET F, NEW list, NEW n, NEW k, NEW s, IsList(list, n, k, H, s),
         Alike(n, mem, LinkWords(F \cup {p - 1})), SetFree(InsertFree(list, p - 1))
  PROVE  \E G, r : /\ Sound(mem', head', mapped', live', G, r)
                   /\ IsFreed(mem', mem, G, H \cup InUse(live), p)
<1> DEFINE b == p - 1
           U == InUse(live)
           B == F \cup U
           G == H \cup {b}
<1>1. /\ Tiled(mem, B, mapped) /\ F \cap U = {}
      /\ Held(mem, live) /\ Chunked(mapped)
  BY DEF Sound
<1>2. DOMAIN live \subseteq Int /\ p \in Int /\ b \in U /\ b \notin F
  BY <1>1 DEF Held, InUse
<1>3. /\ DOMAIN live' = DOMAIN live \ {p}
      /\ \A q \in DOMAIN live' : live'[q] = live[q]
      /\ live' \in [DOMAIN live' -> Requests]
  <2>1. DOMAIN live' = DOMAIN live \ {p} /\ \A q \in DOMAIN live \ {p} : live'[q] = live[q]
    BY DEF Restrict
  <2>2. live' = [q \in DOMAIN live \ {p} |-> live[q]]
    BY DEF Restrict
  <2>3. \A q \in DOMAIN live : live[q] \in Requests
    BY <1>1 DEF Held
  <2>4. QED
    BY <2>1, <2>2, <2>3
<1>4. InUse(live') = U \ {b}
  <2>1. \A q \in DOMAIN live : q - 1 = b <=> q = p
    BY <1>2
  <2>2. QED
    BY <1>3, <2>1 DEF InUse
<1> HIDE DEF b, U, B
<1>5. Spaced(G) /\ b \notin H
  <2>1. G \subseteq B
    BY <1>2 DEF B
  <2>2. Spaced(B)
    BY <1>1, TiledIsSpaced
  <2> HIDE DEF G
  <2>3. Spaced(G)
    BY <2>1, <2>2, SpacedSubset
  <2>4. QED
    BY <1>2, <2>3
<1>6. PICK o, r : IsList(InsertFree(list, b), o, b, G, r) /\ Alike(o, n, LinkWords(G))
  BY <1>5, InsertKeeps
<1>7. mem' = o /\ head' = b
  BY <1>6 DEF IsList, SetFree, b
<1>8. Alike(o, mem, LinkWords(F \cup {b}))
  <2>1. LinkWords(G) \subseteq LinkWords(F \cup {b})
    BY DEF LinkWords
  <2>2. Alike(n, mem, LinkWords(F \cup {b}))
    BY DEF b
  <2>3. QED
    BY <1>6, <2>1, <2>2 DEF Alike
<1>9. F \cup {b} \in SUBSET B
  BY <1>2 DEF B
<1>10. /\ Tiled(o, B, mapped)
       /\ \A c \in B : o[c] = mem[c] /\ Area(o, c) = Area(mem, c)
       /\ \A c \in B \ (F \cup {b}) : \A a \in Area(mem, c) : o[a] = mem[a]
  <2> DEFINE changed == F \cup {b}
  <2>1. Tiled(mem, B, mapped) /\ changed \in SUBSET B /\ Alike(o, mem, LinkWords(changed))
    BY <1>1, <1>8, <1>9
  <2>2. \A c \in B \ (F \cup {b}) : c \in B \ changed
    OBVIOUS
  <2> HIDE DEF changed, G
  <2>3. QED
    BY <2>1, <2>2, AlikeKeepsTiles
<1>11. G \cup InUse(live') = H \cup U /\ G \cap InUse(live') = {} /\ H \cup U \subseteq B
  BY <1>1, <1>2, <1>4 DEF B
<1>12. Tiled(o, G \cup InUse(live'), mapped)
  <2>1. H \cup U \in SUBSET B
    BY <1>11
  <2>2. QED
    BY <1>10, <1>11, <2>1, TiledSubset
<1>13. Held(o, live')
  <2>1. DOMAIN live' \subseteq Int
    BY <1>2, <1>3
  <2>2. \A q \in DOMAIN live' : q \in DOMAIN live /\ o[q - 1] = mem[q - 1]
    <3>1. \A q \in DOMAIN live : q - 1 \in B
      BY DEF B, U, InUse
    <3>2. QED
      BY <1>3, <1>10, <3>1
  <2>3. \A q \in DOMAIN live' : WordsOf(live'[q]) + 1 <= o[q - 1] \div 8
    BY <1>1, <1>3, <2>2 DEF Held
  <2>4. QED
    BY <1>3, <2>1, <2>3 DEF Held
<1> HIDE DEF G
<1>14. Sound(mem', head', mapped', live', G, r)
  BY <1>1, <1>6, <1>7, <1>11, <1>12, <1>13 DEF Sound, IsList
<1>15. Holds(o, mem, InUse(live'))
  <2>1. \A c \in InUse(live') : c \in B \ (F \cup {b})
    BY <1>1, <1>4 DEF B
  <2>2. QED
    BY <1>10, <2>1 DEF Holds
<1>16. IsFreed(mem', mem, G, H \cup U, p)
  BY <1>7, <1>10, <1>11, <1>15 DEF IsFreed
<1>17. QED
  BY <1>14, <1>16 DEF U

\* memfree: the block is free, and a right neighbour that was free is lost.
LEMMA MemfreeKeeps ==
  ASSUME NEW F, NEW rank, Sound(mem, head, mapped, live, F, rank),
         NEW p \in DOMAIN live, Memfree(p)
  PROVE  \E G, r :
           /\ Sound(mem', head', mapped', live', G, r)
           /\ IsFreed(mem', mem, G, (F \cup InUse(live)) \ ({p - 1 + mem[p - 1] \div 8} \cap F), p)
<1> DEFINE b == p - 1
           right == b + mem[b] \div 8
           U == InUse(live)
<1>1. FreeBlocks = F
  BY FreeBlocksAre DEF Sound
<1>2. /\ SetFree(IF right \in F THEN MemfreeAndMerge(b) ELSE InsertFree(Free, b))
      /\ live' = Restrict(live, DOMAIN live \ {p})
      /\ mapped' = mapped
  BY <1>1 DEF Memfree
<1>3. IsList(Free, mem, head, F, rank)
  BY SoundIsList
<1>4. Tiled(mem, F \cup U, mapped) /\ F \cap U = {} /\ b \in U /\ Spaced(F)
  <2>1. Tiled(mem, F \cup U, mapped) /\ F \cap U = {}
    BY DEF Sound
  <2>2. b \in U
    BY DEF InUse
  <2>3. Spaced(F)
    BY <2>1, TiledIsSpaced, SpacedSubset
  <2>4. QED
    BY <2>1, <2>2, <2>3
<1>5. CASE right \notin F
  <2>1. SetFree(InsertFree(Free, p - 1))
    BY <1>2, <1>5
  <2>2. Alike(mem, mem, LinkWords(F \cup {p - 1}))
    BY DEF Alike
  <2>3. F \in SUBSET F
    OBVIOUS
  <2>4. PICK G, r : /\ Sound(mem', head', mapped', live', G, r)
                    /\ IsFreed(mem', mem, G, F \cup InUse(live), p)
    BY <1>2, <1>3, <2>1, <2>2, <2>3, FreedIsSound
  <2>5. F \cup InUse(live) = (F \cup InUse(live)) \ ({right} \cap F)
    BY <1>5
  <2>6. QED
    BY <2>4, <2>5
<1>6. CASE right \in F
  <2> DEFINE H == F \ {right}
             free == RemoveFree(Free, right)
             size == mem[right] + mem[b]
             list == [free EXCEPT !.mem[b + 1] = size]
  <2>1. SetFree(InsertFree(list, p - 1))
    BY <1>2, <1>6 DEF MemfreeAndMerge
  <2>2. PICK n, k, s : IsList(free, n, k, H, s) /\ Alike(n, mem, LinkWords(F))
    BY <1>3, <1>4, <1>6, RemoveKeeps
  <2> DEFINE o == [n EXCEPT ![b + 1] = size]
  <2>3. b \in Int /\ b + 1 \in Addresses /\ size \in Int
    <3>1. b \in Int /\ b + 1 \in Addresses /\ mem[b] \in Int
      <4>1. b \in F \cup U
        BY <1>4
      <4> HIDE DEF b, U
      <4>2. b \in Int /\ b + 1 \in Area(mem, b) /\ Area(mem, b) \subseteq Addresses /\ IsSize(mem[b])
        BY <1>4, <4>1, AreaFacts DEF Tiled
      <4>3. QED
        BY <4>2 DEF IsSize
    <3>2. mem[right] \in Int
      BY <1>4, <1>6 DEF Tiled, IsSize
    <3>3. QED
      BY <3>1, <3>2
  <2>4. free = [mem |-> n, head |-> k] /\ n \in [Addresses -> Int] /\ Linked(n, k, H, s)
    BY <2>2 DEF IsList
  <2>5. list = [mem |-> o, head |-> k]
    <3> HIDE DEF free, size, b
    <3>1. QED
      BY <2>4
  <2> HIDE DEF free, size, list
  <2>6. o \in [Addresses -> Int] /\ \A a \in Addresses : a # b + 1 => o[a] = n[a]
    BY <2>3, <2>4
  <2> HIDE DEF o, right
  <2>7. b + 1 \notin LinkWords(F)
    <3>1. b \in F \cup U /\ F \in SUBSET (F \cup U) /\ b \in (F \cup U) \ F
      BY <1>4
    <3> HIDE DEF b, U
    <3>2. b + 1 \in Area(mem, b)
      BY <1>4, <3>1, AreaFacts
    <3>3. QED
      BY <1>4, <3>1, <3>2, LinksInside
  <2>8. \A a \in LinkWords(H) : o[a] = n[a]
    <3>1. LinkWords(H) \subseteq LinkWords(F)
      BY DEF LinkWords
    <3>2. \A a \in LinkWords(F) : a \in Addresses
      BY <1>4, LinksInside
    <3>3. QED
      BY <2>6, <2>7, <3>1, <3>2
  <2>9. IsList(list, o, k, H, s)
    <3>1. Linked(o, k, H, s)
      BY <2>4, <2>8, LinkedFrame
    <3>2. QED
      BY <2>5, <2>6, <3>1 DEF IsList
  <2>10. Alike(o, mem, LinkWords(F \cup {p - 1}))
    <3>1. b + 1 \in LinkWords(F \cup {b}) /\ LinkWords(F) \subseteq LinkWords(F \cup {b})
      BY DEF LinkWords
    <3>2. QED
      BY <2>2, <2>6, <3>1 DEF Alike
  <2>11. H \in SUBSET F
    OBVIOUS
  <2> HIDE DEF H
  <2>12. PICK G, r : /\ Sound(mem', head', mapped', live', G, r)
                     /\ IsFreed(mem', mem, G, H \cup InUse(live), p)
    BY <1>2, <2>1, <2>9, <2>10, <2>11, FreedIsSound
  <2>13. H \cup InUse(live) = (F \cup InUse(live)) \ ({right} \cap F)
    BY <1>4, <1>6 DEF H
  <2>14. QED
    BY <2>12, <2>13 DEF right
<1>7. QED
  BY <1>5, <1>6

\* What a caller writes to its block changes no size, no link and no other block.
LEMMA WriteBlockKeeps ==
  ASSUME NEW F, NEW rank, Sound(mem, head, mapped, live, F, rank),
         NEW p \in DOMAIN live, NEW value \in Data, WriteBlock(p, value)
  PROVE  /\ Sound(mem', head', mapped', live', F, rank)
         /\ Region(mem', F \cup InUse(live)) = Region(mem, F \cup InUse(live))
         /\ Holds(mem', mem, InUse(live) \ {p - 1})
<1> DEFINE b == p - 1
           U == InUse(live)
           B == F \cup U
           W == p .. p + WordsOf(live[p]) - 1
<1>1. /\ Tiled(mem, B, mapped) /\ F \cap U = {}
      /\ Held(mem, live) /\ Chunked(mapped)
      /\ Linked(mem, head, F, rank) /\ mem \in [Addresses -> Int]
  BY DEF Sound
<1>2. /\ mem' = [a \in Addresses |-> IF a \in W THEN value ELSE mem[a]]
      /\ head' = head /\ mapped' = mapped /\ live' = live
  BY DEF WriteBlock
<1>3. b \in U /\ p \in Int /\ live[p] \in Nat
  BY <1>1, MemAllocAssumption DEF InUse, Held
<1>4. W \subseteq Area(mem, b) \ {b}
  <2>1. WordsOf(live[p]) \in Nat
    BY <1>3, BlockBytesFacts
  <2>2. WordsOf(live[p]) + 1 <= mem[b] \div 8
    BY <1>1 DEF Held
  <2>3. mem[b] \div 8 \in Nat
    <3>1. b \in B
      BY <1>3
    <3> HIDE DEF b, B
    <3>2. QED
      BY <1>1, <3>1, AreaFacts
  <2>4. QED
    BY <1>3, <2>1, <2>2, <2>3 DEF Area
<1> HIDE DEF W, b, B, U
<1>5. b \in B /\ F \subseteq B
  BY <1>3 DEF B
<1>6. mem' \in [Addresses -> Int]
  <2>1. value \in Int
    BY MemAllocAssumption
  <2>2. QED
    BY <1>1, <1>2, <2>1
<1>7. \A c \in B \ {b} : \A a \in Area(mem, c) : mem'[a] = mem[a]
  <2>1. ASSUME NEW c \in B \ {b}, NEW a \in Area(mem, c)
        PROVE  mem'[a] = mem[a]
    <3>1. a \in Addresses /\ a \notin Area(mem, b)
      BY <1>1, <1>5, AreaFacts
    <3>2. a \notin W
      BY <1>4, <3>1
    <3>3. QED
      BY <1>2, <3>1, <3>2
  <2>2. QED
    BY <2>1
<1>8. \A c \in B : mem'[c] = mem[c]
  <2>1. \A c \in B : c \in Area(mem, c) /\ c \in Addresses
    BY <1>1, AreaFacts
  <2>2. b \notin W
    BY <1>4
  <2>3. QED
    BY <1>2, <1>7, <2>1, <2>2
<1>9. Tiled(mem', B, mapped) /\ Region(mem', B) = Region(mem, B)
  BY <1>1, <1>8, TiledFrame
<1>10. Linked(mem', head, F, rank)
  <2>1. ASSUME NEW a \in LinkWords(F)
        PROVE  mem'[a] = mem[a]
    <3>1. PICK f \in F : a = f + 1 \/ a = f + 2
      BY DEF LinkWords
    <3>2. f \in B \ {b} /\ a \in Area(mem, f)
      BY <1>1, <1>3, <1>5, <3>1, AreaFacts
    <3>3. QED
      BY <1>7, <3>2
  <2>2. QED
    BY <1>1, <2>1, LinkedFrame
<1>11. Held(mem', live)
  <2>1. \A q \in DOMAIN live : mem'[q - 1] = mem[q - 1]
    BY <1>8 DEF B, U, InUse
  <2>2. QED
    BY <1>1, <2>1 DEF Held
<1>12. Sound(mem', head', mapped', live', F, rank)
  BY <1>1, <1>2, <1>6, <1>9, <1>10, <1>11 DEF Sound, B, U
<1>13. Holds(mem', mem, U \ {b})
  BY <1>7 DEF Holds, B
<1>14. QED
  BY <1>9, <1>12, <1>13 DEF B, U, b
------------------------------------------------------------------------------
\* At first there are no blocks.
LEMMA InitIsSound == Init => IInv
<1> SUFFICES ASSUME Init PROVE IInv
  OBVIOUS
<1> DEFINE rank == [b \in {} |-> 0]
<1>1. mem \in [Addresses -> Int] /\ head = NULL /\ mapped = {} /\ live = <<>>
  BY DEF Init
<1>2. DOMAIN live = {} /\ live \in [DOMAIN live -> Requests] /\ InUse(live) = {}
  BY <1>1 DEF InUse
<1>3. rank \in [{} -> Nat]
  OBVIOUS
<1> HIDE DEF rank
<1>4. Linked(mem, head, {}, rank)
  BY <1>1, <1>3 DEF Linked
<1>5. Tiled(mem, {}, mapped) /\ Chunked(mapped)
  BY <1>1 DEF Tiled, Chunked
<1>6. Held(mem, live)
  BY <1>2 DEF Held
<1>7. Sound(mem, head, mapped, live, {}, rank)
  BY <1>1, <1>2, <1>4, <1>5, <1>6 DEF Sound
<1>8. QED
  BY <1>7 DEF IInv

\* Every step keeps the invariant.
LEMMA NextIsSound == IInv /\ [Next]_vars => IInv'
<1> SUFFICES ASSUME IInv, [Next]_vars PROVE IInv'
  OBVIOUS
<1>1. PICK F, rank : Sound(mem, head, mapped, live, F, rank)
  BY DEF IInv
<1>2. CASE \E size \in Requests : MemallocFree(size)
  BY <1>1, <1>2, MemallocFreeKeeps DEF IInv
<1>3. CASE \E size \in Requests : MemallocNew(size)
  BY <1>1, <1>3, MemallocNewKeeps DEF IInv
<1>4. CASE \E p \in DOMAIN live : Memfree(p)
  BY <1>1, <1>4, MemfreeKeeps DEF IInv
<1>5. CASE \E p \in DOMAIN live, value \in Data : WriteBlock(p, value)
  BY <1>1, <1>5, WriteBlockKeeps DEF IInv
<1>6. CASE UNCHANGED vars
  BY <1>1, <1>6 DEF IInv, vars
<1>7. QED
  BY <1>2, <1>3, <1>4, <1>5, <1>6 DEF Next

\* The invariant holds in every reachable state.
LEMMA AlwaysSound == Spec => []IInv
<1>1. QED
  BY InitIsSound, NextIsSound, PTL DEF Spec

\* The invariant implies TypeOK.
LEMMA SoundIsTyped == IInv => TypeOK
<1> SUFFICES ASSUME IInv PROVE TypeOK
  OBVIOUS
<1>1. PICK F, rank : Sound(mem, head, mapped, live, F, rank)
  BY DEF IInv
<1>2. head \in Addresses \cup {NULL}
  BY <1>1 DEF Sound, Linked
<1>3. mapped \subseteq Addresses
  BY <1>1 DEF Sound, Tiled
<1>4. QED
  BY <1>1, <1>2, <1>3 DEF TypeOK, Sound, Held, Chunked

\* The state of the allocator is of its type: no size and no link is lost or
\* leaves memory, and what the system mapped is whole chunks of 4 MB.
THEOREM AllocatorTyped == Spec => []TypeOK
BY AlwaysSound, SoundIsTyped, PTL

\* The invariant implies ListIsLinked.
LEMMA SoundIsLinked == IInv => ListIsLinked
<1> SUFFICES ASSUME IInv PROVE ListIsLinked
  OBVIOUS
<1>1. PICK F, rank : Sound(mem, head, mapped, live, F, rank)
  BY DEF IInv
<1>2. Linked(mem, head, F, rank) /\ FreeBlocks = F
  BY <1>1, FreeBlocksAre DEF Sound
<1>3. QED
  BY <1>2 DEF Linked, ListIsLinked

\* Whatever calls are made, in any order, the links of the free list lead from
\* block to block and back, for any size of chunks and of memory.
THEOREM FreeListIsLinked == Spec => []ListIsLinked
BY AlwaysSound, SoundIsLinked, PTL

\* The invariant implies BlocksAreDisjoint.
LEMMA SoundIsDisjoint == IInv => BlocksAreDisjoint
<1> SUFFICES ASSUME IInv PROVE BlocksAreDisjoint
  OBVIOUS
<1>1. PICK F, rank : Sound(mem, head, mapped, live, F, rank)
  BY DEF IInv
<1>2. FreeBlocks = F /\ Tiled(mem, F \cup InUse(live), mapped)
  BY <1>1, FreeBlocksAre DEF Sound
<1>3. Blocks = F \cup InUse(live) /\ \A b : Extent(b) = Area(mem, b)
  BY <1>2 DEF Blocks, InUse, Extent, Area
<1>4. ASSUME NEW b \in Blocks
      PROVE  /\ mem[b] >= 24 /\ mem[b] % 8 = 0
             /\ Extent(b) \subseteq mapped
             /\ \A c \in Blocks \ {b} : Extent(b) \cap Extent(c) = {}
  <2>1. IsSize(mem[b])
    BY <1>2, <1>3 DEF Tiled
  <2>2. Area(mem, b) \subseteq mapped /\ \A c \in Blocks \ {b} : Area(mem, b) \cap Area(mem, c) = {}
    BY <1>2, <1>3, AreaFacts
  <2>3. QED
    BY <1>3, <2>1, <2>2 DEF IsSize
<1>5. QED
  BY <1>4 DEF BlocksAreDisjoint

\* No block overlaps another one, whether free or in use, and all lie in memory
\* that the system gave, for any sequence of calls.
THEOREM BlocksStayDisjoint == Spec => []BlocksAreDisjoint
BY AlwaysSound, SoundIsDisjoint, PTL
------------------------------------------------------------------------------
\* The words in blocks, from the free blocks of the invariant.
LEMMA OwnedIs ==
  ASSUME NEW F, NEW rank, Sound(mem, head, mapped, live, F, rank)
  PROVE  FreeBlocks = F /\ Owned = Region(mem, F \cup InUse(live))
<1>1. FreeBlocks = F
  BY FreeBlocksAre DEF Sound
<1>2. QED
  BY <1>1 DEF Owned, Blocks, InUse, Region, Extent, Area

\* The same of the next state.
LEMMA OwnedNext ==
  ASSUME NEW F, NEW rank, Sound(mem', head', mapped', live', F, rank)
  PROVE  Owned' = Region(mem', F \cup InUse(live'))
<1>1. FreeBlocks' = FreeIn(mem', head')
  BY DEF FreeBlocks, FreeIn, IsWalk, After, NextFree
<1>2. FreeBlocks' = F
  BY <1>1, LinkedIsFree DEF Sound
<1>3. QED
  BY <1>2 DEF Owned, Blocks, InUse, Region, Extent, Area

\* What each call takes from the words in blocks.
LEMMA LosesByMerging ==
  ASSUME IInv, [Next]_vars
  PROVE  [LET b == call'.ptr - 1
              right == b + mem[b] \div 8
          IN  Owned \ Owned' =
                IF call'.op = "memfree" /\ right \in FreeBlocks THEN Extent(right) ELSE {}]_vars
<1> SUFFICES ASSUME Next
             PROVE  LET b == call'.ptr - 1
                        right == b + mem[b] \div 8
                    IN  Owned \ Owned' =
                          IF call'.op = "memfree" /\ right \in FreeBlocks THEN Extent(right) ELSE {}
  OBVIOUS
<1>1. PICK F, rank : Sound(mem, head, mapped, live, F, rank)
  BY DEF IInv
<1> DEFINE B == F \cup InUse(live)
<1>2. FreeBlocks = F /\ Owned = Region(mem, B)
  BY <1>1, OwnedIs
<1>3. CASE \E size \in Requests : MemallocFree(size)
  <2>1. PICK size \in Requests : MemallocFree(size)
    BY <1>3
  <2>2. PICK G, r, b : /\ Sound(mem', head', mapped', live', G, r)
                       /\ Region(mem', G \cup InUse(live')) = Region(mem, B)
                       /\ Allocated(b, size)
    BY <1>1, <2>1, MemallocFreeKeeps
  <2>3. Owned' = Owned
    BY <1>2, <2>2, OwnedNext
  <2>4. call'.op = "memalloc"
    BY <2>2 DEF Allocated
  <2>5. QED
    BY <2>3, <2>4
<1>4. CASE \E size \in Requests : MemallocNew(size)
  <2>1. PICK size \in Requests : MemallocNew(size)
    BY <1>4
  <2>2. PICK G, r, b : /\ Sound(mem', head', mapped', live', G, r)
                       /\ Region(mem, B) \subseteq Region(mem', G \cup InUse(live'))
                       /\ Allocated(b, size)
    BY <1>1, <2>1, MemallocNewKeeps
  <2>3. Owned \subseteq Owned'
    BY <1>2, <2>2, OwnedNext
  <2>4. call'.op = "memalloc"
    BY <2>2 DEF Allocated
  <2>5. QED
    BY <2>3, <2>4
<1>5. CASE \E p \in DOMAIN live : Memfree(p)
  <2>1. PICK p \in DOMAIN live : Memfree(p)
    BY <1>5
  <2> DEFINE right == p - 1 + mem[p - 1] \div 8
             C == B \ ({right} \cap F)
  <2>2. PICK G, r : /\ Sound(mem', head', mapped', live', G, r)
                    /\ IsFreed(mem', mem, G, C, p)
    BY <1>1, <2>1, MemfreeKeeps
  <2>3. call'.op = "memfree" /\ call'.ptr = p
    BY <2>1 DEF Memfree
  <2> HIDE DEF C, right
  <2>4. Owned' = Region(mem, C)
    BY <2>2, OwnedNext DEF IsFreed, Region
  <2>5. Owned \ Owned' = IF right \in F THEN Area(mem, right) ELSE {}
    <3>1. Tiled(mem, B, mapped)
      BY <1>1 DEF Sound
    <3>2. CASE right \in F
      <4>1. right \in B /\ C = B \ {right}
        BY <3>2 DEF C
      <4>2. Region(mem, B) = Area(mem, right) \cup Region(mem, C)
        BY <4>1 DEF Region
      <4>3. Area(mem, right) \cap Region(mem, C) = {}
        <5>1. \A c \in C : Area(mem, right) \cap Area(mem, c) = {}
          BY <3>1, <4>1, AreaFacts
        <5>2. QED
          BY <5>1 DEF Region
      <4>4. QED
        BY <1>2, <2>4, <3>2, <4>2, <4>3
    <3>3. CASE right \notin F
      BY <1>2, <2>4, <3>3 DEF C
    <3>4. QED
      BY <3>2, <3>3
  <2>6. QED
    BY <1>2, <2>3, <2>5 DEF right, Extent, Area
<1>6. CASE \E p \in DOMAIN live, value \in Data : WriteBlock(p, value)
  <2>1. PICK p \in DOMAIN live, value \in Data : WriteBlock(p, value)
    BY <1>6
  <2>2. /\ Sound(mem', head', mapped', live', F, rank)
        /\ Region(mem', B) = Region(mem, B)
    BY <1>1, <2>1, WriteBlockKeeps
  <2>3. live' = live /\ call'.op = "write"
    BY <2>1 DEF WriteBlock
  <2>4. Owned' = Owned
    BY <1>2, <2>2, <2>3, OwnedNext
  <2>5. QED
    BY <2>3, <2>4
<1>7. QED
  BY <1>3, <1>4, <1>5, <1>6 DEF Next

\* No call loses a word of memory, but for a memfree whose right neighbour is
\* free, and that loses the neighbour and nothing else.
THEOREM OnlyMergingLoses == Spec => OnlyMergesLose
<1>1. QED
  BY AlwaysSound, LosesByMerging, PTL DEF Spec, OnlyMergesLose
------------------------------------------------------------------------------
\* What the blocks of the caller hold.
DataOf(m, l) == [p \in DOMAIN l |-> [i \in 1 .. WordsOf(l[p]) |-> m[p + i - 1]]]

\* The words of a caller's block are words of the block behind its size.
LEMMA WordsInside ==
  ASSUME NEW m, NEW h, NEW M, NEW l, NEW F, NEW rank, Sound(m, h, M, l, F, rank),
         NEW p \in DOMAIN l
  PROVE  /\ p - 1 \in InUse(l) /\ p \in Int /\ WordsOf(l[p]) \in Nat
         /\ p .. p + WordsOf(l[p]) - 1 \subseteq Area(m, p - 1)
         /\ \A i \in 1 .. WordsOf(l[p]) : p + i - 1 \in Area(m, p - 1)
         /\ Area(m, p - 1) \subseteq M
<1> DEFINE b == p - 1
<1>1. /\ Tiled(m, F \cup InUse(l), M) /\ Held(m, l)
  BY DEF Sound
<1>2. b \in InUse(l) /\ p \in Int /\ l[p] \in Nat
  BY <1>1, MemAllocAssumption DEF InUse, Held
<1>3. WordsOf(l[p]) \in Nat /\ WordsOf(l[p]) + 1 <= m[b] \div 8
  BY <1>1, <1>2, BlockBytesFacts DEF Held
<1>4. m[b] \div 8 \in Nat /\ Area(m, b) \subseteq M
  <2>1. b \in F \cup InUse(l)
    BY <1>2
  <2> HIDE DEF b
  <2>2. QED
    BY <1>1, <2>1, AreaFacts
<1>5. p .. p + WordsOf(l[p]) - 1 \subseteq Area(m, b)
  BY <1>2, <1>3, <1>4 DEF Area
<1>6. \A i \in 1 .. WordsOf(l[p]) : p + i - 1 \in p .. p + WordsOf(l[p]) - 1
  BY <1>2, <1>3
<1>7. QED
  BY <1>2, <1>3, <1>4, <1>5, <1>6

\* Blocks whose words are kept hold what they held.
LEMMA DataKept ==
  ASSUME NEW m, NEW h, NEW M, NEW l, NEW F, NEW rank, Sound(m, h, M, l, F, rank),
         NEW n, NEW U, Holds(n, m, U), NEW p \in DOMAIN l, p - 1 \in U
  PROVE  [i \in 1 .. WordsOf(l[p]) |-> n[p + i - 1]] = [i \in 1 .. WordsOf(l[p]) |-> m[p + i - 1]]
<1>1. \A i \in 1 .. WordsOf(l[p]) : p + i - 1 \in Area(m, p - 1)
  BY WordsInside
<1>2. \A i \in 1 .. WordsOf(l[p]) : n[p + i - 1] = m[p + i - 1]
  BY <1>1 DEF Holds
<1>3. QED
  BY <1>2

\* A block that is new is one that the promise allows.
LEMMA AllocIsPromised ==
  ASSUME NEW F, NEW rank, Sound(mem, head, mapped, live, F, rank),
         NEW G, NEW r, Sound(mem', head', mapped', live', G, r),
         NEW b, NEW size, Allocated(b, size), b + 1 \notin DOMAIN live,
         mapped \subseteq mapped', Holds(mem', mem, InUse(live))
  PROVE  Promise!Alloc(call')
<1>1. /\ call'.op = "memalloc" /\ call'.ret = b + 1 /\ call'.size = size
      /\ live' = [p \in DOMAIN live \cup {b + 1} |-> IF p = b + 1 THEN size ELSE live[p]]
  BY DEF Allocated
<1>2. /\ DOMAIN live' = DOMAIN live \cup {b + 1}
      /\ live'[b + 1] = size
      /\ \A p \in DOMAIN live : live'[p] = live[p]
  BY <1>1
<1>3. \A p \in DOMAIN live : p - 1 \in InUse(live) /\ p - 1 \in InUse(live') /\ p \in Int
  BY <1>2, WordsInside
<1>4. Restrict(DataOf(mem', live'), DOMAIN live) = DataOf(mem, live)
  <2>1. ASSUME NEW p \in DOMAIN live
        PROVE  [i \in 1 .. WordsOf(live[p]) |-> mem'[p + i - 1]]
                 = [i \in 1 .. WordsOf(live[p]) |-> mem[p + i - 1]]
    BY <1>3, DataKept
  <2>2. \A p \in DOMAIN live : DataOf(mem', live')[p] = DataOf(mem, live)[p]
    BY <1>2, <2>1 DEF DataOf
  <2>3. DataOf(mem, live) = [p \in DOMAIN live |-> DataOf(mem, live)[p]]
    BY DEF DataOf
  <2>4. QED
    BY <2>2, <2>3 DEF Restrict
<1>5. b + 1 \in DOMAIN live' /\ (b + 1) - 1 \in InUse(live')
  BY <1>2 DEF InUse
<1>6. /\ (b + 1) .. (b + 1) + WordsOf(size) - 1 \subseteq Area(mem', (b + 1) - 1)
      /\ Area(mem', (b + 1) - 1) \subseteq mapped' /\ b + 1 \in Int
  BY <1>2, <1>5, WordsInside
<1>7. ASSUME NEW p \in DOMAIN live
      PROVE  (p .. p + WordsOf(live[p]) - 1) \cap ((b + 1) .. (b + 1) + WordsOf(size) - 1) = {}
  <2>1. p .. p + WordsOf(live[p]) - 1 \subseteq Area(mem', p - 1)
    BY <1>2, WordsInside
  <2>2. p - 1 # (b + 1) - 1
    BY <1>3, <1>6
  <2>3. Area(mem', p - 1) \cap Area(mem', (b + 1) - 1) = {}
    <3>1. Tiled(mem', G \cup InUse(live'), mapped')
      BY DEF Sound
    <3>2. p - 1 \in G \cup InUse(live') /\ (b + 1) - 1 \in (G \cup InUse(live')) \ {p - 1}
      BY <1>3, <1>5, <2>2
    <3>3. QED
      BY <3>1, <3>2, AreaFacts
  <2>4. QED
    BY <1>6, <2>1, <2>3
<1>8. QED
  BY <1>1, <1>4, <1>6, <1>7 DEF Promise!Alloc, Promise!Words, Promise!Restrict, Restrict, DataOf

\* Every step of the allocator is one that the promise allows.
LEMMA StepsArePromised ==
  ASSUME IInv, IInv', [Next]_vars
  PROVE  [Promise!Next]_(Promise!vars)
<1>1. PICK F, rank : Sound(mem, head, mapped, live, F, rank)
  BY DEF IInv
<1>2. CASE \E size \in Requests : MemallocFree(size)
  <2>1. PICK size \in Requests : MemallocFree(size)
    BY <1>2
  <2>2. PICK G, r, b : /\ Sound(mem', head', mapped', live', G, r)
                       /\ Holds(mem', mem, InUse(live))
                       /\ Allocated(b, size) /\ b + 1 \notin DOMAIN live
    BY <1>1, <2>1, MemallocFreeKeeps
  <2>3. mapped \subseteq mapped'
    BY <2>1 DEF MemallocFree
  <2>4. Promise!Alloc(call')
    BY <1>1, <2>2, <2>3, AllocIsPromised
  <2>5. QED
    BY <2>4 DEF Promise!Next
<1>3. CASE \E size \in Requests : MemallocNew(size)
  <2>1. PICK size \in Requests : MemallocNew(size)
    BY <1>3
  <2>2. PICK G, r, b : /\ Sound(mem', head', mapped', live', G, r)
                       /\ Holds(mem', mem, InUse(live))
                       /\ Allocated(b, size) /\ b + 1 \notin DOMAIN live
    BY <1>1, <2>1, MemallocNewKeeps
  <2>3. mapped \subseteq mapped'
    BY <2>1 DEF MemallocNew
  <2>4. Promise!Alloc(call')
    BY <1>1, <2>2, <2>3, AllocIsPromised
  <2>5. QED
    BY <2>4 DEF Promise!Next
<1>4. CASE \E p \in DOMAIN live : Memfree(p)
  <2>1. PICK p \in DOMAIN live : Memfree(p)
    BY <1>4
  <2>2. PICK G, r, C : /\ Sound(mem', head', mapped', live', G, r)
                       /\ IsFreed(mem', mem, G, C, p)
    BY <1>1, <2>1, MemfreeKeeps
  <2>3. Holds(mem', mem, InUse(live'))
    BY <2>2 DEF IsFreed
  <2>4. /\ call'.op = "memfree" /\ call'.ret = 0 /\ call'.ptr = p
        /\ live' = Restrict(live, DOMAIN live \ {p})
        /\ mapped' = mapped
    BY <2>1 DEF Memfree
  <2>5. /\ DOMAIN live' = DOMAIN live \ {p}
        /\ \A q \in DOMAIN live' : q \in DOMAIN live /\ live'[q] = live[q] /\ q - 1 \in InUse(live')
    BY <2>4 DEF Restrict, InUse
  <2>6. DataOf(mem', live') = Restrict(DataOf(mem, live), DOMAIN live \ {p})
    <3>1. ASSUME NEW q \in DOMAIN live'
          PROVE  [i \in 1 .. WordsOf(live[q]) |-> mem'[q + i - 1]]
                   = [i \in 1 .. WordsOf(live[q]) |-> mem[q + i - 1]]
      BY <1>1, <2>3, <2>5, DataKept
    <3>2. \A q \in DOMAIN live' : DataOf(mem', live')[q] = DataOf(mem, live)[q]
      BY <2>5, <3>1 DEF DataOf
    <3>3. DataOf(mem', live') = [q \in DOMAIN live \ {p} |-> DataOf(mem', live')[q]]
      BY <2>5 DEF DataOf
    <3>4. QED
      BY <2>5, <3>2, <3>3 DEF Restrict
  <2>7. Promise!Free(call')
    BY <2>4, <2>6 DEF Promise!Free, Promise!Restrict, Restrict, DataOf
  <2>8. QED
    BY <2>7 DEF Promise!Next
<1>5. CASE \E p \in DOMAIN live, value \in Data : WriteBlock(p, value)
  <2>1. PICK p \in DOMAIN live, value \in Data : WriteBlock(p, value)
    BY <1>5
  <2>2. Holds(mem', mem, InUse(live) \ {p - 1})
    BY <1>1, <2>1, WriteBlockKeeps
  <2>3. /\ call'.op = "write" /\ call'.value = value /\ call'.ptr = p
        /\ live' = live /\ mapped' = mapped
        /\ mem' = [a \in Addresses |-> IF a \in p .. p + WordsOf(live[p]) - 1
                                       THEN value ELSE mem[a]]
    BY <2>1 DEF WriteBlock
  <2>4. \A q \in DOMAIN live : q \in Int /\ q - 1 \in InUse(live)
    BY <1>1, WordsInside
  <2>5. \A i \in 1 .. WordsOf(live[p]) : mem'[p + i - 1] = value
    <3>1. Area(mem, p - 1) \subseteq mapped /\ mapped \subseteq Addresses
      BY <1>1, WordsInside DEF Sound, Tiled
    <3>2. /\ \A i \in 1 .. WordsOf(live[p]) : p + i - 1 \in Area(mem, p - 1)
          /\ p \in Int /\ WordsOf(live[p]) \in Nat
      BY <1>1, WordsInside
    <3>3. \A i \in 1 .. WordsOf(live[p]) : p + i - 1 \in p .. p + WordsOf(live[p]) - 1
      BY <3>2
    <3>4. QED
      BY <2>3, <3>1, <3>2, <3>3
  <2>6. ASSUME NEW q \in DOMAIN live, q # p
        PROVE  [i \in 1 .. WordsOf(live[q]) |-> mem'[q + i - 1]]
                 = [i \in 1 .. WordsOf(live[q]) |-> mem[q + i - 1]]
    <3>1. q - 1 \in InUse(live) \ {p - 1}
      BY <2>4, <2>6
    <3>2. QED
      BY <1>1, <2>2, <3>1, DataKept
  <2>7. DataOf(mem', live') = [DataOf(mem, live) EXCEPT ![p] = [i \in DOMAIN @ |-> value]]
    <3>1. DataOf(mem', live')[p] = [i \in 1 .. WordsOf(live[p]) |-> value]
      BY <2>3, <2>5 DEF DataOf
    <3>2. DOMAIN DataOf(mem, live)[p] = 1 .. WordsOf(live[p])
      BY DEF DataOf
    <3>3. \A q \in DOMAIN live : q # p => DataOf(mem', live')[q] = DataOf(mem, live)[q]
      BY <2>3, <2>6 DEF DataOf
    <3>4. DataOf(mem', live') = [q \in DOMAIN live |-> DataOf(mem', live')[q]]
      BY <2>3 DEF DataOf
    <3>5. DataOf(mem, live) = [q \in DOMAIN live |-> DataOf(mem, live)[q]]
      BY DEF DataOf
    <3>6. QED
      BY <3>1, <3>2, <3>3, <3>4, <3>5
  <2>8. Promise!Write(call')
    BY <2>3, <2>7 DEF Promise!Write, DataOf
  <2>9. QED
    BY <2>8 DEF Promise!Next
<1>6. CASE UNCHANGED vars
  <2>1. DataOf(mem', live') = DataOf(mem, live)
    BY <1>6 DEF vars, DataOf
  <2>2. UNCHANGED Promise!vars
    BY <1>6, <2>1 DEF vars, Promise!vars, DataOf
  <2>3. QED
    BY <2>2
<1>7. QED
  BY <1>2, <1>3, <1>4, <1>5, <1>6 DEF Next

\* The allocator begins as promised.
LEMMA InitIsPromised == Init => Promise!Init
<1> SUFFICES ASSUME Init PROVE Promise!Init
  OBVIOUS
<1>1. mapped = {} /\ live = <<>>
  BY DEF Init
<1>2. [p \in DOMAIN live |-> [i \in 1 .. WordsOf(live[p]) |-> mem[p + i - 1]]] = <<>>
  BY <1>1
<1>3. QED
  BY <1>1, <1>2 DEF Promise!Init

\* memalloc and memfree keep their promise: a block they give is memory from the
\* system that no other block in use shares, and it keeps what is written to it.
THEOREM AllocatorKeepsBlocks == Spec => BlocksAreKept
<1>1. QED
  BY AlwaysSound, InitIsPromised, StepsArePromised, PTL DEF Spec, BlocksAreKept, Promise!Spec
=============================================================================
