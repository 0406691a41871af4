-------------------------- MODULE CowMemory_proofs --------------------------
(***************************************************************************)
(* Reference counts are exact and a writable frame has one mapper, for any *)
(* number of processes, frames and pages, whether or not the processor     *)
(* keeps stale translations.  With a processor that forgets its cached     *)
(* translations when a process is copied, copy-on-write is invisible:      *)
(* CowMemory implements PrivateMemory.                                     *)
(***************************************************************************)
EXTENDS CowMemory, FiniteSetTheorems, TLAPS

\* A slot not in use has an empty page table.
FreeSlotsEmpty == \A p \in Procs : p \notin live => pte[p] = Empty

\* The inductive invariant.
IInv == TypeOK /\ FreeSlotsEmpty /\ RefCountsExact /\ WritableIsExclusive

Tables == [Procs -> [Page -> Entry]]

\* From t to u, process p loses the pages of S and nothing else changes.
Gives(t, u, p, S) ==
  /\ \A q \in Procs \ {p} : u[q] = t[q]
  /\ \A v \in Page : v \in S => u[p][v].frame = NoFrame
  /\ \A v \in Page : v \notin S => u[p][v].frame = t[p][v].frame
                                  /\ (u[p][v].w => t[p][v].w)

\* From t to u, the empty process c gets the frames of p's pages of S.
Shares(t, u, p, c, S) ==
  /\ p # c
  /\ t[c] = Empty
  /\ \A q \in Procs \ {c}, v \in Page : u[q][v].frame = t[q][v].frame
  /\ \A v \in Page : u[c][v].frame = IF v \in S THEN t[p][v].frame ELSE NoFrame
------------------------------------------------------------------------------
\* The pages are finitely many.
LEMMA PageFinite == IsFiniteSet(Page)
<1>1. IsFiniteSet(AreaStart .. Top)
  BY FS_Interval, AreaAssumption, CowAssumption
<1>2. QED
  BY <1>1, FS_Union, CowAssumption DEF Page

\* So are the entries that hold a frame.
LEMMA MappersFinite ==
  ASSUME NEW t, NEW f
  PROVE  /\ IsFiniteSet(MappersIn(t, f))
         /\ Cardinality(MappersIn(t, f)) \in Nat
<1>1. IsFiniteSet(Procs \X Page)
  BY PageFinite, CowAssumption, FS_Product
<1>2. MappersIn(t, f) \in SUBSET (Procs \X Page)
  BY DEF MappersIn
<1>3. IsFiniteSet(MappersIn(t, f))
  BY <1>1, <1>2, FS_Subset
<1>4. QED
  BY <1>3, FS_CardinalityType

\* A process has as many entries at pages of S as S has pages.
LEMMA CountPairs ==
  ASSUME NEW p, NEW S \in SUBSET Page
  PROVE  /\ IsFiniteSet({p} \X S)
         /\ Cardinality({p} \X S) = Cardinality(S)
         /\ Cardinality(S) \in Nat
<1>1. IsFiniteSet(S) /\ Cardinality(S) \in Nat
  BY PageFinite, FS_Subset, FS_CardinalityType
<1>2. IsFiniteSet({p}) /\ Cardinality({p}) = 1
  BY FS_Singleton
<1>3. /\ IsFiniteSet({p} \X S)
      /\ Cardinality({p} \X S) = Cardinality({p}) * Cardinality(S)
  BY <1>1, <1>2, FS_Product
<1>4. QED
  BY <1>1, <1>2, <1>3

\* Taking pages out of one table takes as many mappers away from a frame as
\* there were pages with it.
LEMMA DropCount ==
  ASSUME NEW t \in Tables, NEW p \in Procs, NEW S \in SUBSET Page, NEW f \in Frames,
         NEW u \in Tables, Gives(t, u, p, S)
  PROVE  Cardinality(MappersIn(u, f))
           = Cardinality(MappersIn(t, f)) - Cardinality({v \in S : t[p][v].frame = f})
<1> DEFINE held == {v \in S : t[p][v].frame = f}
<1>1. MappersIn(t, f) = MappersIn(u, f) \cup ({p} \X held)
  BY CowAssumption DEF MappersIn, Tables, Gives
<1>2. MappersIn(u, f) \cap ({p} \X held) = {}
  BY CowAssumption DEF MappersIn, Tables, Gives
<1>3. /\ IsFiniteSet({p} \X held)
      /\ Cardinality({p} \X held) = Cardinality(held)
      /\ Cardinality(held) \in Nat
  BY CountPairs
<1>4. Cardinality(MappersIn(t, f))
        = Cardinality(MappersIn(u, f)) + Cardinality(held) - Cardinality({})
  BY <1>1, <1>2, <1>3, MappersFinite, FS_Union
<1>5. QED
  BY <1>3, <1>4, MappersFinite, FS_EmptySet

\* Entering pages of one table into an empty one adds as many mappers.
LEMMA ShareCount ==
  ASSUME NEW t \in Tables, NEW p \in Procs, NEW c \in Procs, NEW S \in SUBSET Page,
         NEW f \in Frames, NEW u \in Tables, Shares(t, u, p, c, S)
  PROVE  Cardinality(MappersIn(u, f))
           = Cardinality(MappersIn(t, f)) + Cardinality({v \in S : t[p][v].frame = f})
<1> DEFINE held == {v \in S : t[p][v].frame = f}
<1>1. MappersIn(u, f) = MappersIn(t, f) \cup ({c} \X held)
  BY CowAssumption DEF MappersIn, Tables, Shares, Empty, Absent
<1>2. MappersIn(t, f) \cap ({c} \X held) = {}
  BY CowAssumption DEF MappersIn, Tables, Shares, Empty, Absent
<1>3. /\ IsFiniteSet({c} \X held)
      /\ Cardinality({c} \X held) = Cardinality(held)
      /\ Cardinality(held) \in Nat
  BY CountPairs
<1>4. Cardinality(MappersIn(u, f))
        = Cardinality(MappersIn(t, f)) + Cardinality(held) - Cardinality({})
  BY <1>1, <1>2, <1>3, MappersFinite, FS_Union
<1>5. QED
  BY <1>3, <1>4, MappersFinite, FS_EmptySet

\* Changing write bits only moves no frame.
LEMMA SameFrames ==
  ASSUME NEW t, NEW u, NEW f,
         \A q \in Procs, v \in Page : u[q][v].frame = t[q][v].frame
  PROVE  MappersIn(u, f) = MappersIn(t, f)
BY DEF MappersIn
------------------------------------------------------------------------------
\* A frame whose count is at most one has no mapper but the one known.
LEMMA SoleMapper ==
  ASSUME IInv, NEW p \in Procs, NEW v \in Page, Present(p, v),
         ref[pte[p][v].frame] <= 1,
         NEW q \in Procs, NEW u \in Page, pte[q][u].frame = pte[p][v].frame
  PROVE  q = p /\ u = v
<1> DEFINE f == pte[p][v].frame
           M == Mappers(f)
<1>1. f \in Frames
  BY DEF IInv, TypeOK, Entry, Present
<1>2. <<p, v>> \in M /\ <<q, u>> \in M
  BY DEF Mappers, MappersIn
<1>3. IsFiniteSet(M) /\ Cardinality(M) \in Nat /\ Cardinality(M) <= 1
  BY <1>1, MappersFinite DEF IInv, RefCountsExact, Mappers
<1>4. Cardinality(M) = 1
  BY <1>2, <1>3, FS_EmptySet
<1>5. PICK m : M = {m}
  BY <1>3, <1>4, FS_Singleton
<1>6. QED
  BY <1>2, <1>5

\* A free frame has no mapper.
LEMMA FreeUnmapped ==
  ASSUME IInv, NEW f \in FreeFrames, NEW p \in Procs, NEW v \in Page
  PROVE  pte[p][v].frame # f
<1>1. Cardinality(Mappers(f)) = 0
  BY DEF IInv, RefCountsExact, FreeFrames
<1>2. Mappers(f) = {}
  BY <1>1, MappersFinite, FS_EmptySet DEF Mappers
<1>3. pte[p][v].frame = f => <<p, v>> \in Mappers(f)
  BY DEF Mappers, MappersIn
<1>4. QED
  BY <1>2, <1>3
------------------------------------------------------------------------------
\* Giving pages of the running process back (munmap, exit).
LEMMA PutStep ==
  ASSUME IInv, NEW S \in SUBSET Page,
         pte' \in Tables, Gives(pte, pte', running, S), ref' = Put(running, S)
  PROVE  /\ ref' \in [Frames -> Nat]
         /\ RefCountsExact'
         /\ WritableIsExclusive'
<1>0. running \in Procs /\ pte \in Tables
  BY DEF IInv, TypeOK, Tables
<1>2. ASSUME NEW f \in Frames
      PROVE  /\ ref'[f] = Cardinality(MappersIn(pte', f))
             /\ ref'[f] \in Nat
  <2>1. ref'[f] = ref[f] - Cardinality({v \in S : pte[running][v].frame = f})
    BY DEF Put
  <2>2. ref[f] = Cardinality(MappersIn(pte, f))
    BY DEF IInv, RefCountsExact, Mappers
  <2>3. Cardinality(MappersIn(pte', f))
          = Cardinality(MappersIn(pte, f)) - Cardinality({v \in S : pte[running][v].frame = f})
    BY <1>0, DropCount
  <2>4. QED
    BY <2>1, <2>2, <2>3, MappersFinite
<1>3. RefCountsExact'
  BY <1>2 DEF RefCountsExact, Mappers
<1>4. ref' \in [Frames -> Nat]
  BY <1>2 DEF Put
<1>5. WritableIsExclusive'
  BY <1>0 DEF IInv, WritableIsExclusive, Present, Gives
<1>6. QED
  BY <1>3, <1>4, <1>5

LEMMA MunmapStep ==
  ASSUME IInv, NEW addr, NEW length, Munmap(addr, length)
  PROVE  IInv'
<1> DEFINE gone == {v \in CoveredPages(areas[running], addr, addr + length) \cap Page :
                      Present(running, v)}
<1>0. running \in Procs /\ pte \in Tables
  BY DEF IInv, TypeOK, Tables
<1>1. pte' = [pte EXCEPT ![running] = Drop(@, gone)] /\ ref' = Put(running, gone)
  BY DEF Munmap
<1>2. pte' \in Tables
  BY <1>0, <1>1 DEF Tables, Drop, Entry, Absent
<1>3. Gives(pte, pte', running, gone)
  BY <1>0, <1>1 DEF Tables, Gives, Drop, Absent
<1>4. ref' \in [Frames -> Nat] /\ RefCountsExact' /\ WritableIsExclusive'
  <2>1. gone \in SUBSET Page
    OBVIOUS
  <2>2. QED
    BY <1>1, <1>2, <1>3, <2>1, PutStep
<1>5. TypeOK'
  BY <1>2, <1>4 DEF IInv, TypeOK, Munmap, Tables, Drop, Entry, Absent
<1>6. FreeSlotsEmpty'
  BY DEF IInv, TypeOK, FreeSlotsEmpty, Munmap
<1>7. QED
  BY <1>4, <1>5, <1>6 DEF IInv

LEMMA ExitStep ==
  ASSUME IInv, NEW q \in Procs, Exit(q)
  PROVE  IInv'
<1> DEFINE gone == {v \in Page : Present(running, v)}
<1>0. running \in Procs /\ pte \in Tables
  BY DEF IInv, TypeOK, Tables
<1>1. pte' = [pte EXCEPT ![running] = Empty] /\ ref' = Put(running, gone)
  BY DEF Exit
<1>2. pte' \in Tables
  BY <1>0, <1>1 DEF Tables, Empty, Entry, Absent
<1>3. Gives(pte, pte', running, gone)
  BY <1>0, <1>1 DEF Tables, Gives, Empty, Absent, Present
<1>4. ref' \in [Frames -> Nat] /\ RefCountsExact' /\ WritableIsExclusive'
  <2>1. gone \in SUBSET Page
    OBVIOUS
  <2>2. QED
    BY <1>1, <1>2, <1>3, <2>1, PutStep
<1>5. TypeOK'
  BY <1>2, <1>4 DEF IInv, TypeOK, Exit, Tables, Empty, Entry, Absent
<1>6. FreeSlotsEmpty'
  BY <1>0 DEF IInv, FreeSlotsEmpty, Exit, Tables
<1>7. QED
  BY <1>4, <1>5, <1>6 DEF IInv
------------------------------------------------------------------------------
\* Setting or clearing write bits (mprotect).
LEMMA MprotectStep ==
  ASSUME IInv, NEW addr, NEW length, NEW prot, Mprotect(addr, length, prot)
  PROVE  IInv'
<1>0. running \in Procs /\ pte \in Tables
  BY DEF IInv, TypeOK, Tables
<1> DEFINE walk == Protect(areas[running], addr, addr + length, prot)
           reached == UNION {Reached(walk.regions[i][1], walk.regions[i][2]) :
                               i \in DOMAIN walk.regions}
           w == prot = ReadWrite
<1>1. /\ pte' = [pte EXCEPT ![running] = SetWrite(@, reached, w)]
      /\ tlb' = Drop(tlb, reached)
      /\ UNCHANGED <<running, live, ref, data>>
  BY DEF Mprotect
<1>2. ASSUME NEW v \in reached
      PROVE  v \in Page /\ Present(running, v) /\ ref[pte[running][v].frame] = 1
  <2>1. PICK i \in DOMAIN walk.regions :
          v \in Reached(walk.regions[i][1], walk.regions[i][2])
    BY <1>2
  <2>2. QED
    BY <2>1 DEF Reached
<1> HIDE DEF reached, walk, w
<1>3. pte' \in Tables /\ \A p \in Procs, v \in Page : pte'[p][v].frame = pte[p][v].frame
  BY <1>0, <1>1 DEF Tables, SetWrite, Entry, w
<1>4. RefCountsExact'
  <2>1. ASSUME NEW f \in Frames
        PROVE  MappersIn(pte', f) = MappersIn(pte, f)
    BY <1>3, SameFrames
  <2>2. QED
    BY <1>1, <2>1 DEF IInv, RefCountsExact, Mappers
<1>5. WritableIsExclusive'
  <2> SUFFICES ASSUME NEW p \in Procs, NEW q \in Procs, NEW v \in Page, NEW u \in Page,
                      pte'[p][v].frame # NoFrame, pte'[p][v].w,
                      pte'[q][u].frame = pte'[p][v].frame
               PROVE  p = q /\ v = u
    BY DEF WritableIsExclusive, Present
  <2>1. CASE p = running /\ v \in reached
    BY <1>2, <1>3, <2>1, SoleMapper
  <2>2. CASE ~(p = running /\ v \in reached)
    <3>1. pte'[p][v] = pte[p][v]
      BY <1>0, <1>1, <2>2 DEF Tables, SetWrite
    <3>2. QED
      BY <1>3, <3>1 DEF IInv, WritableIsExclusive, Present
  <2>3. QED
    BY <2>1, <2>2
<1>6. TypeOK'
  BY <1>1, <1>3 DEF IInv, TypeOK, Tables, Drop, Entry, Absent
<1>7. FreeSlotsEmpty'
  BY <1>0, <1>1 DEF IInv, TypeOK, FreeSlotsEmpty, Tables
<1>8. QED
  BY <1>4, <1>5, <1>6, <1>7 DEF IInv
------------------------------------------------------------------------------
\* A free frame is given to a page that had none (the first touch of a page) or
\* leaves its frame to others (copy-on-write); its count becomes one.
LEMMA NewFrame ==
  ASSUME IInv, NEW v \in Page, NEW f \in FreeFrames, NEW w \in BOOLEAN,
         pte' = [pte EXCEPT ![running][v] = [frame |-> f, w |-> w]]
  PROVE  /\ pte' \in Tables
         /\ MappersIn(pte', f) = {<<running, v>>}
         /\ \A g \in Frames \ {f} :
              Cardinality(MappersIn(pte', g))
                = Cardinality(MappersIn(pte, g))
                    - (IF pte[running][v].frame = g THEN 1 ELSE 0)
         /\ WritableIsExclusive'
<1>0. running \in Procs /\ pte \in Tables /\ f \in Frames
  BY DEF IInv, TypeOK, Tables, FreeFrames
<1>1. pte' \in Tables
  BY <1>0 DEF Tables, Entry
<1>2. /\ pte'[running][v] = [frame |-> f, w |-> w]
      /\ \A p \in Procs, u \in Page : <<p, u>> # <<running, v>> => pte'[p][u] = pte[p][u]
  BY <1>0 DEF Tables
<1>3. \A p \in Procs, u \in Page : pte[p][u].frame # f
  BY FreeUnmapped
<1>4. MappersIn(pte', f) = {<<running, v>>}
  BY <1>0, <1>2, <1>3 DEF MappersIn
<1>5. ASSUME NEW g \in Frames \ {f}
      PROVE  Cardinality(MappersIn(pte', g))
               = Cardinality(MappersIn(pte, g))
                   - (IF pte[running][v].frame = g THEN 1 ELSE 0)
  <2>1. MappersIn(pte', g) = MappersIn(pte, g) \ {<<running, v>>}
    BY <1>2, <1>5 DEF MappersIn
  <2>2. <<running, v>> \in MappersIn(pte, g) <=> pte[running][v].frame = g
    BY <1>0 DEF MappersIn
  <2>3. IsFiniteSet(MappersIn(pte, g)) /\ Cardinality(MappersIn(pte, g)) \in Nat
    BY MappersFinite
  <2>4. Cardinality(MappersIn(pte, g) \ {<<running, v>>})
          = IF <<running, v>> \in MappersIn(pte, g) THEN Cardinality(MappersIn(pte, g)) - 1
            ELSE Cardinality(MappersIn(pte, g))
    BY <2>3, FS_RemoveElement
  <2>5. CASE pte[running][v].frame = g
    BY <2>1, <2>2, <2>4, <2>5
  <2>6. CASE pte[running][v].frame # g
    <3>1. MappersIn(pte', g) = MappersIn(pte, g)
      BY <2>1, <2>2, <2>6
    <3>2. QED
      BY <2>3, <2>6, <3>1
  <2>7. QED
    BY <2>5, <2>6
<1>7. WritableIsExclusive'
  <2> SUFFICES ASSUME NEW p \in Procs, NEW q \in Procs, NEW x \in Page, NEW u \in Page,
                      pte'[p][x].frame # NoFrame, pte'[p][x].w,
                      pte'[q][u].frame = pte'[p][x].frame
               PROVE  p = q /\ x = u
    BY DEF WritableIsExclusive, Present
  <2>1. CASE pte'[p][x].frame = f
    BY <1>2, <1>3, <2>1
  <2>2. CASE pte'[p][x].frame # f
    BY <1>2, <2>2 DEF IInv, WritableIsExclusive, Present
  <2>3. QED
    BY <2>1, <2>2
<1>8. QED
  BY <1>1, <1>4, <1>5, <1>7

LEMMA DemandFaultStep ==
  ASSUME IInv, NEW v \in Page, NEW f \in Frames, DemandFault(v, f)
  PROVE  IInv'
<1>0. running \in Procs /\ pte \in Tables /\ f \in FreeFrames
  BY DEF IInv, TypeOK, Tables, DemandFault
<1> DEFINE w == EntryWritable(Access(running, v))
<1>1. /\ pte' = [pte EXCEPT ![running][v] = [frame |-> f, w |-> w]]
      /\ ref' = [ref EXCEPT ![f] = 1]
      /\ tlb' = [tlb EXCEPT ![v] = Absent]
      /\ UNCHANGED <<running, live, areas, data>>
      /\ w \in BOOLEAN
  BY DEF DemandFault, Forget, EntryWritable
<1> HIDE DEF w
<1>2. /\ pte' \in Tables
      /\ MappersIn(pte', f) = {<<running, v>>}
      /\ \A g \in Frames \ {f} :
           Cardinality(MappersIn(pte', g))
             = Cardinality(MappersIn(pte, g))
                 - (IF pte[running][v].frame = g THEN 1 ELSE 0)
      /\ WritableIsExclusive'
  BY <1>0, <1>1, NewFrame
<1>3. RefCountsExact'
  <2>1. ASSUME NEW g \in Frames
        PROVE  ref'[g] = Cardinality(MappersIn(pte', g))
    <3>1. CASE g = f
      BY <1>1, <1>2, <3>1, FS_Singleton DEF IInv, TypeOK
    <3>2. CASE g # f
      <4>1. pte[running][v].frame # g
        BY CowAssumption DEF DemandFault, Present
      <4>2. Cardinality(MappersIn(pte', g)) = Cardinality(MappersIn(pte, g))
        BY <1>2, <3>2, <4>1, MappersFinite
      <4>3. QED
        BY <1>1, <3>2, <4>2 DEF IInv, TypeOK, RefCountsExact, Mappers
    <3>3. QED
      BY <3>1, <3>2
  <2>2. QED
    BY <2>1 DEF RefCountsExact, Mappers
<1>4. TypeOK'
  BY <1>1, <1>2 DEF IInv, TypeOK, Tables, Entry, Absent
<1>5. FreeSlotsEmpty'
  BY <1>0, <1>1 DEF IInv, TypeOK, FreeSlotsEmpty, Tables
<1>6. QED
  BY <1>2, <1>3, <1>4, <1>5 DEF IInv

LEMMA CowCopyStep ==
  ASSUME IInv, NEW v \in Page, NEW f \in Frames, CowCopy(v, f)
  PROVE  IInv'
<1> DEFINE old == pte[running][v].frame
<1>0. /\ running \in Procs /\ pte \in Tables /\ f \in FreeFrames
      /\ old \in Frames /\ old # f /\ ref[old] > 1
  <2>1. running \in Procs /\ pte \in Tables /\ f \in FreeFrames /\ old # NoFrame
    BY DEF IInv, TypeOK, Tables, CowCopy, WriteFault, Present
  <2>2. old \in Frames
    BY <2>1 DEF Tables, Entry
  <2>3. old # f
    BY <2>1, FreeUnmapped
  <2>4. QED
    BY <2>1, <2>2, <2>3 DEF CowCopy
<1>1. /\ pte' = [pte EXCEPT ![running][v] = [frame |-> f, w |-> TRUE]]
      /\ ref' = [ref EXCEPT ![f] = 1, ![old] = @ - 1]
      /\ data' = [data EXCEPT ![f] = data[old]]
      /\ tlb' = [tlb EXCEPT ![v] = Absent]
      /\ UNCHANGED <<running, live, areas>>
  BY DEF CowCopy, WriteFault, Forget
<1>2. /\ pte' \in Tables
      /\ MappersIn(pte', f) = {<<running, v>>}
      /\ \A g \in Frames \ {f} :
           Cardinality(MappersIn(pte', g))
             = Cardinality(MappersIn(pte, g))
                 - (IF pte[running][v].frame = g THEN 1 ELSE 0)
      /\ WritableIsExclusive'
  BY <1>0, <1>1, NewFrame
<1>3. ASSUME NEW g \in Frames
      PROVE  ref'[g] = Cardinality(MappersIn(pte', g)) /\ ref'[g] \in Nat
  <2>0. /\ ref \in [Frames -> Nat]
        /\ ref[g] = Cardinality(MappersIn(pte, g))
    BY DEF IInv, TypeOK, RefCountsExact, Mappers
  <2>1. CASE g = f
    BY <1>0, <1>1, <1>2, <2>0, <2>1, FS_Singleton
  <2>2. CASE g # f
    <3>1. ref'[g] = ref[g] - (IF old = g THEN 1 ELSE 0) /\ ref'[g] \in Nat
      BY <1>0, <1>1, <2>0, <2>2
    <3>2. Cardinality(MappersIn(pte', g))
            = Cardinality(MappersIn(pte, g)) - (IF old = g THEN 1 ELSE 0)
      BY <1>2, <2>2
    <3>3. QED
      BY <2>0, <3>1, <3>2
  <2>3. QED
    BY <2>1, <2>2
<1>4. RefCountsExact'
  BY <1>3 DEF RefCountsExact, Mappers
<1>5. TypeOK'
  <2>1. ref' \in [Frames -> Nat]
    BY <1>0, <1>1, <1>3 DEF IInv, TypeOK
  <2>2. data' \in [Frames -> Values]
    BY <1>0, <1>1 DEF IInv, TypeOK
  <2>3. QED
    BY <1>1, <1>2, <2>1, <2>2 DEF IInv, TypeOK, Tables, Entry, Absent
<1>6. FreeSlotsEmpty'
  BY <1>0, <1>1 DEF IInv, TypeOK, FreeSlotsEmpty, Tables
<1>7. QED
  BY <1>2, <1>4, <1>5, <1>6 DEF IInv

LEMMA CowReuseStep ==
  ASSUME IInv, NEW v \in Page, CowReuse(v)
  PROVE  IInv'
<1>0. running \in Procs /\ pte \in Tables
  BY DEF IInv, TypeOK, Tables
<1>1. /\ pte' = [pte EXCEPT ![running] = SetWrite(@, {v}, TRUE)]
      /\ Present(running, v)
      /\ ref[pte[running][v].frame] <= 1
      /\ tlb' = [tlb EXCEPT ![v] = Absent]
      /\ UNCHANGED <<running, live, areas, ref, data>>
  BY DEF CowReuse, WriteFault, Forget
<1>2. /\ pte' \in Tables
      /\ \A p \in Procs, u \in Page : pte'[p][u].frame = pte[p][u].frame
      /\ \A p \in Procs, u \in Page :
           <<p, u>> # <<running, v>> => pte'[p][u] = pte[p][u]
  BY <1>0, <1>1 DEF Tables, SetWrite, Entry
<1>3. RefCountsExact'
  <2>1. ASSUME NEW f \in Frames
        PROVE  MappersIn(pte', f) = MappersIn(pte, f)
    BY <1>2, SameFrames
  <2>2. QED
    BY <1>1, <2>1 DEF IInv, RefCountsExact, Mappers
<1>4. WritableIsExclusive'
  <2> SUFFICES ASSUME NEW p \in Procs, NEW q \in Procs, NEW x \in Page, NEW u \in Page,
                      pte'[p][x].frame # NoFrame, pte'[p][x].w,
                      pte'[q][u].frame = pte'[p][x].frame
               PROVE  p = q /\ x = u
    BY DEF WritableIsExclusive, Present
  <2>1. CASE p = running /\ x = v
    <3>1. pte[q][u].frame = pte[running][v].frame
      BY <1>2, <2>1
    <3>2. QED
      BY <1>0, <1>1, <2>1, <3>1, SoleMapper
  <2>2. CASE ~(p = running /\ x = v)
    BY <1>2, <2>2 DEF IInv, WritableIsExclusive, Present
  <2>3. QED
    BY <2>1, <2>2
<1>5. TypeOK'
  BY <1>1, <1>2 DEF IInv, TypeOK, Tables, Entry, Absent
<1>6. FreeSlotsEmpty'
  BY <1>0, <1>1 DEF IInv, TypeOK, FreeSlotsEmpty, Tables
<1>7. QED
  BY <1>3, <1>4, <1>5, <1>6 DEF IInv
------------------------------------------------------------------------------
LEMMA CforkStep ==
  ASSUME IInv, NEW c \in Procs, Cfork(c)
  PROVE  IInv'
<1> DEFINE shared == Inherited(running)
<1>0. /\ running \in Procs /\ pte \in Tables /\ shared \in SUBSET Page
      /\ c \notin live /\ c # running /\ pte[c] = Empty
  BY DEF IInv, TypeOK, FreeSlotsEmpty, Tables, Inherited, Cfork
<1>1. /\ ref' = Get(running, shared)
      /\ live' = live \cup {c}
      /\ tlb' \in {tlb, Empty}
      /\ UNCHANGED <<running, data>>
  BY DEF Cfork
<1>2. /\ pte' = [pte EXCEPT ![running] = SetWrite(@, shared, FALSE),
                            ![c] = [v \in Page |->
                                      IF v \in shared
                                      THEN [frame |-> pte[running][v].frame, w |-> FALSE]
                                      ELSE Absent]]
  BY DEF Cfork
<1> HIDE DEF shared
<1>3. /\ pte' \in Tables
      /\ \A q \in Procs \ {c}, v \in Page :
           /\ pte'[q][v].frame = pte[q][v].frame
           /\ pte'[q][v].w => pte[q][v].w
      /\ \A v \in shared : ~pte'[running][v].w
      /\ \A v \in Page : /\ ~pte'[c][v].w
                         /\ pte'[c][v].frame = IF v \in shared THEN pte[running][v].frame
                                               ELSE NoFrame
  <2>1. pte' \in Tables
    <3>1. \A v \in Page : pte[running][v] \in Entry
      BY <1>0 DEF Tables
    <3>2. SetWrite(pte[running], shared, FALSE) \in [Page -> Entry]
      BY <3>1 DEF SetWrite, Entry
    <3>3. [v \in Page |-> IF v \in shared THEN [frame |-> pte[running][v].frame, w |-> FALSE]
                                          ELSE Absent] \in [Page -> Entry]
      BY <3>1 DEF Entry, Absent
    <3>4. QED
      BY <1>0, <1>2, <3>2, <3>3 DEF Tables
  <2>2. ASSUME NEW q \in Procs \ {c}, NEW v \in Page
        PROVE  pte'[q][v].frame = pte[q][v].frame /\ (pte'[q][v].w => pte[q][v].w)
    BY <1>0, <1>2 DEF Tables, SetWrite, Entry
  <2>3. ASSUME NEW v \in shared
        PROVE  ~pte'[running][v].w
    BY <1>0, <1>2 DEF Tables, SetWrite
  <2>4. ASSUME NEW v \in Page
        PROVE  /\ ~pte'[c][v].w
               /\ pte'[c][v].frame = IF v \in shared THEN pte[running][v].frame ELSE NoFrame
    BY <1>0, <1>2 DEF Tables, Absent
  <2>5. QED
    BY <2>1, <2>2, <2>3, <2>4
<1>4. ASSUME NEW f \in Frames
      PROVE  ref'[f] = Cardinality(MappersIn(pte', f)) /\ ref'[f] \in Nat
  <2>1. ref'[f] = ref[f] + Cardinality({v \in shared : pte[running][v].frame = f})
    BY <1>1 DEF Get
  <2>2. ref[f] = Cardinality(MappersIn(pte, f))
    BY DEF IInv, RefCountsExact, Mappers
  <2>3. Cardinality(MappersIn(pte', f))
          = Cardinality(MappersIn(pte, f)) + Cardinality({v \in shared : pte[running][v].frame = f})
    <3>1. Shares(pte, pte', running, c, shared)
      BY <1>0, <1>3 DEF Shares
    <3>2. pte' \in Tables
      BY <1>3
    <3>3. QED
      BY <1>0, <3>1, <3>2, ShareCount
  <2>4. QED
    BY <2>1, <2>2, <2>3, MappersFinite
<1>5. RefCountsExact'
  BY <1>4 DEF RefCountsExact, Mappers
<1>6. WritableIsExclusive'
  <2> SUFFICES ASSUME NEW p \in Procs, NEW q \in Procs, NEW x \in Page, NEW u \in Page,
                      pte'[p][x].frame # NoFrame, pte'[p][x].w,
                      pte'[q][u].frame = pte'[p][x].frame
               PROVE  p = q /\ x = u
    BY DEF WritableIsExclusive, Present
  <2>1. p # c /\ pte[p][x].frame = pte'[p][x].frame /\ pte[p][x].w
    BY <1>3
  <2>2. CASE q # c
    BY <1>3, <2>1, <2>2 DEF IInv, WritableIsExclusive, Present
  <2>3. CASE q = c
    <3>1. u \in shared /\ pte[running][u].frame = pte[p][x].frame
      BY <1>3, <2>1, <2>3
    <3>2. p = running /\ x = u
      BY <1>0, <2>1, <3>1 DEF IInv, WritableIsExclusive, Present
    <3>3. QED
      BY <1>3, <3>1, <3>2
  <2>4. QED
    BY <2>2, <2>3
<1>7. TypeOK'
  <2>1. ref' \in [Frames -> Nat]
    BY <1>1, <1>4 DEF Get
  <2>2. Empty \in [Page -> Entry]
    BY DEF Empty, Entry, Absent
  <2>3. tlb' \in [Page -> Entry]
    BY <1>1, <2>2 DEF IInv, TypeOK
  <2>4. QED
    BY <1>1, <1>3, <2>1, <2>3 DEF IInv, TypeOK, Tables
<1>8. FreeSlotsEmpty'
  BY <1>0, <1>1, <1>2 DEF IInv, TypeOK, FreeSlotsEmpty, Tables
<1>9. QED
  BY <1>5, <1>6, <1>7, <1>8 DEF IInv
------------------------------------------------------------------------------
\* Nothing else touches tables or counts.
LEMMA OtherStep ==
  ASSUME IInv, UNCHANGED <<pte, ref>>, TypeOK',
         \A p \in Procs : p \in live => p \in live'
  PROVE  IInv'
BY DEF IInv, FreeSlotsEmpty, RefCountsExact, Mappers, WritableIsExclusive, Present

LEMMA IInvInit == Init => IInv
<1> SUFFICES ASSUME Init PROVE IInv
  OBVIOUS
<1>1. \A p \in Procs, v \in Page : pte[p][v] = Absent
  BY DEF Init, Empty
<1>2. TypeOK
  BY DEF Init, TypeOK, Empty, Entry, Absent
<1>3. FreeSlotsEmpty
  BY DEF Init, FreeSlotsEmpty
<1>4. RefCountsExact
  <2>1. ASSUME NEW f \in Frames
        PROVE  MappersIn(pte, f) = {}
    BY <1>1, CowAssumption DEF MappersIn, Absent
  <2>2. QED
    BY <2>1, FS_EmptySet DEF Init, RefCountsExact, Mappers
<1>5. WritableIsExclusive
  BY <1>1 DEF WritableIsExclusive, Present, Absent
<1>6. QED
  BY <1>2, <1>3, <1>4, <1>5 DEF IInv

LEMMA IInvStep == IInv /\ [Next]_vars => IInv'
<1> SUFFICES ASSUME IInv, [Next]_vars PROVE IInv'
  OBVIOUS
<1>1. CASE Call
  <2>1. ASSUME NEW addr, NEW length, NEW prot, Mmap(addr, length, prot)
        PROVE  IInv'
    BY <2>1, OtherStep DEF Mmap, IInv, TypeOK
  <2>2. QED
    BY <1>1, <2>1, MunmapStep, MprotectStep DEF Call
<1>2. CASE Fault
  BY <1>2, DemandFaultStep, CowCopyStep, CowReuseStep DEF Fault
<1>3. CASE Instruction
  <2>1. ASSUME NEW v \in Page, Read(v)
        PROVE  IInv'
    <3>1. tlb' \in [Page -> Entry]
      BY <2>1 DEF Read, IInv, TypeOK
    <3>2. QED
      BY <2>1, <3>1, OtherStep DEF Read, IInv, TypeOK
  <2>2. ASSUME NEW v \in Page, NEW x \in Values, Write(v, x)
        PROVE  IInv'
    <3>1. PICK entry \in {tlb[v], pte[running][v]} :
            /\ data' = [data EXCEPT ![entry.frame] = x]
            /\ tlb' = [tlb EXCEPT ![v] = entry]
            /\ UNCHANGED <<running, live, areas, pte, ref>>
      BY <2>2 DEF Write
    <3>2. entry \in Entry
      BY DEF IInv, TypeOK
    <3>3. TypeOK'
      BY <3>1, <3>2 DEF IInv, TypeOK
    <3>4. QED
      BY <3>1, <3>3, OtherStep
  <2>3. QED
    BY <1>3, <2>1, <2>2 DEF Instruction
<1>4. CASE Process
  <2>1. ASSUME NEW q \in Procs, Switch(q)
        PROVE  IInv'
    <3>1. Empty \in [Page -> Entry]
      BY DEF Empty, Entry, Absent
    <3>2. QED
      BY <2>1, <3>1, OtherStep DEF Switch, IInv, TypeOK
  <2>2. QED
    BY <1>4, <2>1, CforkStep, ExitStep DEF Process
<1>5. CASE UNCHANGED vars
  BY <1>5, OtherStep DEF vars, IInv, TypeOK
<1>6. QED
  BY <1>1, <1>2, <1>3, <1>4, <1>5 DEF Next
------------------------------------------------------------------------------
\* The states of v2p.c's tables and counts are always well-formed.
THEOREM TypesCorrect == Spec => []TypeOK
<1>1. IInv => TypeOK
  BY DEF IInv
<1>2. QED
  BY <1>1, IInvInit, IInvStep, PTL DEF Spec

\* Every reference count is the number of entries with the frame: no frame is
\* freed in use, none leaks, whatever munmap, cfork, exit and copy-on-write do.
THEOREM CountsAreExact == Spec => []RefCountsExact
<1>1. IInv => RefCountsExact
  BY DEF IInv
<1>2. QED
  BY <1>1, IInvInit, IInvStep, PTL DEF Spec

\* A page that can be written shares its frame with no page of any process,
\* with or without stale translations, and although page_table_walk ignores the
\* access of the area.
THEOREM WritersAreAlone == Spec => []WritableIsExclusive
<1>1. IInv => WritableIsExclusive
  BY DEF IInv
<1>2. QED
  BY <1>1, IInvInit, IInvStep, PTL DEF Spec
------------------------------------------------------------------------------
\* Every step that moves a page to another frame, or takes its frame away, also
\* drops its translation.
LEMMA TlbStep == IInv /\ TlbFollowsTable /\ [Next]_vars => TlbFollowsTable'
<1> SUFFICES ASSUME IInv, TlbFollowsTable, [Next]_vars, NEW v \in Page,
                    tlb'[v].frame # NoFrame
             PROVE  tlb'[v].frame = pte'[running'][v].frame
  BY DEF TlbFollowsTable
<1>0. /\ running \in Procs /\ pte \in Tables /\ tlb \in [Page -> Entry]
      /\ tlb[v].frame # NoFrame => tlb[v].frame = pte[running][v].frame
  BY DEF IInv, TypeOK, Tables, TlbFollowsTable
<1>1. CASE Call
  <2>1. ASSUME NEW addr, NEW length, NEW prot, Mmap(addr, length, prot)
        PROVE  tlb'[v].frame = pte'[running'][v].frame
    BY <1>0, <2>1 DEF Mmap
  <2>2. ASSUME NEW addr, NEW length, Munmap(addr, length)
        PROVE  tlb'[v].frame = pte'[running'][v].frame
    BY <1>0, <2>2 DEF Munmap, Drop, Absent, Tables
  <2>3. ASSUME NEW addr, NEW length, NEW prot, Mprotect(addr, length, prot)
        PROVE  tlb'[v].frame = pte'[running'][v].frame
    BY <1>0, <2>3 DEF Mprotect, Drop, Absent, SetWrite, Tables
  <2>4. QED
    BY <1>1, <2>1, <2>2, <2>3 DEF Call
<1>2. CASE Fault
  <2>1. ASSUME NEW u \in Page, NEW f \in Frames, DemandFault(u, f) \/ CowCopy(u, f)
        PROVE  tlb'[v].frame = pte'[running'][v].frame
    BY <1>0, <2>1 DEF DemandFault, CowCopy, WriteFault, Forget, Absent, Tables
  <2>2. ASSUME NEW u \in Page, CowReuse(u)
        PROVE  tlb'[v].frame = pte'[running'][v].frame
    BY <1>0, <2>2 DEF CowReuse, WriteFault, Forget, Absent, SetWrite, Tables
  <2>3. QED
    BY <1>2, <2>1, <2>2 DEF Fault
<1>3. CASE Instruction
  BY <1>0, <1>3 DEF Instruction, Read, Write
<1>4. CASE Process
  <2>1. ASSUME NEW c \in Procs, Cfork(c)
        PROVE  tlb'[v].frame = pte'[running'][v].frame
    <3>1. c # running
      BY <2>1 DEF Cfork, IInv, TypeOK
    <3>2. tlb'[v] = tlb[v]
      BY <2>1 DEF Cfork, Empty, Absent
    <3>3. running' = running /\ pte'[running] = SetWrite(pte[running], Inherited(running), FALSE)
      BY <1>0, <2>1, <3>1 DEF Cfork, Tables
    <3>4. pte'[running'][v].frame = pte[running][v].frame
      BY <3>3 DEF SetWrite
    <3>5. QED
      BY <1>0, <3>2, <3>4
  <2>2. ASSUME NEW q \in Procs, Switch(q) \/ Exit(q)
        PROVE  tlb'[v].frame = pte'[running'][v].frame
    BY <2>2 DEF Switch, Exit, Empty, Absent
  <2>3. QED
    BY <1>4, <2>1, <2>2 DEF Process
<1>5. CASE UNCHANGED vars
  BY <1>0, <1>5 DEF vars
<1>6. QED
  BY <1>1, <1>2, <1>3, <1>4, <1>5 DEF Next

\* No cached translation leads to a frame the page has given up, even if cfork
\* leaves the cache alone: a freed frame cannot be reached through it.
THEOREM NoDanglingTranslation == Spec => []TlbFollowsTable
<1>1. Init => TlbFollowsTable
  BY DEF Init, TlbFollowsTable, Empty, Absent
<1>2. QED
  BY <1>1, IInvInit, IInvStep, TlbStep, PTL DEF Spec
------------------------------------------------------------------------------
(* Copy-on-write is invisible *)

\* A page the processor may write without asking may be written.
TlbAsksForWrite ==
  \A v \in Page : tlb[v].frame # NoFrame /\ tlb[v].w => pte[running][v].w

\* The inductive invariant.
PInv == IInv /\ TlbFollowsTable /\ TlbAsksForWrite

Mem == [p \in Procs |-> [v \in Page |-> Seen(p, v)]]
------------------------------------------------------------------------------
LEMMA PInvInit == Init => PInv
<1>1. Init => TlbFollowsTable /\ TlbAsksForWrite
  BY DEF Init, TlbFollowsTable, TlbAsksForWrite, Empty, Absent
<1>2. QED
  BY <1>1, IInvInit DEF PInv

LEMMA AskStep ==
  ~TlbMayBeStale /\ IInv /\ TlbAsksForWrite /\ [Next]_vars => TlbAsksForWrite'
<1> SUFFICES ASSUME ~TlbMayBeStale, IInv, TlbAsksForWrite, [Next]_vars, NEW v \in Page,
                    tlb'[v].frame # NoFrame, tlb'[v].w
             PROVE  pte'[running'][v].w
  BY DEF TlbAsksForWrite
<1>0. /\ running \in Procs /\ pte \in Tables /\ tlb \in [Page -> Entry]
      /\ tlb[v].frame # NoFrame /\ tlb[v].w => pte[running][v].w
  BY DEF IInv, TypeOK, Tables, TlbAsksForWrite
<1>1. CASE Call
  <2>1. ASSUME NEW addr, NEW length, NEW prot, Mmap(addr, length, prot)
        PROVE  pte'[running'][v].w
    BY <1>0, <2>1 DEF Mmap
  <2>2. ASSUME NEW addr, NEW length, Munmap(addr, length)
        PROVE  pte'[running'][v].w
    BY <1>0, <2>2 DEF Munmap, Drop, Absent, Tables
  <2>3. ASSUME NEW addr, NEW length, NEW prot, Mprotect(addr, length, prot)
        PROVE  pte'[running'][v].w
    BY <1>0, <2>3 DEF Mprotect, Drop, Absent, SetWrite, Tables
  <2>4. QED
    BY <1>1, <2>1, <2>2, <2>3 DEF Call
<1>2. CASE Fault
  <2>1. ASSUME NEW u \in Page, NEW f \in Frames, DemandFault(u, f) \/ CowCopy(u, f)
        PROVE  pte'[running'][v].w
    BY <1>0, <2>1 DEF DemandFault, CowCopy, WriteFault, Forget, Absent, Tables
  <2>2. ASSUME NEW u \in Page, CowReuse(u)
        PROVE  pte'[running'][v].w
    BY <1>0, <2>2 DEF CowReuse, WriteFault, Forget, Absent, SetWrite, Tables
  <2>3. QED
    BY <1>2, <2>1, <2>2 DEF Fault
<1>3. CASE Instruction
  <2>1. ASSUME NEW u \in Page, Read(u)
        PROVE  pte'[running'][v].w
    BY <1>0, <2>1 DEF Read
  <2>2. ASSUME NEW u \in Page, NEW x \in Values, Write(u, x)
        PROVE  pte'[running'][v].w
    BY <1>0, <2>2 DEF Write
  <2>3. QED
    BY <1>3, <2>1, <2>2 DEF Instruction
<1>4. CASE Process
  <2>1. tlb' = Empty
    BY <1>4 DEF Process, Cfork, Switch, Exit
  <2>2. QED
    BY <2>1 DEF Empty, Absent
<1>5. CASE UNCHANGED vars
  BY <1>0, <1>5 DEF vars
<1>6. QED
  BY <1>1, <1>2, <1>3, <1>4, <1>5 DEF Next

LEMMA PInvStep == ~TlbMayBeStale /\ PInv /\ [Next]_vars => PInv'
BY IInvStep, TlbStep, AskStep DEF PInv
------------------------------------------------------------------------------
\* What a process finds at a page is a value or nothing.
LEMMA SeenValue ==
  ASSUME IInv, NEW p \in Procs, NEW v \in Page, Present(p, v)
  PROVE  /\ pte[p][v].frame \in Frames
         /\ Seen(p, v) = data[pte[p][v].frame]
         /\ Seen(p, v) \in Values
         /\ Seen(p, v) # NoFrame
<1>1. pte[p][v].frame \in Frames
  BY DEF IInv, TypeOK, Entry, Present
<1>2. QED
  BY <1>1, CowAssumption DEF IInv, TypeOK, Seen

\* Write bits and translations do not show.
LEMMA NothingMoves ==
  ASSUME data' = data, \A p \in Procs, v \in Page : pte'[p][v].frame = pte[p][v].frame
  PROVE  Mem' = Mem
BY DEF Mem, Seen, Present

LEMMA ReadsStutter ==
  ASSUME IInv, NEW v \in Page, Read(v)
  PROVE  Mem' = Mem
BY NothingMoves DEF Read

LEMMA MprotectStutters ==
  ASSUME IInv, NEW addr, NEW length, NEW prot, Mprotect(addr, length, prot)
  PROVE  Mem' = Mem
<1> DEFINE walk == Protect(areas[running], addr, addr + length, prot)
           reached == UNION {Reached(walk.regions[i][1], walk.regions[i][2]) :
                               i \in DOMAIN walk.regions}
<1>1. pte' = [pte EXCEPT ![running] = SetWrite(@, reached, prot = ReadWrite)] /\ data' = data
  BY DEF Mprotect
<1>2. running \in Procs /\ pte \in Tables
  BY DEF IInv, TypeOK, Tables
<1> HIDE DEF walk, reached
<1>3. \A p \in Procs, v \in Page : pte'[p][v].frame = pte[p][v].frame
  BY <1>1, <1>2 DEF SetWrite, Tables
<1>4. QED
  BY <1>1, <1>3, NothingMoves

LEMMA CowReuseStutters ==
  ASSUME IInv, NEW v \in Page, CowReuse(v)
  PROVE  Mem' = Mem
<1>1. running \in Procs /\ pte \in Tables
  BY DEF IInv, TypeOK, Tables
<1>2. \A p \in Procs, u \in Page : pte'[p][u].frame = pte[p][u].frame
  BY <1>1 DEF CowReuse, SetWrite, Tables
<1>3. QED
  BY <1>2, NothingMoves DEF CowReuse

\* The copy has what the frame it replaces had, and nobody else had the frame.
LEMMA CowCopyStutters ==
  ASSUME IInv, NEW v \in Page, NEW f \in Frames, CowCopy(v, f)
  PROVE  Mem' = Mem
<1> DEFINE old == pte[running][v].frame
<1>1. /\ running \in Procs /\ pte \in Tables /\ data \in [Frames -> Values]
      /\ f \in FreeFrames /\ Present(running, v)
  BY DEF IInv, TypeOK, Tables, CowCopy, WriteFault
<1>2. /\ pte' = [pte EXCEPT ![running][v] = [frame |-> f, w |-> TRUE]]
      /\ data' = [data EXCEPT ![f] = data[old]]
  BY DEF CowCopy
<1>3. f # NoFrame /\ old \in Frames
  BY <1>1, SeenValue, CowAssumption
<1>4. ASSUME NEW p \in Procs, NEW u \in Page
      PROVE  Seen(p, u)' = Seen(p, u)
  <2>1. CASE p = running /\ u = v
    <3>1. pte'[p][u].frame = f /\ data'[f] = data[old]
      BY <1>1, <1>2, <2>1 DEF Tables
    <3>2. QED
      BY <1>1, <1>3, <2>1, <3>1 DEF Seen, Present
  <2>2. CASE ~(p = running /\ u = v)
    <3>1. pte'[p][u] = pte[p][u]
      BY <1>1, <1>2, <2>2 DEF Tables
    <3>2. pte[p][u].frame # f
      BY <1>1, FreeUnmapped
    <3>3. Present(p, u) => pte[p][u].frame \in Frames
      BY SeenValue
    <3>4. Present(p, u) => data'[pte[p][u].frame] = data[pte[p][u].frame]
      BY <1>1, <1>2, <3>2, <3>3
    <3>5. QED
      BY <3>1, <3>4 DEF Seen, Present
  <2>3. QED
    BY <2>1, <2>2
<1>5. QED
  BY <1>4 DEF Mem
------------------------------------------------------------------------------
\* A first touch brings a page to life with what the frame last held.
LEMMA DemandFaultPopulates ==
  ASSUME IInv, NEW v \in Page, NEW f \in Frames, DemandFault(v, f)
  PROVE  \E p \in Procs, u \in Page, x \in Values : Private!Populate(p, u, x)
<1>1. /\ running \in Procs /\ pte \in Tables /\ data[f] \in Values
      /\ f \in FreeFrames /\ ~Present(running, v) /\ data' = data
  BY DEF IInv, TypeOK, Tables, DemandFault
<1>2. PICK w \in BOOLEAN : pte' = [pte EXCEPT ![running][v] = [frame |-> f, w |-> w]]
  BY DEF DemandFault, EntryWritable
<1>3. f # NoFrame
  BY CowAssumption
<1>4. Seen(running, v) = NoFrame
  BY <1>1 DEF Seen
<1>5. ASSUME NEW p \in Procs, NEW u \in Page
      PROVE  Seen(p, u)' = IF p = running /\ u = v THEN data[f] ELSE Seen(p, u)
  <2>1. pte'[p][u].frame = IF p = running /\ u = v THEN f ELSE pte[p][u].frame
    BY <1>1, <1>2 DEF Tables
  <2>2. QED
    BY <1>1, <1>3, <2>1 DEF Seen, Present
<1>6. Mem' = [Mem EXCEPT ![running][v] = data[f]]
  BY <1>1, <1>5 DEF Mem
<1>7. Private!Populate(running, v, data[f])
  BY <1>1, <1>4, <1>6 DEF Private!Populate, Mem
<1>8. QED
  BY <1>1, <1>7

\* Pages that are given back leave their process and no other.
LEMMA GivingDiscards ==
  ASSUME IInv, NEW S \in SUBSET Page, data' = data,
         \A q \in Procs \ {running} : pte'[q] = pte[q],
         \A v \in Page : pte'[running][v].frame
                           = IF v \in S THEN NoFrame ELSE pte[running][v].frame
  PROVE  \E p \in Procs, T \in SUBSET Page : Private!Discard(p, T)
<1>1. running \in Procs
  BY DEF IInv, TypeOK
<1>2. ASSUME NEW p \in Procs, NEW v \in Page
      PROVE  Seen(p, v)' = IF p = running /\ v \in S THEN NoFrame ELSE Seen(p, v)
  BY <1>1 DEF Seen, Present
<1>3. Mem' = [Mem EXCEPT ![running] = [v \in Page |-> IF v \in S THEN NoFrame ELSE @[v]]]
  BY <1>1, <1>2 DEF Mem
<1>4. Private!Discard(running, S)
  BY <1>3 DEF Private!Discard, Mem
<1>5. QED
  BY <1>1, <1>4

LEMMA MunmapDiscards ==
  ASSUME IInv, NEW addr, NEW length, Munmap(addr, length)
  PROVE  \E p \in Procs, T \in SUBSET Page : Private!Discard(p, T)
<1> DEFINE gone == {v \in CoveredPages(areas[running], addr, addr + length) \cap Page :
                      Present(running, v)}
<1>1. running \in Procs /\ pte \in Tables
  BY DEF IInv, TypeOK, Tables
<1>2. pte' = [pte EXCEPT ![running] = Drop(@, gone)] /\ data' = data
  BY DEF Munmap
<1>3. gone \in SUBSET Page
  OBVIOUS
<1> HIDE DEF gone
<1>4. \A q \in Procs \ {running} : pte'[q] = pte[q]
  BY <1>1, <1>2 DEF Tables
<1>5. \A v \in Page : pte'[running][v].frame
                        = IF v \in gone THEN NoFrame ELSE pte[running][v].frame
  BY <1>1, <1>2 DEF Tables, Drop, Absent
<1>6. QED
  BY <1>2, <1>3, <1>4, <1>5, GivingDiscards

LEMMA ExitDiscards ==
  ASSUME IInv, NEW q \in Procs, Exit(q)
  PROVE  \E p \in Procs, T \in SUBSET Page : Private!Discard(p, T)
<1>1. running \in Procs /\ pte \in Tables
  BY DEF IInv, TypeOK, Tables
<1>2. pte' = [pte EXCEPT ![running] = Empty] /\ data' = data
  BY DEF Exit
<1>3. \A p \in Procs \ {running} : pte'[p] = pte[p]
  BY <1>1, <1>2 DEF Tables
<1>4. \A v \in Page : pte'[running][v].frame
                        = IF v \in Page THEN NoFrame ELSE pte[running][v].frame
  BY <1>1, <1>2 DEF Tables, Empty, Absent
<1>5. QED
  BY <1>2, <1>3, <1>4, GivingDiscards

\* The child starts with what its parent had at the pages it may use.
LEMMA CforkClones ==
  ASSUME IInv, NEW c \in Procs, Cfork(c)
  PROVE  \E p \in Procs, d \in Procs, S \in SUBSET Page : Private!Clone(p, d, S)
<1> DEFINE shared == Inherited(running)
<1>1. /\ running \in Procs /\ pte \in Tables /\ shared \in SUBSET Page
      /\ c # running /\ pte[c] = Empty /\ data' = data
  BY DEF IInv, TypeOK, FreeSlotsEmpty, Tables, Inherited, Cfork
<1>2. pte' = [pte EXCEPT ![running] = SetWrite(@, shared, FALSE),
                         ![c] = [v \in Page |->
                                   IF v \in shared
                                   THEN [frame |-> pte[running][v].frame, w |-> FALSE]
                                   ELSE Absent]]
  BY DEF Cfork
<1> HIDE DEF shared
<1>3. \A v \in Page : Seen(c, v) = NoFrame
  BY <1>1 DEF Seen, Present, Empty, Absent
<1>4. ASSUME NEW p \in Procs \ {c}, NEW v \in Page
      PROVE  Seen(p, v)' = Seen(p, v)
  <2>1. pte'[p][v].frame = pte[p][v].frame
    BY <1>1, <1>2 DEF Tables, SetWrite
  <2>2. QED
    BY <1>1, <2>1 DEF Seen, Present
<1>5. ASSUME NEW v \in Page
      PROVE  Seen(c, v)' = IF v \in shared THEN Seen(running, v) ELSE NoFrame
  <2>1. pte'[c][v].frame = IF v \in shared THEN pte[running][v].frame ELSE NoFrame
    BY <1>1, <1>2 DEF Tables, Absent
  <2>2. QED
    BY <1>1, <2>1 DEF Seen, Present
<1>6. Mem' = [Mem EXCEPT ![c] = [v \in Page |-> IF v \in shared THEN Mem[running][v]
                                                ELSE NoFrame]]
  BY <1>1, <1>4, <1>5 DEF Mem
<1>7. Mem[c] = [v \in Page |-> NoFrame]
  BY <1>3 DEF Mem
<1>8. Private!Clone(running, c, shared)
  BY <1>1, <1>6, <1>7 DEF Private!Clone, Private!NoMemory, Mem
<1>9. QED
  BY <1>1, <1>8

\* A write reaches the one page whose frame it changes.
LEMMA WriteWrites ==
  ASSUME PInv, NEW v \in Page, NEW x \in Values, Write(v, x)
  PROVE  \E p \in Procs, u \in Page, y \in Values : Private!Write(p, u, y)
<1>1. /\ running \in Procs /\ pte \in Tables /\ data \in [Frames -> Values]
      /\ IInv
  BY DEF PInv, IInv, TypeOK, Tables
<1>2. PICK entry \in {tlb[v], pte[running][v]} :
        /\ entry.frame # NoFrame
        /\ entry.w
        /\ data' = [data EXCEPT ![entry.frame] = x]
        /\ pte' = pte
  BY DEF Write
<1> DEFINE f == pte[running][v].frame
<1>3. entry.frame = f /\ pte[running][v].w
  BY <1>2 DEF PInv, TlbFollowsTable, TlbAsksForWrite
<1>4. Present(running, v) /\ f \in Frames /\ Seen(running, v) # NoFrame
  BY <1>1, <1>2, <1>3, SeenValue DEF Present
<1>5. ASSUME NEW p \in Procs, NEW u \in Page
      PROVE  Seen(p, u)' = IF p = running /\ u = v THEN x ELSE Seen(p, u)
  <2>1. CASE p = running /\ u = v
    BY <1>1, <1>2, <1>3, <1>4, <2>1 DEF Seen, Present
  <2>2. CASE ~(p = running /\ u = v)
    <3>1. pte[p][u].frame # f
      BY <1>1, <1>3, <1>4, <2>2 DEF IInv, WritableIsExclusive
    <3>2. Present(p, u) => pte[p][u].frame \in Frames
      BY <1>1, SeenValue
    <3>3. Present(p, u) => data'[pte[p][u].frame] = data[pte[p][u].frame]
      BY <1>1, <1>2, <1>3, <3>1, <3>2
    <3>4. QED
      BY <1>2, <2>2, <3>3 DEF Seen, Present
  <2>3. QED
    BY <2>1, <2>2
<1>6. Mem' = [Mem EXCEPT ![running][v] = x]
  BY <1>1, <1>5 DEF Mem
<1>7. Private!Write(running, v, x)
  BY <1>1, <1>4, <1>6 DEF Private!Write, Mem
<1>8. QED
  BY <1>1, <1>7
------------------------------------------------------------------------------
LEMMA StepIsPrivate == PInv /\ [Next]_vars => [Private!Next]_Mem
<1> SUFFICES ASSUME PInv, [Next]_vars PROVE Private!Next \/ Mem' = Mem
  OBVIOUS
<1>0. IInv
  BY DEF PInv
<1>1. CASE Call
  <2>1. ASSUME NEW addr, NEW length, NEW prot, Mmap(addr, length, prot)
        PROVE  Mem' = Mem
    BY <2>1, NothingMoves DEF Mmap
  <2>2. ASSUME NEW addr, NEW length, Munmap(addr, length)
        PROVE  Private!Next
    BY <1>0, <2>2, MunmapDiscards DEF Private!Next
  <2>3. ASSUME NEW addr, NEW length, NEW prot, Mprotect(addr, length, prot)
        PROVE  Mem' = Mem
    BY <1>0, <2>3, MprotectStutters
  <2>4. QED
    BY <1>1, <2>1, <2>2, <2>3 DEF Call
<1>2. CASE Fault
  <2>1. ASSUME NEW v \in Page, NEW f \in Frames, DemandFault(v, f)
        PROVE  Private!Next
    BY <1>0, <2>1, DemandFaultPopulates DEF Private!Next
  <2>2. QED
    BY <1>0, <1>2, <2>1, CowCopyStutters, CowReuseStutters DEF Fault
<1>3. CASE Instruction
  <2>1. ASSUME NEW v \in Page, NEW x \in Values, Write(v, x)
        PROVE  Private!Next
    BY <2>1, WriteWrites DEF Private!Next
  <2>2. QED
    BY <1>0, <1>3, <2>1, ReadsStutter DEF Instruction
<1>4. CASE Process
  <2>1. ASSUME NEW c \in Procs, Cfork(c)
        PROVE  Private!Next
    BY <1>0, <2>1, CforkClones DEF Private!Next
  <2>2. ASSUME NEW q \in Procs, Switch(q)
        PROVE  Mem' = Mem
    BY <2>2, NothingMoves DEF Switch
  <2>3. ASSUME NEW q \in Procs, Exit(q)
        PROVE  Private!Next
    BY <1>0, <2>3, ExitDiscards DEF Private!Next
  <2>4. QED
    BY <1>4, <2>1, <2>2, <2>3 DEF Process
<1>5. CASE UNCHANGED vars
  BY <1>5, NothingMoves DEF vars
<1>6. QED
  BY <1>1, <1>2, <1>3, <1>4, <1>5 DEF Next

LEMMA InitIsPrivate == Init => Private!Init
<1> SUFFICES ASSUME Init PROVE Private!Init
  OBVIOUS
<1>1. \A p \in Procs, v \in Page : Seen(p, v) = NoFrame
  BY DEF Init, Seen, Present, Empty, Absent
<1>2. QED
  BY <1>1 DEF Private!Init, Private!NoMemory

\* Every process behaves as if it had a memory of its own: faults, mprotect and
\* switches do not show, munmap and exit take pages away from one process, a
\* write changes one page, and cfork copies, provided the processor does not
\* keep translations across cfork.
THEOREM ForkIsPrivate ==
  ASSUME ~TlbMayBeStale
  PROVE  Spec => ProcessesArePrivate
<1>1. PInv /\ [Next]_vars => PInv'
  BY PInvStep
<1>2. PInv /\ [Next]_vars => [Private!Next]_[p \in Procs |-> [v \in Page |-> Seen(p, v)]]
  BY StepIsPrivate DEF Mem
<1>3. QED
  BY <1>1, <1>2, PInvInit, InitIsPrivate, PTL DEF Spec, ProcessesArePrivate, Private!Spec
------------------------------------------------------------------------------
\* Only cfork makes a process.
LEMMA OnlyCforkMakes ==
  ASSUME Next, NEW c \in live' \ live
  PROVE  Cfork(c)
<1>1. CASE Call
  <2>1. ASSUME NEW addr, NEW length, NEW prot, Mmap(addr, length, prot) \/ Mprotect(addr, length, prot)
        PROVE  live' = live
    <3>1. CASE Mmap(addr, length, prot)
      BY <3>1 DEF Mmap
    <3>2. CASE Mprotect(addr, length, prot)
      BY <3>2 DEF Mprotect
    <3>3. QED
      BY <2>1, <3>1, <3>2
  <2>2. \A addr, length : Munmap(addr, length) => live' = live
    BY Zenon DEF Munmap
  <2>3. live' = live
    BY <1>1, <2>1, <2>2, Zenon DEF Call
  <2>4. QED
    BY <2>3
<1>2. CASE Fault
  BY <1>2 DEF Fault, DemandFault, CowCopy, CowReuse, WriteFault
<1>3. CASE Instruction
  BY <1>3 DEF Instruction, Read, Write
<1>4. CASE Process
  BY <1>4 DEF Process, Cfork, Switch, Exit
<1>5. QED
  BY <1>1, <1>2, <1>3, <1>4 DEF Next

LEMMA ChildStep ==
  ASSUME IInv, Next, NEW c \in live' \ live, NEW v \in Page, Access(running, v) # NoAccess
  PROVE  Seen(c, v)' = Seen(running, v)
<1>1. Cfork(c) /\ c \in Procs
  BY OnlyCforkMakes DEF Cfork
<1>2. running \in Procs /\ pte \in Tables /\ c # running /\ data' = data
  BY <1>1 DEF IInv, TypeOK, Tables, Cfork
<1>3. pte'[c][v].frame = pte[running][v].frame
  <2>1. pte'[c][v] = IF v \in Inherited(running)
                     THEN [frame |-> pte[running][v].frame, w |-> FALSE] ELSE Absent
    BY <1>1, <1>2 DEF Cfork, Tables
  <2>2. v \in Inherited(running) <=> Present(running, v)
    BY DEF Inherited
  <2>3. QED
    BY <2>1, <2>2 DEF Absent, Present
<1>4. QED
  BY <1>2, <1>3 DEF Seen, Present

\* A child finds at every page its parent may use what the parent found there,
\* with or without stale translations: create_page_table_entries is called for
\* every area and segment.
THEOREM ChildrenInherit == Spec => ChildSeesParentsMemory
<1>1. IInv /\ [Next]_vars =>
        [\A c \in live' \ live, v \in Page :
           Access(running, v) # NoAccess => Seen(c, v)' = Seen(running, v)]_vars
  BY ChildStep
<1>2. QED
  BY <1>1, IInvInit, IInvStep, PTL DEF Spec, ChildSeesParentsMemory
==============================================================================
