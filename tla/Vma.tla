--------------------------------- MODULE Vma ---------------------------------
(***************************************************************************)
(* The list of memory areas (struct vm_area) that gemOS keeps for a        *)
(* process, and what v2p.c does to it: the pure part of mmap, munmap,      *)
(* mprotect and cfork.  Addresses and lengths are counted in pages, so the *)
(* rounding of a byte length up to whole pages is done already.            *)
(*                                                                         *)
(* A list is a sequence.  Its first element is the dummy area that the     *)
(* first mmap of a process creates and nothing ever removes.               *)
(***************************************************************************)
EXTENDS Integers, Sequences, SequencesExt, FiniteSetsExt

CONSTANTS AreaStart,  \* MMAP_AREA_START, in pages
          AreaEnd     \* MMAP_AREA_END, in pages

ASSUME AreaAssumption == AreaStart \in Nat \ {0} /\ AreaEnd \in Nat

NoAccess  == 0
ReadOnly  == 1        \* PROT_READ
ReadWrite == 3        \* PROT_READ | PROT_WRITE
ValidProt == {ReadOnly, ReadWrite}

Null   == 0           \* mmap's "no hint" address
EINVAL == -1
Success == 0

Area(start, end, prot) == [start |-> start, end |-> end, prot |-> prot]

Dummy == Area(AreaStart, AreaStart + 1, NoAccess)

\* mmap creates the dummy the first time it is called.
WithDummy(areas) == IF areas = <<>> THEN <<Dummy>> ELSE areas

Overlaps(area, lo, hi) == area.start < hi /\ lo < area.end

\* The access a page has according to the list.
ProtOf(areas, page) ==
  LET covering == {i \in DOMAIN areas : Overlaps(areas[i], page, page + 1)}
  IN  IF covering = {} THEN NoAccess
      ELSE areas[CHOOSE i \in covering : TRUE].prot

CoveredPages(areas, lo, hi) == {v \in lo .. hi - 1 : ProtOf(areas, v) # NoAccess}
------------------------------------------------------------------------------
(* Insertion *)

\* The new region [lo, hi) lies in the gap after areas[k]: it is joined with
\* the area on either side that touches it and has the same access.
JoinsLeft(areas, k, lo, prot) == areas[k].end = lo /\ areas[k].prot = prot

\* Mutant of JoinsRight: the area behind is not looked at.
NeverJoinsRight(areas, k, hi, prot) == FALSE

JoinsRight(areas, k, hi, prot) ==
  /\ k < Len(areas)
  /\ areas[k + 1].start = hi
  /\ areas[k + 1].prot = prot

Insert(areas, k, lo, hi, prot) ==
  LET left  == JoinsLeft(areas, k, lo, prot)
      right == JoinsRight(areas, k, hi, prot)
  IN  SubSeq(areas, 1, IF left THEN k - 1 ELSE k)
        \o <<Area(IF left THEN areas[k].start ELSE lo,
                  IF right THEN areas[k + 1].end ELSE hi,
                  prot)>>
        \o SubSeq(areas, IF right THEN k + 2 ELSE k + 1, Len(areas))

FirstIndex(areas, P(_)) ==
  CHOOSE k \in DOMAIN areas :
    P(k) /\ \A j \in 1 .. k - 1 : ~P(j)

Outcome(areas, ret) == [areas |-> areas, ret |-> ret]

\* The lowest gap that is long enough, or the end of the list, which has room
\* without limit: AreaEnd is not looked at.
SearchLowestFree(areas, length, prot) ==
  LET k  == FirstIndex(areas, LAMBDA i : \/ i = Len(areas)
                                         \/ areas[i + 1].start - areas[i].end >= length)
      lo == areas[k].end
  IN  Outcome(Insert(areas, k, lo, lo + length, prot), lo)

\* Where vm_area_map puts a region that overlaps no area.
PlaceOf(areas, lo, hi) ==
  FirstIndex(areas, LAMBDA i : \/ i = Len(areas)
                               \/ areas[i].end <= lo /\ hi <= areas[i + 1].start)

\* The case no branch of vm_area_map handles: there is a gap before the region
\* and an area of the same access right behind it.
MissingCase(areas, lo, hi, prot) ==
  LET k == PlaceOf(areas, lo, hi)
  IN  areas[k].end < lo /\ JoinsRight(areas, k, hi, prot)

MapAt(areas, lo, hi, prot) ==
  IF MissingCase(areas, lo, hi, prot) THEN areas
  ELSE Insert(areas, PlaceOf(areas, lo, hi), lo, hi, prot)

\* Mutant of IsFree: only the first page of the region is looked up.
IsFreeAtStart(areas, lo, hi) == \A i \in DOMAIN areas : ~Overlaps(areas[i], lo, lo + 1)

IsFree(areas, lo, hi) == \A i \in DOMAIN areas : ~Overlaps(areas[i], lo, hi)

\* Mutant of Map: the access asked for is not checked.
MapAnyProt(given, addr, length, prot, fixed) ==
  LET areas == WithDummy(given)
      free  == IsFree(areas, addr, addr + length)
  IN  CASE addr # Null /\ addr \in AreaStart .. AreaEnd /\ free ->
             Outcome(MapAt(areas, addr, addr + length, prot), addr)
        [] ~fixed /\ (addr = Null \/ ~free) -> SearchLowestFree(areas, length, prot)
        [] OTHER -> Outcome(areas, EINVAL)

Map(given, addr, length, prot, fixed) ==
  LET areas == WithDummy(given)
      free  == IsFree(areas, addr, addr + length)
  IN  CASE prot \notin ValidProt -> Outcome(given, EINVAL)
        [] prot \in ValidProt /\ addr = Null /\ ~fixed ->
             SearchLowestFree(areas, length, prot)
        [] prot \in ValidProt /\ addr # Null /\ addr \in AreaStart .. AreaEnd /\ free ->
             Outcome(MapAt(areas, addr, addr + length, prot), addr)
        [] prot \in ValidProt /\ addr # Null /\ addr \in AreaStart .. AreaEnd /\ ~free /\ ~fixed ->
             SearchLowestFree(areas, length, prot)
        [] OTHER -> Outcome(areas, EINVAL)
------------------------------------------------------------------------------
(* Removal *)

\* Mutant of Remainder: the part behind the hole is forgotten.
RemainderBefore(area, lo, hi) ==
  IF area.prot = NoAccess \/ ~Overlaps(area, lo, hi) THEN <<area>>
  ELSE IF area.start < lo THEN <<Area(area.start, lo, area.prot)>> ELSE <<>>

\* What is left of an area when [lo, hi) is taken out of it.
Remainder(area, lo, hi) ==
  IF area.prot = NoAccess \/ ~Overlaps(area, lo, hi) THEN <<area>>
  ELSE   (IF area.start < lo THEN <<Area(area.start, lo, area.prot)>> ELSE <<>>)
      \o (IF hi < area.end THEN <<Area(hi, area.end, area.prot)>> ELSE <<>>)

Unmap(areas, lo, hi) ==
  FlattenSeq([i \in DOMAIN areas |-> Remainder(areas[i], lo, hi)])
------------------------------------------------------------------------------
(* Protection: vm_area_mprotect walks the list and, for every area that    *)
(* meets the range, takes the common part out and maps it again, at its    *)
(* place, with the new access.                                             *)

\* areas: the list so far; regions: the parts handled, in order; done: the end
\* of the last area visited; from: the start of the last part; lost: a part was
\* taken out and not put back; ret: what the call returns.
StartWalk(areas) ==
  [areas |-> areas, regions |-> <<>>, done |-> areas[1].end, from |-> Null,
   lost |-> FALSE, ret |-> Success]

\* The area visited next.  When the last part was joined with the area behind
\* it, vm_next still leads to what that area was.
NextArea(walk) ==
  LET ahead == {i \in DOMAIN walk.areas : walk.areas[i].end > walk.done}
      area  == walk.areas[CHOOSE i \in ahead : \A j \in ahead : i <= j]
  IN  IF ahead = {} THEN <<>>
      ELSE <<Area(IF area.start < walk.from THEN walk.done ELSE area.start,
                  area.end, area.prot)>>

ProtectPart(walk, area, low, high, prot) ==
  LET cut    == Unmap(walk.areas, low, high)
      mapped == Map(cut, low, high - low, prot, TRUE)
  IN  [areas   |-> mapped.areas,
       regions |-> Append(walk.regions, <<low, high>>),
       done    |-> area.end,
       from    |-> low,
       lost    |-> walk.lost \/ mapped.areas = cut,
       ret     |-> IF mapped.ret = EINVAL THEN EINVAL ELSE Success]

ProtectStep(walk, lo, hi, prot) ==
  LET next == NextArea(walk)
      area == next[1]
  IN  IF walk.ret = EINVAL \/ next = <<>> THEN walk
      ELSE IF ~Overlaps(area, lo, hi) THEN [walk EXCEPT !.done = area.end]
      ELSE ProtectPart(walk, area, Max({lo, area.start}), Min({hi, area.end}), prot)

\* One visit for each area behind the dummy; a part that is visited again
\* as an area of its own changes nothing.
Protect(areas, lo, hi, prot) ==
  LET walk[n \in 0 .. Len(areas) - 1] ==
        IF n = 0 THEN StartWalk(areas) ELSE ProtectStep(walk[n - 1], lo, hi, prot)
  IN  IF prot \notin ValidProt THEN [StartWalk(areas) EXCEPT !.ret = EINVAL]
      ELSE walk[Len(areas) - 1]
==============================================================================
