--------------------------- MODULE VmaCalls_proofs ---------------------------
(***************************************************************************)
(* The area list stays sorted, disjoint and merged whatever is mapped,     *)
(* unmapped and protected, and every call does to the pages of the process *)
(* what it promises, for every size of the address space and every length. *)
(* A list keeps its shape when areas between two of its elements are       *)
(* replaced by one that fits there: every loop of v2p.c does that or       *)
(* nothing, once for each area it visits.  What that does to the pages is  *)
(* said of every operation on the list alone (Puts, Takes, Visited) and    *)
(* then read off for the page map.                                         *)
(***************************************************************************)
EXTENDS VmaCalls, ListLemmas

AreaRecords == [start : {n \in Nat : AreaStart <= n}, end : Nat,
                prot : {NoAccess} \cup ValidProt]

\* b may stand right behind a in a list.
Follows(a, b) == a.end <= b.start /\ (a.end = b.start => a.prot # b.prot)

\* A list that some mmap has made.
WellFormed(list) ==
  /\ list \in Seq(AreaRecords)
  /\ list # <<>>
  /\ list[1] = Dummy
  /\ \A i \in 1 .. Len(list) : list[i].start < list[i].end
  /\ \A i \in 2 .. Len(list) : list[i].prot # NoAccess
  /\ \A i \in 2 .. Len(list) : Follows(list[i - 1], list[i])

EndsBy(list, bound) == \A i \in 1 .. Len(list) : list[i].end <= bound

\* An area that can be put into a list.
Mapped(area) == area \in AreaRecords /\ area.start < area.end /\ area.prot # NoAccess
------------------------------------------------------------------------------
LEMMA DummyAlone == WellFormed(<<Dummy>>)
  BY AreaAssumption DEF WellFormed, Dummy, Area, AreaRecords, NoAccess

LEMMA ListFacts ==
  ASSUME NEW list, WellFormed(list)
  PROVE  /\ Len(list) \in Nat \ {0}
         /\ DOMAIN list = 1 .. Len(list)
         /\ \A i \in 1 .. Len(list) : /\ list[i] \in AreaRecords
                                      /\ list[i].start \in Nat /\ list[i].end \in Nat
                                      /\ AreaStart <= list[i].start
                                      /\ list[i].start < list[i].end
<1>1. list \in Seq(AreaRecords) /\ list # <<>>
  BY DEF WellFormed
<1>2. Len(list) \in Nat \ {0} /\ DOMAIN list = 1 .. Len(list)
  BY <1>1
<1>3. \A i \in 1 .. Len(list) : list[i] \in AreaRecords /\ list[i].start < list[i].end
  BY <1>1 DEF WellFormed
<1>4. QED
  BY <1>2, <1>3 DEF AreaRecords

LEMMA SpliceKeepsShape ==
  ASSUME NEW list, WellFormed(list), NEW area, Mapped(area),
         NEW a \in 1 .. Len(list), NEW b \in a + 1 .. Len(list) + 1,
         Follows(list[a], area), b <= Len(list) => Follows(area, list[b])
  PROVE  /\ WellFormed(Splice(list, a, area, b))
         /\ a + 1 \in 1 .. Len(Splice(list, a, area, b))
         /\ Splice(list, a, area, b)[a + 1] = area
         /\ \A bound \in Nat : EndsBy(list, bound) /\ area.end <= bound
                                 => EndsBy(Splice(list, a, area, b), bound)
<1> DEFINE t == Splice(list, a, area, b)
<1>1. list \in Seq(AreaRecords) /\ Len(list) \in Nat /\ area \in AreaRecords
  BY DEF WellFormed, Mapped
<1>2. /\ t \in Seq(AreaRecords)
      /\ Len(t) = a + 2 + Len(list) - b
      /\ \A i \in 1 .. a : t[i] = list[i]
      /\ t[a + 1] = area
      /\ \A i \in a + 2 .. a + 2 + Len(list) - b : t[i] = list[i + b - a - 2]
  <2>1. list \in Seq(AreaRecords) /\ area \in AreaRecords /\ b \in a + 1 .. Len(list) + 1
    BY <1>1
  <2>2. a \in 0 .. Len(list)
    BY <1>1
  <2>3. t \in Seq(AreaRecords) /\ IsSpliced(t, list, a, area, b)
    BY <2>1, <2>2, SpliceElements
  <2> HIDE DEF t
  <2>4. QED
    BY <2>3 DEF IsSpliced
<1> HIDE DEF t
<1>3. /\ a + 1 \in 1 .. Len(t)
      /\ \A i \in a + 2 .. Len(t) : i + b - a - 2 \in b .. Len(list)
      /\ \A i \in 1 .. a : i \in 1 .. Len(list)
  BY <1>1, <1>2
<1>4. \A i \in 1 .. Len(t) : i \in 1 .. a \/ i = a + 1 \/ i \in a + 2 .. Len(t)
  BY <1>1, <1>2
<1>5. \A i \in b .. Len(list) : i \in 2 .. Len(list) /\ i \in 1 .. Len(list)
  BY <1>1
<1>6. t # <<>> /\ t[1] = Dummy
  <2>1. 1 \in 1 .. a /\ Len(t) # 0
    BY <1>1, <1>2
  <2>2. QED
    BY <1>2, <2>1 DEF WellFormed
<1>7. \A i \in 1 .. Len(t) : t[i].start < t[i].end
  BY <1>2, <1>3, <1>4, <1>5 DEF WellFormed, Mapped
<1>8. ASSUME NEW i \in 2 .. Len(t)
      PROVE  t[i].prot # NoAccess
  <2>1. i \in 1 .. Len(t) /\ (i \in 1 .. a => i \in 2 .. Len(list))
    BY <1>1, <1>2
  <2>2. CASE i \in 1 .. a
    BY <1>2, <2>1, <2>2 DEF WellFormed
  <2>3. CASE i = a + 1
    BY <1>2, <2>3 DEF Mapped
  <2>4. CASE i \in a + 2 .. Len(t)
    BY <1>2, <1>3, <1>5, <2>4 DEF WellFormed
  <2>5. QED
    BY <1>4, <2>1, <2>2, <2>3, <2>4
<1>9. ASSUME NEW i \in 2 .. Len(t)
      PROVE  Follows(t[i - 1], t[i])
  <2>1. CASE i \in 1 .. a
    <3>1. i - 1 \in 1 .. a /\ i \in 2 .. Len(list)
      BY <1>1, <2>1
    <3>2. QED
      BY <1>2, <2>1, <3>1 DEF WellFormed
  <2>2. CASE i = a + 1
    <3>1. i - 1 = a /\ a \in 1 .. a
      BY <1>1, <2>2
    <3>2. QED
      BY <1>2, <2>2, <3>1
  <2>3. CASE i = a + 2
    <3>1. /\ i - 1 = a + 1
          /\ i + b - a - 2 = b
          /\ b <= Len(list)
          /\ i \in a + 2 .. a + 2 + Len(list) - b
      BY <1>1, <1>2, <2>3
    <3>2. t[i] = list[b] /\ t[i - 1] = area
      BY <1>2, <3>1
    <3>3. QED
      BY <3>1, <3>2
  <2>4. CASE i \in a + 3 .. Len(t)
    <3>0. Len(t) = a + 2 + Len(list) - b /\ i \in a + 3 .. a + 2 + Len(list) - b
      BY <1>2, <2>4
    <3>1. /\ i \in a + 2 .. a + 2 + Len(list) - b
          /\ i - 1 \in a + 2 .. a + 2 + Len(list) - b
          /\ (i - 1) + b - a - 2 = (i + b - a - 2) - 1
          /\ i + b - a - 2 \in 2 .. Len(list)
      BY <1>1, <3>0
    <3>2. t[i] = list[i + b - a - 2] /\ t[i - 1] = list[(i + b - a - 2) - 1]
      BY <1>2, <3>1
    <3>3. QED
      BY <3>1, <3>2 DEF WellFormed
  <2>5. i \in 1 .. a \/ i = a + 1 \/ i = a + 2 \/ i \in a + 3 .. Len(t)
    BY <1>1, <1>2
  <2>6. QED
    BY <2>1, <2>2, <2>3, <2>4, <2>5
<1>10. ASSUME NEW bound \in Nat, EndsBy(list, bound), area.end <= bound
       PROVE  EndsBy(t, bound)
  BY <1>2, <1>3, <1>4, <1>5, <1>10 DEF EndsBy
<1>11. WellFormed(t)
  BY <1>2, <1>6, <1>7, <1>8, <1>9 DEF WellFormed
<1>12. QED
  BY <1>2, <1>3, <1>10, <1>11 DEF t
------------------------------------------------------------------------------
(* mmap *)

LEMMA InsertKeepsShape ==
  ASSUME NEW list, WellFormed(list), NEW k \in 1 .. Len(list),
         NEW lo \in Nat, NEW hi \in Nat, NEW prot \in ValidProt,
         list[k].end <= lo, lo < hi, k < Len(list) => hi <= list[k + 1].start
  PROVE  /\ WellFormed(Insert(list, k, lo, hi, prot))
         /\ \E i \in 1 .. Len(Insert(list, k, lo, hi, prot)) :
              hi <= Insert(list, k, lo, hi, prot)[i].end
         /\ \A bound \in Nat : EndsBy(list, bound) /\ hi <= bound
                                 => EndsBy(Insert(list, k, lo, hi, prot), bound)
<1> DEFINE left  == JoinsLeft(list, k, lo, prot)
           right == JoinsRight(list, k, hi, prot)
           a     == IF left THEN k - 1 ELSE k
           b     == IF right THEN k + 2 ELSE k + 1
           area  == Area(IF left THEN list[k].start ELSE lo,
                         IF right THEN list[k + 1].end ELSE hi, prot)
<1>1. /\ Len(list) \in Nat
      /\ \A i \in 1 .. Len(list) : /\ list[i] \in AreaRecords
                                   /\ list[i].start \in Nat /\ list[i].end \in Nat
                                   /\ AreaStart <= list[i].start
                                   /\ list[i].start < list[i].end
  BY ListFacts
<1>2. AreaStart \in Nat
  BY AreaAssumption
<1>3. left => k # 1
  BY DEF WellFormed, Dummy, Area, JoinsLeft, ValidProt, NoAccess, ReadOnly, ReadWrite
<1>4. left => list[k].end = lo /\ list[k].prot = prot
  BY DEF JoinsLeft
<1>5. right => k + 1 \in 1 .. Len(list) /\ list[k + 1].start = hi /\ list[k + 1].prot = prot
  BY <1>1 DEF JoinsRight
<1>6. /\ area.start = IF left THEN list[k].start ELSE lo
      /\ area.end = IF right THEN list[k + 1].end ELSE hi
      /\ area.prot = prot
  BY DEF Area
<1>7. Insert(list, k, lo, hi, prot) = Splice(list, a, area, b)
  BY DEF Insert, Splice
<1>8. a \in 1 .. Len(list) /\ b \in a + 1 .. Len(list) + 1
  <2> HIDE DEF left, right
  <2>1. QED
    BY <1>1, <1>3, <1>5
<1>9. area.start \in Nat /\ AreaStart <= area.start /\ area.start <= lo
  <2> HIDE DEF left, right, area
  <2>1. QED
    BY <1>1, <1>2, <1>4, <1>6
<1>10. area.end \in Nat /\ hi <= area.end
  <2> HIDE DEF left, right, area
  <2>1. QED
    BY <1>1, <1>5, <1>6
<1>11. Mapped(area)
  <2>1. area \in AreaRecords
    BY <1>9, <1>10 DEF Area, AreaRecords
  <2>2. prot # NoAccess
    BY DEF ValidProt, NoAccess, ReadOnly, ReadWrite
  <2> HIDE DEF area
  <2>3. QED
    BY <1>6, <1>9, <1>10, <2>1, <2>2 DEF Mapped
<1>12. Follows(list[a], area)
  <2>1. CASE left
    <3>1. k \in 2 .. Len(list) /\ a = k - 1
      BY <1>1, <1>3, <2>1
    <3>2. Follows(list[k - 1], list[k])
      BY <3>1 DEF WellFormed
    <3> HIDE DEF left, right, area
    <3>3. QED
      BY <1>4, <1>6, <2>1, <3>1, <3>2 DEF Follows
  <2>2. CASE ~left
    BY <1>6, <2>2 DEF Follows, JoinsLeft
  <2>3. QED
    BY <2>1, <2>2
<1>13. ASSUME b <= Len(list)
       PROVE  Follows(area, list[b])
  <2>1. CASE right
    <3>1. b = k + 2 /\ k + 2 \in 2 .. Len(list) /\ (k + 2) - 1 = k + 1
      BY <1>1, <1>13, <2>1
    <3>2. Follows(list[k + 1], list[k + 2])
      BY <3>1 DEF WellFormed
    <3> HIDE DEF left, right, area
    <3>3. QED
      BY <1>5, <1>6, <2>1, <3>1, <3>2 DEF Follows
  <2>2. CASE ~right
    <3>1. b = k + 1 /\ k < Len(list) /\ k + 1 \in 1 .. Len(list)
      BY <1>1, <1>13, <2>2
    <3>2. area.end = hi /\ hi <= list[k + 1].start
      BY <1>6, <2>2, <3>1
    <3>3. area.end = list[k + 1].start => area.prot # list[k + 1].prot
      BY <1>6, <2>2, <3>1 DEF JoinsRight
    <3>4. QED
      BY <3>1, <3>2, <3>3 DEF Follows
  <2>3. QED
    BY <2>1, <2>2
<1>14. ASSUME NEW bound \in Nat, EndsBy(list, bound), hi <= bound
       PROVE  area.end <= bound
  BY <1>5, <1>6, <1>14 DEF EndsBy
<1> HIDE DEF left, right, area, a, b
<1>15. QED
  BY <1>7, <1>8, <1>10, <1>11, <1>12, <1>13, <1>14, SpliceKeepsShape
\* search_lowest_free_region: the first area with enough room behind it.
Fits(list, i, length) == i = Len(list) \/ list[i + 1].start - list[i].end >= length

LEMMA SearchFindsLowest ==
  ASSUME NEW list, WellFormed(list), NEW length \in Nat \ {0}, NEW prot \in ValidProt
  PROVE  \E k \in 1 .. Len(list) :
           /\ \A j \in 1 .. k - 1 : ~Fits(list, j, length)
           /\ list[k].end + length \in Nat
           /\ list[k].end < list[k].end + length
           /\ k < Len(list) => list[k].end + length <= list[k + 1].start
           /\ SearchLowestFree(list, length, prot) =
                Outcome(Insert(list, k, list[k].end, list[k].end + length, prot), list[k].end)
<1> DEFINE T == {i \in 1 .. Len(list) : Fits(list, i, length)}
           First(i) == Fits(list, i, length) /\ \A j \in 1 .. i - 1 : ~Fits(list, j, length)
           k == CHOOSE i \in DOMAIN list : First(i)
<1>0. SearchLowestFree(list, length, prot) =
        Outcome(Insert(list, k, list[k].end, list[k].end + length, prot), list[k].end)
  BY DEF SearchLowestFree, FirstIndex, Fits
<1>1. /\ Len(list) \in Nat \ {0}
      /\ DOMAIN list = 1 .. Len(list)
      /\ \A i \in 1 .. Len(list) : list[i].start \in Nat /\ list[i].end \in Nat
  BY ListFacts
<1>2. \E i \in DOMAIN list : First(i)
  <2>1. Len(list) \in T /\ T \subseteq Nat
    BY <1>1 DEF Fits
  <2> HIDE DEF T
  <2>2. PICK i \in T : \A j \in Nat : j < i => j \notin T
    BY <2>1, FirstPosition
  <2>3. i \in 1 .. Len(list) /\ Fits(list, i, length)
    BY <2>2 DEF T
  <2>4. \A j \in 1 .. i - 1 : j \in Nat /\ j < i /\ j \in 1 .. Len(list)
    BY <1>1, <2>3
  <2>5. \A j \in 1 .. i - 1 : ~Fits(list, j, length)
    BY <2>2, <2>4 DEF T
  <2>6. QED
    BY <1>1, <2>3, <2>5
<1> HIDE DEF First
<1>3. k \in DOMAIN list /\ First(k)
  BY <1>2, Zenon
<1> HIDE DEF k
<1>4. k \in 1 .. Len(list) /\ Fits(list, k, length) /\ \A j \in 1 .. k - 1 : ~Fits(list, j, length)
  BY <1>1, <1>3 DEF First
<1>5. list[k].end \in Nat /\ list[k].end + length \in Nat /\ list[k].end < list[k].end + length
  BY <1>1, <1>4
<1>6. k < Len(list) => list[k].end + length <= list[k + 1].start
  <2>1. k \in Nat /\ Len(list) \in Nat
    BY <1>1, <1>4
  <2>2. k < Len(list) => k # Len(list) /\ k + 1 \in 1 .. Len(list)
    BY <2>1
  <2>3. k < Len(list) => list[k + 1].start - list[k].end >= length
    BY <1>4, <2>2 DEF Fits
  <2>4. k < Len(list) => list[k + 1].start \in Nat
    BY <1>1, <2>2
  <2>5. QED
    BY <1>5, <2>3, <2>4
<1>7. QED
  BY <1>0, <1>4, <1>5, <1>6

\* There is room behind some area, the last one at the latest.
LEMMA SearchFindsGap ==
  ASSUME NEW list, WellFormed(list), NEW length \in Nat \ {0}, NEW prot \in ValidProt
  PROVE  LET result == SearchLowestFree(list, length, prot)
         IN  /\ WellFormed(result.areas)
             /\ result.ret \in Nat
             /\ \E i \in 1 .. Len(result.areas) : result.ret + length <= result.areas[i].end
<1> DEFINE result == SearchLowestFree(list, length, prot)
<1>1. PICK k \in 1 .. Len(list) :
        /\ list[k].end + length \in Nat
        /\ list[k].end < list[k].end + length
        /\ k < Len(list) => list[k].end + length <= list[k + 1].start
        /\ result = Outcome(Insert(list, k, list[k].end, list[k].end + length, prot), list[k].end)
  BY SearchFindsLowest
<1> HIDE DEF result
<1> DEFINE lo  == list[k].end
           new == Insert(list, k, lo, lo + length, prot)
<1>2. lo \in Nat /\ list[k].end <= lo
  BY ListFacts
<1>3. WellFormed(new) /\ \E i \in 1 .. Len(new) : lo + length <= new[i].end
  BY <1>1, <1>2, InsertKeepsShape
<1>4. result.areas = new /\ result.ret = lo
  BY <1>1 DEF Outcome
<1> HIDE DEF lo, new
<1>5. QED
  BY <1>2, <1>3, <1>4 DEF result

\* A region that overlaps no area lies in the gap where vm_area_map looks.
LEMMA PlaceIsGap ==
  ASSUME NEW list, WellFormed(list), NEW lo \in Nat, NEW hi \in Nat,
         AreaStart <= lo, lo < hi, IsFree(list, lo, hi)
  PROVE  LET k == PlaceOf(list, lo, hi)
         IN  /\ k \in 1 .. Len(list)
             /\ list[k].end <= lo
             /\ k < Len(list) => hi <= list[k + 1].start
<1> DEFINE Here(i) == \/ i = Len(list)
                      \/ list[i].end <= lo /\ hi <= list[i + 1].start
           T == {i \in 1 .. Len(list) : Here(i)}
           k == PlaceOf(list, lo, hi)
           Behind == {n \in Nat : n + 1 <= k => list[n + 1].end <= lo}
<1>0. k = CHOOSE j \in DOMAIN list : Here(j) /\ \A l \in 1 .. j - 1 : ~Here(l)
  BY DEF PlaceOf, FirstIndex
<1> HIDE DEF k, Here
<1>1. /\ Len(list) \in Nat \ {0}
      /\ DOMAIN list = 1 .. Len(list)
      /\ \A i \in 1 .. Len(list) : list[i].start \in Nat /\ list[i].end \in Nat
  BY ListFacts
<1>2. k \in 1 .. Len(list) /\ Here(k) /\ \A j \in 1 .. k - 1 : ~Here(j)
  <2>1. Len(list) \in T /\ T \subseteq Nat
    BY <1>1 DEF Here
  <2> HIDE DEF T
  <2>2. PICK i \in T : \A j \in Nat : j < i => j \notin T
    BY <2>1, FirstPosition
  <2>3. i \in 1 .. Len(list) /\ Here(i)
    BY <2>2 DEF T
  <2>4. \A j \in 1 .. i - 1 : j \in Nat /\ j < i /\ j \in 1 .. Len(list)
    BY <1>1, <2>3
  <2>5. \A j \in 1 .. i - 1 : ~Here(j)
    BY <2>2, <2>4 DEF T
  <2>6. QED
    BY <1>0, <1>1, <2>3, <2>5
<1>3. \A i \in 1 .. Len(list) : list[i].start < hi => list[i].end <= lo
  BY <1>1 DEF IsFree, Overlaps
<1>4. 0 \in Behind
  <2>1. list[1].start = AreaStart /\ 1 \in 1 .. Len(list)
    BY <1>1 DEF WellFormed, Dummy, Area
  <2>2. AreaStart \in Nat
    BY AreaAssumption
  <2>3. QED
    BY <1>3, <2>1, <2>2
<1>5. ASSUME NEW n \in Nat, n \in Behind
      PROVE  n + 1 \in Behind
  <2>1. SUFFICES ASSUME (n + 1) + 1 <= k PROVE list[(n + 1) + 1].end <= lo
    OBVIOUS
  <2>2. /\ n + 1 \in 1 .. k - 1 /\ n + 1 # Len(list) /\ n + 1 <= k
        /\ (n + 1) + 1 \in 1 .. Len(list)
    <3> HIDE DEF Behind
    <3>1. k \in Int /\ k <= Len(list) /\ Len(list) \in Int
      BY <1>1, <1>2
    <3>2. QED
      BY <2>1, <3>1
  <2>3. list[n + 1].end <= lo /\ ~Here(n + 1)
    BY <1>2, <1>5, <2>2
  <2>4. ~(hi <= list[(n + 1) + 1].start)
    BY <2>2, <2>3 DEF Here
  <2>5. list[(n + 1) + 1].start \in Nat
    BY <1>1, <2>2
  <2> HIDE DEF Behind
  <2>6. list[(n + 1) + 1].start < hi
    BY <2>4, <2>5
  <2>7. QED
    BY <1>3, <2>2, <2>6
<1>6. Nat \subseteq Behind
  <2> HIDE DEF Behind
  <2>1. QED
    BY <1>4, <1>5, Induction
<1>7. list[k].end <= lo
  <2>1. k - 1 \in Nat /\ (k - 1) + 1 = k /\ k <= k
    <3> HIDE DEF Behind
    <3>1. k \in Nat \ {0}
      BY <1>1, <1>2
    <3>2. QED
      BY <3>1
  <2>2. QED
    BY <1>6, <2>1
<1>8. k < Len(list) => hi <= list[k + 1].start
  <2>1. k < Len(list) => k # Len(list)
    <3>1. k \in Nat /\ Len(list) \in Nat
      BY <1>1, <1>2
    <3>2. QED
      BY <3>1
  <2>2. QED
    BY <1>2, <2>1 DEF Here
<1>9. QED
  BY <1>2, <1>7, <1>8 DEF k

LEMMA MapAtKeepsShape ==
  ASSUME NEW list, WellFormed(list), NEW lo \in Nat, NEW hi \in Nat, NEW prot \in ValidProt,
         AreaStart <= lo, lo < hi, IsFree(list, lo, hi)
  PROVE  /\ WellFormed(MapAt(list, lo, hi, prot))
         /\ \A bound \in Nat : EndsBy(list, bound) /\ hi <= bound
                                 => EndsBy(MapAt(list, lo, hi, prot), bound)
<1>1. CASE MissingCase(list, lo, hi, prot)
  BY <1>1 DEF MapAt
<1>2. CASE ~MissingCase(list, lo, hi, prot)
  <2>1. MapAt(list, lo, hi, prot) = Insert(list, PlaceOf(list, lo, hi), lo, hi, prot)
    BY <1>2 DEF MapAt
  <2>2. QED
    BY <2>1, PlaceIsGap, InsertKeepsShape
<1>3. QED
  BY <1>1, <1>2

LEMMA MapCases ==
  ASSUME NEW given, NEW addr \in Nat, NEW length, NEW prot, NEW fixed \in BOOLEAN
  PROVE  LET list   == WithDummy(given)
             there  == addr \in AreaStart .. AreaEnd
             free   == IsFree(list, addr, addr + length)
             result == Map(given, addr, length, prot, fixed)
         IN  \/ prot \notin ValidProt /\ result = Outcome(given, EINVAL)
             \/ /\ prot \in ValidProt /\ ~fixed
                /\ addr = Null \/ (there /\ ~free)
                /\ result = SearchLowestFree(list, length, prot)
             \/ /\ prot \in ValidProt /\ there /\ free
                /\ result = Outcome(MapAt(list, addr, addr + length, prot), addr)
             \/ /\ prot \in ValidProt
                /\ \/ addr = Null /\ fixed
                   \/ addr # Null /\ ~there
                   \/ there /\ fixed /\ ~free
                /\ result = Outcome(list, EINVAL)
<1> DEFINE list   == WithDummy(given)
           there  == addr \in AreaStart .. AreaEnd
           free   == IsFree(list, addr, addr + length)
           result == Map(given, addr, length, prot, fixed)
           room   == SearchLowestFree(list, length, prot)
           put    == Outcome(MapAt(list, addr, addr + length, prot), addr)
<1>1. there => addr # Null
  BY AreaAssumption DEF Null
<1> HIDE DEF list, there, free, room, put
<1>2. result = CASE prot \notin ValidProt -> Outcome(given, EINVAL)
                 [] prot \in ValidProt /\ addr = Null /\ ~fixed -> room
                 [] prot \in ValidProt /\ addr # Null /\ there /\ free -> put
                 [] prot \in ValidProt /\ addr # Null /\ there /\ ~free /\ ~fixed -> room
                 [] OTHER -> Outcome(list, EINVAL)
  BY DEF Map, list, there, free, room, put
<1> HIDE DEF result
<1>3. \/ prot \notin ValidProt /\ result = Outcome(given, EINVAL)
      \/ prot \in ValidProt /\ ~fixed /\ (addr = Null \/ (there /\ ~free)) /\ result = room
      \/ prot \in ValidProt /\ there /\ free /\ result = put
      \/ /\ prot \in ValidProt
         /\ \/ addr = Null /\ fixed
            \/ addr # Null /\ ~there
            \/ there /\ fixed /\ ~free
         /\ result = Outcome(list, EINVAL)
  BY <1>1, <1>2
<1>4. QED
  BY <1>3 DEF list, there, free, result, room, put

\* What mmap returns is the start of a region that it found or made.
MapPromise(given, addr, length, fixed, result) ==
  /\ result.areas = <<>> \/ WellFormed(result.areas)
  /\ given # <<>> => WellFormed(result.areas)
  /\ \/ result.ret \in {EINVAL, addr}
     \/ /\ result.ret \in Nat
        /\ \E i \in 1 .. Len(result.areas) : result.ret + length <= result.areas[i].end
  /\ fixed /\ given # <<>> =>
       \A bound \in Nat : EndsBy(given, bound) /\ addr + length <= bound
                            => EndsBy(result.areas, bound)

LEMMA MapKeepsShape ==
  ASSUME NEW given, given = <<>> \/ WellFormed(given), NEW addr \in Nat,
         NEW length \in Nat \ {0}, NEW prot, NEW fixed \in BOOLEAN
  PROVE  MapPromise(given, addr, length, fixed, Map(given, addr, length, prot, fixed))
<1> DEFINE list   == WithDummy(given)
           free   == IsFree(list, addr, addr + length)
           result == Map(given, addr, length, prot, fixed)
           room   == SearchLowestFree(list, length, prot)
           there  == MapAt(list, addr, addr + length, prot)
<1>1. WellFormed(list) /\ (given # <<>> => list = given)
  BY DummyAlone DEF WithDummy
<1>2. \/ result = Outcome(given, EINVAL)
      \/ prot \in ValidProt /\ ~fixed /\ result = room
      \/ /\ prot \in ValidProt /\ addr \in AreaStart .. AreaEnd /\ free
         /\ result = Outcome(there, addr)
      \/ result = Outcome(list, EINVAL)
  BY MapCases
<1> HIDE DEF list, free, result, room, there
<1> SUFFICES MapPromise(given, addr, length, fixed, result)
  BY DEF result
<1>3. CASE result = Outcome(given, EINVAL)
  <2>1. result.areas = given /\ result.ret = EINVAL
    BY <1>3 DEF Outcome
  <2>2. QED
    BY <2>1 DEF MapPromise
<1>4. CASE prot \in ValidProt /\ ~fixed /\ result = room
  <2>1. /\ WellFormed(room.areas)
        /\ room.ret \in Nat
        /\ \E i \in 1 .. Len(room.areas) : room.ret + length <= room.areas[i].end
    BY <1>1, <1>4, SearchFindsGap DEF room
  <2>2. QED
    BY <1>4, <2>1 DEF MapPromise
<1>5. CASE /\ prot \in ValidProt /\ addr \in AreaStart .. AreaEnd /\ free
           /\ result = Outcome(there, addr)
  <2>1. result.areas = there /\ result.ret = addr
    BY <1>5 DEF Outcome
  <2>2. AreaStart <= addr /\ addr + length \in Nat /\ addr < addr + length
    BY <1>5, AreaAssumption
  <2>3. /\ WellFormed(there)
        /\ \A bound \in Nat : EndsBy(list, bound) /\ addr + length <= bound
                                => EndsBy(there, bound)
    BY <1>1, <1>5, <2>2, MapAtKeepsShape DEF free, there
  <2>4. QED
    BY <1>1, <2>1, <2>3 DEF MapPromise
<1>6. CASE result = Outcome(list, EINVAL)
  <2>1. result.areas = list /\ result.ret = EINVAL
    BY <1>6 DEF Outcome
  <2>2. QED
    BY <1>1, <2>1 DEF MapPromise
<1>7. QED
  BY <1>2, <1>3, <1>4, <1>5, <1>6
------------------------------------------------------------------------------
(* munmap *)

\* One area more at the end of a list.
LEMMA AppendKeepsShape ==
  ASSUME NEW list, WellFormed(list), NEW area, Mapped(area),
         Follows(list[Len(list)], area)
  PROVE  /\ WellFormed(list \o <<area>>)
         /\ Len(list \o <<area>>) = Len(list) + 1
         /\ (list \o <<area>>)[Len(list) + 1] = area
         /\ \A bound \in Nat : EndsBy(list, bound) /\ area.end <= bound
                                 => EndsBy(list \o <<area>>, bound)
<1>1. list \in Seq(AreaRecords) /\ Len(list) \in Nat \ {0} /\ area \in AreaRecords
  BY ListFacts DEF WellFormed, Mapped
<1>2. SubSeq(list, 1, Len(list)) = list /\ SubSeq(list, Len(list) + 1, Len(list)) = <<>>
  BY <1>1, SubSeqFull, SubSeqEmpty
<1>3. list \o <<area>> \in Seq(AreaRecords) /\ Len(list \o <<area>>) = Len(list) + 1
  BY <1>1
<1>4. Splice(list, Len(list), area, Len(list) + 1) = list \o <<area>>
  <2>1. (list \o <<area>>) \o <<>> = list \o <<area>>
    BY <1>3, ConcatEmptySeq
  <2>2. QED
    BY <1>2, <2>1 DEF Splice
<1>5. /\ Len(list) \in 1 .. Len(list)
      /\ Len(list) + 1 \in Len(list) + 1 .. Len(list) + 1
      /\ ~(Len(list) + 1 <= Len(list))
  BY <1>1
<1> DEFINE t == Splice(list, Len(list), area, Len(list) + 1)
<1>6. /\ WellFormed(t)
      /\ t[Len(list) + 1] = area
      /\ \A bound \in Nat : EndsBy(list, bound) /\ area.end <= bound => EndsBy(t, bound)
  BY <1>5, SpliceKeepsShape
<1>7. QED
  BY <1>3, <1>4, <1>6

\* What is left of an area: all of it, nothing, one part or two.
LEMMA RemainderParts ==
  ASSUME NEW area \in AreaRecords, area.start < area.end,
         NEW lo \in Nat, NEW hi \in Nat, lo < hi
  PROVE  \/ Remainder(area, lo, hi) = <<area>>
         \/ area.prot # NoAccess /\ Remainder(area, lo, hi) = <<>>
         \/ /\ area.prot # NoAccess /\ area.start < lo /\ lo < area.end
            /\ Remainder(area, lo, hi) = <<Area(area.start, lo, area.prot)>>
         \/ /\ area.prot # NoAccess /\ area.start < hi /\ hi < area.end
            /\ Remainder(area, lo, hi) = <<Area(hi, area.end, area.prot)>>
         \/ /\ area.prot # NoAccess /\ area.start < lo /\ hi < area.end
            /\ Remainder(area, lo, hi) = <<Area(area.start, lo, area.prot)>>
                                           \o <<Area(hi, area.end, area.prot)>>
<1>1. CASE area.prot = NoAccess \/ ~Overlaps(area, lo, hi)
  BY <1>1 DEF Remainder
<1>2. CASE area.prot # NoAccess /\ Overlaps(area, lo, hi)
  <2> DEFINE front == Area(area.start, lo, area.prot)
             back  == Area(hi, area.end, area.prot)
             left  == Remainder(area, lo, hi)
  <2>1. left = (IF area.start < lo THEN <<front>> ELSE <<>>)
                 \o (IF hi < area.end THEN <<back>> ELSE <<>>)
    BY <1>2 DEF Remainder
  <2>2. area.start < hi /\ lo < area.end
    BY <1>2 DEF Overlaps
  <2> HIDE DEF front, back, left
  <2>3. <<front>> \o <<>> = <<front>> /\ <<>> \o <<back>> = <<back>> /\ <<>> \o <<>> = <<>>
    OBVIOUS
  <2>4. \/ left = <<>>
        \/ area.start < lo /\ left = <<front>>
        \/ hi < area.end /\ left = <<back>>
        \/ area.start < lo /\ hi < area.end /\ left = <<front>> \o <<back>>
    BY <2>1, <2>3, Zenon
  <2>5. QED
    BY <1>2, <2>2, <2>4 DEF front, back, left
<1>3. QED
  BY <1>1, <1>2
\* What list becomes, up to its area n, when a hole is made in it.
Pruned(left, list, n) ==
  /\ WellFormed(left)
  /\ left[Len(left)].end <= list[n].end
  /\ left[Len(left)].end = list[n].end => left[Len(left)].prot = list[n].prot
  /\ \A bound \in Nat : EndsBy(list, bound) => EndsBy(left, bound)

\* A part of area n + 1 that starts where nothing ends may be put behind.
LEMMA PartFollows ==
  ASSUME NEW list, WellFormed(list), NEW left, NEW n \in 1 .. Len(list) - 1,
         Pruned(left, list, n), NEW part \in AreaRecords, part.start < part.end,
         list[n + 1].prot # NoAccess,
         part.prot = list[n + 1].prot, list[n + 1].start <= part.start,
         part.end <= list[n + 1].end
  PROVE  Pruned(left \o <<part>>, list, n + 1)
<1>1. n + 1 \in 1 .. Len(list) /\ n + 1 \in 2 .. Len(list) /\ (n + 1) - 1 = n /\ n \in 1 .. Len(list)
  BY ListFacts
<1>2. list[n].end <= list[n + 1].start /\ (list[n].end = list[n + 1].start => list[n].prot # list[n + 1].prot)
  BY <1>1 DEF WellFormed, Follows
<1>3. /\ WellFormed(left)
      /\ left[Len(left)].end <= list[n].end
      /\ left[Len(left)].end = list[n].end => left[Len(left)].prot = list[n].prot
  BY DEF Pruned
<1>4. left[Len(left)].end \in Nat /\ list[n].end \in Nat /\ list[n + 1].start \in Nat /\ part.start \in Nat
  <2>1. Len(left) \in 1 .. Len(left)
    BY <1>3, ListFacts
  <2>2. left[Len(left)].end \in Nat
    BY <1>3, <2>1, ListFacts
  <2>3. list[n].end \in Nat /\ list[n + 1].start \in Nat
    BY <1>1, ListFacts
  <2>4. QED
    BY <2>2, <2>3 DEF AreaRecords
<1>5. Follows(left[Len(left)], part)
  <2>1. left[Len(left)].end <= part.start
    BY <1>2, <1>3, <1>4
  <2>2. ASSUME left[Len(left)].end = part.start
        PROVE  left[Len(left)].prot # part.prot
    <3>1. left[Len(left)].end = list[n].end /\ list[n].end = list[n + 1].start
      BY <1>2, <1>3, <1>4, <2>2
    <3>2. QED
      BY <1>2, <1>3, <3>1
  <2>3. QED
    BY <2>1, <2>2 DEF Follows
<1>6. Mapped(part)
  BY DEF Mapped
<1> DEFINE longer == left \o <<part>>
<1>7. /\ WellFormed(longer)
      /\ Len(longer) = Len(left) + 1
      /\ longer[Len(left) + 1] = part
      /\ \A bound \in Nat : EndsBy(left, bound) /\ part.end <= bound => EndsBy(longer, bound)
  BY <1>3, <1>5, <1>6, AppendKeepsShape
<1> HIDE DEF longer
<1>8. ASSUME NEW bound \in Nat, EndsBy(list, bound)
      PROVE  EndsBy(longer, bound)
  <2>1. EndsBy(left, bound) /\ list[n + 1].end <= bound
    BY <1>1, <1>8 DEF Pruned, EndsBy
  <2>2. part.end \in Nat /\ list[n + 1].end \in Nat
    BY <1>1, ListFacts DEF AreaRecords
  <2>3. part.end <= bound
    BY <2>1, <2>2
  <2>4. QED
    BY <1>7, <2>1, <2>3
<1>9. QED
  BY <1>7, <1>8 DEF Pruned, longer

LEMMA PruneOneMore ==
  ASSUME NEW list, WellFormed(list), NEW left, NEW n \in 1 .. Len(list) - 1,
         Pruned(left, list, n), NEW lo \in Nat, NEW hi \in Nat, lo < hi
  PROVE  Pruned(left \o Remainder(list[n + 1], lo, hi), list, n + 1)
<1> DEFINE area  == list[n + 1]
           front == Area(area.start, lo, area.prot)
           back  == Area(hi, area.end, area.prot)
           rest  == Remainder(area, lo, hi)
<1>1. n + 1 \in 1 .. Len(list) /\ n + 1 \in 2 .. Len(list) /\ (n + 1) - 1 = n /\ n \in 1 .. Len(list)
  BY ListFacts
<1>2. /\ area \in AreaRecords /\ area.start \in Nat /\ area.end \in Nat
      /\ AreaStart <= area.start /\ area.start < area.end
      /\ list[n].end \in Nat /\ AreaStart \in Nat
  BY <1>1, ListFacts, AreaAssumption
<1>3. /\ area.prot # NoAccess
      /\ list[n].end <= area.start
      /\ list[n].end = area.start => list[n].prot # area.prot
  BY <1>1 DEF WellFormed, Follows
<1>4. /\ WellFormed(left)
      /\ left \in Seq(AreaRecords)
      /\ left[Len(left)].end <= list[n].end
  BY DEF Pruned, WellFormed
<1>5. /\ front.start = area.start /\ front.end = lo /\ front.prot = area.prot
      /\ back.start = hi /\ back.end = area.end /\ back.prot = area.prot
  BY DEF Area
<1>6. area.prot \in {NoAccess} \cup ValidProt
  BY <1>2 DEF AreaRecords
<1>7. front \in AreaRecords
  BY <1>2, <1>6 DEF Area, AreaRecords
<1>8. AreaStart <= hi => back \in AreaRecords
  BY <1>2, <1>6 DEF Area, AreaRecords
<1>9. \/ rest = <<area>>
      \/ rest = <<>>
      \/ area.start < lo /\ lo < area.end /\ rest = <<front>>
      \/ area.start < hi /\ hi < area.end /\ rest = <<back>>
      \/ area.start < lo /\ hi < area.end /\ rest = <<front>> \o <<back>>
  BY <1>2, RemainderParts
<1> HIDE DEF area, front, back, rest
<1>10. CASE rest = <<area>>
  BY <1>2, <1>3, <1>10, PartFollows DEF area, rest
<1>11. CASE rest = <<>>
  <2>1. left \o rest = left
    BY <1>4, <1>11, ConcatEmptySeq
  <2>2. left[Len(left)].end \in Nat
    <3>1. Len(left) \in 1 .. Len(left)
      BY <1>4, ListFacts
    <3>2. QED
      BY <1>4, <3>1, ListFacts
  <2>3. left[Len(left)].end < area.end
    BY <1>2, <1>3, <1>4, <2>2
  <2>4. left[Len(left)].end <= area.end /\ left[Len(left)].end # area.end
    BY <1>2, <2>2, <2>3
  <2>5. QED
    BY <1>4, <2>1, <2>4 DEF Pruned, area, rest
<1>12. CASE area.start < lo /\ lo < area.end /\ rest = <<front>>
  <2>1. front.start < front.end /\ front.end <= area.end /\ area.start <= front.start
    BY <1>2, <1>5, <1>12
  <2>2. QED
    BY <1>3, <1>5, <1>7, <1>12, <2>1, PartFollows DEF area, rest
<1>13. CASE area.start < hi /\ hi < area.end /\ rest = <<back>>
  <2>1. /\ AreaStart <= hi /\ back.start < back.end /\ back.end <= area.end
        /\ area.start <= back.start
    BY <1>2, <1>5, <1>13
  <2>2. QED
    BY <1>3, <1>5, <1>8, <1>13, <2>1, PartFollows DEF area, rest
<1>14. CASE area.start < lo /\ hi < area.end /\ rest = <<front>> \o <<back>>
  <2>1. /\ front.start < front.end /\ front.end <= area.end /\ area.start <= front.start
        /\ AreaStart <= hi /\ back.start < back.end /\ back.end <= area.end
    BY <1>2, <1>5, <1>14
  <2> DEFINE most == left \o <<front>>
  <2>2. Pruned(most, list, n + 1)
    BY <1>3, <1>5, <1>7, <2>1, PartFollows DEF area
  <2>3. Len(most) = Len(left) + 1 /\ most[Len(left) + 1] = front
    BY <1>4, <1>7
  <2>4. left \o rest = most \o <<back>>
    <3>1. <<front>> \in Seq(AreaRecords) /\ <<back>> \in Seq(AreaRecords)
      BY <1>7, <1>8, <2>1
    <3>2. QED
      BY <1>4, <1>14, <3>1, ConcatAssociative
  <2> HIDE DEF most
  <2>5. most[Len(most)] = front
    BY <2>3
  <2>6. Follows(front, back) /\ Mapped(back)
    <3>1. front.end <= back.start /\ front.end # back.start
      BY <1>5
    <3>2. QED
      BY <1>3, <1>5, <1>8, <2>1, <3>1 DEF Follows, Mapped
  <2>7. WellFormed(most) /\ \A bound \in Nat : EndsBy(list, bound) => EndsBy(most, bound)
    BY <2>2 DEF Pruned
  <2> DEFINE all == most \o <<back>>
  <2>8. /\ WellFormed(all)
        /\ Len(all) = Len(most) + 1
        /\ all[Len(most) + 1] = back
        /\ \A bound \in Nat : EndsBy(most, bound) /\ back.end <= bound => EndsBy(all, bound)
    BY <2>5, <2>6, <2>7, AppendKeepsShape
  <2> HIDE DEF all
  <2>9. ASSUME NEW bound \in Nat, EndsBy(list, bound)
        PROVE  EndsBy(all, bound)
    <3>1. area.end <= bound
      BY <1>1, <2>9 DEF EndsBy, area
    <3>2. QED
      BY <1>5, <2>7, <2>8, <2>9, <3>1
  <2>10. Pruned(all, list, n + 1)
    <3>1. all[Len(all)] = back
      BY <2>8
    <3>2. back.end <= list[n + 1].end /\ back.prot = list[n + 1].prot
      BY <1>5, <2>1 DEF area
    <3>3. QED
      BY <2>8, <2>9, <3>1, <3>2 DEF Pruned
  <2>11. QED
    BY <2>4, <2>10 DEF all, area, rest
<1>15. QED
  BY <1>9, <1>10, <1>11, <1>12, <1>13, <1>14

LEMMA UnmapParts ==
  ASSUME NEW list, WellFormed(list), NEW lo \in Nat, NEW hi \in Nat, lo < hi
  PROVE  \E parts \in Seq(Seq(AreaRecords)) :
           /\ parts # <<>>
           /\ Len(parts) = Len(list)
           /\ \A i \in 1 .. Len(list) : parts[i] = Remainder(list[i], lo, hi)
           /\ Unmap(list, lo, hi) = FlattenSeq(parts)
<1> DEFINE N == Len(list)
           parts == [i \in DOMAIN list |-> Remainder(list[i], lo, hi)]
<1>1. /\ N \in Nat \ {0}
      /\ DOMAIN list = 1 .. N
      /\ \A i \in 1 .. N : list[i] \in AreaRecords /\ list[i].start < list[i].end
  BY ListFacts
<1>2. \A i \in 1 .. N : Remainder(list[i], lo, hi) \in Seq(AreaRecords)
  <2> SUFFICES ASSUME NEW i \in 1 .. N
               PROVE  Remainder(list[i], lo, hi) \in Seq(AreaRecords)
    OBVIOUS
  <2> DEFINE area == list[i]
             front == Area(area.start, lo, area.prot)
             back  == Area(hi, area.end, area.prot)
             rest  == Remainder(area, lo, hi)
  <2>1. area \in AreaRecords /\ area.start < area.end
    BY <1>1
  <2>2. front \in AreaRecords
    BY <2>1 DEF Area, AreaRecords
  <2>3. area.start < hi => back \in AreaRecords
    BY <2>1, AreaAssumption DEF Area, AreaRecords
  <2>4. \/ rest = <<area>>
        \/ rest = <<>>
        \/ rest = <<front>>
        \/ area.start < hi /\ rest = <<back>>
        \/ area.start < hi /\ rest = <<front>> \o <<back>>
    <3>1. area.start \in Nat /\ (area.start < lo => area.start < hi)
      BY <2>1 DEF AreaRecords
    <3>2. \/ rest = <<area>>
          \/ rest = <<>>
          \/ rest = <<front>>
          \/ area.start < hi /\ rest = <<back>>
          \/ area.start < lo /\ rest = <<front>> \o <<back>>
      BY <2>1, RemainderParts
    <3> HIDE DEF area, front, back, rest
    <3>3. QED
      BY <3>1, <3>2
  <2> HIDE DEF area, front, back, rest
  <2>5. rest \in Seq(AreaRecords)
    <3>1. <<>> \in Seq(AreaRecords) /\ <<area>> \in Seq(AreaRecords) /\ <<front>> \in Seq(AreaRecords)
      BY <2>1, <2>2
    <3>2. area.start < hi => <<back>> \in Seq(AreaRecords)
      BY <2>3
    <3>3. area.start < hi => <<front>> \o <<back>> \in Seq(AreaRecords)
      BY <3>1, <3>2, ConcatProperties
    <3>4. QED
      BY <2>4, <3>1, <3>2, <3>3, Zenon
  <2>6. QED
    BY <2>5 DEF rest, area
<1>3. /\ parts \in Seq(Seq(AreaRecords)) /\ parts # <<>> /\ Len(parts) = N
      /\ \A i \in 1 .. N : parts[i] = Remainder(list[i], lo, hi)
  BY <1>1, <1>2
<1>4. Unmap(list, lo, hi) = FlattenSeq(parts)
  BY DEF Unmap
<1> HIDE DEF parts
<1>5. QED
  BY <1>3, <1>4

LEMMA UnmapKeepsShape ==
  ASSUME NEW list, WellFormed(list), NEW lo \in Nat, NEW hi \in Nat, lo < hi
  PROVE  /\ WellFormed(Unmap(list, lo, hi))
         /\ \A bound \in Nat : EndsBy(list, bound) => EndsBy(Unmap(list, lo, hi), bound)
<1> DEFINE N == Len(list)
<1>1. N \in Nat \ {0}
  BY ListFacts
<1>2. Remainder(list[1], lo, hi) = <<Dummy>> /\ Pruned(<<Dummy>>, list, 1)
  <2>1. list[1] = Dummy /\ 1 \in 1 .. N
    BY <1>1 DEF WellFormed
  <2>2. Dummy.prot = NoAccess
    BY DEF Dummy, Area
  <2>3. Remainder(Dummy, lo, hi) = <<Dummy>>
    BY <2>2 DEF Remainder
  <2>4. ASSUME NEW bound \in Nat, EndsBy(list, bound)
        PROVE  EndsBy(<<Dummy>>, bound)
    BY <2>1, <2>4 DEF EndsBy, N
  <2>5. QED
    BY <2>1, <2>3, <2>4, DummyAlone, AreaAssumption DEF Pruned, Dummy, Area
<1>3. PICK parts \in Seq(Seq(AreaRecords)) :
        /\ parts # <<>>
        /\ Len(parts) = N
        /\ \A i \in 1 .. N : parts[i] = Remainder(list[i], lo, hi)
        /\ Unmap(list, lo, hi) = FlattenSeq(parts)
  BY UnmapParts
<1> HIDE DEF N
<1>4. PICK f \in [1 .. N -> Seq(AreaRecords)] :
        /\ f[1] = parts[1]
        /\ \A n \in 2 .. N : f[n] = f[n - 1] \o parts[n]
        /\ FlattenSeq(parts) = f[N]
  BY <1>3, FlattenIterates
<1> DEFINE Done == {n \in Nat : n + 1 <= N => Pruned(f[n + 1], list, n + 1)}
<1>5. 0 \in Done
  <2>1. 1 \in 1 .. N /\ 0 + 1 = 1
    BY <1>1
  <2>2. f[1] = <<Dummy>>
    BY <1>2, <1>3, <1>4, <2>1
  <2>3. QED
    BY <1>2, <2>1, <2>2
<1>6. ASSUME NEW n \in Nat, n \in Done
      PROVE  n + 1 \in Done
  <2>1. SUFFICES ASSUME (n + 1) + 1 <= N PROVE Pruned(f[(n + 1) + 1], list, (n + 1) + 1)
    OBVIOUS
  <2>2. /\ n + 1 \in 1 .. N - 1 /\ n + 1 <= N
        /\ (n + 1) + 1 \in 2 .. N /\ ((n + 1) + 1) - 1 = n + 1
        /\ (n + 1) + 1 \in 1 .. N
    <3> HIDE DEF Done
    <3>1. QED
      BY <1>1, <2>1
  <2>3. Pruned(f[n + 1], list, n + 1)
    BY <1>6, <2>2
  <2>4. f[(n + 1) + 1] = f[n + 1] \o Remainder(list[(n + 1) + 1], lo, hi)
    BY <1>3, <1>4, <2>2
  <2> HIDE DEF Done
  <2>5. n + 1 \in 1 .. Len(list) - 1
    BY <2>2 DEF N
  <2>6. QED
    BY <2>3, <2>4, <2>5, PruneOneMore
<1>7. Nat \subseteq Done
  <2> HIDE DEF Done
  <2>1. QED
    BY <1>5, <1>6, Induction
<1>8. Pruned(f[N], list, N)
  <2>1. N - 1 \in Nat /\ (N - 1) + 1 = N /\ N <= N
    <3> HIDE DEF Done
    <3>1. QED
      BY <1>1
  <2>2. QED
    BY <1>7, <2>1
<1>9. QED
  BY <1>3, <1>4, <1>8 DEF Pruned
------------------------------------------------------------------------------
(* mprotect *)

LEMMA UnmapNothing ==
  ASSUME NEW lo, NEW hi
  PROVE  Unmap(<<>>, lo, hi) = <<>>
<1> DEFINE parts == [i \in DOMAIN <<>> |-> Remainder(<<>>[i], lo, hi)]
<1>1. parts = <<>>
  OBVIOUS
<1> HIDE DEF parts
<1>2. FlattenSeq(parts) = <<>>
  BY <1>1 DEF FlattenSeq
<1>3. QED
  BY <1>2 DEF Unmap, parts

\* What vm_area_mprotect keeps while it goes through a list that ends by bound.
Walks(bound) ==
  {walk \in [areas : Seq(AreaRecords), regions : Seq(Nat \X Nat), done : Nat, from : Nat,
             lost : BOOLEAN, ret : {EINVAL, Success}] :
     WellFormed(walk.areas) /\ EndsBy(walk.areas, bound)}

LEMMA StartIsWalk ==
  ASSUME NEW list, WellFormed(list), NEW bound, EndsBy(list, bound)
  PROVE  StartWalk(list) \in Walks(bound)
<1>1. list \in Seq(AreaRecords) /\ 1 \in 1 .. Len(list) /\ list[1].end \in Nat
  <2>1. 1 \in 1 .. Len(list)
    BY ListFacts
  <2>2. QED
    BY <2>1, ListFacts DEF WellFormed
<1>2. QED
  BY <1>1 DEF StartWalk, Walks, Null, Success

\* The area visited next is one of the list, from its start or from where the
\* last visit ended.
LEMMA NextAreaIsArea ==
  ASSUME NEW bound \in Nat, NEW walk \in Walks(bound), NextArea(walk) # <<>>
  PROVE  /\ NextArea(walk)[1].start \in Nat
         /\ NextArea(walk)[1].end \in Nat
         /\ NextArea(walk)[1].start < NextArea(walk)[1].end
         /\ NextArea(walk)[1].end <= bound
<1> DEFINE ahead == {i \in DOMAIN walk.areas : walk.areas[i].end > walk.done}
           Least(i) == \A j \in ahead : i <= j
           area == walk.areas[CHOOSE i \in ahead : Least(i)]
           next == Area(IF area.start < walk.from THEN walk.done ELSE area.start,
                        area.end, area.prot)
<1>1. ahead # {} /\ NextArea(walk) = <<next>>
  BY DEF NextArea
<1>2. WellFormed(walk.areas) /\ EndsBy(walk.areas, bound) /\ walk.done \in Nat
  BY DEF Walks
<1>3. /\ DOMAIN walk.areas = 1 .. Len(walk.areas)
      /\ \A i \in 1 .. Len(walk.areas) :
           /\ walk.areas[i].start \in Nat /\ walk.areas[i].end \in Nat
           /\ walk.areas[i].start < walk.areas[i].end
  BY <1>2, ListFacts
<1>4. \E i \in ahead : Least(i)
  <2>1. ahead \subseteq Nat
    BY <1>3
  <2> HIDE DEF ahead
  <2>2. PICK i \in ahead : \A j \in Nat : j < i => j \notin ahead
    BY <1>1, <2>1, FirstPosition
  <2>3. \A j \in ahead : i <= j
    BY <2>1, <2>2
  <2>4. QED
    BY <2>3
<1>5. PICK i \in ahead : area = walk.areas[i]
  <2> HIDE DEF ahead, Least
  <2>1. QED
    BY <1>4
<1>6. /\ area.start \in Nat /\ area.end \in Nat
      /\ area.start < area.end /\ walk.done < area.end /\ area.end <= bound
  <2>1. i \in 1 .. Len(walk.areas) /\ walk.areas[i].end > walk.done
    BY <1>3
  <2> HIDE DEF area, ahead
  <2>2. QED
    BY <1>2, <1>3, <1>5, <2>1 DEF EndsBy
<1> HIDE DEF area
<1>7. next.start \in {walk.done, area.start} /\ next.end = area.end
  BY DEF Area
<1> HIDE DEF next
<1>8. next.start \in Nat /\ next.end \in Nat /\ next.start < next.end /\ next.end <= bound
  BY <1>2, <1>6, <1>7
<1>9. QED
  BY <1>1, <1>8
LEMMA PartKeepsWalk ==
  ASSUME NEW bound \in Nat, NEW walk \in Walks(bound), NEW area,
         NEW low \in Nat, NEW high \in Nat, low < high, high <= bound,
         area.end \in Nat, NEW prot \in ValidProt
  PROVE  ProtectPart(walk, area, low, high, prot) \in Walks(bound)
<1> DEFINE cut    == Unmap(walk.areas, low, high)
           mapped == Map(cut, low, high - low, prot, TRUE)
           after  == ProtectPart(walk, area, low, high, prot)
<1>1. /\ WellFormed(walk.areas) /\ EndsBy(walk.areas, bound)
      /\ walk.regions \in Seq(Nat \X Nat) /\ walk.lost \in BOOLEAN
  BY DEF Walks
<1>2. WellFormed(cut) /\ EndsBy(cut, bound)
  BY <1>1, UnmapKeepsShape
<1>3. high - low \in Nat \ {0} /\ low + (high - low) = high
  OBVIOUS
<1>4. after = [areas   |-> mapped.areas,
               regions |-> Append(walk.regions, <<low, high>>),
               done    |-> area.end,
               from    |-> low,
               lost    |-> walk.lost \/ mapped.areas = cut,
               ret     |-> IF mapped.ret = EINVAL THEN EINVAL ELSE Success]
  BY DEF ProtectPart
<1> HIDE DEF cut
<1>5. MapPromise(cut, low, high - low, TRUE, mapped)
  BY <1>2, <1>3, MapKeepsShape
<1> HIDE DEF mapped, after
<1>6. WellFormed(mapped.areas) /\ EndsBy(mapped.areas, bound) /\ mapped.areas \in Seq(AreaRecords)
  <2>1. cut # <<>>
    BY <1>2 DEF WellFormed
  <2>2. low + (high - low) <= bound
    BY <1>3
  <2>3. WellFormed(mapped.areas) /\ EndsBy(mapped.areas, bound)
    BY <1>2, <1>5, <2>1, <2>2 DEF MapPromise
  <2>4. QED
    BY <2>3 DEF WellFormed
<1>7. Append(walk.regions, <<low, high>>) \in Seq(Nat \X Nat)
  BY <1>1
<1>8. (walk.lost \/ mapped.areas = cut) \in BOOLEAN
  OBVIOUS
<1>9. (IF mapped.ret = EINVAL THEN EINVAL ELSE Success) \in {EINVAL, Success}
  OBVIOUS
<1>10. after \in [areas : Seq(AreaRecords), regions : Seq(Nat \X Nat), done : Nat, from : Nat,
                  lost : BOOLEAN, ret : {EINVAL, Success}]
  BY <1>4, <1>6, <1>7, <1>8, <1>9
<1>11. after.areas = mapped.areas
  BY <1>4
<1>12. after \in Walks(bound)
  BY <1>6, <1>10, <1>11 DEF Walks
<1>13. QED
  BY <1>12 DEF after

LEMMA LargerSmaller ==
  ASSUME NEW a \in Nat, NEW b \in Nat
  PROVE  Max({a, b}) = (IF a <= b THEN b ELSE a) /\ Min({a, b}) = (IF a <= b THEN a ELSE b)
<1>1. CASE a <= b
  <2>1. \A x \in {a, b} : x <= b /\ a <= x
    BY <1>1
  <2>2. \A x \in {a, b} : (\A y \in {a, b} : x >= y) => x = b
    BY <1>1
  <2>3. \A x \in {a, b} : (\A y \in {a, b} : x <= y) => x = a
    BY <1>1
  <2>4. QED
    BY <1>1, <2>1, <2>2, <2>3 DEF Max, Min
<1>2. CASE b < a
  <2>1. \A x \in {a, b} : x <= a /\ b <= x
    BY <1>2
  <2>2. \A x \in {a, b} : (\A y \in {a, b} : x >= y) => x = a
    BY <1>2
  <2>3. \A x \in {a, b} : (\A y \in {a, b} : x <= y) => x = b
    BY <1>2
  <2>4. ~(a <= b)
    BY <1>2
  <2>5. QED
    BY <2>1, <2>2, <2>3, <2>4 DEF Max, Min
<1>3. QED
  BY <1>1, <1>2

LEMMA StepKeepsWalk ==
  ASSUME NEW bound \in Nat, NEW walk \in Walks(bound), NEW lo \in Nat, NEW hi \in Nat, lo < hi,
         NEW prot \in ValidProt
  PROVE  ProtectStep(walk, lo, hi, prot) \in Walks(bound)
<1> DEFINE next == NextArea(walk)
           area == next[1]
           low  == Max({lo, area.start})
           high == Min({hi, area.end})
<1>1. CASE walk.ret = EINVAL \/ next = <<>>
  BY <1>1 DEF ProtectStep
<1>2. CASE ~(walk.ret = EINVAL \/ next = <<>>)
  <2>1. /\ area.start \in Nat /\ area.end \in Nat
        /\ area.start < area.end /\ area.end <= bound
    BY <1>2, NextAreaIsArea
  <2>2. CASE ~Overlaps(area, lo, hi)
    <3>1. ProtectStep(walk, lo, hi, prot) = [walk EXCEPT !.done = area.end]
      BY <1>2, <2>2 DEF ProtectStep
    <3> HIDE DEF area
    <3>2. [walk EXCEPT !.done = area.end] \in Walks(bound)
      BY <2>1 DEF Walks
    <3>3. QED
      BY <3>1, <3>2
  <2>3. CASE Overlaps(area, lo, hi)
    <3>1. ProtectStep(walk, lo, hi, prot) = ProtectPart(walk, area, low, high, prot)
      BY <1>2, <2>3 DEF ProtectStep
    <3> HIDE DEF area
    <3>2. area.start < hi /\ lo < area.end
      BY <2>3 DEF Overlaps
    <3>3. /\ low = IF lo <= area.start THEN area.start ELSE lo
          /\ high = IF hi <= area.end THEN hi ELSE area.end
      BY <2>1, LargerSmaller
    <3> HIDE DEF low, high
    <3>4. low \in Nat /\ high \in Nat /\ low < high /\ high <= bound
      BY <2>1, <3>2, <3>3
    <3>5. QED
      BY <2>1, <3>1, <3>4, PartKeepsWalk
  <2>4. QED
    BY <2>2, <2>3
<1>3. QED
  BY <1>1, <1>2


\* The walk of vm_area_mprotect is a sequence of steps, one for each area
\* behind the dummy.
LEMMA ProtectWalks ==
  ASSUME NEW list, WellFormed(list), NEW bound \in Nat, EndsBy(list, bound),
         NEW lo \in Nat, NEW hi \in Nat, lo < hi, NEW prot \in ValidProt
  PROVE  \E walk \in [0 .. Len(list) - 1 -> Walks(bound)] :
           /\ walk[0] = StartWalk(list)
           /\ \A n \in 1 .. Len(list) - 1 : walk[n] = ProtectStep(walk[n - 1], lo, hi, prot)
           /\ Protect(list, lo, hi, prot) = walk[Len(list) - 1]
<1> DEFINE N    == Len(list) - 1
           start == StartWalk(list)
           step == [p \in (1 .. N) \X Walks(bound) |-> ProtectStep(p[2], lo, hi, prot)]
           Walked(f) == f = [n \in 0 .. N |-> IF n = 0 THEN start
                                              ELSE ProtectStep(f[n - 1], lo, hi, prot)]
           walk == CHOOSE f : Walked(f)
           Kept == {n \in Nat : n <= N => walk[n] \in Walks(bound)}
<1>1. start \in Walks(bound)
  BY StartIsWalk
<1>2. Protect(list, lo, hi, prot) = walk[N]
  BY DEF Protect
<1> HIDE DEF start
<1>3. N \in Nat
  BY ListFacts
<1>4. \A w \in Walks(bound) : ProtectStep(w, lo, hi, prot) \in Walks(bound)
  BY StepKeepsWalk
<1>5. /\ step \in [(1 .. N) \X Walks(bound) -> Walks(bound)]
      /\ \A n \in 1 .. N, w \in Walks(bound) : step[<<n, w>>] = ProtectStep(w, lo, hi, prot)
  BY <1>4
<1> HIDE DEF N, step
<1>6. PICK g \in [0 .. N -> Walks(bound)] : Iterates(g, N, start, step)
  BY <1>1, <1>3, <1>5, Recursion
<1>7. Walked(g)
  <2>1. g[0] = start /\ \A n \in 1 .. N : g[n] = step[<<n, g[n - 1]>>]
    BY <1>6 DEF Iterates
  <2>2. \A n \in 0 .. N : n # 0 => n \in 1 .. N /\ n - 1 \in 0 .. N
    BY <1>3
  <2>3. \A n \in 0 .. N : g[n] = IF n = 0 THEN start ELSE ProtectStep(g[n - 1], lo, hi, prot)
    BY <1>5, <2>1, <2>2
  <2>4. QED
    BY <2>3
<1>8. Walked(walk)
  <2> HIDE DEF Walked
  <2>1. QED
    BY <1>7
<1> HIDE DEF walk
<1>9. /\ walk[0] = start
      /\ \A n \in 1 .. N : walk[n] = ProtectStep(walk[n - 1], lo, hi, prot)
  <2>1. 0 \in 0 .. N /\ \A n \in 1 .. N : n \in 0 .. N /\ n # 0
    BY <1>3
  <2>2. QED
    BY <1>8, <2>1
<1>10. 0 \in Kept
  BY <1>1, <1>9
<1>11. ASSUME NEW n \in Nat, n \in Kept
       PROVE  n + 1 \in Kept
  <2>1. SUFFICES ASSUME n + 1 <= N PROVE walk[n + 1] \in Walks(bound)
    OBVIOUS
  <2>2. n <= N /\ n + 1 \in 1 .. N /\ (n + 1) - 1 = n
    <3> HIDE DEF Kept, Walked
    <3>1. QED
      BY <1>3, <2>1
  <2>3. walk[n] \in Walks(bound)
    BY <1>11, <2>2
  <2>4. walk[n + 1] = ProtectStep(walk[n], lo, hi, prot)
    BY <1>9, <2>2
  <2>5. QED
    BY <1>4, <2>3, <2>4
<1>12. Nat \subseteq Kept
  <2> HIDE DEF Kept, Walked
  <2>1. QED
    BY <1>10, <1>11, Induction
<1>13. \A n \in 0 .. N : walk[n] \in Walks(bound)
  <2>1. \A n \in 0 .. N : n \in Nat /\ n <= N
    BY <1>3
  <2>2. QED
    BY <1>12, <2>1
<1>14. walk \in [0 .. N -> Walks(bound)]
  BY <1>8, <1>13
<1> HIDE DEF Walked, Kept
<1>15. QED
  BY <1>2, <1>9, <1>14 DEF N, start

LEMMA ProtectKeepsShape ==
  ASSUME NEW list, WellFormed(list), NEW bound \in Nat, EndsBy(list, bound),
         NEW lo \in Nat, NEW hi \in Nat, lo < hi, NEW prot
  PROVE  Protect(list, lo, hi, prot) \in Walks(bound)
<1>1. CASE prot \notin ValidProt
  <2> DEFINE start == StartWalk(list)
  <2>1. Protect(list, lo, hi, prot) = [start EXCEPT !.ret = EINVAL] /\ start \in Walks(bound)
    BY <1>1, StartIsWalk DEF Protect
  <2> HIDE DEF start
  <2>2. QED
    BY <2>1 DEF Walks
<1>2. CASE prot \in ValidProt
  <2>1. PICK walk \in [0 .. Len(list) - 1 -> Walks(bound)] :
          Protect(list, lo, hi, prot) = walk[Len(list) - 1]
    BY <1>2, ProtectWalks
  <2>2. Len(list) - 1 \in 0 .. Len(list) - 1
    BY ListFacts
  <2>3. QED
    BY <2>1, <2>2
<1>3. QED
  BY <1>1, <1>2
------------------------------------------------------------------------------
(* The process *)

\* The inductive invariant.
Inv ==
  /\ areas = <<>> \/ WellFormed(areas)
  /\ EndsBy(areas, Top + 1)
  /\ call.ret \in {EINVAL} \cup 0 .. Top

LEMMA ArgumentsAreNaturals ==
  ASSUME NEW addr \in Addresses, NEW length \in Lengths
  PROVE  addr \in 0 .. Top /\ length \in Nat \ {0} /\ addr + length \in Nat /\ addr < addr + length
<1>1. length \in Nat \ {0}
  BY VmaCallsAssumption
<1>2. addr \in 0 .. Top
  BY VmaCallsAssumption, AreaAssumption DEF Addresses, Null
<1>3. QED
  BY <1>1, <1>2

LEMMA InvInit == Init => Inv
<1> SUFFICES ASSUME Init PROVE Inv
  OBVIOUS
<1>1. areas = <<>> /\ EndsBy(areas, Top + 1)
  BY DEF Init, EndsBy
<1>2. call.ret = 0
  BY DEF Init, Called, Success
<1>3. 0 \in 0 .. Top
  BY VmaCallsAssumption
<1>4. QED
  BY <1>1, <1>2, <1>3 DEF Inv

LEMMA MmapKeepsInv ==
  ASSUME Inv, NEW addr \in Addresses, NEW length \in Lengths, NEW prot \in Prots,
         NEW fixed \in BOOLEAN, Mmap(addr, length, prot, fixed)
  PROVE  Inv'
<1> DEFINE result == Map(areas, addr, length, prot, fixed)
<1>1. /\ addr \in 0 .. Top /\ addr \in Nat /\ length \in Nat \ {0} /\ Top \in Nat
  BY ArgumentsAreNaturals, VmaCallsAssumption
<1>2. WithinBound(result.areas) /\ areas' = result.areas /\ call'.ret = result.ret
  BY DEF Mmap, Called
<1>3. MapPromise(areas, addr, length, fixed, result)
  BY <1>1, MapKeepsShape DEF Inv
<1> HIDE DEF result
<1>4. result.areas = <<>> \/ WellFormed(result.areas)
  BY <1>3 DEF MapPromise
<1>5. EndsBy(result.areas, Top + 1)
  <2>1. \A i \in DOMAIN result.areas : result.areas[i].end <= Top + 1
    BY <1>2 DEF WithinBound
  <2>2. CASE result.areas = <<>>
    BY <2>2 DEF EndsBy
  <2>3. CASE WellFormed(result.areas)
    BY <2>1, <2>3, ListFacts DEF EndsBy
  <2>4. QED
    BY <1>4, <2>2, <2>3
<1>6. result.ret \in {EINVAL} \cup 0 .. Top
  <2>1. CASE result.ret \in {EINVAL, addr}
    BY <1>1, <2>1
  <2>2. ASSUME result.ret \in Nat, NEW i \in 1 .. Len(result.areas),
               result.ret + length <= result.areas[i].end
        PROVE  result.ret \in 0 .. Top
    <3>1. WellFormed(result.areas)
      BY <1>4, <2>2
    <3>2. result.areas[i].end \in Nat /\ result.areas[i].end <= Top + 1
      BY <1>5, <3>1, ListFacts DEF EndsBy
    <3>3. QED
      BY <1>1, <2>2, <3>2
  <2>3. QED
    BY <1>3, <2>1, <2>2 DEF MapPromise
<1>7. QED
  BY <1>2, <1>4, <1>5, <1>6 DEF Inv

LEMMA MunmapKeepsInv ==
  ASSUME Inv, NEW addr \in Addresses, NEW length \in Lengths, Munmap(addr, length)
  PROVE  Inv'
<1>1. /\ addr \in Nat /\ addr + length \in Nat /\ addr < addr + length
      /\ Top + 1 \in Nat /\ 0 \in 0 .. Top
  BY ArgumentsAreNaturals, VmaCallsAssumption
<1>2. areas' = Unmap(areas, addr, addr + length) /\ call'.ret = 0
  BY DEF Munmap, Called, Success
<1>3. CASE areas = <<>>
  BY <1>1, <1>2, <1>3, UnmapNothing DEF Inv
<1>4. CASE WellFormed(areas)
  BY <1>1, <1>2, <1>4, UnmapKeepsShape DEF Inv
<1>5. QED
  BY <1>3, <1>4 DEF Inv

LEMMA MprotectKeepsInv ==
  ASSUME Inv, NEW addr \in Addresses, NEW length \in Lengths, NEW prot \in Prots,
         Mprotect(addr, length, prot)
  PROVE  Inv'
<1> DEFINE result == Protect(areas, addr, addr + length, prot)
<1>1. /\ addr \in Nat /\ addr + length \in Nat /\ addr < addr + length
      /\ Top + 1 \in Nat /\ 0 \in 0 .. Top
  BY ArgumentsAreNaturals, VmaCallsAssumption
<1>2. WellFormed(areas) /\ EndsBy(areas, Top + 1)
  BY DEF Inv, Mprotect
<1>3. areas' = result.areas /\ call'.ret = result.ret
  BY DEF Mprotect, Called
<1>4. result \in Walks(Top + 1)
  BY <1>1, <1>2, ProtectKeepsShape
<1> HIDE DEF result
<1>5. WellFormed(result.areas) /\ EndsBy(result.areas, Top + 1) /\ result.ret \in {EINVAL, 0}
  BY <1>4 DEF Walks, Success
<1>6. QED
  BY <1>1, <1>3, <1>5 DEF Inv

LEMMA InvNext == Inv /\ [Next]_vars => Inv'
<1> SUFFICES ASSUME Inv, [Next]_vars PROVE Inv'
  OBVIOUS
<1>1. CASE UNCHANGED vars
  BY <1>1 DEF vars, Inv
<1>2. CASE Next
  BY <1>2, MmapKeepsInv, MunmapKeepsInv, MprotectKeepsInv DEF Next
<1>3. QED
  BY <1>1, <1>2

LEMMA InvHolds == Spec => []Inv
  BY InvInit, InvNext, PTL DEF Spec

\* The list is made of areas of the address space and a call returns an
\* address of it, for every size of it and every set of lengths.
THEOREM VmaCallsTyped == Spec => []TypeOK
<1>1. Inv => TypeOK
  <2> SUFFICES ASSUME Inv PROVE TypeOK
    OBVIOUS
  <2> DEFINE Within == [start : AreaStart .. Top, end : AreaStart .. Top + 1,
                        prot : {NoAccess} \cup ValidProt]
  <2>1. call.ret \in {EINVAL} \cup 0 .. Top
    BY DEF Inv
  <2>2. CASE areas = <<>>
    BY <2>1, <2>2 DEF TypeOK
  <2>3. CASE WellFormed(areas)
    <3>1. ASSUME NEW i \in 1 .. Len(areas)
          PROVE  areas[i] \in Within
      <4>1. /\ areas[i] \in AreaRecords
            /\ areas[i].start \in Nat /\ areas[i].end \in Nat
            /\ AreaStart <= areas[i].start /\ areas[i].start < areas[i].end
        BY <2>3, ListFacts
      <4>2. areas[i].end <= Top + 1
        BY DEF Inv, EndsBy
      <4>3. areas[i].start \in AreaStart .. Top /\ areas[i].end \in AreaStart .. Top + 1
        BY <4>1, <4>2, AreaAssumption, VmaCallsAssumption
      <4>4. QED
        BY <4>1, <4>3 DEF AreaRecords
    <3> HIDE DEF Within
    <3>2. areas \in Seq(AreaRecords)
      BY <2>3 DEF WellFormed
    <3>3. areas \in Seq(Within)
      BY <3>1, <3>2
    <3>4. QED
      BY <2>1, <3>3 DEF TypeOK, Within
  <2>4. QED
    BY <2>2, <2>3 DEF Inv
<1>2. QED
  BY <1>1, InvHolds, PTL

\* No sequence of calls leaves two areas that overlap or stand in the wrong
\* order, an empty area or a list that does not start with the dummy.
THEOREM ListStaysSorted == Spec => []SortedAndDisjoint
<1>1. Inv => SortedAndDisjoint
  <2> SUFFICES ASSUME Inv, areas # <<>> PROVE SortedAndDisjoint
    BY DEF SortedAndDisjoint
  <2>1. WellFormed(areas) /\ DOMAIN areas = 1 .. Len(areas)
    BY ListFacts DEF Inv
  <2>2. QED
    BY <2>1 DEF WellFormed, Follows, SortedAndDisjoint
<1>2. QED
  BY <1>1, InvHolds, PTL

\* Areas that touch and have the same access have been merged, whichever of
\* the three calls brought them together.
THEOREM NeighboursAreMerged == Spec => []Merged
<1>1. Inv => Merged
  <2> SUFFICES ASSUME Inv PROVE Merged
    OBVIOUS
  <2>1. CASE areas = <<>>
    BY <2>1 DEF Merged
  <2>2. CASE WellFormed(areas)
    BY <2>2 DEF WellFormed, Follows, Merged
  <2>3. QED
    BY <2>1, <2>2 DEF Inv
<1>2. QED
  BY <1>1, InvHolds, PTL
------------------------------------------------------------------------------
(* What the calls promise: what a page has according to a list *)

\* The access that matters to a process is not the dummy's: list gives page v
\* the access p, and some area of list ends at e.
Has(list, v, p) == \E area \in Range(list) : area.start <= v /\ v < area.end /\ area.prot = p
IsEnd(list, e)  == \E area \in Range(list) : area.end = e

HasAny(list, v) == \E p \in ValidProt : Has(list, v, p)

LEMMA ListRange ==
  ASSUME NEW list, WellFormed(list)
  PROVE  Range(list) = {list[i] : i \in 1 .. Len(list)}
  BY ListFacts DEF Range

LEMMA HasAt ==
  ASSUME NEW list, WellFormed(list), NEW v, NEW p
  PROVE  Has(list, v, p) <=> \E i \in 1 .. Len(list) :
                               list[i].start <= v /\ v < list[i].end /\ list[i].prot = p
  BY ListRange DEF Has

LEMMA IsEndAt ==
  ASSUME NEW list, WellFormed(list), NEW e
  PROVE  IsEnd(list, e) <=> \E i \in 1 .. Len(list) : list[i].end = e
  BY ListRange DEF IsEnd

LEMMA AreasInOrder ==
  ASSUME NEW list, WellFormed(list), NEW i \in 1 .. Len(list), NEW j \in 1 .. Len(list), i < j
  PROVE  list[i].end <= list[j].start
<1> DEFINE After == {n \in Nat : i + (n + 1) <= Len(list) => list[i].end <= list[i + (n + 1)].start}
<1>1. /\ Len(list) \in Nat
      /\ \A k \in 1 .. Len(list) : /\ list[k].start \in Nat /\ list[k].end \in Nat
                                   /\ list[k].start < list[k].end
  BY ListFacts
<1>2. \A k \in 2 .. Len(list) : list[k - 1].end <= list[k].start
  BY DEF WellFormed, Follows
<1>3. 0 \in After
  <2>1. i + (0 + 1) <= Len(list) => i + (0 + 1) \in 2 .. Len(list) /\ (i + (0 + 1)) - 1 = i
    BY <1>1
  <2>2. QED
    BY <1>2, <2>1
<1>4. ASSUME NEW n \in Nat, n \in After
      PROVE  n + 1 \in After
  <2>1. SUFFICES ASSUME i + ((n + 1) + 1) <= Len(list)
                 PROVE  list[i].end <= list[i + ((n + 1) + 1)].start
    OBVIOUS
  <2> DEFINE m == i + (n + 1)
  <2>2. /\ m <= Len(list) /\ m \in 1 .. Len(list) /\ i + ((n + 1) + 1) = m + 1
        /\ m + 1 \in 2 .. Len(list) /\ m + 1 \in 1 .. Len(list) /\ (m + 1) - 1 = m
    <3> HIDE DEF After
    <3>1. QED
      BY <1>1, <2>1
  <2>3. list[i].end <= list[m].start
    BY <1>4, <2>2
  <2> HIDE DEF m, After
  <2>4. list[m].end <= list[m + 1].start
    BY <1>2, <2>2
  <2>5. /\ list[i].end \in Nat /\ list[m].start \in Nat /\ list[m].end \in Nat
        /\ list[m + 1].start \in Nat /\ list[m].start < list[m].end
    BY <1>1, <2>2
  <2>6. list[i].end <= list[m + 1].start
    <3>1. \A a, b, c, d \in Nat : a <= b /\ b < c /\ c <= d => a <= d
      OBVIOUS
    <3>2. QED
      BY <2>3, <2>4, <2>5, <3>1, Zenon
  <2>7. QED
    BY <2>2, <2>6
<1>5. Nat \subseteq After
  <2> HIDE DEF After
  <2>1. QED
    BY <1>3, <1>4, Induction
<1>6. j - i - 1 \in Nat /\ i + ((j - i - 1) + 1) = j /\ j <= Len(list)
  <2> HIDE DEF After
  <2>1. QED
    BY <1>1
<1>7. j - i - 1 \in After
  BY <1>5, <1>6
<1>8. QED
  BY <1>6, <1>7

\* What a page has according to the list.
LEMMA ProtOfIs ==
  ASSUME NEW list, list = <<>> \/ WellFormed(list), NEW v \in Nat
  PROVE  /\ ProtOf(list, v) \in {NoAccess} \cup ValidProt
         /\ \A p \in ValidProt : ProtOf(list, v) = p <=> Has(list, v, p)
<1> DEFINE covering == {i \in DOMAIN list : Overlaps(list[i], v, v + 1)}
           k == CHOOSE i \in covering : TRUE
<1>0. ProtOf(list, v) = IF covering = {} THEN NoAccess ELSE list[k].prot
  BY DEF ProtOf
<1>1. NoAccess \notin ValidProt
  BY DEF NoAccess, ValidProt, ReadOnly, ReadWrite
<1>2. CASE list = <<>>
  <2>1. covering = {}
    BY <1>2
  <2> HIDE DEF covering, k
  <2>2. \A p \in ValidProt : ~Has(list, v, p)
    BY <1>2 DEF Has, Range
  <2>3. QED
    BY <1>0, <1>1, <2>1, <2>2
<1>3. CASE WellFormed(list)
  <2>1. /\ Len(list) \in Nat /\ DOMAIN list = 1 .. Len(list)
        /\ \A i \in 1 .. Len(list) : /\ list[i] \in AreaRecords
                                     /\ list[i].start \in Nat /\ list[i].end \in Nat
                                     /\ list[i].start < list[i].end
    BY <1>3, ListFacts
  <2>2. \A i \in 1 .. Len(list) : i \in covering <=> list[i].start <= v /\ v < list[i].end
    BY <2>1 DEF Overlaps
  <2>3. covering \subseteq 1 .. Len(list)
    BY <2>1
  <2>4. \A p : Has(list, v, p) <=> \E i \in 1 .. Len(list) :
                                     list[i].start <= v /\ v < list[i].end /\ list[i].prot = p
    BY <1>3, HasAt
  <2>5. covering # {} => k \in covering
    BY Zenon
  <2> HIDE DEF covering, k
  <2>6. CASE covering = {}
    BY <1>0, <1>1, <2>2, <2>4, <2>6
  <2>7. CASE covering # {}
    <3>1. k \in 1 .. Len(list) /\ list[k].start <= v /\ v < list[k].end
      BY <2>2, <2>3, <2>5, <2>7
    <3>2. ASSUME NEW i \in 1 .. Len(list), list[i].start <= v, v < list[i].end
          PROVE  i = k
      <4>1. ~(i < k)
        <5>1. SUFFICES ASSUME i < k PROVE FALSE
          OBVIOUS
        <5>2. list[i].end <= list[k].start
          BY <1>3, <3>1, <5>1, AreasInOrder
        <5>3. QED
          BY <2>1, <3>1, <3>2, <5>2
      <4>2. ~(k < i)
        <5>1. SUFFICES ASSUME k < i PROVE FALSE
          OBVIOUS
        <5>2. list[k].end <= list[i].start
          BY <1>3, <3>1, <5>1, AreasInOrder
        <5>3. QED
          BY <2>1, <3>1, <3>2, <5>2
      <4>3. QED
        BY <2>1, <3>1, <4>1, <4>2
    <3>3. ProtOf(list, v) = list[k].prot
      BY <1>0, <2>7
    <3>4. list[k].prot \in {NoAccess} \cup ValidProt
      BY <2>1, <3>1 DEF AreaRecords
    <3>5. \A p : Has(list, v, p) <=> list[k].prot = p
      BY <2>4, <3>1, <3>2
    <3>6. QED
      BY <3>3, <3>4, <3>5
  <2>8. QED
    BY <2>6, <2>7
<1>4. QED
  BY <1>2, <1>3
------------------------------------------------------------------------------
(* mmap and munmap put and take a region *)

\* new gives [lo, hi) the access prot and is list elsewhere.
Puts(new, list, lo, hi, prot) ==
  /\ \A v \in Nat, p \in ValidProt :
       Has(new, v, p) <=> Has(list, v, p) \/ (lo <= v /\ v < hi /\ p = prot)
  /\ \A e \in Nat : hi < e => (IsEnd(new, e) <=> IsEnd(list, e))

\* new leaves [lo, hi) without access and is list elsewhere.
Takes(new, list, lo, hi) ==
  /\ \A v \in Nat, p \in ValidProt :
       Has(new, v, p) <=> Has(list, v, p) /\ ~(lo <= v /\ v < hi)
  /\ \A e \in Nat : hi < e => (IsEnd(new, e) <=> IsEnd(list, e))

LEMMA InsertPuts ==
  ASSUME NEW list, WellFormed(list), NEW k \in 1 .. Len(list),
         NEW lo \in Nat, NEW hi \in Nat, NEW prot \in ValidProt,
         list[k].end <= lo, lo < hi, k < Len(list) => hi <= list[k + 1].start
  PROVE  Puts(Insert(list, k, lo, hi, prot), list, lo, hi, prot)
<1> DEFINE left  == JoinsLeft(list, k, lo, prot)
           right == JoinsRight(list, k, hi, prot)
           a     == IF left THEN k - 1 ELSE k
           b     == IF right THEN k + 2 ELSE k + 1
           area  == Area(IF left THEN list[k].start ELSE lo,
                         IF right THEN list[k + 1].end ELSE hi, prot)
           new   == Insert(list, k, lo, hi, prot)
<1>1. /\ Len(list) \in Nat /\ list \in Seq(AreaRecords)
      /\ \A i \in 1 .. Len(list) : /\ list[i].start \in Nat /\ list[i].end \in Nat
                                   /\ list[i].start < list[i].end
  BY ListFacts DEF WellFormed
<1>2. left => list[k].end = lo /\ list[k].prot = prot
  BY DEF JoinsLeft
<1>3. right => k + 1 \in 1 .. Len(list) /\ list[k + 1].start = hi /\ list[k + 1].prot = prot
  BY <1>1 DEF JoinsRight
<1>4. /\ area.start = IF left THEN list[k].start ELSE lo
      /\ area.end = IF right THEN list[k + 1].end ELSE hi
      /\ area.prot = prot
  BY DEF Area
<1>5. area \in AreaRecords
  <2>1. area.start \in Nat /\ AreaStart <= area.start /\ area.end \in Nat
    <3>1. /\ list[k].start \in Nat /\ AreaStart <= list[k].start
          /\ list[k].start < list[k].end /\ list[k].end \in Nat /\ AreaStart \in Nat
      BY ListFacts, AreaAssumption
    <3> HIDE DEF left, right, area
    <3>2. QED
      BY <1>1, <1>3, <1>4, <3>1
  <2>2. QED
    BY <2>1 DEF Area, AreaRecords
<1>6. new = Splice(list, a, area, b)
  BY DEF Insert, Splice
<1>7. a \in 0 .. Len(list) /\ b \in a + 1 .. Len(list) + 1
  <2> HIDE DEF left, right
  <2>1. QED
    BY <1>1, <1>3
<1>8. \A i \in 1 .. Len(list) : i \in 1 .. a \/ (left /\ i = k) \/ (right /\ i = k + 1) \/ i \in b .. Len(list)
  <2> HIDE DEF left, right
  <2>1. QED
    BY <1>1
<1>9. \A i \in 1 .. a \cup b .. Len(list) : i \in 1 .. Len(list)
  BY <1>1, <1>7
<1>10. \A x : x \in Range(new) <=> x = area \/ \E i \in 1 .. a \cup b .. Len(list) : x = list[i]
  <2> HIDE DEF a, b, area, new
  <2>1. list \in Seq(AreaRecords)
    BY <1>1
  <2>2. Range(Splice(list, a, area, b)) =
          {list[i] : i \in 1 .. a} \cup {area} \cup {list[i] : i \in b .. Len(list)}
    BY <1>5, <1>7, <2>1, SpliceRange
  <2>3. Range(new) = {list[i] : i \in 1 .. a} \cup {area} \cup {list[i] : i \in b .. Len(list)}
    BY <1>6, <2>2
  <2>4. QED
    BY <2>3, Zenon
<1> HIDE DEF left, right, area, new, a, b
<1>11. list[k].start <= lo /\ list[k].start \in Nat
  BY <1>1
<1>12. right => list[k + 1].end \in Nat /\ hi < list[k + 1].end
  BY <1>1, <1>3
<1>13. ASSUME NEW v \in Nat, NEW p \in ValidProt
       PROVE  Has(new, v, p) <=> Has(list, v, p) \/ (lo <= v /\ v < hi /\ p = prot)
  <2>1. ASSUME Has(new, v, p)
        PROVE  Has(list, v, p) \/ (lo <= v /\ v < hi /\ p = prot)
    <3>1. PICK x \in Range(new) : x.start <= v /\ v < x.end /\ x.prot = p
      BY <2>1 DEF Has
    <3>2. CASE x = area
      <4>1. v < lo => left /\ list[k].start <= v /\ v < list[k].end /\ list[k].prot = p
        BY <1>2, <1>4, <3>1, <3>2
      <4>2. hi <= v => right /\ list[k + 1].start <= v /\ v < list[k + 1].end /\ list[k + 1].prot = p
        BY <1>3, <1>4, <3>1, <3>2
      <4>3. p = prot
        BY <1>4, <3>1, <3>2
      <4>4. QED
        BY <1>3, <4>1, <4>2, <4>3, HasAt
    <3>3. ASSUME NEW i \in 1 .. a \cup b .. Len(list), x = list[i]
          PROVE  Has(list, v, p)
      BY <1>9, <3>1, <3>3, HasAt
    <3>4. QED
      BY <1>10, <3>2, <3>3
  <2>2. ASSUME lo <= v, v < hi, p = prot
        PROVE  Has(new, v, p)
    <3>1. area.start <= v /\ v < area.end /\ area.prot = p /\ area \in Range(new)
      BY <1>4, <1>10, <1>11, <1>12, <2>2
    <3>2. QED
      BY <3>1 DEF Has
  <2>3. ASSUME Has(list, v, p)
        PROVE  Has(new, v, p)
    <3>1. PICK i \in 1 .. Len(list) : list[i].start <= v /\ v < list[i].end /\ list[i].prot = p
      BY <2>3, HasAt
    <3>2. CASE i \in 1 .. a \/ i \in b .. Len(list)
      <4>1. list[i] \in Range(new)
        BY <1>10, <3>2
      <4>2. QED
        BY <3>1, <4>1 DEF Has
    <3>3. CASE left /\ i = k
      <4>1. area.start <= v /\ v < area.end /\ area.prot = p /\ area \in Range(new)
        BY <1>2, <1>4, <1>10, <1>12, <3>1, <3>3
      <4>2. QED
        BY <4>1 DEF Has
    <3>4. CASE right /\ i = k + 1
      <4>1. area.start <= v /\ v < area.end /\ area.prot = p /\ area \in Range(new)
        BY <1>3, <1>4, <1>10, <1>11, <3>1, <3>4
      <4>2. QED
        BY <4>1 DEF Has
    <3>5. QED
      BY <1>8, <3>2, <3>3, <3>4
  <2>4. QED
    BY <2>1, <2>2, <2>3
<1>14. ASSUME NEW e \in Nat, hi < e
       PROVE  IsEnd(new, e) <=> IsEnd(list, e)
  <2>1. ASSUME IsEnd(new, e)
        PROVE  IsEnd(list, e)
    <3>1. PICK x \in Range(new) : x.end = e
      BY <2>1 DEF IsEnd
    <3>2. CASE x = area
      <4>1. right /\ list[k + 1].end = e
        BY <1>4, <1>14, <3>1, <3>2
      <4>2. QED
        BY <1>3, <4>1, IsEndAt
    <3>3. ASSUME NEW i \in 1 .. a \cup b .. Len(list), x = list[i]
          PROVE  IsEnd(list, e)
      BY <1>9, <3>1, <3>3, IsEndAt
    <3>4. QED
      BY <1>10, <3>2, <3>3
  <2>2. ASSUME IsEnd(list, e)
        PROVE  IsEnd(new, e)
    <3>1. PICK i \in 1 .. Len(list) : list[i].end = e
      BY <2>2, IsEndAt
    <3>2. ~(left /\ i = k)
      BY <1>2, <1>14, <3>1
    <3>3. CASE i \in 1 .. a \/ i \in b .. Len(list)
      <4>1. list[i] \in Range(new)
        BY <1>10, <3>3
      <4>2. QED
        BY <3>1, <4>1 DEF IsEnd
    <3>4. CASE right /\ i = k + 1
      <4>1. area.end = e /\ area \in Range(new)
        BY <1>4, <1>10, <3>1, <3>4
      <4>2. QED
        BY <4>1 DEF IsEnd
    <3>5. QED
      BY <1>8, <3>2, <3>3, <3>4
  <2>3. QED
    BY <2>1, <2>2
<1>15. QED
  BY <1>13, <1>14 DEF Puts, new

\* The parts of an area are the area without [lo, hi).
LEMMA RemainderTakes ==
  ASSUME NEW area \in AreaRecords, area.start < area.end,
         NEW lo \in Nat, NEW hi \in Nat, lo < hi
  PROVE  /\ \A v \in Nat, p \in ValidProt :
              Has(Remainder(area, lo, hi), v, p)
                <=> area.start <= v /\ v < area.end /\ area.prot = p /\ ~(lo <= v /\ v < hi)
         /\ \A e \in Nat : hi < e => (IsEnd(Remainder(area, lo, hi), e) <=> area.end = e)
<1> DEFINE front == Area(area.start, lo, area.prot)
           back  == Area(hi, area.end, area.prot)
           rest  == Remainder(area, lo, hi)
<1>1. area.start \in Nat /\ area.end \in Nat
  BY DEF AreaRecords
<1>2. /\ front.start = area.start /\ front.end = lo /\ front.prot = area.prot
      /\ back.start = hi /\ back.end = area.end /\ back.prot = area.prot
  BY DEF Area
<1>3. CASE area.prot = NoAccess \/ ~Overlaps(area, lo, hi)
  <2>1. rest = <<area>>
    BY <1>3 DEF Remainder
  <2>2. Range(rest) = {area}
    BY <2>1 DEF Range
  <2>3. area.prot \in ValidProt => ~(area.start < hi /\ lo < area.end)
    BY <1>3 DEF Overlaps, NoAccess, ValidProt, ReadOnly, ReadWrite
  <2> HIDE DEF rest
  <2>4. \A v \in Nat, p \in ValidProt :
          Has(rest, v, p) <=> area.start <= v /\ v < area.end /\ area.prot = p /\ ~(lo <= v /\ v < hi)
    BY <1>1, <2>2, <2>3 DEF Has
  <2>5. \A e \in Nat : IsEnd(rest, e) <=> area.end = e
    BY <2>2 DEF IsEnd
  <2>6. QED
    BY <2>4, <2>5 DEF rest
<1>4. CASE ~(area.prot = NoAccess \/ ~Overlaps(area, lo, hi))
  <2>1. rest = (IF area.start < lo THEN <<front>> ELSE <<>>)
                 \o (IF hi < area.end THEN <<back>> ELSE <<>>)
    BY <1>4 DEF Remainder
  <2>2. area.start < hi /\ lo < area.end
    BY <1>4 DEF Overlaps
  <2> HIDE DEF front, back, rest
  <2>3. \A x : x \in Range(rest) <=> (area.start < lo /\ x = front) \/ (hi < area.end /\ x = back)
    <3> DEFINE E == {front, back}
               one == IF area.start < lo THEN <<front>> ELSE <<>>
               two == IF hi < area.end THEN <<back>> ELSE <<>>
    <3>1. /\ <<front>> \in Seq(E) /\ <<back>> \in Seq(E) /\ <<>> \in Seq(E)
          /\ Range(<<front>>) = {front} /\ Range(<<back>>) = {back} /\ Range(<<>>) = {}
      <4>1. <<front>> \in Seq(E) /\ <<back>> \in Seq(E) /\ <<>> \in Seq(E)
        OBVIOUS
      <4> HIDE DEF E
      <4>2. Range(<<front>>) = {front}
        BY DEF Range
      <4>3. Range(<<back>>) = {back}
        BY DEF Range
      <4>4. Range(<<>>) = {}
        BY DEF Range
      <4>5. QED
        BY <4>1, <4>2, <4>3, <4>4, Zenon
    <3> HIDE DEF E
    <3>2. one \in Seq(E) /\ two \in Seq(E)
      <4>1. (one = <<front>> \/ one = <<>>) /\ (two = <<back>> \/ two = <<>>)
        BY Zenon
      <4> HIDE DEF one, two
      <4>2. QED
        BY <3>1, <4>1
    <3>3. rest = one \o two
      BY <2>1, Zenon
    <3>4. Range(rest) = Range(one) \cup Range(two)
      <4> HIDE DEF one, two
      <4>1. QED
        BY <3>2, <3>3, RangeConcatenation
    <3>5. /\ Range(one) = IF area.start < lo THEN {front} ELSE {}
          /\ Range(two) = IF hi < area.end THEN {back} ELSE {}
      BY <3>1, Zenon
    <3> HIDE DEF one, two
    <3>6. QED
      BY <3>4, <3>5
  <2>4. ASSUME NEW v \in Nat, NEW p \in ValidProt
        PROVE  Has(rest, v, p)
                 <=> area.start <= v /\ v < area.end /\ area.prot = p /\ ~(lo <= v /\ v < hi)
    <3>1. Has(rest, v, p) <=> \/ area.start < lo /\ front.start <= v /\ v < front.end /\ front.prot = p
                              \/ hi < area.end /\ back.start <= v /\ v < back.end /\ back.prot = p
      BY <2>3 DEF Has
    <3>2. QED
      BY <1>1, <1>2, <2>2, <3>1
  <2>5. ASSUME NEW e \in Nat, hi < e
        PROVE  IsEnd(rest, e) <=> area.end = e
    <3>1. IsEnd(rest, e) <=> (area.start < lo /\ front.end = e) \/ (hi < area.end /\ back.end = e)
      BY <2>3 DEF IsEnd
    <3>2. QED
      BY <1>1, <1>2, <2>2, <2>5, <3>1
  <2>6. QED
    BY <2>4, <2>5 DEF rest
<1>5. QED
  BY <1>3, <1>4

LEMMA UnmapTakes ==
  ASSUME NEW list, WellFormed(list), NEW lo \in Nat, NEW hi \in Nat, lo < hi
  PROVE  Takes(Unmap(list, lo, hi), list, lo, hi)
<1> DEFINE cut == Unmap(list, lo, hi)
           rest(i) == Remainder(list[i], lo, hi)
<1>1. PICK parts \in Seq(Seq(AreaRecords)) :
        /\ parts # <<>>
        /\ Len(parts) = Len(list)
        /\ \A i \in 1 .. Len(list) : parts[i] = rest(i)
        /\ cut = FlattenSeq(parts)
  BY UnmapParts
<1> HIDE DEF cut, rest
<1>2. \A x : x \in Range(cut) <=> \E i \in 1 .. Len(list) : x \in Range(rest(i))
  <2>1. Range(cut) = UNION {Range(parts[i]) : i \in 1 .. Len(parts)}
    BY <1>1, FlattenRange
  <2>2. QED
    BY <1>1, <2>1
<1>3. \A i \in 1 .. Len(list) : list[i] \in AreaRecords /\ list[i].start < list[i].end
  BY ListFacts
<1>4. ASSUME NEW v \in Nat, NEW p \in ValidProt
      PROVE  Has(cut, v, p) <=> Has(list, v, p) /\ ~(lo <= v /\ v < hi)
  <2>1. Has(cut, v, p) <=> \E i \in 1 .. Len(list) : Has(rest(i), v, p)
    BY <1>2 DEF Has
  <2>2. \A i \in 1 .. Len(list) :
          Has(rest(i), v, p) <=> list[i].start <= v /\ v < list[i].end /\ list[i].prot = p
                                   /\ ~(lo <= v /\ v < hi)
    BY <1>3, RemainderTakes DEF rest
  <2>3. QED
    BY <2>1, <2>2, HasAt
<1>5. ASSUME NEW e \in Nat, hi < e
      PROVE  IsEnd(cut, e) <=> IsEnd(list, e)
  <2>1. IsEnd(cut, e) <=> \E i \in 1 .. Len(list) : IsEnd(rest(i), e)
    BY <1>2 DEF IsEnd
  <2>2. \A i \in 1 .. Len(list) : IsEnd(rest(i), e) <=> list[i].end = e
    BY <1>3, <1>5, RemainderTakes DEF rest
  <2>3. QED
    BY <2>1, <2>2, IsEndAt
<1>6. QED
  BY <1>4, <1>5 DEF Takes, cut

\* vm_area_map at an address, where no area is: what is asked for, or nothing.
LEMMA MapAtPuts ==
  ASSUME NEW list, WellFormed(list), NEW lo \in Nat, NEW hi \in Nat, NEW prot \in ValidProt,
         AreaStart <= lo, lo < hi, IsFree(list, lo, hi)
  PROVE  MapAt(list, lo, hi, prot) = list \/ Puts(MapAt(list, lo, hi, prot), list, lo, hi, prot)
<1>1. CASE MissingCase(list, lo, hi, prot)
  BY <1>1 DEF MapAt
<1>2. CASE ~MissingCase(list, lo, hi, prot)
  <2>1. MapAt(list, lo, hi, prot) = Insert(list, PlaceOf(list, lo, hi), lo, hi, prot)
    BY <1>2 DEF MapAt
  <2>2. QED
    BY <2>1, PlaceIsGap, InsertPuts
<1>3. QED
  BY <1>1, <1>2

LEMMA HasWithDummy ==
  ASSUME NEW list, NEW v, NEW p \in ValidProt
  PROVE  Has(WithDummy(list), v, p) <=> Has(list, v, p)
<1>1. CASE list = <<>>
  <2>1. Range(<<Dummy>>) = {Dummy}
    BY DEF Range
  <2>2. Range(<<>>) = {}
    BY DEF Range
  <2>3. Dummy.prot # p
    BY DEF Dummy, Area, NoAccess, ValidProt, ReadOnly, ReadWrite
  <2>4. ~Has(<<Dummy>>, v, p) /\ ~Has(<<>>, v, p)
    BY <2>1, <2>2, <2>3 DEF Has
  <2>5. QED
    BY <1>1, <2>4 DEF WithDummy
<1>2. CASE list # <<>>
  BY <1>2 DEF WithDummy
<1>3. QED
  BY <1>1, <1>2

\* An area behind the dummy has one of the two accesses.
LEMMA AccessIsValid ==
  ASSUME NEW list, WellFormed(list), NEW i \in 1 .. Len(list), i # 1
  PROVE  list[i].prot \in ValidProt
<1>1. i \in 2 .. Len(list)
  BY ListFacts
<1>2. list[i].prot # NoAccess /\ list[i] \in AreaRecords
  BY <1>1, ListFacts DEF WellFormed
<1>3. QED
  BY <1>2 DEF AreaRecords

\* The pages from addr on are behind the dummy and in no area.
FreePages(list, addr, length) ==
  \A v \in addr .. addr + length - 1 : v > AreaStart /\ (v <= Top => ~HasAny(list, v))

LEMMA FreeIsFree ==
  ASSUME NEW list, WellFormed(list), EndsBy(list, Top + 1), NEW addr \in Nat,
         NEW length \in Nat \ {0}, AreaStart <= addr
  PROVE  IsFree(list, addr, addr + length) <=> FreePages(list, addr, length)
<1>1. /\ Len(list) \in Nat \ {0} /\ DOMAIN list = 1 .. Len(list)
      /\ \A i \in 1 .. Len(list) : /\ list[i].start \in Nat /\ list[i].end \in Nat
                                   /\ list[i].start < list[i].end /\ list[i].end <= Top + 1
  BY ListFacts DEF EndsBy
<1>2. list[1].start = AreaStart /\ list[1].end = AreaStart + 1 /\ 1 \in 1 .. Len(list)
  BY <1>1 DEF WellFormed, Dummy, Area
<1>3. AreaStart \in Nat /\ Top \in Nat
  BY AreaAssumption, VmaCallsAssumption
<1>4. ASSUME IsFree(list, addr, addr + length)
      PROVE  FreePages(list, addr, length)
  <2>1. \A i \in 1 .. Len(list) : ~(list[i].start < addr + length /\ addr < list[i].end)
    BY <1>1, <1>4 DEF IsFree, Overlaps
  <2>2. SUFFICES ASSUME NEW v \in addr .. addr + length - 1
                 PROVE  v > AreaStart /\ ~HasAny(list, v)
    BY DEF FreePages
  <2>3. v > AreaStart
    <3>1. ~(AreaStart < addr + length /\ addr < AreaStart + 1)
      BY <1>2, <2>1
    <3>2. QED
      BY <1>3, <3>1
  <2>4. ASSUME NEW p \in ValidProt, Has(list, v, p)
        PROVE  FALSE
    <3>1. PICK i \in 1 .. Len(list) : list[i].start <= v /\ v < list[i].end
      BY <2>4, HasAt
    <3>2. list[i].start < addr + length /\ addr < list[i].end
      BY <1>1, <3>1
    <3>3. QED
      BY <2>1, <3>2
  <2>5. QED
    BY <2>3, <2>4 DEF HasAny
<1>5. ASSUME FreePages(list, addr, length)
      PROVE  IsFree(list, addr, addr + length)
  <2>1. SUFFICES ASSUME NEW i \in 1 .. Len(list), list[i].start < addr + length, addr < list[i].end
                 PROVE  FALSE
    BY <1>1 DEF IsFree, Overlaps
  <2>2. CASE i = 1
    <3>1. AreaStart < addr + length /\ addr < AreaStart + 1
      BY <1>2, <2>1, <2>2
    <3>2. AreaStart \in addr .. addr + length - 1 /\ ~(AreaStart > AreaStart)
      BY <1>3, <3>1
    <3>3. QED
      BY <1>5, <3>2 DEF FreePages
  <2>3. CASE i # 1
    <3>1. list[i].prot \in ValidProt
      BY <2>3, AccessIsValid
    <3> DEFINE v == IF addr <= list[i].start THEN list[i].start ELSE addr
    <3>2. /\ v \in addr .. addr + length - 1 /\ v <= Top
          /\ list[i].start <= v /\ v < list[i].end
      <4> DEFINE start == list[i].start
                 end   == list[i].end
      <4>1. start \in Nat /\ end \in Nat /\ start < end /\ end <= Top + 1
        BY <1>1
      <4>2. start < addr + length /\ addr < end
        BY <2>1
      <4>3. v = IF addr <= start THEN start ELSE addr
        BY DEF v
      <4> HIDE DEF start, end
      <4>4. v \in addr .. addr + length - 1 /\ v <= Top /\ start <= v /\ v < end
        BY <1>3, <4>1, <4>2, <4>3
      <4>5. QED
        BY <4>4 DEF start, end
    <3> HIDE DEF v
    <3>3. Has(list, v, list[i].prot)
      BY <3>2, HasAt
    <3>4. QED
      BY <1>5, <3>1, <3>2, <3>3 DEF FreePages, HasAny
  <2>4. QED
    BY <2>2, <2>3
<1>6. QED
  BY <1>4, <1>5

\* The pages from the first gap with enough room are free, those from any
\* page before it are not.
LEMMA LowestIsLowest ==
  ASSUME NEW list, WellFormed(list), EndsBy(list, Top + 1), NEW length \in Nat \ {0},
         NEW k \in 1 .. Len(list), \A j \in 1 .. k - 1 : ~Fits(list, j, length),
         k < Len(list) => list[k].end + length <= list[k + 1].start
  PROVE  /\ FreePages(list, list[k].end, length)
         /\ \A u \in AreaStart .. list[k].end - 1 : ~FreePages(list, u, length)
<1>1. /\ Len(list) \in Nat \ {0} /\ DOMAIN list = 1 .. Len(list)
      /\ \A i \in 1 .. Len(list) : /\ list[i].start \in Nat /\ list[i].end \in Nat
                                   /\ AreaStart <= list[i].start
                                   /\ list[i].start < list[i].end /\ list[i].end <= Top + 1
  BY ListFacts DEF EndsBy
<1>2. list[1].end = AreaStart + 1
  BY DEF WellFormed, Dummy, Area
<1>3. AreaStart \in Nat /\ Top \in Nat
  BY AreaAssumption, VmaCallsAssumption
<1>4. FreePages(list, list[k].end, length)
  <2>1. SUFFICES ASSUME NEW v \in list[k].end .. list[k].end + length - 1
                 PROVE  v > AreaStart /\ ~HasAny(list, v)
    BY DEF FreePages
  <2>2. /\ v > AreaStart /\ v \in Nat /\ list[k].end <= v
        /\ k < Len(list) => v < list[k + 1].start
    <3>1. list[k].end \in Nat /\ AreaStart < list[k].end
      BY <1>1, <1>3
    <3>2. k < Len(list) => list[k + 1].start \in Nat
      BY <1>1
    <3>3. QED
      BY <1>3, <3>1, <3>2
  <2>3. ASSUME NEW i \in 1 .. Len(list), list[i].start <= v, v < list[i].end
        PROVE  FALSE
    <3>1. CASE i < k
      <4>1. list[i].end <= list[k].start
        BY <3>1, AreasInOrder
      <4>2. QED
        BY <1>1, <2>2, <2>3, <4>1
    <3>2. CASE i = k
      BY <1>1, <2>2, <2>3, <3>2
    <3>3. CASE i = k + 1
      BY <1>1, <2>2, <2>3, <3>3
    <3>4. CASE k + 1 < i
      <4>1. k + 1 \in 1 .. Len(list) /\ k < Len(list)
        BY <1>1, <3>4
      <4>2. list[k + 1].end <= list[i].start
        BY <3>4, <4>1, AreasInOrder
      <4>3. list[k + 1].start < list[k + 1].end
        BY <1>1, <4>1
      <4>4. QED
        BY <1>1, <2>2, <2>3, <4>1, <4>2, <4>3
    <3>5. QED
      BY <1>1, <3>1, <3>2, <3>3, <3>4
  <2>4. QED
    BY <2>2, <2>3, HasAt DEF HasAny
<1>5. ASSUME NEW u \in AreaStart .. list[k].end - 1
      PROVE  ~FreePages(list, u, length)
  <2> DEFINE T == {i \in 1 .. Len(list) : list[i].end > u}
  <2>1. u \in Nat /\ u < list[k].end
    BY <1>1, <1>3
  <2>2. k \in T /\ T \subseteq Nat
    BY <1>1, <2>1
  <2> HIDE DEF T
  <2>3. PICK j \in T : \A i \in Nat : i < j => i \notin T
    BY <2>2, FirstPosition
  <2>4. j \in 1 .. Len(list) /\ u < list[j].end /\ j <= k
    <3>1. j \in 1 .. Len(list) /\ list[j].end > u
      BY <2>3 DEF T
    <3>2. ~(k < j)
      BY <2>2, <2>3
    <3>3. QED
      BY <1>1, <2>1, <3>1, <3>2
  <2>5. CASE j = 1
    <3>1. u \in u .. u + length - 1 /\ ~(u > AreaStart)
      BY <1>2, <1>3, <2>1, <2>4, <2>5
    <3>2. QED
      BY <3>1 DEF FreePages
  <2>6. CASE j # 1
    <3>1. j - 1 \in 1 .. k - 1 /\ j - 1 \in 1 .. Len(list) /\ j - 1 # Len(list) /\ (j - 1) + 1 = j
      BY <1>1, <2>4, <2>6
    <3>2. list[j - 1].end <= u
      <4>1. j - 1 \in Nat /\ j - 1 < j
        BY <1>1, <2>4, <2>6
      <4>2. j - 1 \notin T
        BY <2>3, <4>1
      <4>3. ~(list[j - 1].end > u)
        BY <3>1, <4>2 DEF T
      <4>4. QED
        BY <1>1, <2>1, <3>1, <4>3
    <3>3. ~(list[j].start - list[j - 1].end >= length)
      BY <3>1 DEF Fits
    <3>4. list[j].start < u + length
      <4>1. list[j].start \in Nat /\ list[j - 1].end \in Nat
        BY <1>1, <2>4, <3>1
      <4>2. QED
        BY <2>1, <3>2, <3>3, <4>1
    <3>5. list[j].prot \in ValidProt
      BY <2>4, <2>6, AccessIsValid
    <3> DEFINE v == IF u <= list[j].start THEN list[j].start ELSE u
    <3>6. /\ v \in u .. u + length - 1 /\ v <= Top
          /\ list[j].start <= v /\ v < list[j].end
      <4>1. list[j].start \in Nat /\ list[j].end \in Nat /\ list[j].start < list[j].end /\ list[j].end <= Top + 1
        BY <1>1, <2>4
      <4>2. u < list[j].end
        BY <2>4
      <4>3. CASE u <= list[j].start
        <5>1. v = list[j].start
          BY <4>3
        <5> HIDE DEF v
        <5>2. QED
          BY <1>3, <2>1, <3>4, <4>1, <4>3, <5>1
      <4>4. CASE ~(u <= list[j].start)
        <5>1. v = u
          BY <4>4
        <5> HIDE DEF v
        <5>2. QED
          BY <1>3, <2>1, <4>1, <4>2, <4>4, <5>1
      <4>5. QED
        BY <4>3, <4>4
    <3> HIDE DEF v
    <3>7. Has(list, v, list[j].prot)
      BY <2>4, <3>6, HasAt
    <3>8. QED
      BY <3>5, <3>6, <3>7 DEF FreePages, HasAny
  <2>7. QED
    BY <2>5, <2>6
<1>6. QED
  BY <1>4, <1>5
------------------------------------------------------------------------------
(* mmap and munmap keep what PageMap promises *)

Listed(list) == list = <<>> \/ WellFormed(list)

PermOf(list) == [v \in AreaStart + 1 .. Top |-> ProtOf(list, v)]

\* The page map of list, and the same as seen in the areas, with a region changed.
SetPerm(list, region, prot) ==
  [v \in AreaStart + 1 .. Top |-> IF v \in region THEN prot ELSE PermOf(list)[v]]
IsSet(new, list, region, prot) ==
  \A v \in AreaStart + 1 .. Top, p \in ValidProt :
    Has(new, v, p) <=> IF v \in region THEN p = prot ELSE Has(list, v, p)

LEMMA PermChange ==
  ASSUME NEW list, Listed(list), NEW new, Listed(new),
         NEW region, NEW prot \in {NoAccess} \cup ValidProt,
         IsSet(new, list, region, prot)
  PROVE  PermOf(new) = SetPerm(list, region, prot)
<1> DEFINE Pages == AreaStart + 1 .. Top
<1>1. Pages \subseteq Nat
  BY AreaAssumption, VmaCallsAssumption
<1>2. NoAccess \notin ValidProt
  BY DEF NoAccess, ValidProt, ReadOnly, ReadWrite
<1>3. ASSUME NEW v \in Pages
      PROVE  ProtOf(new, v) = IF v \in region THEN prot ELSE ProtOf(list, v)
  <2>1. /\ ProtOf(new, v) \in {NoAccess} \cup ValidProt
        /\ \A p \in ValidProt : ProtOf(new, v) = p <=> Has(new, v, p)
    BY <1>1, ProtOfIs DEF Listed
  <2>2. /\ ProtOf(list, v) \in {NoAccess} \cup ValidProt
        /\ \A p \in ValidProt : ProtOf(list, v) = p <=> Has(list, v, p)
    BY <1>1, ProtOfIs DEF Listed
  <2>3. \A p \in ValidProt : Has(new, v, p) <=> IF v \in region THEN p = prot ELSE Has(list, v, p)
    BY DEF IsSet
  <2> HIDE DEF Pages
  <2>4. QED
    BY <1>2, <2>1, <2>2, <2>3
<1>4. QED
  BY <1>3 DEF PermOf, SetPerm

\* PageMap's constants are those of Vma.
LEMMA SameNames ==
  /\ Promised!Null = Null
  /\ Promised!NoAccess = NoAccess
  /\ Promised!ValidProt = ValidProt
  /\ Promised!EINVAL = EINVAL
  /\ Promised!Success = Success
  /\ Promised!Pages = AreaStart + 1 .. Top
  BY DEF Promised!Null, Promised!NoAccess, Promised!ValidProt, Promised!ReadOnly,
         Promised!ReadWrite, Promised!EINVAL, Promised!Success, Promised!Pages,
         Null, NoAccess, ValidProt, ReadOnly, ReadWrite, EINVAL, Success

LEMMA FreeInPageMap ==
  ASSUME Listed(areas), NEW addr \in Nat, NEW length \in Nat
  PROVE  Promised!Free(addr, length) <=> FreePages(WithDummy(areas), addr, length)
<1>1. ASSUME NEW v \in addr .. addr + length - 1, v > AreaStart, v <= Top
      PROVE  PermOf(areas)[v] = NoAccess <=> ~HasAny(WithDummy(areas), v)
  <2>1. v \in AreaStart + 1 .. Top /\ v \in Nat
    BY <1>1, AreaAssumption, VmaCallsAssumption
  <2>2. PermOf(areas)[v] = ProtOf(areas, v)
    BY <2>1 DEF PermOf
  <2>3. /\ ProtOf(areas, v) \in {NoAccess} \cup ValidProt
        /\ \A p \in ValidProt : ProtOf(areas, v) = p <=> Has(areas, v, p)
    BY <2>1, ProtOfIs DEF Listed
  <2>4. NoAccess \notin ValidProt
    BY DEF NoAccess, ValidProt, ReadOnly, ReadWrite
  <2>5. \A p \in ValidProt : Has(WithDummy(areas), v, p) <=> Has(areas, v, p)
    BY HasWithDummy
  <2>6. QED
    BY <2>2, <2>3, <2>4, <2>5 DEF HasAny
<1>2. Promised!Free(addr, length) <=>
        \A v \in addr .. addr + length - 1 :
          v > AreaStart /\ (v <= Top => PermOf(areas)[v] = NoAccess)
  BY DEF Promised!Free, Promised!Region, PermOf, NoAccess, Promised!NoAccess
<1>3. QED
  BY <1>1, <1>2 DEF FreePages

\* A call of vm_area_map that put a region down made the page map it promises.
LEMMA PutIsSet ==
  ASSUME Listed(areas), Listed(areas'), NEW lo \in Nat, NEW length \in Nat \ {0},
         NEW prot \in ValidProt, FreePages(WithDummy(areas), lo, length),
         Puts(areas', WithDummy(areas), lo, lo + length, prot)
  PROVE  PermOf(areas') = SetPerm(areas, lo .. lo + length - 1, prot)
<1> DEFINE list   == WithDummy(areas)
           region == lo .. lo + length - 1
<1>1. ASSUME NEW v \in AreaStart + 1 .. Top, NEW p \in ValidProt
      PROVE  Has(areas', v, p) <=> IF v \in region THEN p = prot ELSE Has(areas, v, p)
  <2>1. v \in Nat /\ v <= Top
    BY AreaAssumption, VmaCallsAssumption
  <2>2. Has(areas', v, p) <=> Has(list, v, p) \/ (lo <= v /\ v < lo + length /\ p = prot)
    BY <2>1 DEF Puts
  <2>3. Has(list, v, p) <=> Has(areas, v, p)
    BY HasWithDummy
  <2>4. v \in lo .. lo + length - 1 => ~Has(list, v, p)
    BY <2>1 DEF FreePages, HasAny
  <2>5. v \in lo .. lo + length - 1 <=> lo <= v /\ v < lo + length
    BY <2>1
  <2> HIDE DEF list
  <2>6. QED
    BY <2>2, <2>3, <2>4, <2>5
<1> HIDE DEF list, region
<1>2. prot \in {NoAccess} \cup ValidProt
  OBVIOUS
<1>3. IsSet(areas', areas, region, prot)
  BY <1>1 DEF IsSet
<1>4. PermOf(areas') = SetPerm(areas, region, prot)
  BY <1>2, <1>3, PermChange
<1>5. QED
  BY <1>4 DEF region

LEMMA PageMapNext ==
  ASSUME NEW addr \in Addresses, NEW length \in Lengths, NEW prot \in Prots,
         \/ \E fixed \in BOOLEAN : Promised!MmapThere(addr, length, prot, fixed)
         \/ \E lowest \in Promised!Pages : Promised!MmapLowest(addr, length, prot, lowest)
         \/ \E fixed \in BOOLEAN : Promised!MmapRefused(addr, length, prot, fixed)
         \/ Promised!Munmap(addr, length)
         \/ Promised!Mprotect(addr, length, prot)
         \/ Promised!MprotectRefused(addr, length, prot)
  PROVE  Promised!Next
<1>1. addr \in {Null} \cup AreaStart .. Top /\ prot \in 1 .. 3
  BY DEF Addresses, Prots
<1>2. addr \in {Promised!Null} \cup AreaStart .. Top
  BY <1>1, SameNames
<1>3. QED
  BY <1>1, <1>2, Zenon DEF Promised!Next

LEMMA MunmapKeepsPromise ==
  ASSUME Listed(areas), Listed(areas'), NEW addr \in Addresses, NEW length \in Lengths,
         Munmap(addr, length)
  PROVE  Promised!Munmap(addr, length)
<1> DEFINE region == addr .. addr + length - 1
<1>1. addr \in Nat /\ length \in Nat \ {0} /\ addr + length \in Nat /\ addr < addr + length
  BY ArgumentsAreNaturals
<1>2. areas' = Unmap(areas, addr, addr + length)
  BY DEF Munmap
<1>3. call' = Promised!Called("munmap", addr, length, NoAccess, FALSE, Success)
  BY DEF Munmap, Called, Promised!Called
<1>4. ASSUME NEW v \in AreaStart + 1 .. Top, NEW p \in ValidProt
      PROVE  Has(areas', v, p) <=> IF v \in region THEN p = NoAccess ELSE Has(areas, v, p)
  <2>1. v \in Nat /\ p # NoAccess
    BY AreaAssumption, VmaCallsAssumption DEF NoAccess, ValidProt, ReadOnly, ReadWrite
  <2>2. v \in addr .. addr + length - 1 <=> addr <= v /\ v < addr + length
    BY <1>1, <2>1
  <2>3. Has(areas', v, p) <=> Has(areas, v, p) /\ ~(addr <= v /\ v < addr + length)
    <3>1. CASE areas = <<>>
      <4>1. areas' = areas
        BY <1>2, <3>1, UnmapNothing
      <4>2. ~Has(areas, v, p)
        BY <3>1 DEF Has, Range
      <4>3. QED
        BY <4>1, <4>2
    <3>2. CASE WellFormed(areas)
      <4>1. Takes(areas', areas, addr, addr + length)
        BY <1>1, <1>2, <3>2, UnmapTakes
      <4>2. QED
        BY <2>1, <4>1 DEF Takes
    <3>3. QED
      BY <3>1, <3>2 DEF Listed
  <2>4. QED
    BY <2>1, <2>2, <2>3
<1> HIDE DEF region
<1>5. IsSet(areas', areas, region, NoAccess)
  BY <1>4 DEF IsSet
<1>6. PermOf(areas') = SetPerm(areas, region, NoAccess)
  BY <1>5, PermChange
<1>7. Promised!Set(Promised!Region(addr, length), Promised!NoAccess) = SetPerm(areas, region, NoAccess)
  BY SameNames DEF Promised!Set, Promised!Region, PermOf, SetPerm, region
<1>8. QED
  BY <1>3, <1>6, <1>7, SameNames DEF Promised!Munmap, PermOf

LEMMA SetInPageMap ==
  ASSUME NEW region, NEW prot
  PROVE  Promised!Set(region, prot) = SetPerm(areas, region, prot)
  BY SameNames DEF Promised!Set, PermOf, SetPerm

LEMMA DummyHasNothing == PermOf(WithDummy(areas)) = PermOf(areas)
<1>1. CASE areas # <<>>
  BY <1>1 DEF WithDummy
<1>2. CASE areas = <<>>
  <2>1. Listed(areas) /\ Listed(WithDummy(areas))
    BY <1>2, DummyAlone DEF Listed, WithDummy
  <2>2. IsSet(WithDummy(areas), areas, {}, NoAccess)
    BY HasWithDummy DEF IsSet
  <2>3. PermOf(WithDummy(areas)) = SetPerm(areas, {}, NoAccess)
    BY <2>1, <2>2, PermChange
  <2>4. SetPerm(areas, {}, NoAccess) = PermOf(areas)
    BY DEF SetPerm, PermOf
  <2>5. QED
    BY <2>3, <2>4
<1>3. QED
  BY <1>1, <1>2

LEMMA MmapKeepsPromise ==
  ASSUME Inv, Inv', NEW addr \in Addresses, NEW length \in Lengths, NEW prot \in Prots,
         NEW fixed \in BOOLEAN, Mmap(addr, length, prot, fixed), ~call'.lost
  PROVE  Promised!Next
<1> DEFINE result == Map(areas, addr, length, prot, fixed)
           list   == WithDummy(areas)
<1>1. /\ addr \in 0 .. Top /\ addr \in Nat /\ length \in Nat \ {0} /\ Top \in Nat
      /\ addr + length \in Nat /\ addr < addr + length
      /\ AreaStart \in Nat \ {0} /\ Null = 0
  BY ArgumentsAreNaturals, VmaCallsAssumption, AreaAssumption DEF Null
<1>2. areas' = result.areas /\ (result.ret # EINVAL => result.areas # list)
  BY DEF Mmap, Called
<1>3. call' = Promised!Called("mmap", addr, length, prot, fixed, result.ret)
  <2> DEFINE lost == result.ret # EINVAL /\ result.areas = list
  <2>1. call' = Called("mmap", addr, length, prot, fixed, result.ret, lost)
    BY DEF Mmap
  <2> HIDE DEF result, lost
  <2>2. call'.lost = lost
    BY <2>1 DEF Called
  <2>3. lost = FALSE
    BY <2>2 DEF lost
  <2>4. QED
    BY <2>1, <2>3 DEF Called, Promised!Called
<1>4. Listed(areas) /\ Listed(areas') /\ EndsBy(areas, Top + 1) /\ EndsBy(areas', Top + 1)
  BY DEF Inv, Listed
<1>5. WellFormed(list)
  BY <1>4, DummyAlone DEF Listed, WithDummy
<1>6. ASSUME WellFormed(areas')
      PROVE  EndsBy(list, Top + 1)
  <2>1. areas'[1].end <= Top + 1
    <3>1. 1 \in 1 .. Len(areas')
      BY <1>6, ListFacts
    <3>2. QED
      BY <1>4, <3>1 DEF EndsBy
  <2>2. Dummy.end <= Top + 1
    BY <1>6, <2>1 DEF WellFormed
  <2>3. EndsBy(<<Dummy>>, Top + 1)
    BY <2>2 DEF EndsBy
  <2>4. QED
    BY <1>4, <2>3 DEF WithDummy
<1>7. \/ prot \notin ValidProt /\ result = Outcome(areas, EINVAL)
      \/ /\ prot \in ValidProt /\ ~fixed
         /\ addr = Null \/ (addr \in AreaStart .. AreaEnd /\ ~IsFree(list, addr, addr + length))
         /\ result = SearchLowestFree(list, length, prot)
      \/ /\ prot \in ValidProt /\ addr \in AreaStart .. AreaEnd
         /\ IsFree(list, addr, addr + length)
         /\ result = Outcome(MapAt(list, addr, addr + length, prot), addr)
      \/ /\ prot \in ValidProt
         /\ \/ addr = Null /\ fixed
            \/ addr # Null /\ addr \notin AreaStart .. AreaEnd
            \/ addr \in AreaStart .. AreaEnd /\ fixed /\ ~IsFree(list, addr, addr + length)
         /\ result = Outcome(list, EINVAL)
  BY <1>1, MapCases
<1> HIDE DEF result, list
<1>8. ASSUME WellFormed(areas'), addr \in AreaStart .. AreaEnd
      PROVE  IsFree(list, addr, addr + length) <=> Promised!Free(addr, length)
  <2>1. EndsBy(list, Top + 1) /\ AreaStart <= addr
    BY <1>1, <1>6, <1>8
  <2>2. IsFree(list, addr, addr + length) <=> FreePages(list, addr, length)
    BY <1>1, <1>5, <2>1, FreeIsFree
  <2>3. QED
    BY <1>1, <1>4, <2>2, FreeInPageMap DEF list
<1>9. CASE prot \notin ValidProt /\ result = Outcome(areas, EINVAL)
  <2>1. areas' = areas /\ result.ret = EINVAL
    BY <1>2, <1>9 DEF Outcome
  <2>2. Promised!MmapRefused(addr, length, prot, fixed)
    BY <1>3, <1>9, <2>1, SameNames DEF Promised!MmapRefused
  <2>3. QED
    BY <2>2, PageMapNext
<1>10. CASE /\ prot \in ValidProt /\ ~fixed
            /\ addr = Null \/ (addr \in AreaStart .. AreaEnd /\ ~IsFree(list, addr, addr + length))
            /\ result = SearchLowestFree(list, length, prot)
  <2>1. PICK k \in 1 .. Len(list) :
          /\ \A j \in 1 .. k - 1 : ~Fits(list, j, length)
          /\ list[k].end + length \in Nat
          /\ list[k].end < list[k].end + length
          /\ k < Len(list) => list[k].end + length <= list[k + 1].start
          /\ SearchLowestFree(list, length, prot) =
               Outcome(Insert(list, k, list[k].end, list[k].end + length, prot), list[k].end)
    BY <1>1, <1>5, <1>10, SearchFindsLowest
  <2> DEFINE lo == list[k].end
  <2>2. lo \in Nat /\ AreaStart < lo
    <3>1. AreaStart <= list[k].start /\ list[k].start < list[k].end /\ list[k].start \in Nat /\ lo \in Nat
      BY <1>5, ListFacts
    <3> HIDE DEF lo
    <3>2. QED
      BY <1>1, <3>1 DEF lo
  <2>3. areas' = Insert(list, k, lo, lo + length, prot) /\ result.ret = lo
    BY <1>2, <1>10, <2>1 DEF Outcome
  <2>4. list[k].end <= lo
    BY <2>2
  <2> HIDE DEF lo
  <2>5. Puts(areas', list, lo, lo + length, prot)
    BY <1>5, <1>10, <2>1, <2>2, <2>3, <2>4, InsertPuts DEF lo
  <2>6. /\ WellFormed(areas')
        /\ \E i \in 1 .. Len(areas') : lo + length <= areas'[i].end
    BY <1>5, <1>10, <2>1, <2>2, <2>3, <2>4, InsertKeepsShape DEF lo
  <2>7. lo <= Top
    <3>1. PICK i \in 1 .. Len(areas') : lo + length <= areas'[i].end
      BY <2>6
    <3>2. areas'[i].end \in Nat /\ areas'[i].end <= Top + 1
      BY <1>4, <2>6, ListFacts DEF EndsBy
    <3>3. QED
      BY <1>1, <2>2, <3>1, <3>2
  <2>8. /\ FreePages(list, lo, length)
        /\ \A u \in AreaStart .. lo - 1 : ~FreePages(list, u, length)
    BY <1>1, <1>5, <1>6, <2>1, <2>6, LowestIsLowest DEF lo
  <2>9. Promised!Free(lo, length) /\ \A u \in AreaStart .. lo - 1 : ~Promised!Free(u, length)
    <3>1. \A u \in AreaStart .. lo - 1 : u \in Nat
      BY <1>1, <2>2
    <3>2. \A u \in Nat : Promised!Free(u, length) <=> FreePages(list, u, length)
      BY <1>1, <1>4, FreeInPageMap DEF list
    <3>3. QED
      BY <2>2, <2>8, <3>1, <3>2
  <2>10. PermOf(areas') = Promised!Set(Promised!Region(lo, length), prot)
    <3>1. PermOf(areas') = SetPerm(areas, lo .. lo + length - 1, prot)
      BY <1>1, <1>4, <1>10, <2>2, <2>5, <2>8, PutIsSet DEF list
    <3>2. QED
      BY <3>1, SetInPageMap DEF Promised!Region
  <2>11. fixed = FALSE
    BY <1>10
  <2>12. \/ addr = Promised!Null
         \/ addr \in AreaStart .. AreaEnd /\ ~Promised!Free(addr, length)
    BY <1>8, <1>10, <2>6, SameNames
  <2>13. Promised!MmapLowest(addr, length, prot, lo)
    BY <1>3, <1>10, <2>3, <2>9, <2>10, <2>11, <2>12, SameNames
       DEF Promised!MmapLowest, PermOf
  <2>14. lo \in Promised!Pages
    BY <1>1, <2>2, <2>7, SameNames
  <2>15. QED
    BY <2>13, <2>14, PageMapNext
<1>11. CASE /\ prot \in ValidProt /\ addr \in AreaStart .. AreaEnd
            /\ IsFree(list, addr, addr + length)
            /\ result = Outcome(MapAt(list, addr, addr + length, prot), addr)
  <2>1. areas' = MapAt(list, addr, addr + length, prot) /\ result.ret = addr
    BY <1>2, <1>11 DEF Outcome
  <2>2. areas' # list
    BY <1>1, <1>2, <2>1 DEF EINVAL
  <2>3. AreaStart <= addr
    BY <1>1, <1>11
  <2>4. Puts(areas', list, addr, addr + length, prot)
    BY <1>1, <1>5, <1>11, <2>1, <2>2, <2>3, MapAtPuts
  <2>5. WellFormed(areas')
    BY <1>1, <1>5, <1>11, <2>1, <2>3, MapAtKeepsShape
  <2>6. FreePages(list, addr, length)
    BY <1>1, <1>5, <1>6, <1>11, <2>3, <2>5, FreeIsFree
  <2>7. PermOf(areas') = Promised!Set(Promised!Region(addr, length), prot)
    <3>1. PermOf(areas') = SetPerm(areas, addr .. addr + length - 1, prot)
      BY <1>1, <1>4, <1>11, <2>4, <2>6, PutIsSet DEF list
    <3>2. QED
      BY <3>1, SetInPageMap DEF Promised!Region
  <2>8. Promised!Free(addr, length)
    BY <1>8, <1>11, <2>5
  <2>9. Promised!MmapThere(addr, length, prot, fixed)
    BY <1>3, <1>11, <2>1, <2>7, <2>8, SameNames DEF Promised!MmapThere, PermOf
  <2>10. QED
    BY <2>9, PageMapNext
<1>12. CASE /\ prot \in ValidProt
            /\ \/ addr = Null /\ fixed
               \/ addr # Null /\ addr \notin AreaStart .. AreaEnd
               \/ addr \in AreaStart .. AreaEnd /\ fixed /\ ~IsFree(list, addr, addr + length)
            /\ result = Outcome(list, EINVAL)
  <2>1. areas' = list /\ result.ret = EINVAL
    BY <1>2, <1>12 DEF Outcome
  <2>2. PermOf(areas') = PermOf(areas)
    BY <2>1, DummyHasNothing DEF list
  <2>3. \/ addr = Promised!Null /\ fixed
        \/ addr # Promised!Null /\ addr \notin AreaStart .. AreaEnd
        \/ fixed /\ ~Promised!Free(addr, length)
    BY <1>5, <1>8, <1>12, <2>1, SameNames
  <2>4. Promised!MmapRefused(addr, length, prot, fixed)
    BY <1>3, <2>1, <2>2, <2>3, SameNames DEF Promised!MmapRefused, PermOf
  <2>5. QED
    BY <2>4, PageMapNext
<1>13. QED
  BY <1>7, <1>9, <1>10, <1>11, <1>12
------------------------------------------------------------------------------
(* mprotect keeps what PageMap promises *)

\* Up to page done, new gives the pages of list in [lo, hi) the access prot;
\* everything else is as in list.
Protected(new, list, done, lo, hi, prot) ==
  \A v \in Nat, p \in ValidProt :
    /\ v < done /\ lo <= v /\ v < hi => (Has(new, v, p) <=> p = prot /\ HasAny(list, v))
    /\ ~(v < done /\ lo <= v /\ v < hi) => (Has(new, v, p) <=> Has(list, v, p))

SameEnds(new, list, from) == \A e \in Nat : from < e => (IsEnd(new, e) <=> IsEnd(list, e))

\* The walk after it has visited the areas of list up to number n + 1.
Visited(walk, list, n, lo, hi, prot) ==
  /\ walk.ret = Success
  /\ walk.done = list[n + 1].end
  /\ walk.from <= walk.done
  /\ SameEnds(walk.areas, list, walk.done)
  /\ Protected(walk.areas, list, walk.done, lo, hi, prot)

LEMMA StartHasVisited ==
  ASSUME NEW list, WellFormed(list), NEW lo \in Nat, NEW hi \in Nat, NEW prot \in ValidProt
  PROVE  Visited(StartWalk(list), list, 0, lo, hi, prot)
<1> DEFINE start == StartWalk(list)
<1>1. /\ start.areas = list /\ start.ret = Success /\ start.done = list[1].end
      /\ start.from = 0
  BY DEF StartWalk, Null
<1> HIDE DEF start
<1>2. /\ 1 \in 1 .. Len(list) /\ list[1].prot = NoAccess
      /\ Len(list) \in Nat
      /\ \A i \in 1 .. Len(list) : list[i].start \in Nat /\ list[i].end \in Nat
  <2>1. /\ Len(list) \in Nat \ {0}
        /\ \A i \in 1 .. Len(list) : list[i].start \in Nat /\ list[i].end \in Nat
    BY ListFacts
  <2>2. list[1].prot = NoAccess
    BY DEF WellFormed, Dummy, Area
  <2>3. QED
    BY <2>1, <2>2
<1>3. ASSUME NEW v \in Nat, v < list[1].end, NEW p \in ValidProt, Has(list, v, p)
      PROVE  FALSE
  <2>1. PICK i \in 1 .. Len(list) : list[i].start <= v /\ list[i].prot = p
    BY <1>3, HasAt
  <2>2. i # 1
    BY <1>2, <2>1 DEF NoAccess, ValidProt, ReadOnly, ReadWrite
  <2>3. 1 < i
    BY <1>2, <2>2
  <2>4. list[1].end <= list[i].start
    BY <1>2, <2>3, AreasInOrder
  <2>5. QED
    BY <1>2, <1>3, <2>1, <2>4
<1>4. Protected(list, list, list[1].end, lo, hi, prot)
  BY <1>3 DEF Protected, HasAny
<1>5. SameEnds(list, list, list[1].end)
  BY DEF SameEnds
<1>6. list[0 + 1].end = list[1].end /\ 0 <= list[1].end
  BY <1>2
<1>7. QED
  BY <1>1, <1>4, <1>5, <1>6 DEF Visited, start

\* The area the walk visits next, and what it is to the pages that are left.
NextIs(walk, area, end) ==
  /\ area.start \in Nat /\ area.start < end
  /\ area.end = end
  /\ end \in Nat
  /\ walk.done < end
  /\ \A v \in Nat, p \in ValidProt :
       walk.done <= v /\ v < end => (Has(walk.areas, v, p) <=> area.start <= v /\ area.prot = p)
  /\ area.prot \in ValidProt
  /\ \A v \in Nat : area.start <= v /\ v < walk.done => Has(walk.areas, v, area.prot)

LEMMA NextAreaIsNext ==
  ASSUME NEW bound \in Nat, NEW walk \in Walks(bound), NEW list, WellFormed(list),
         NEW n \in Nat, n + 2 <= Len(list), walk.done = list[n + 1].end,
         walk.from <= walk.done, SameEnds(walk.areas, list, walk.done)
  PROVE  NextArea(walk) # <<>> /\ NextIs(walk, NextArea(walk)[1], list[n + 2].end)
<1> DEFINE ahead == {i \in DOMAIN walk.areas : walk.areas[i].end > walk.done}
           Least(i) == \A j \in ahead : i <= j
           found == walk.areas[CHOOSE i \in ahead : Least(i)]
           next  == Area(IF found.start < walk.from THEN walk.done ELSE found.start,
                         found.end, found.prot)
           all   == walk.areas
           end   == list[n + 2].end
<1>0. NextArea(walk) = IF ahead = {} THEN <<>> ELSE <<next>>
  BY DEF NextArea
<1>1. WellFormed(all) /\ walk.done \in Nat /\ walk.from \in Nat /\ SameEnds(all, list, walk.done)
  BY DEF Walks
<1>2. /\ Len(all) \in Nat /\ DOMAIN all = 1 .. Len(all) /\ all \in Seq(AreaRecords)
      /\ \A i \in 1 .. Len(all) : /\ all[i].start \in Nat /\ all[i].end \in Nat
                                  /\ all[i].start < all[i].end /\ AreaStart <= all[i].start
  BY <1>1, ListFacts DEF WellFormed
<1>3. /\ Len(list) \in Nat
      /\ \A i \in 1 .. Len(list) : /\ list[i].start \in Nat /\ list[i].end \in Nat
                                   /\ list[i].start < list[i].end /\ AreaStart <= list[i].start
  BY ListFacts
<1>4. n + 1 \in 1 .. Len(list) /\ n + 2 \in 1 .. Len(list) /\ n + 1 < n + 2
  BY <1>3
<1>5. walk.done < end /\ end \in Nat
  <2>1. list[n + 1].end <= list[n + 2].start
    BY <1>4, AreasInOrder
  <2>2. QED
    BY <1>3, <1>4, <2>1
<1>6. PICK m \in 1 .. Len(all) : all[m].end = end
  <2>1. IsEnd(list, end)
    BY <1>4, IsEndAt
  <2>2. IsEnd(all, end)
    BY <1>1, <1>5, <2>1 DEF SameEnds
  <2>3. QED
    BY <1>1, <2>2, IsEndAt
<1>7. m \in ahead /\ ahead \subseteq Nat
  BY <1>2, <1>5, <1>6
<1>8. \E i \in ahead : Least(i)
  <2> HIDE DEF ahead
  <2>1. PICK i \in ahead : \A j \in Nat : j < i => j \notin ahead
    BY <1>7, FirstPosition
  <2>2. \A j \in ahead : i <= j
    BY <1>7, <2>1
  <2>3. QED
    BY <2>2
<1>9. PICK i \in ahead : found = all[i] /\ Least(i)
  <2> HIDE DEF ahead, Least
  <2>1. QED
    BY <1>8
<1>10. i \in 1 .. Len(all) /\ walk.done < all[i].end /\ i <= m
  BY <1>1, <1>2, <1>7, <1>9
<1>11. \A j \in 1 .. Len(all) : walk.done < all[j].end => i <= j
  BY <1>1, <1>2, <1>9
<1> HIDE DEF ahead, Least, all, end
<1>12. /\ all[i].start \in Nat /\ all[i].end \in Nat /\ all[i].start < all[i].end
        /\ all[m].start \in Nat /\ all[m].start < all[m].end
  BY <1>2, <1>10
<1>13. n + 2 \in 1 .. Len(list) /\ list[n + 2].end = end
  BY <1>4 DEF end
<1>14. all[i].end = end
  <2>1. all[i].end <= end
    <3>1. CASE i = m
      BY <1>5, <1>6, <1>12, <3>1
    <3>2. CASE i < m
      <4>1. all[i].end <= all[m].start
        BY <1>1, <1>10, <3>2, AreasInOrder
      <4>2. QED
        BY <1>5, <1>6, <1>12, <4>1
    <3>3. QED
      BY <1>2, <1>10, <3>1, <3>2
  <2>2. PICK j \in 1 .. Len(list) : list[j].end = all[i].end
    <3>1. IsEnd(all, all[i].end)
      BY <1>1, <1>10, IsEndAt
    <3>2. all[i].end \in Nat
      BY <1>2, <1>10
    <3>3. IsEnd(list, all[i].end)
      BY <1>1, <1>10, <3>1, <3>2 DEF SameEnds
    <3>4. QED
      BY <3>3, IsEndAt
  <2>3. ~(j <= n + 1)
    <3>1. SUFFICES ASSUME j <= n + 1 PROVE FALSE
      OBVIOUS
    <3>2. CASE j = n + 1
      BY <1>1, <1>10, <1>12, <2>2, <3>2
    <3>3. CASE j < n + 1
      <4>1. list[j].end <= list[n + 1].start
        BY <1>4, <3>3, AreasInOrder
      <4>2. QED
        BY <1>3, <1>4, <1>10, <2>2, <4>1
    <3>4. QED
      BY <1>3, <3>1, <3>2, <3>3
  <2>4. end <= list[j].end
    <3>1. CASE j = n + 2
      BY <1>5, <1>13, <3>1
    <3>2. CASE n + 2 < j
      <4>1. list[n + 2].end <= list[j].start
        BY <1>4, <3>2, AreasInOrder
      <4>2. list[j].start \in Nat /\ list[j].end \in Nat /\ list[j].start < list[j].end
        BY <1>3
      <4>3. QED
        BY <1>5, <1>13, <4>1, <4>2
    <3>3. QED
      BY <1>3, <2>3, <3>1, <3>2
  <2>5. QED
    BY <1>5, <1>12, <2>1, <2>2, <2>4
<1>15. all[i].prot \in ValidProt
  <2>1. i # 1
    <3>1. all[1] = Dummy /\ list[1] = Dummy /\ 1 \in 1 .. Len(list)
      BY <1>1, <1>4, ListFacts DEF WellFormed
    <3>2. list[1].end <= walk.done
      <4>1. CASE n = 0
        BY <1>1, <4>1
      <4>2. CASE n # 0
        <5>1. 1 < n + 1
          BY <4>2
        <5>2. list[1].end <= list[n + 1].start
          BY <1>4, <3>1, <5>1, AreasInOrder
        <5>3. /\ list[1].end \in Nat /\ list[n + 1].start \in Nat /\ list[n + 1].end \in Nat
              /\ list[n + 1].start < list[n + 1].end
          BY <1>3, <1>4, <3>1
        <5>4. \A a, b, c \in Nat : a <= b /\ b < c => a <= c
          OBVIOUS
        <5>5. list[1].end <= list[n + 1].end
          BY <5>2, <5>3, <5>4, Zenon
        <5>6. QED
          BY <5>5
      <4>3. QED
        BY <4>1, <4>2
    <3>3. QED
      BY <1>1, <1>3, <1>10, <3>1, <3>2
  <2>2. QED
    BY <1>1, <1>10, <2>1, AccessIsValid
<1>16. /\ next.end = end /\ next.prot = all[i].prot
       /\ next.start = IF all[i].start < walk.from THEN walk.done ELSE all[i].start
  BY <1>9, <1>14 DEF Area
<1> HIDE DEF next, found
<1>17. /\ all[i].start \in Nat /\ all[i].start < end
       /\ next.start \in Nat /\ next.start < end
       /\ next.start < walk.done => next.start = all[i].start
       /\ \A v \in Nat : walk.done <= v => (next.start <= v <=> all[i].start <= v)
  <2>1. all[i].start < end
    BY <1>12, <1>14
  <2>2. CASE all[i].start < walk.from
    <3>1. next.start = walk.done
      BY <1>16, <2>2
    <3>2. walk.from <= walk.done /\ walk.from \in Nat /\ walk.done \in Nat
      BY <1>1
    <3>3. all[i].start < walk.done
      <4>1. all[i].start \in Nat
        BY <1>12
      <4>2. \A a, b, c \in Nat : a < b /\ b <= c => a < c
        OBVIOUS
      <4>3. QED
        BY <2>2, <3>2, <4>1, <4>2, Zenon
    <3>4. next.start \in Nat /\ next.start < end /\ ~(next.start < walk.done)
      BY <1>5, <3>1, <3>2
    <3>5. \A v \in Nat : walk.done <= v => next.start <= v /\ all[i].start <= v
      BY <1>12, <3>1, <3>2, <3>3
    <3>6. QED
      BY <1>12, <2>1, <3>4, <3>5
  <2>3. CASE ~(all[i].start < walk.from)
    BY <1>12, <1>16, <2>1, <2>3
  <2>4. QED
    BY <2>2, <2>3
<1>18. ASSUME NEW v \in Nat, walk.done <= v, v < end, NEW p \in ValidProt
       PROVE  Has(all, v, p) <=> next.start <= v /\ next.prot = p
  <2>1. ASSUME NEW j \in 1 .. Len(all), all[j].start <= v, v < all[j].end
        PROVE  j = i
    <3>1. i <= j
      BY <1>1, <1>2, <1>11, <1>18, <2>1
    <3>2. CASE i < j
      <4>1. all[i].end <= all[j].start
        BY <1>1, <1>10, <3>2, AreasInOrder
      <4>2. all[j].start \in Nat
        BY <1>2
      <4>3. QED
        BY <1>5, <1>14, <1>18, <2>1, <4>1, <4>2
    <3>3. QED
      BY <1>2, <1>10, <3>1, <3>2
  <2>2. Has(all, v, p) <=> \E j \in 1 .. Len(all) : all[j].start <= v /\ v < all[j].end /\ all[j].prot = p
    <3>1. WellFormed(all)
      BY <1>1
    <3>2. QED
      BY <3>1, HasAt
  <2>3. Has(all, v, p) <=> all[i].start <= v /\ all[i].prot = p
    BY <1>10, <1>14, <1>18, <2>1, <2>2
  <2>4. QED
    BY <1>16, <1>17, <1>18, <2>3
<1>19. ASSUME NEW v \in Nat, next.start <= v, v < walk.done
       PROVE  Has(all, v, next.prot)
  <2>1. all[i].start <= v /\ v < all[i].end
    BY <1>1, <1>5, <1>14, <1>17, <1>19 
  <2>2. QED
    BY <1>1, <1>10, <1>16, <2>1, HasAt
<1>20. NextIs(walk, next, end)
  BY <1>5, <1>15, <1>16, <1>17, <1>18, <1>19 DEF NextIs, all
<1>21. NextArea(walk) = <<next>>
  BY <1>0, <1>7
<1>22. QED
  BY <1>20, <1>21 DEF end

\* mmap with MAP_FIXED: there, or not at all.
LEMMA MapFixed ==
  ASSUME NEW list, WellFormed(list), NEW addr \in Nat, NEW length \in Nat, NEW prot \in ValidProt
  PROVE  \/ Map(list, addr, length, prot, TRUE) = Outcome(list, EINVAL)
         \/ /\ addr \in AreaStart .. AreaEnd /\ IsFree(list, addr, addr + length)
            /\ Map(list, addr, length, prot, TRUE) =
                 Outcome(MapAt(list, addr, addr + length, prot), addr)
<1>1. PICK fixed \in BOOLEAN : fixed = TRUE
  OBVIOUS
<1>2. WithDummy(list) = list
  BY DEF WithDummy, WellFormed
<1> DEFINE result == Map(list, addr, length, prot, fixed)
           free   == IsFree(list, addr, addr + length)
           put    == MapAt(list, addr, addr + length, prot)
<1>3. \/ prot \notin ValidProt /\ result = Outcome(list, EINVAL)
      \/ /\ prot \in ValidProt /\ ~fixed
         /\ addr = Null \/ (addr \in AreaStart .. AreaEnd /\ ~free)
         /\ result = SearchLowestFree(list, length, prot)
      \/ /\ prot \in ValidProt /\ addr \in AreaStart .. AreaEnd /\ free
         /\ result = Outcome(put, addr)
      \/ /\ prot \in ValidProt
         /\ \/ addr = Null /\ fixed
            \/ addr # Null /\ addr \notin AreaStart .. AreaEnd
            \/ addr \in AreaStart .. AreaEnd /\ fixed /\ ~free
         /\ result = Outcome(list, EINVAL)
  BY <1>2, MapCases
<1>4. Map(list, addr, length, prot, TRUE) = result
  BY <1>1
<1> HIDE DEF result, free, put
<1>5. QED
  BY <1>1, <1>3, <1>4 DEF free, put

\* new is old with the access prot on the pages of [low, high).
Rewritten(new, old, low, high, prot) ==
  \A v \in Nat, p \in ValidProt :
    Has(new, v, p) <=> \/ Has(old, v, p) /\ ~(low <= v /\ v < high)
                       \/ low <= v /\ v < high /\ p = prot

\* [low, high) is the common part of area and [lo, hi).
IsCommon(low, high, area, lo, hi) ==
  /\ low = IF lo <= area.start THEN area.start ELSE lo
  /\ high = IF hi <= area.end THEN hi ELSE area.end

\* One part that is taken out and put back with the new access.
IsPart(after, walk, end, low, high, prot) ==
  /\ after.ret = Success
  /\ after.done = end
  /\ after.from = low
  /\ Rewritten(after.areas, walk.areas, low, high, prot)
  /\ SameEnds(after.areas, walk.areas, high)

LEMMA PartIsPart ==
  ASSUME NEW bound \in Nat, NEW walk \in Walks(bound), NEW area,
         NEW low \in Nat, NEW high \in Nat, low < high, NEW prot \in ValidProt,
         ~ProtectPart(walk, area, low, high, prot).lost
  PROVE  IsPart(ProtectPart(walk, area, low, high, prot), walk, area.end, low, high, prot)
<1> DEFINE cut    == Unmap(walk.areas, low, high)
           mapped == Map(cut, low, high - low, prot, TRUE)
           after  == ProtectPart(walk, area, low, high, prot)
           there  == MapAt(cut, low, low + (high - low), prot)
<1>1. WellFormed(walk.areas)
  BY DEF Walks
<1>2. WellFormed(cut) /\ Takes(cut, walk.areas, low, high)
  BY <1>1, UnmapKeepsShape, UnmapTakes
<1>3. high - low \in Nat \ {0} /\ low + (high - low) = high
  OBVIOUS
<1>4. after = [areas   |-> mapped.areas,
               regions |-> Append(walk.regions, <<low, high>>),
               done    |-> area.end,
               from    |-> low,
               lost    |-> walk.lost \/ mapped.areas = cut,
               ret     |-> IF mapped.ret = EINVAL THEN EINVAL ELSE Success]
  BY DEF ProtectPart
<1>5. mapped.areas # cut
  <2>1. ~after.lost
    OBVIOUS
  <2> HIDE DEF after, mapped
  <2>2. after.lost = (walk.lost \/ mapped.areas = cut)
    BY <1>4
  <2>3. QED
    BY <2>1, <2>2
<1> HIDE DEF cut
<1>6. WithDummy(cut) = cut
  BY <1>2 DEF WithDummy, WellFormed
<1>7. /\ low \in AreaStart .. AreaEnd /\ IsFree(cut, low, high)
      /\ mapped = Outcome(there, low)
  <2>1. \/ mapped = Outcome(cut, EINVAL)
        \/ /\ low \in AreaStart .. AreaEnd /\ IsFree(cut, low, low + (high - low))
           /\ mapped = Outcome(there, low)
    BY <1>2, <1>3, MapFixed
  <2>2. mapped # Outcome(cut, EINVAL)
    <3> HIDE DEF mapped
    <3>1. QED
      BY <1>5 DEF Outcome
  <2> HIDE DEF mapped, there
  <2>3. QED
    BY <1>3, <2>1, <2>2
<1> HIDE DEF mapped, after
<1>8. mapped.areas = MapAt(cut, low, high, prot) /\ mapped.ret = low
  BY <1>3, <1>7 DEF Outcome
<1>9. Puts(mapped.areas, cut, low, high, prot)
  <2>1. AreaStart <= low
    BY <1>7, AreaAssumption
  <2>2. MapAt(cut, low, high, prot) = cut \/ Puts(MapAt(cut, low, high, prot), cut, low, high, prot)
    BY <1>2, <1>7, <2>1, MapAtPuts
  <2>3. QED
    BY <1>5, <1>8, <2>2
<1>10. /\ after.areas = mapped.areas /\ after.done = area.end /\ after.from = low
       /\ after.ret = Success
  BY <1>4, <1>8 DEF EINVAL
<1>11. ASSUME NEW v \in Nat, NEW p \in ValidProt
       PROVE  Has(after.areas, v, p) <=> \/ Has(walk.areas, v, p) /\ ~(low <= v /\ v < high)
                                         \/ low <= v /\ v < high /\ p = prot
  <2>1. Has(mapped.areas, v, p) <=> Has(cut, v, p) \/ (low <= v /\ v < high /\ p = prot)
    BY <1>9 DEF Puts
  <2>2. Has(cut, v, p) <=> Has(walk.areas, v, p) /\ ~(low <= v /\ v < high)
    BY <1>2 DEF Takes
  <2>3. QED
    BY <1>10, <2>1, <2>2
<1>12. SameEnds(after.areas, walk.areas, high)
  BY <1>2, <1>9, <1>10 DEF SameEnds, Puts, Takes
<1>13. QED
  BY <1>10, <1>11, <1>12 DEF IsPart, Rewritten, after

\* What is left of the common part of area and [lo, hi) after a visit.
LEMMA VisitProtects ==
  ASSUME NEW bound \in Nat, NEW walk \in Walks(bound), NEW list, NEW end, NEW area, NEW new,
         NEW lo \in Nat, NEW hi \in Nat, NEW low \in Nat, NEW high \in Nat, NEW prot \in ValidProt,
         NextIs(walk, area, end),
         IsCommon(low, high, area, lo, hi),
         Protected(walk.areas, list, walk.done, lo, hi, prot),
         Rewritten(new, walk.areas, low, high, prot)
  PROVE  Protected(new, list, end, lo, hi, prot)
<1>1. /\ walk.done \in Nat /\ end \in Nat /\ walk.done < end
      /\ area.end = end /\ area.start \in Nat /\ area.prot \in ValidProt
  BY DEF NextIs, Walks
<1> SUFFICES ASSUME NEW v \in Nat, NEW p \in ValidProt
             PROVE  /\ v < end /\ lo <= v /\ v < hi => (Has(new, v, p) <=> p = prot /\ HasAny(list, v))
                    /\ ~(v < end /\ lo <= v /\ v < hi) => (Has(new, v, p) <=> Has(list, v, p))
  BY DEF Protected
<1>2. low <= v /\ v < high <=> area.start <= v /\ lo <= v /\ v < hi /\ v < end
  BY <1>1 DEF IsCommon
<1>3. Has(new, v, p) <=> \/ Has(walk.areas, v, p) /\ ~(low <= v /\ v < high)
                         \/ low <= v /\ v < high /\ p = prot
  BY DEF Rewritten
<1>4. /\ v < walk.done /\ lo <= v /\ v < hi =>
           \A q \in ValidProt : Has(walk.areas, v, q) <=> q = prot /\ HasAny(list, v)
      /\ ~(v < walk.done /\ lo <= v /\ v < hi) =>
           \A q \in ValidProt : Has(walk.areas, v, q) <=> Has(list, v, q)
  BY DEF Protected
<1>5. walk.done <= v /\ v < end =>
        \A q \in ValidProt : Has(walk.areas, v, q) <=> area.start <= v /\ area.prot = q
  BY DEF NextIs
<1>6. area.start <= v /\ v < walk.done => Has(walk.areas, v, area.prot)
  BY DEF NextIs
<1>7. HasAny(list, v) <=> \E q \in ValidProt : Has(list, v, q)
  BY DEF HasAny
<1>8. v < walk.done \/ walk.done <= v
  BY <1>1
<1>9. CASE low <= v /\ v < high
  <2>1. area.start <= v /\ lo <= v /\ v < hi /\ v < end
    BY <1>2, <1>9
  <2>2. Has(walk.areas, v, area.prot)
    BY <1>1, <1>5, <1>6, <1>8, <2>1
  <2>3. HasAny(list, v)
    BY <1>1, <1>4, <1>7, <2>2
  <2>4. Has(new, v, p) <=> p = prot
    BY <1>3, <1>9
  <2>5. QED
    BY <2>1, <2>3, <2>4
<1>10. CASE ~(low <= v /\ v < high)
  <2>1. Has(new, v, p) <=> Has(walk.areas, v, p)
    BY <1>3, <1>10
  <2>2. CASE v < walk.done
    <3>1. v < end
      BY <1>1, <2>2
    <3>2. QED
      BY <1>4, <2>1, <2>2, <3>1
  <2>3. CASE walk.done <= v
    <3>1. ~(v < walk.done)
      BY <1>1, <2>3
    <3>2. \A q \in ValidProt : Has(walk.areas, v, q) <=> Has(list, v, q)
      BY <1>4, <3>1
    <3>3. ASSUME v < end, lo <= v, v < hi
          PROVE  ~Has(list, v, p) /\ ~HasAny(list, v)
      <4>1. ~(area.start <= v)
        BY <1>2, <1>10, <3>3
      <4>2. \A q \in ValidProt : ~Has(walk.areas, v, q)
        BY <1>5, <2>3, <3>3, <4>1
      <4>3. QED
        BY <1>7, <3>2, <4>2
    <3>4. QED
      BY <2>1, <3>2, <3>3
  <2>4. QED
    BY <1>8, <2>2, <2>3
<1>11. QED
  BY <1>9, <1>10

LEMMA EndsAgree ==
  ASSUME NEW a, NEW b, NEW c, NEW m \in Nat, NEW n \in Nat, NEW k \in Nat, m <= k, n <= k,
         SameEnds(a, b, m), SameEnds(b, c, n)
  PROVE  SameEnds(a, c, k)
<1> SUFFICES ASSUME NEW e \in Nat, k < e PROVE IsEnd(a, e) <=> IsEnd(c, e)
  BY DEF SameEnds
<1>1. m < e /\ n < e
  OBVIOUS
<1>2. QED
  BY <1>1 DEF SameEnds

LEMMA StepKeepsLost ==
  ASSUME NEW bound \in Nat, NEW walk \in Walks(bound), NEW lo, NEW hi, NEW prot,
         ~ProtectStep(walk, lo, hi, prot).lost
  PROVE  ~walk.lost
<1> DEFINE next == NextArea(walk)
           area == next[1]
           low  == Max({lo, area.start})
           high == Min({hi, area.end})
<1> HIDE DEF next, area, low, high
<1>1. ProtectStep(walk, lo, hi, prot) =
        IF walk.ret = EINVAL \/ next = <<>> THEN walk
        ELSE IF ~Overlaps(area, lo, hi) THEN [walk EXCEPT !.done = area.end]
        ELSE ProtectPart(walk, area, low, high, prot)
  BY DEF ProtectStep, next, area, low, high
<1>2. [walk EXCEPT !.done = area.end].lost = walk.lost
  BY DEF Walks
<1>3. ProtectPart(walk, area, low, high, prot).lost = (walk.lost \/ ProtectPart(walk, area, low, high, prot).areas = Unmap(walk.areas, low, high))
  BY DEF ProtectPart
<1>4. QED
  BY <1>1, <1>2, <1>3

LEMMA StepVisits ==
  ASSUME NEW bound \in Nat, NEW walk \in Walks(bound), NEW list, WellFormed(list),
         NEW n \in Nat, n + 2 <= Len(list),
         NEW lo \in Nat, NEW hi \in Nat, lo < hi, NEW prot \in ValidProt,
         Visited(walk, list, n, lo, hi, prot), ~ProtectStep(walk, lo, hi, prot).lost
  PROVE  Visited(ProtectStep(walk, lo, hi, prot), list, n + 1, lo, hi, prot)
<1> DEFINE after == ProtectStep(walk, lo, hi, prot)
           next == NextArea(walk)
           area == next[1]
           end  == list[n + 2].end
           low  == Max({lo, area.start})
           high == Min({hi, area.end})
<1>1. /\ walk.ret = Success /\ walk.done = list[n + 1].end /\ walk.from <= walk.done
      /\ SameEnds(walk.areas, list, walk.done)
      /\ Protected(walk.areas, list, walk.done, lo, hi, prot)
  BY DEF Visited
<1>2. next # <<>> /\ NextIs(walk, area, end)
  BY <1>1, NextAreaIsNext
<1>3. walk.ret # EINVAL
  BY <1>1 DEF Success, EINVAL
<1>4. list[(n + 1) + 1].end = end
  OBVIOUS
<1> HIDE DEF next, area, end
<1>5. /\ area.start \in Nat /\ area.start < area.end /\ area.end = end
      /\ end \in Nat /\ walk.done < end /\ walk.done \in Nat /\ walk.from \in Nat
  BY <1>2 DEF NextIs, Walks
<1>6. IsCommon(low, high, area, lo, hi)
  BY <1>5, LargerSmaller DEF IsCommon
<1>7. after = IF ~Overlaps(area, lo, hi) THEN [walk EXCEPT !.done = area.end]
              ELSE ProtectPart(walk, area, low, high, prot)
  BY <1>2, <1>3 DEF ProtectStep, next, area
<1>8. ~after.lost
  OBVIOUS
<1> HIDE DEF after, low, high
<1>9. CASE ~Overlaps(area, lo, hi)
  <2>1. ~(area.start < hi /\ lo < area.end)
    BY <1>9 DEF Overlaps
  <2>2. /\ after.areas = walk.areas /\ after.ret = walk.ret /\ after.from = walk.from
        /\ after.done = end
    BY <1>5, <1>7, <1>9 DEF Walks
  <2>3. Protected(after.areas, list, end, lo, hi, prot)
    <3>1. ~(low < high) /\ low \in Nat /\ high \in Nat
      BY <1>5, <1>6, <2>1 DEF IsCommon
    <3>2. \A v \in Nat : ~(low <= v /\ v < high)
      BY <3>1
    <3>3. Rewritten(after.areas, walk.areas, low, high, prot)
      BY <2>2, <3>2 DEF Rewritten
    <3>4. QED
      BY <1>1, <1>2, <1>5, <1>6, <3>1, <3>3, VisitProtects
  <2>4. SameEnds(after.areas, list, end)
    BY <1>1, <1>5, <2>2 DEF SameEnds
  <2>5. after.from <= after.done
    BY <1>1, <1>5, <2>2
  <2>6. QED
    BY <1>1, <1>4, <2>2, <2>3, <2>4, <2>5 DEF Visited, after
<1>10. CASE Overlaps(area, lo, hi)
  <2>1. area.start < hi /\ lo < area.end
    BY <1>10 DEF Overlaps
  <2>2. low \in Nat /\ high \in Nat /\ low < high /\ low <= end /\ high <= end
    BY <1>5, <1>6, <2>1 DEF IsCommon
  <2>3. after = ProtectPart(walk, area, low, high, prot)
    BY <1>7, <1>10
  <2>4. IsPart(after, walk, area.end, low, high, prot)
    BY <1>8, <2>2, <2>3, PartIsPart
  <2>5. /\ after.ret = Success /\ after.done = end /\ after.from = low
        /\ Rewritten(after.areas, walk.areas, low, high, prot)
        /\ SameEnds(after.areas, walk.areas, high)
    BY <1>5, <2>4 DEF IsPart
  <2>6. Protected(after.areas, list, end, lo, hi, prot)
    BY <1>1, <1>2, <1>5, <1>6, <2>2, <2>5, VisitProtects
  <2>7. SameEnds(after.areas, list, end)
    <3>1. walk.done <= end
      BY <1>5
    <3>2. QED
      BY <1>1, <1>5, <2>2, <2>5, <3>1, EndsAgree
  <2>8. QED
    BY <1>4, <2>2, <2>5, <2>6, <2>7 DEF Visited, after
<1>11. QED
  BY <1>9, <1>10

\* mprotect, when it did not lose anything, has given the pages of list in
\* [lo, hi) the new access.
LEMMA ProtectVisitsAll ==
  ASSUME NEW list, WellFormed(list), NEW bound \in Nat, EndsBy(list, bound),
         NEW lo \in Nat, NEW hi \in Nat, lo < hi, NEW prot \in ValidProt,
         ~Protect(list, lo, hi, prot).lost
  PROVE  Visited(Protect(list, lo, hi, prot), list, Len(list) - 1, lo, hi, prot)
<1> DEFINE N == Len(list) - 1
<1>1. N \in Nat /\ Len(list) = N + 1
  BY ListFacts
<1>2. PICK walk \in [0 .. N -> Walks(bound)] :
        /\ walk[0] = StartWalk(list)
        /\ \A n \in 1 .. N : walk[n] = ProtectStep(walk[n - 1], lo, hi, prot)
        /\ Protect(list, lo, hi, prot) = walk[N]
  BY ProtectWalks
<1> HIDE DEF N
<1> DEFINE Good == {n \in Nat : n <= N => walk[n].lost \/ Visited(walk[n], list, n, lo, hi, prot)}
<1>3. 0 \in Good
  BY <1>2, StartHasVisited
<1>4. ASSUME NEW n \in Nat, n \in Good
      PROVE  n + 1 \in Good
  <2>1. SUFFICES ASSUME n + 1 <= N, ~walk[n + 1].lost
                 PROVE  Visited(walk[n + 1], list, n + 1, lo, hi, prot)
    OBVIOUS
  <2>2. n <= N /\ n + 1 \in 1 .. N /\ (n + 1) - 1 = n /\ n \in 0 .. N /\ n + 2 <= Len(list)
    <3> HIDE DEF Good
    <3>1. QED
      BY <1>1, <2>1
  <2>3. walk[n].lost \/ Visited(walk[n], list, n, lo, hi, prot)
    BY <1>4, <2>2
  <2> HIDE DEF Good
  <2>4. walk[n + 1] = ProtectStep(walk[n], lo, hi, prot) /\ walk[n] \in Walks(bound)
    BY <1>2, <2>2
  <2>5. ~ProtectStep(walk[n], lo, hi, prot).lost
    BY <2>1, <2>4
  <2>6. ~walk[n].lost
    BY <2>4, <2>5, StepKeepsLost
  <2>7. Visited(ProtectStep(walk[n], lo, hi, prot), list, n + 1, lo, hi, prot)
    BY <2>2, <2>3, <2>4, <2>5, <2>6, StepVisits
  <2>8. QED
    BY <2>4, <2>7
<1>5. Nat \subseteq Good
  <2> HIDE DEF Good
  <2>1. QED
    BY <1>3, <1>4, Induction
<1>6. walk[N].lost \/ Visited(walk[N], list, N, lo, hi, prot)
  <2>1. N <= N
    BY <1>1
  <2>2. QED
    BY <1>1, <1>5, <2>1
<1>7. QED
  BY <1>2, <1>6 DEF N

LEMMA NothingBehindLast ==
  ASSUME NEW list, WellFormed(list), NEW v \in Nat, list[Len(list)].end <= v
  PROVE  ~HasAny(list, v)
<1>1. /\ Len(list) \in Nat \ {0}
      /\ \A i \in 1 .. Len(list) : /\ list[i].start \in Nat /\ list[i].end \in Nat
                                   /\ list[i].start < list[i].end
  BY ListFacts
<1>2. ASSUME NEW i \in 1 .. Len(list), v < list[i].end
      PROVE  FALSE
  <2>1. Len(list) \in 1 .. Len(list)
    BY <1>1
  <2>2. CASE i = Len(list)
    BY <1>1, <1>2, <2>1, <2>2
  <2>3. CASE i < Len(list)
    <3>1. list[i].end <= list[Len(list)].start
      BY <2>1, <2>3, AreasInOrder
    <3>2. /\ list[i].end \in Nat /\ list[Len(list)].start \in Nat /\ list[Len(list)].end \in Nat
          /\ list[Len(list)].start < list[Len(list)].end
      BY <1>1, <2>1
    <3>3. QED
      BY <1>2, <3>1, <3>2
  <2>4. QED
    BY <1>1, <2>2, <2>3
<1>3. QED
  BY <1>2, HasAt DEF HasAny

LEMMA NoAccessIsNothing ==
  ASSUME NEW list, Listed(list), NEW v \in AreaStart + 1 .. Top
  PROVE  PermOf(list)[v] = NoAccess <=> ~HasAny(list, v)
<1>1. v \in Nat
  BY AreaAssumption, VmaCallsAssumption
<1>2. PermOf(list)[v] = ProtOf(list, v)
  BY DEF PermOf
<1>3. /\ ProtOf(list, v) \in {NoAccess} \cup ValidProt
      /\ \A p \in ValidProt : ProtOf(list, v) = p <=> Has(list, v, p)
  BY <1>1, ProtOfIs DEF Listed
<1>4. NoAccess \notin ValidProt
  BY DEF NoAccess, ValidProt, ReadOnly, ReadWrite
<1>5. QED
  BY <1>2, <1>3, <1>4 DEF HasAny

LEMMA MprotectKeepsPromise ==
  ASSUME Inv, Inv', NEW addr \in Addresses, NEW length \in Lengths, NEW prot \in Prots,
         Mprotect(addr, length, prot), ~call'.lost
  PROVE  Promised!Mprotect(addr, length, prot) \/ Promised!MprotectRefused(addr, length, prot)
<1> DEFINE result == Protect(areas, addr, addr + length, prot)
           region == addr .. addr + length - 1
           taken  == {v \in region \cap (AreaStart + 1 .. Top) : PermOf(areas)[v] # NoAccess}
<1>1. /\ addr \in Nat /\ length \in Nat \ {0} /\ addr + length \in Nat /\ addr < addr + length
      /\ Top + 1 \in Nat
  BY ArgumentsAreNaturals, VmaCallsAssumption
<1>2. WellFormed(areas) /\ EndsBy(areas, Top + 1) /\ Listed(areas) /\ Listed(areas')
  BY DEF Inv, Mprotect, Listed
<1>3. areas' = result.areas
  BY DEF Mprotect
<1>4. result.lost \in BOOLEAN
  <2>1. result \in Walks(Top + 1)
    BY <1>1, <1>2, ProtectKeepsShape
  <2> HIDE DEF result
  <2>2. QED
    BY <2>1 DEF Walks
<1>5. /\ call' = Promised!Called("mprotect", addr, length, prot, FALSE, result.ret)
      /\ ~result.lost
  <2>1. call' = Called("mprotect", addr, length, prot, FALSE, result.ret, result.lost)
    BY DEF Mprotect
  <2> HIDE DEF result
  <2>2. call'.lost = result.lost
    BY <2>1 DEF Called
  <2>3. result.lost = FALSE
    BY <1>4, <2>2
  <2>4. QED
    BY <2>1, <2>3 DEF Called, Promised!Called
<1>6. CASE prot \notin ValidProt
  <2>1. result = [StartWalk(areas) EXCEPT !.ret = EINVAL]
    BY <1>6 DEF Protect
  <2> HIDE DEF result
  <2>2. areas' = areas /\ result.ret = EINVAL
    BY <1>3, <2>1 DEF StartWalk
  <2>3. Promised!MprotectRefused(addr, length, prot)
    BY <1>5, <1>6, <2>2, SameNames DEF Promised!MprotectRefused
  <2>4. QED
    BY <2>3
<1>7. CASE prot \in ValidProt
  <2>1. Visited(result, areas, Len(areas) - 1, addr, addr + length, prot)
    BY <1>1, <1>2, <1>5, <1>7, ProtectVisitsAll
  <2> HIDE DEF result
  <2>2. /\ result.ret = Success /\ result.done = areas[Len(areas)].end
        /\ Protected(areas', areas, result.done, addr, addr + length, prot)
    <3>1. (Len(areas) - 1) + 1 = Len(areas)
      BY <1>2, ListFacts
    <3>2. QED
      BY <1>3, <2>1, <3>1 DEF Visited
  <2>3. areas[Len(areas)].end \in Nat
    <3>1. Len(areas) \in 1 .. Len(areas)
      BY <1>2, ListFacts
    <3>2. QED
      BY <1>2, <3>1, ListFacts
  <2>4. ASSUME NEW v \in AreaStart + 1 .. Top, NEW p \in ValidProt
        PROVE  Has(areas', v, p) <=> IF v \in taken THEN p = prot ELSE Has(areas, v, p)
    <3>1. v \in Nat
      BY AreaAssumption, VmaCallsAssumption
    <3>2. v \in taken <=> addr <= v /\ v < addr + length /\ HasAny(areas, v)
      <4>1. PermOf(areas)[v] # NoAccess <=> HasAny(areas, v)
        BY <1>2, NoAccessIsNothing
      <4>2. v \in region <=> addr <= v /\ v < addr + length
        BY <1>1, <3>1
      <4> HIDE DEF region
      <4>3. QED
        BY <4>1, <4>2
    <3> HIDE DEF taken, region
    <3>3. ~(v < result.done) => ~HasAny(areas, v)
      BY <1>2, <2>2, <2>3, <3>1, NothingBehindLast
    <3>4. ~HasAny(areas, v) => ~Has(areas, v, p)
      BY DEF HasAny
    <3>5. /\ v < result.done /\ addr <= v /\ v < addr + length
               => (Has(areas', v, p) <=> p = prot /\ HasAny(areas, v))
          /\ ~(v < result.done /\ addr <= v /\ v < addr + length)
               => (Has(areas', v, p) <=> Has(areas, v, p))
      BY <2>2, <3>1 DEF Protected
    <3>6. CASE v \in taken
      BY <3>2, <3>3, <3>5, <3>6
    <3>7. CASE v \notin taken
      BY <3>2, <3>3, <3>4, <3>5, <3>7
    <3>8. QED
      BY <3>6, <3>7
  <2> HIDE DEF taken
  <2>5. IsSet(areas', areas, taken, prot)
    BY <2>4 DEF IsSet
  <2>6. prot \in {NoAccess} \cup ValidProt
    BY <1>7
  <2>7. PermOf(areas') = SetPerm(areas, taken, prot)
    BY <1>2, <2>5, <2>6, PermChange
  <2>8. PermOf(areas') = Promised!Set(taken, prot)
    BY <2>7, SetInPageMap
  <2>9. taken = {v \in Promised!Region(addr, length) \cap Promised!Pages : PermOf(areas)[v] # Promised!NoAccess}
    BY SameNames DEF Promised!Region, taken
  <2>10. Promised!Mprotect(addr, length, prot)
    BY <1>5, <1>7, <2>2, <2>8, <2>9, SameNames DEF Promised!Mprotect, PermOf
  <2>11. QED
    BY <2>10
<1>8. QED
  BY <1>6, <1>7

------------------------------------------------------------------------------
(* Calls that lose a part leave everything else alone *)

\* new is list, but that pages of [lo, hi) may have lost their access, or have
\* got the access prot if they had one.
Spares(new, list, lo, hi, prot) ==
  \A v \in Nat, p \in ValidProt :
    /\ ~(lo <= v /\ v < hi) => (Has(new, v, p) <=> Has(list, v, p))
    /\ Has(new, v, p) => Has(list, v, p) \/ (p = prot /\ HasAny(list, v))

\* What the walk keeps, whether it has lost something or not.
Harmless(walk, list, lo, hi, prot) ==
  /\ walk.from <= walk.done
  /\ Dummy.end <= walk.done
  /\ Spares(walk.areas, list, lo, hi, prot)

\* The area visited next lies in one of the list, and so its pages have an access.
LEMMA NextAreaIsMapped ==
  ASSUME NEW bound \in Nat, NEW walk \in Walks(bound), NextArea(walk) # <<>>,
         walk.from <= walk.done, Dummy.end <= walk.done
  PROVE  /\ walk.done < NextArea(walk)[1].end
         /\ \A v \in Nat : NextArea(walk)[1].start <= v /\ v < NextArea(walk)[1].end
                             => HasAny(walk.areas, v)
<1> DEFINE ahead == {i \in DOMAIN walk.areas : walk.areas[i].end > walk.done}
           Least(i) == \A j \in ahead : i <= j
           all  == walk.areas
           area == walk.areas[CHOOSE i \in ahead : Least(i)]
           next == Area(IF area.start < walk.from THEN walk.done ELSE area.start,
                        area.end, area.prot)
<1>1. ahead # {} /\ NextArea(walk) = <<next>>
  BY DEF NextArea
<1>2. WellFormed(all) /\ walk.done \in Nat /\ walk.from \in Nat
  BY DEF Walks
<1>3. /\ DOMAIN all = 1 .. Len(all) /\ Len(all) \in Nat \ {0}
      /\ \A i \in 1 .. Len(all) : /\ all[i].start \in Nat /\ all[i].end \in Nat
                                  /\ all[i].start < all[i].end
  BY <1>2, ListFacts
<1>4. \E i \in ahead : Least(i)
  <2>1. ahead \subseteq Nat
    BY <1>3
  <2> HIDE DEF ahead
  <2>2. PICK i \in ahead : \A j \in Nat : j < i => j \notin ahead
    BY <1>1, <2>1, FirstPosition
  <2>3. \A j \in ahead : i <= j
    BY <2>1, <2>2
  <2>4. QED
    BY <2>3
<1>5. PICK i \in ahead : area = all[i]
  <2> HIDE DEF ahead, Least
  <2>1. QED
    BY <1>4
<1>6. i \in 1 .. Len(all) /\ walk.done < all[i].end
  <2>1. i \in 1 .. Len(all) /\ all[i].end > walk.done
    BY <1>3
  <2>2. QED
    BY <1>2, <1>3, <2>1
<1> HIDE DEF ahead, Least, all, area
<1>7. next.start = (IF area.start < walk.from THEN walk.done ELSE area.start) /\ next.end = area.end
  BY DEF Area
<1> HIDE DEF next
<1>8. all[i].prot \in ValidProt
  <2>1. all[1] = Dummy
    BY <1>2 DEF WellFormed
  <2>2. Dummy.end \in Nat
    BY AreaAssumption DEF Dummy, Area
  <2>3. i # 1
    BY <1>2, <1>6, <2>1, <2>2
  <2>4. QED
    BY <1>2, <1>6, <2>3, AccessIsValid
<1>9. all[i].start <= next.start
  <2>1. all[i].start \in Nat
    BY <1>3, <1>6
  <2>2. all[i].start < walk.from => all[i].start <= walk.done
    BY <1>2, <2>1
  <2>3. QED
    BY <1>5, <1>7, <2>1, <2>2
<1>10. ASSUME NEW v \in Nat, next.start <= v, v < next.end
       PROVE  HasAny(all, v)
  <2>1. next.start \in Nat /\ all[i].start \in Nat
    BY <1>2, <1>3, <1>5, <1>6, <1>7
  <2>2. all[i].start <= v /\ v < all[i].end
    BY <1>5, <1>7, <1>9, <1>10, <2>1
  <2>3. QED
    BY <1>2, <1>6, <1>8, <2>2, HasAt DEF HasAny
<1>11. QED
  BY <1>1, <1>5, <1>6, <1>7, <1>10 DEF all

\* One part that is taken out and put back, or not put back.
MaybePart(after, walk, end, low, high, prot) ==
  /\ after.done = end
  /\ after.from = low
  /\ \A v \in Nat, p \in ValidProt :
       /\ ~(low <= v /\ v < high) => (Has(after.areas, v, p) <=> Has(walk.areas, v, p))
       /\ low <= v /\ v < high /\ Has(after.areas, v, p) => p = prot

LEMMA PartSparesOthers ==
  ASSUME NEW bound \in Nat, NEW walk \in Walks(bound), NEW area,
         NEW low \in Nat, NEW high \in Nat, low < high, NEW prot \in ValidProt
  PROVE  MaybePart(ProtectPart(walk, area, low, high, prot), walk, area.end, low, high, prot)
<1> DEFINE cut    == Unmap(walk.areas, low, high)
           mapped == Map(cut, low, high - low, prot, TRUE)
           after  == ProtectPart(walk, area, low, high, prot)
           there  == MapAt(cut, low, high, prot)
<1>1. WellFormed(walk.areas)
  BY DEF Walks
<1>2. WellFormed(cut) /\ Takes(cut, walk.areas, low, high)
  BY <1>1, UnmapKeepsShape, UnmapTakes
<1>3. high - low \in Nat \ {0} /\ low + (high - low) = high
  OBVIOUS
<1>4. after.areas = mapped.areas /\ after.done = area.end /\ after.from = low
  BY DEF ProtectPart
<1> HIDE DEF cut, after
<1>5. mapped.areas = cut \/ Puts(mapped.areas, cut, low, high, prot)
  <2>1. \/ mapped = Outcome(cut, EINVAL)
        \/ /\ low \in AreaStart .. AreaEnd /\ IsFree(cut, low, low + (high - low))
           /\ mapped = Outcome(MapAt(cut, low, low + (high - low), prot), low)
    BY <1>2, <1>3, MapFixed
  <2> HIDE DEF mapped
  <2>2. CASE mapped = Outcome(cut, EINVAL)
    BY <2>2 DEF Outcome
  <2>3. CASE /\ low \in AreaStart .. AreaEnd /\ IsFree(cut, low, high)
             /\ mapped = Outcome(there, low)
    <3>1. AreaStart <= low
      BY <2>3, AreaAssumption
    <3>2. there = cut \/ Puts(there, cut, low, high, prot)
      BY <1>2, <2>3, <3>1, MapAtPuts
    <3> HIDE DEF there
    <3>3. mapped.areas = there
      BY <2>3 DEF Outcome
    <3>4. QED
      BY <3>2, <3>3
  <2>4. QED
    BY <1>3, <2>1, <2>2, <2>3
<1> HIDE DEF mapped
<1>6. ASSUME NEW v \in Nat, NEW p \in ValidProt
      PROVE  /\ ~(low <= v /\ v < high) => (Has(after.areas, v, p) <=> Has(walk.areas, v, p))
             /\ low <= v /\ v < high /\ Has(after.areas, v, p) => p = prot
  <2>1. Has(cut, v, p) <=> Has(walk.areas, v, p) /\ ~(low <= v /\ v < high)
    BY <1>2 DEF Takes
  <2>2. \/ Has(after.areas, v, p) <=> Has(cut, v, p)
        \/ Has(after.areas, v, p) <=> Has(cut, v, p) \/ (low <= v /\ v < high /\ p = prot)
    BY <1>4, <1>5 DEF Puts
  <2>3. QED
    BY <2>1, <2>2
<1>7. QED
  BY <1>4, <1>6 DEF MaybePart, after

LEMMA StepIsHarmless ==
  ASSUME NEW bound \in Nat, NEW walk \in Walks(bound), NEW list,
         NEW lo \in Nat, NEW hi \in Nat, lo < hi, NEW prot \in ValidProt,
         Harmless(walk, list, lo, hi, prot)
  PROVE  Harmless(ProtectStep(walk, lo, hi, prot), list, lo, hi, prot)
<1> DEFINE after == ProtectStep(walk, lo, hi, prot)
           next == NextArea(walk)
           area == next[1]
           low  == Max({lo, area.start})
           high == Min({hi, area.end})
<1>1. /\ walk.from <= walk.done /\ Dummy.end <= walk.done
      /\ Spares(walk.areas, list, lo, hi, prot)
      /\ walk.from \in Nat /\ walk.done \in Nat /\ Dummy.end \in Nat
  BY AreaAssumption DEF Harmless, Walks, Dummy, Area
<1>2. after = IF walk.ret = EINVAL \/ next = <<>> THEN walk
              ELSE IF ~Overlaps(area, lo, hi) THEN [walk EXCEPT !.done = area.end]
              ELSE ProtectPart(walk, area, low, high, prot)
  BY DEF ProtectStep
<1>3. next # <<>> => /\ area.start \in Nat /\ area.end \in Nat
                     /\ area.start < area.end /\ walk.done < area.end
                     /\ \A v \in Nat : area.start <= v /\ v < area.end => HasAny(walk.areas, v)
  BY <1>1, NextAreaIsArea, NextAreaIsMapped
<1> HIDE DEF next, area
<1>4. CASE walk.ret = EINVAL \/ next = <<>>
  BY <1>2, <1>4 DEF after
<1>5. CASE next # <<>> /\ walk.ret # EINVAL /\ ~Overlaps(area, lo, hi)
  <2>1. after = [walk EXCEPT !.done = area.end]
    BY <1>2, <1>5
  <2> HIDE DEF after
  <2>2. after.areas = walk.areas /\ after.from = walk.from /\ after.done = area.end
    BY <2>1 DEF Walks
  <2>3. QED
    BY <1>1, <1>3, <1>5, <2>2 DEF Harmless, after
<1>6. CASE next # <<>> /\ walk.ret # EINVAL /\ Overlaps(area, lo, hi)
  <2>1. area.start < hi /\ lo < area.end
    BY <1>6 DEF Overlaps
  <2>2. /\ low = IF lo <= area.start THEN area.start ELSE lo
        /\ high = IF hi <= area.end THEN hi ELSE area.end
    BY <1>3, <1>6, LargerSmaller
  <2>3. after = ProtectPart(walk, area, low, high, prot)
    BY <1>2, <1>6
  <2> HIDE DEF low, high, after
  <2>4. /\ low \in Nat /\ high \in Nat /\ low < high
        /\ lo <= low /\ area.start <= low /\ low <= area.end
        /\ high <= hi /\ high <= area.end
    BY <1>3, <1>6, <2>1, <2>2
  <2>5. MaybePart(after, walk, area.end, low, high, prot)
    BY <2>3, <2>4, PartSparesOthers
  <2>6. ASSUME NEW v \in Nat, NEW p \in ValidProt
        PROVE  /\ ~(lo <= v /\ v < hi) => (Has(after.areas, v, p) <=> Has(list, v, p))
               /\ Has(after.areas, v, p) => Has(list, v, p) \/ (p = prot /\ HasAny(list, v))
    <3>1. /\ ~(low <= v /\ v < high) => (Has(after.areas, v, p) <=> Has(walk.areas, v, p))
          /\ low <= v /\ v < high /\ Has(after.areas, v, p) => p = prot
      BY <2>5 DEF MaybePart
    <3>2. /\ ~(lo <= v /\ v < hi) => (Has(walk.areas, v, p) <=> Has(list, v, p))
          /\ \A q \in ValidProt : Has(walk.areas, v, q) =>
                                    Has(list, v, q) \/ (q = prot /\ HasAny(list, v))
      BY <1>1 DEF Spares
    <3>3. low <= v /\ v < high => lo <= v /\ v < hi /\ area.start <= v /\ v < area.end
      BY <1>3, <1>6, <2>4
    <3>4. low <= v /\ v < high => HasAny(list, v)
      <4>1. SUFFICES ASSUME low <= v, v < high PROVE HasAny(list, v)
        OBVIOUS
      <4>2. HasAny(walk.areas, v)
        BY <1>3, <1>6, <3>3, <4>1
      <4>3. QED
        BY <3>2, <4>2 DEF HasAny
    <3>5. CASE low <= v /\ v < high
      BY <3>1, <3>3, <3>4, <3>5
    <3>6. CASE ~(low <= v /\ v < high)
      BY <3>1, <3>2, <3>6
    <3>7. QED
      BY <3>5, <3>6
  <2>7. Spares(after.areas, list, lo, hi, prot)
    BY <2>6 DEF Spares
  <2>8. QED
    <3>1. after.done = area.end /\ after.from = low
      BY <2>5 DEF MaybePart
    <3>2. Dummy.end <= area.end
      BY <1>1, <1>3, <1>6
    <3>3. QED
      BY <2>4, <2>7, <3>1, <3>2 DEF Harmless, after
<1>7. QED
  BY <1>4, <1>5, <1>6

\* mprotect, whatever it loses, takes access away from its own region only.
LEMMA ProtectIsHarmless ==
  ASSUME NEW list, WellFormed(list), NEW bound \in Nat, EndsBy(list, bound),
         NEW lo \in Nat, NEW hi \in Nat, lo < hi, NEW prot \in ValidProt
  PROVE  Spares(Protect(list, lo, hi, prot).areas, list, lo, hi, prot)
<1>0. Protect(list, lo, hi, prot) \in Walks(bound)
  BY ProtectKeepsShape
<1>1. PICK walk \in [0 .. Len(list) - 1 -> Walks(bound)] :
        /\ walk[0] = StartWalk(list)
        /\ \A n \in 1 .. Len(list) - 1 : walk[n] = ProtectStep(walk[n - 1], lo, hi, prot)
        /\ Protect(list, lo, hi, prot) = walk[Len(list) - 1]
  BY <1>0, ProtectWalks
<1> DEFINE N == Len(list) - 1
<1>2. N \in Nat
  BY ListFacts
<1>3. /\ walk \in [0 .. N -> Walks(bound)]
      /\ walk[0] = StartWalk(list)
      /\ \A n \in 1 .. N : walk[n] = ProtectStep(walk[n - 1], lo, hi, prot)
      /\ Protect(list, lo, hi, prot) = walk[N]
  BY <1>1
<1> HIDE DEF N
<1> DEFINE Good == {n \in Nat : n <= N => Harmless(walk[n], list, lo, hi, prot)}
<1>4. 0 \in Good
  <2> DEFINE start == StartWalk(list)
  <2>1. start.areas = list /\ start.from = 0 /\ start.done = Dummy.end
    BY DEF StartWalk, Null, WellFormed
  <2>2. Dummy.end \in Nat
    BY AreaAssumption DEF Dummy, Area
  <2> HIDE DEF start
  <2>3. Harmless(start, list, lo, hi, prot)
    BY <2>1, <2>2 DEF Harmless, Spares
  <2>4. QED
    BY <1>3, <2>3 DEF start
<1>5. ASSUME NEW n \in Nat, n \in Good
      PROVE  n + 1 \in Good
  <2>1. SUFFICES ASSUME n + 1 <= N PROVE Harmless(walk[n + 1], list, lo, hi, prot)
    OBVIOUS
  <2>2. n <= N /\ n + 1 \in 1 .. N /\ (n + 1) - 1 = n /\ n \in 0 .. N
    <3> HIDE DEF Good
    <3>1. QED
      BY <1>2, <2>1
  <2>3. Harmless(walk[n], list, lo, hi, prot)
    BY <1>5, <2>2
  <2> HIDE DEF Good
  <2>4. walk[n + 1] = ProtectStep(walk[n], lo, hi, prot) /\ walk[n] \in Walks(bound)
    BY <1>3, <2>2
  <2>5. QED
    BY <2>3, <2>4, StepIsHarmless
<1>6. Nat \subseteq Good
  <2> HIDE DEF Good
  <2>1. QED
    BY <1>4, <1>5, Induction
<1>7. Harmless(walk[N], list, lo, hi, prot)
  <2>1. N <= N
    BY <1>2
  <2>2. QED
    BY <1>2, <1>6, <2>1
<1>8. QED
  BY <1>3, <1>7 DEF Harmless

LEMMA MprotectLosesOwnAlone ==
  ASSUME Inv, Inv', NEW addr \in Addresses, NEW length \in Lengths, NEW prot \in Prots,
         Mprotect(addr, length, prot)
  PROVE  LosesOwnAlone
<1> DEFINE result == Protect(areas, addr, addr + length, prot)
<1>1. /\ addr \in Nat /\ length \in Nat \ {0} /\ addr + length \in Nat /\ addr < addr + length
      /\ Top + 1 \in Nat
  BY ArgumentsAreNaturals, VmaCallsAssumption
<1>2. WellFormed(areas) /\ EndsBy(areas, Top + 1) /\ Listed(areas) /\ Listed(areas')
  BY DEF Inv, Mprotect, Listed
<1>3. /\ areas' = result.areas
      /\ call'.op = "mprotect" /\ call'.addr = addr /\ call'.length = length /\ call'.prot = prot
  BY DEF Mprotect, Called
<1>4. CASE prot \notin ValidProt
  <2>1. result.areas = areas
    BY <1>4 DEF Protect, StartWalk
  <2> HIDE DEF result
  <2>2. QED
    BY <1>3, <2>1 DEF LosesOwnAlone
<1>5. CASE prot \in ValidProt
  <2>1. Spares(result.areas, areas, addr, addr + length, prot)
    BY <1>1, <1>2, <1>5, ProtectIsHarmless
  <2> HIDE DEF result
  <2>2. ASSUME NEW v \in AreaStart + 1 .. Top, ProtOf(areas', v) # ProtOf(areas, v)
        PROVE  /\ v \in addr .. addr + length - 1
               /\ ProtOf(areas, v) # NoAccess
               /\ ProtOf(areas', v) \in {NoAccess, prot}
    <3>1. v \in Nat
      BY AreaAssumption, VmaCallsAssumption
    <3>2. /\ ProtOf(areas, v) \in {NoAccess} \cup ValidProt
          /\ \A p \in ValidProt : ProtOf(areas, v) = p <=> Has(areas, v, p)
      BY <1>2, <3>1, ProtOfIs DEF Listed
    <3>3. /\ ProtOf(areas', v) \in {NoAccess} \cup ValidProt
          /\ \A p \in ValidProt : ProtOf(areas', v) = p <=> Has(areas', v, p)
      BY <1>2, <3>1, ProtOfIs DEF Listed
    <3>4. \A p \in ValidProt :
            /\ ~(addr <= v /\ v < addr + length) => (Has(areas', v, p) <=> Has(areas, v, p))
            /\ Has(areas', v, p) => Has(areas, v, p) \/ (p = prot /\ HasAny(areas, v))
      BY <1>3, <2>1, <3>1 DEF Spares
    <3>5. NoAccess \notin ValidProt
      BY DEF NoAccess, ValidProt, ReadOnly, ReadWrite
    <3>6. addr <= v /\ v < addr + length
      BY <2>2, <3>2, <3>3, <3>4, <3>5
    <3>7. v \in addr .. addr + length - 1
      BY <1>1, <3>1, <3>6
    <3>8. ProtOf(areas, v) # NoAccess
      BY <2>2, <3>2, <3>3, <3>4, <3>5 DEF HasAny
    <3>9. ProtOf(areas', v) \in {NoAccess, prot}
      BY <2>2, <3>2, <3>3, <3>4, <3>5
    <3>10. QED
      BY <3>7, <3>8, <3>9
  <2>3. QED
    BY <1>3, <2>2 DEF LosesOwnAlone
<1>6. QED
  BY <1>4, <1>5

LEMMA MmapLosesNothing ==
  ASSUME NEW addr \in Addresses, NEW length \in Lengths, NEW prot \in Prots,
         NEW fixed \in BOOLEAN, Mmap(addr, length, prot, fixed), call'.lost
  PROVE  LosesOwnAlone
<1>1. areas' = WithDummy(areas)
  BY DEF Mmap, Called
<1>2. \A v \in AreaStart + 1 .. Top : ProtOf(areas', v) = ProtOf(areas, v)
  BY <1>1, DummyHasNothing DEF PermOf
<1>3. QED
  BY <1>2 DEF LosesOwnAlone

\* Every call of mmap, munmap and mprotect does to the pages what it promises
\* and nothing else, however it splits, trims, merges and walks the list, for
\* every size of the address space.  The cases that lose a region (no branch for
\* it, or an area past MMAP_AREA_END) change no page of another region.
THEOREM CallsDoWhatTheyPromise == Spec => CallsKeepPromise
<1> DEFINE Kept == Promised!Next \/ (call'.lost /\ LosesOwnAlone)
<1>1. ASSUME Inv, Inv', [Next]_vars
      PROVE  [Kept]_vars
  <2>1. CASE UNCHANGED vars
    BY <2>1
  <2>2. ASSUME NEW addr \in Addresses, NEW length \in Lengths, NEW prot \in Prots,
               NEW fixed \in BOOLEAN, Mmap(addr, length, prot, fixed)
        PROVE  Kept
    BY <1>1, <2>2, MmapKeepsPromise, MmapLosesNothing
  <2>3. ASSUME NEW addr \in Addresses, NEW length \in Lengths, Munmap(addr, length)
        PROVE  Promised!Next
    <3>1. Listed(areas) /\ Listed(areas')
      BY <1>1 DEF Inv, Listed
    <3>2. Promised!Munmap(addr, length) /\ 1 \in Prots
      BY <2>3, <3>1, MunmapKeepsPromise DEF Prots
    <3>3. QED
      BY <3>2, PageMapNext
  <2>4. ASSUME NEW addr \in Addresses, NEW length \in Lengths, NEW prot \in Prots,
               Mprotect(addr, length, prot)
        PROVE  Kept
    BY <1>1, <2>4, MprotectKeepsPromise, MprotectLosesOwnAlone, PageMapNext
  <2>5. QED
    BY <1>1, <2>1, <2>2, <2>3, <2>4 DEF Next
<1>2. QED
  BY <1>1, InvHolds, PTL DEF Spec, CallsKeepPromise
==============================================================================
