--------------------------- MODULE Strace_proofs ---------------------------
(***************************************************************************)
(* strace, for every value of the constants and every order of calls: the  *)
(* traced list names no system call twice and never outgrows STRACE_MAX;   *)
(* both offsets stay inside the ring; and as long as the ring is never     *)
(* filled to its last word, what lies between them is the list of the      *)
(* records put in and not yet read, so that strace keeps its promise.      *)
(***************************************************************************)
EXTENDS Strace, ListLemmas, FiniteSetTheorems

\* What a list is: head.count is only ever stepped, so that it is the length
\* has to be carried along with the list.
Heads == [count : Nat, is_traced : BOOLEAN, tracing_mode : {FULL_TRACING, FILTERED_TRACING},
          list : Seq(Numbers)]

HeadOK(h) ==
  /\ h \in Heads
  /\ h.count = Len(h.list)
  /\ h.count <= StraceMax
  /\ IsInjective(h.list)

\* The inductive invariant.
ListInv == head # NoHead => HeadOK(head)

------------------------------------------------------------------------------
(* Lists without repetition *)

LEMMA AppendNew ==
  ASSUME NEW s \in Seq(Numbers), NEW e \in Numbers, IsInjective(s), e \notin Range(s)
  PROVE  IsInjective(Append(s, e))
<1>1. Len(s) \in Nat /\ DOMAIN s = 1 .. Len(s)
  OBVIOUS
<1>2. \A i \in 1 .. Len(s) : s[i] # e
  BY <1>1 DEF Range
<1>3. PICK t : t = Append(s, e)
  OBVIOUS
<1>4. /\ DOMAIN t = 1 .. Len(s) + 1
      /\ \A i \in 1 .. Len(s) : t[i] = s[i]
      /\ t[Len(s) + 1] = e
  BY <1>1, <1>3, AppendProperties
<1>5. ASSUME NEW a \in 1 .. Len(s) + 1, NEW b \in 1 .. Len(s) + 1, t[a] = t[b]
      PROVE  a = b
  <2>1. CASE a \in 1 .. Len(s) /\ b \in 1 .. Len(s)
    BY <1>1, <1>4, <1>5, <2>1 DEF IsInjective
  <2>2. CASE a = Len(s) + 1 \/ b = Len(s) + 1
    BY <1>1, <1>2, <1>4, <1>5, <2>2
  <2>3. QED
    BY <1>1, <2>1, <2>2
<1>6. IsInjective(t)
  BY <1>4, <1>5 DEF IsInjective
<1>7. QED
  BY <1>3, <1>6

\* As the list repeats nothing, the first match is the only one.
LEMMA RemoveFirstIsRemoveAt ==
  ASSUME NEW s \in Seq(Numbers), NEW e, IsInjective(s), e \in Range(s)
  PROVE  \E k \in 1 .. Len(s) : RemoveFirst(s, e) = RemoveAt(s, k) /\ s[k] = e
<1>1. PICK k \in 1 .. Len(s) : s[k] = e
  BY DEF Range
<1>2. {i \in 1 .. Len(s) : s[i] = e} = {k}
  BY <1>1 DEF IsInjective
<1>3. Min({k}) = k
  BY <1>1 DEF Min
<1>4. SelectInSeq(s, LAMBDA v : v = e) = k
  BY <1>2, <1>3 DEF SelectInSeq
<1>5. RemoveFirst(s, e) = RemoveAt(s, k)
  BY <1>1, <1>4 DEF RemoveFirst
<1>6. QED
  BY <1>1, <1>5

LEMMA RemoveAtInjective ==
  ASSUME NEW s \in Seq(Numbers), NEW k \in 1 .. Len(s), IsInjective(s)
  PROVE  /\ RemoveAt(s, k) \in Seq(Numbers)
         /\ Len(RemoveAt(s, k)) = Len(s) - 1
         /\ IsInjective(RemoveAt(s, k))
<1> DEFINE rest == RemoveAt(s, k)
<1>1. Len(s) \in Nat
  OBVIOUS
<1>4. /\ rest \in Seq(Numbers)
      /\ Len(rest) = Len(s) - 1
      /\ \A i \in 1 .. Len(s) - 1 : rest[i] = IF i < k THEN s[i] ELSE s[i + 1]
  BY RemoveAtElements
<1> HIDE DEF rest
<1>5. DOMAIN rest = 1 .. Len(s) - 1
  BY <1>1, <1>4
<1>6. ASSUME NEW a \in 1 .. Len(s) - 1, NEW b \in 1 .. Len(s) - 1, rest[a] = rest[b]
      PROVE  a = b
  <2> DEFINE old(i) == IF i < k THEN i ELSE i + 1
  <2>1. rest[a] = s[old(a)] /\ rest[b] = s[old(b)]
    BY <1>4
  <2>2. old(a) \in DOMAIN s /\ old(b) \in DOMAIN s
    BY <1>1
  <2>3. s[old(a)] = s[old(b)]
    BY <1>6, <2>1
  <2>4. old(a) = old(b)
    <3> HIDE DEF old
    <3>1. QED
      BY <2>2, <2>3 DEF IsInjective
  <2>5. QED
    BY <1>1, <2>4
<1>7. rest \in Seq(Numbers) /\ Len(rest) = Len(s) - 1 /\ IsInjective(rest)
  BY <1>4, <1>5, <1>6 DEF IsInjective
<1>8. QED
  BY <1>7 DEF rest
------------------------------------------------------------------------------
(* What each operation does to the head *)

LEMMA NewHeadOK ==
  ASSUME NEW traced \in BOOLEAN, NEW mode \in {FULL_TRACING, FILTERED_TRACING}
  PROVE  HeadOK(NewHead(traced, mode))
<1>1. NewHead(traced, mode) \in Heads
  BY DEF NewHead, Heads
<1>2. /\ NewHead(traced, mode).count = 0
      /\ NewHead(traced, mode).list = << >>
  BY DEF NewHead
<1>3. IsInjective(<< >>) /\ Len(<< >>) = 0
  BY DEF IsInjective
<1>4. QED
  BY <1>1, <1>2, <1>3, StraceAssumption DEF HeadOK

LEMMA AddOK ==
  ASSUME NEW h, HeadOK(h), NEW num \in Numbers
  PROVE  HeadOK(Add(h, num))
<1>1. CASE Add(h, num) = h
  BY <1>1
<1>2. CASE Add(h, num) # h
  <2> DEFINE new == [h EXCEPT !.list = Append(@, num), !.count = @ + 1]
  <2>1. /\ Add(h, num) = new
        /\ h.list = << >> \/ (h.count # StraceMax /\ num \notin Range(h.list))
    BY <1>2 DEF Add
  <2>2. h.list \in Seq(Numbers) /\ h.count \in Nat /\ h.count = Len(h.list)
    BY DEF HeadOK, Heads
  <2>3. /\ new \in Heads
        /\ new.list = Append(h.list, num)
        /\ new.count = h.count + 1
    <3>1. Append(h.list, num) \in Seq(Numbers) /\ h.count + 1 \in Nat
      BY <2>2
    <3>2. QED
      BY <2>2, <3>1 DEF HeadOK, Heads
  <2>4. Len(new.list) = Len(h.list) + 1
    BY <2>2, <2>3, AppendProperties
  <2>5. num \notin Range(h.list)
    BY <2>1 DEF Range
  <2>6. IsInjective(new.list)
    BY <2>2, <2>3, <2>5, AppendNew DEF HeadOK
  <2>7. new.count <= StraceMax
    <3>1. CASE h.list = << >>
      BY <2>2, <2>3, <3>1, StraceAssumption
    <3>2. CASE h.list # << >>
      BY <2>1, <2>2, <2>3, <3>2, StraceAssumption DEF HeadOK
    <3>3. QED
      BY <3>1, <3>2
  <2> HIDE DEF new
  <2>8. QED
    BY <2>1, <2>2, <2>3, <2>4, <2>6, <2>7 DEF HeadOK
<1>3. QED
  BY <1>1, <1>2

LEMMA RemoveOK ==
  ASSUME NEW h, HeadOK(h), NEW num, num \in Range(h.list)
  PROVE  HeadOK([h EXCEPT !.list = RemoveFirst(@, num), !.count = @ - 1])
<1> DEFINE new == [h EXCEPT !.list = RemoveFirst(@, num), !.count = @ - 1]
<1>1. /\ h \in Heads
      /\ h.list \in Seq(Numbers)
      /\ h.count \in Nat
      /\ h.count = Len(h.list)
      /\ IsInjective(h.list)
  BY DEF HeadOK, Heads
<1>2. PICK k \in 1 .. Len(h.list) : RemoveFirst(h.list, num) = RemoveAt(h.list, k)
  BY <1>1, RemoveFirstIsRemoveAt
<1>3. /\ RemoveFirst(h.list, num) \in Seq(Numbers)
      /\ Len(RemoveFirst(h.list, num)) = Len(h.list) - 1
      /\ IsInjective(RemoveFirst(h.list, num))
  BY <1>1, <1>2, RemoveAtInjective
<1>4. h.count - 1 \in Nat
  BY <1>1, <1>2
<1>5. /\ new \in Heads
      /\ new.list = RemoveFirst(h.list, num)
      /\ new.count = h.count - 1
  BY <1>1, <1>3, <1>4 DEF Heads
<1> HIDE DEF new
<1>6. new.count <= StraceMax
  BY <1>1, <1>5, StraceAssumption DEF HeadOK
<1>7. HeadOK(new)
  BY <1>1, <1>3, <1>5, <1>6 DEF HeadOK
<1>8. QED
  BY <1>7 DEF new

\* One step of the process keeps the list sound, whichever call it makes.
LEMMA ListInvStep ==
  ASSUME ListInv, [Next]_vars
  PROVE  ListInv'
<1>1. ASSUME NEW mode \in {FULL_TRACING, FILTERED_TRACING, 2}, StartStrace(mode)
      PROVE  ListInv'
  <2>1. CASE mode \notin {FULL_TRACING, FILTERED_TRACING}
    BY <1>1, <2>1 DEF StartStrace, ListInv
  <2>2. CASE mode \in {FULL_TRACING, FILTERED_TRACING} /\ head = NoHead
    BY <1>1, <2>2, NewHeadOK DEF StartStrace, ListInv
  <2>3. CASE mode \in {FULL_TRACING, FILTERED_TRACING} /\ head # NoHead
    <3>1. head' = [head EXCEPT !.is_traced = TRUE, !.tracing_mode = mode] /\ HeadOK(head)
      BY <1>1, <2>3 DEF StartStrace, ListInv
    <3>2. head' \in Heads /\ head'.list = head.list /\ head'.count = head.count
      BY <2>3, <3>1 DEF HeadOK, Heads
    <3>3. QED
      BY <3>1, <3>2 DEF HeadOK, ListInv
  <2>4. QED
    BY <2>1, <2>2, <2>3
<1>2. ASSUME EndStrace PROVE ListInv'
  BY <1>2 DEF EndStrace, ListInv
<1>3. ASSUME NEW num \in Numbers, AddStrace(num) PROVE ListInv'
  <2>1. HeadOK(IF head = NoHead THEN NewHead(FALSE, FULL_TRACING) ELSE head)
    BY NewHeadOK DEF ListInv
  <2>2. QED
    BY <1>3, <2>1, AddOK DEF AddStrace, ListInv
<1>4. ASSUME NEW num \in Numbers, RemoveStrace(num) PROVE ListInv'
  BY <1>4, RemoveOK DEF RemoveStrace, ListInv
<1>5. ASSUME NEW count \in Counts, ReadStrace(count) PROVE ListInv'
  BY <1>5 DEF ReadStrace, ListInv
<1>6. ASSUME NEW c \in Calls, OtherCall(c) PROVE ListInv'
  BY <1>6 DEF OtherCall, ListInv
<1>7. CASE UNCHANGED vars
  BY <1>7 DEF vars, ListInv
<1>8. QED
  BY <1>1, <1>2, <1>3, <1>4, <1>5, <1>6, <1>7 DEF Next

\* The traced list names no system call twice, holds at most STRACE_MAX of them
\* and has the length the head counts, however starts, ends, additions, removals
\* and traced calls follow one another.
THEOREM SpecImpliesTracedListIsSet == Spec => []TracedListIsSet
<1>1. Init => ListInv
  BY DEF Init, ListInv
<1>2. ListInv /\ [Next]_vars => ListInv'
  BY ListInvStep
<1>3. ListInv => TracedListIsSet
  BY DEF ListInv, HeadOK, TracedListIsSet
<1>4. QED
  BY <1>1, <1>2, <1>3, PTL DEF Spec
------------------------------------------------------------------------------
(* The ring *)

Rings == [readOffset : Cells, writeOffset : Cells, isFull : BOOLEAN, buffer : [Cells -> Nat]]

\* What the loop of read_strace comes to.
Scanned == [offset : Cells, records : Seq(Seq(Nat)), met : BOOLEAN]

LEMMA ModType ==
  ASSUME NEW n \in Nat
  PROVE  n % Size \in Cells
BY StraceAssumption DEF Cells

LEMMA NumArgsType ==
  ASSUME NEW num
  PROVE  NumArgs(num) \in 0 .. 4
BY DEF NumArgs

\* The offset behind the record at an offset.
Behind(r, offset) == (offset + Len(RecordAt(r, offset))) % Size

LEMMA RecordAtType ==
  ASSUME NEW r \in Rings, NEW offset \in Cells
  PROVE  /\ RecordAt(r, offset) \in Seq(Nat)
         /\ Len(RecordAt(r, offset)) = 1 + NumArgs(r.buffer[offset])
         /\ Behind(r, offset) \in Cells
<1> DEFINE n == NumArgs(r.buffer[offset])
           words == RecordAt(r, offset)
<1>1. n \in 0 .. 4
  BY NumArgsType
<1> HIDE DEF n
<1>2. \A i \in 1 .. 1 + n : r.buffer[(offset + i - 1) % Size] \in Nat
  <2>1. \A i \in 1 .. 1 + n : offset + i - 1 \in Nat
    BY <1>1 DEF Cells
  <2>2. \A i \in 1 .. 1 + n : (offset + i - 1) % Size \in Cells
    BY <2>1, ModType
  <2>3. QED
    BY <2>2 DEF Rings
<1>3. words = [i \in 1 .. 1 + n |-> r.buffer[(offset + i - 1) % Size]]
  BY DEF RecordAt, n
<1> HIDE DEF words
<1>4. words \in Seq(Nat) /\ Len(words) = 1 + n
  BY <1>1, <1>2, <1>3
<1>5. offset + Len(words) \in Nat
  BY <1>1, <1>4 DEF Cells
<1>6. Behind(r, offset) \in Cells
  BY <1>5, ModType DEF Behind, words
<1>7. QED
  BY <1>4, <1>6 DEF words, n

\* The steps of the loop: t[n][offset] is what comes of it from an offset, with
\* n more records asked for.
LoopsOver(t, r, count) ==
  /\ \A offset \in Cells :
       t[0][offset] = [offset |-> offset, records |-> <<>>, met |-> FALSE]
  /\ \A n \in 1 .. count :
       t[n][r.writeOffset] = [offset |-> r.writeOffset, records |-> <<>>, met |-> TRUE]
  /\ \A n \in 1 .. count, offset \in Cells \ {r.writeOffset} :
       t[n][offset] = [t[n - 1][Behind(r, offset)]
                         EXCEPT !.records = <<RecordAt(r, offset)>> \o @]

LEMMA TakeLoops ==
  ASSUME NEW r \in Rings, NEW count \in Nat
  PROVE  \E t \in [0 .. count -> [Cells -> Scanned]] :
           LoopsOver(t, r, count) /\ Take(r, count) = t[count][r.readOffset]
<1> DEFINE Body(take, n, offset) ==
             IF n = 0 \/ offset = r.writeOffset
             THEN [offset |-> offset, records |-> <<>>, met |-> n # 0]
             ELSE LET words == RecordAt(r, offset)
                  IN  [take[n - 1][(offset + Len(words)) % Size] EXCEPT !.records = <<words>> \o @]
           Defines(take) ==
             take = [n \in 0 .. count |-> [offset \in Cells |-> Body(take, n, offset)]]
           base == [offset \in Cells |-> [offset |-> offset, records |-> <<>>, met |-> FALSE]]
           next == [offset \in Cells |-> Behind(r, offset)]
           step == [p \in Cells \X Scanned |->
                      IF p[1] = r.writeOffset
                      THEN [offset |-> p[1], records |-> <<>>, met |-> TRUE]
                      ELSE [p[2] EXCEPT !.records = <<RecordAt(r, p[1])>> \o @]]
<1>1. ASSUME NEW scan \in Scanned, NEW words \in Seq(Nat)
      PROVE  [scan EXCEPT !.records = <<words>> \o @] \in Scanned
  <2>1. <<words>> \in Seq(Seq(Nat)) /\ scan.records \in Seq(Seq(Nat))
    BY DEF Scanned
  <2>2. <<words>> \o scan.records \in Seq(Seq(Nat))
    BY <2>1, ConcatProperties
  <2>3. QED
    BY <2>2 DEF Scanned
<1>2. \A offset \in Cells, b \in BOOLEAN :
        [offset |-> offset, records |-> <<>>, met |-> b] \in Scanned
  BY DEF Scanned
<1>3. base \in [Cells -> Scanned]
  BY <1>2
<1>4. next \in [Cells -> Cells]
  BY RecordAtType
<1>5. step \in [Cells \X Scanned -> Scanned]
  <2>1. \A p \in Cells \X Scanned :
          /\ [offset |-> p[1], records |-> <<>>, met |-> TRUE] \in Scanned
          /\ [p[2] EXCEPT !.records = <<RecordAt(r, p[1])>> \o @] \in Scanned
    BY <1>1, <1>2, RecordAtType
  <2>2. QED
    BY <2>1
<1>6. \A offset \in Cells, scan \in Scanned :
        step[<<offset, scan>>] = IF offset = r.writeOffset
                                 THEN [offset |-> offset, records |-> <<>>, met |-> TRUE]
                                 ELSE [scan EXCEPT !.records = <<RecordAt(r, offset)>> \o @]
  OBVIOUS
<1>7. \A offset \in Cells : /\ base[offset] = [offset |-> offset, records |-> <<>>, met |-> FALSE]
                           /\ next[offset] = Behind(r, offset)
  OBVIOUS
<1> HIDE DEF base, next, step
<1>8. PICK f \in [0 .. count -> [Cells -> Scanned]] : Scans(f, Cells, count, base, step, next)
  BY <1>3, <1>4, <1>5, ScanExists
<1>9. ASSUME NEW n \in 0 .. count, NEW offset \in Cells
      PROVE  f[n][offset] = Body(f, n, offset)
  <2>1. CASE n = 0
    BY <1>7, <1>8, <2>1 DEF Scans
  <2>2. CASE n # 0
    <3>1. n \in 1 .. count /\ n - 1 \in 0 .. count
      BY <2>2
    <3>2. next[offset] \in Cells /\ next[offset] = Behind(r, offset)
      BY <1>4, <1>7
    <3>3. f[n - 1][Behind(r, offset)] \in Scanned
      BY <3>1, <3>2
    <3>4. f[n][offset] = step[<<offset, f[n - 1][Behind(r, offset)]>>]
      BY <1>8, <3>1, <3>2 DEF Scans
    <3>5. f[n][offset] = IF offset = r.writeOffset
                         THEN [offset |-> offset, records |-> <<>>, met |-> TRUE]
                         ELSE [f[n - 1][Behind(r, offset)]
                                 EXCEPT !.records = <<RecordAt(r, offset)>> \o @]
      BY <1>6, <3>3, <3>4
    <3>6. QED
      BY <2>2, <3>5 DEF Behind
  <2>3. QED
    BY <2>1, <2>2
<1>10. Defines(f)
  <2> HIDE DEF Body
  <2>1. \A n \in 0 .. count : f[n] = [offset \in Cells |-> Body(f, n, offset)]
    BY <1>8, <1>9
  <2>2. QED
    BY <1>8, <2>1
<1> DEFINE t == CHOOSE take : Defines(take)
<1>11. Defines(t)
  <2> HIDE DEF Defines
  <2>1. QED
    BY <1>10
<1>12. Take(r, count) = t[count][r.readOffset]
  BY DEF Take
<1> HIDE DEF t
<1>13. ASSUME NEW n \in 0 .. count, NEW offset \in Cells
       PROVE  t[n][offset] = Body(t, n, offset)
  <2> HIDE DEF Body
  <2>1. t = [m \in 0 .. count |-> [o \in Cells |-> Body(t, m, o)]]
    BY <1>11
  <2>2. t[n] = [o \in Cells |-> Body(t, n, o)]
    BY <2>1, Zenon
  <2>3. QED
    BY <2>2, Zenon
<1>14. LoopsOver(t, r, count)
  <2>1. r.writeOffset \in Cells /\ 0 \in 0 .. count
    BY DEF Rings
  <2>2. ASSUME NEW offset \in Cells
        PROVE  t[0][offset] = [offset |-> offset, records |-> <<>>, met |-> FALSE]
    BY <1>13, <2>1
  <2>3. ASSUME NEW n \in 1 .. count
        PROVE  t[n][r.writeOffset] = [offset |-> r.writeOffset, records |-> <<>>, met |-> TRUE]
    <3>1. n \in 0 .. count /\ (n # 0) = TRUE
      OBVIOUS
    <3>2. t[n][r.writeOffset] = [offset |-> r.writeOffset, records |-> <<>>, met |-> n # 0]
      BY <1>13, <2>1, <3>1
    <3>3. QED
      BY <3>1, <3>2
  <2>4. ASSUME NEW n \in 1 .. count, NEW offset \in Cells \ {r.writeOffset}
        PROVE  t[n][offset] = [t[n - 1][Behind(r, offset)]
                                 EXCEPT !.records = <<RecordAt(r, offset)>> \o @]
    <3>1. n \in 0 .. count /\ n # 0
      OBVIOUS
    <3>2. Body(t, n, offset) = [t[n - 1][Behind(r, offset)]
                                  EXCEPT !.records = <<RecordAt(r, offset)>> \o @]
      BY <3>1 DEF Behind
    <3> HIDE DEF Body
    <3>3. QED
      BY <1>13, <3>1, <3>2
  <2>5. QED
    BY <2>2, <2>3, <2>4 DEF LoopsOver
<1> DEFINE Typed == {n \in Nat : n <= count => \A offset \in Cells : t[n][offset] \in Scanned}
<1>15. 0 \in Typed
  <2>1. \A offset \in Cells : t[0][offset] \in Scanned
    BY <1>2, <1>14 DEF LoopsOver
  <2>2. QED
    BY <2>1
<1>16. ASSUME NEW n \in Nat, n \in Typed
       PROVE  n + 1 \in Typed
  <2>1. SUFFICES ASSUME n + 1 <= count, NEW offset \in Cells PROVE t[n + 1][offset] \in Scanned
    OBVIOUS
  <2>2. n + 1 \in 0 .. count /\ n <= count /\ (n + 1) - 1 = n /\ n + 1 # 0
    BY <2>1
  <2>3. Behind(r, offset) \in Cells /\ RecordAt(r, offset) \in Seq(Nat)
    BY RecordAtType
  <2>4. t[n][Behind(r, offset)] \in Scanned
    BY <1>16, <2>2, <2>3
  <2>5. CASE offset = r.writeOffset
    <3>1. n + 1 \in 1 .. count
      BY <2>2
    <3>2. QED
      BY <1>2, <1>14, <2>5, <3>1 DEF LoopsOver
  <2>6. CASE offset # r.writeOffset
    <3>1. t[n + 1][offset] = [t[n][Behind(r, offset)] EXCEPT !.records = <<RecordAt(r, offset)>> \o @]
      <4>1. n + 1 \in 1 .. count /\ offset \in Cells \ {r.writeOffset}
        BY <2>2, <2>6
      <4>2. \A k \in 1 .. count, o \in Cells \ {r.writeOffset} :
              t[k][o] = [t[k - 1][Behind(r, o)] EXCEPT !.records = <<RecordAt(r, o)>> \o @]
        BY <1>14 DEF LoopsOver
      <4>3. t[n + 1][offset] = [t[(n + 1) - 1][Behind(r, offset)]
                                  EXCEPT !.records = <<RecordAt(r, offset)>> \o @]
        BY <4>1, <4>2, Zenon
      <4>4. QED
        BY <2>2, <4>3, Zenon
    <3>2. QED
      BY <1>1, <2>3, <2>4, <3>1
  <2>7. QED
    BY <2>5, <2>6
<1>17. Nat \subseteq Typed
  <2> HIDE DEF Typed
  <2>1. QED
    BY <1>15, <1>16, Induction
<1>18. t \in [0 .. count -> [Cells -> Scanned]]
  <2>1. \A n \in 0 .. count, offset \in Cells : t[n][offset] \in Scanned
    BY <1>17
  <2>2. \A n \in 0 .. count : DOMAIN t[n] = Cells /\ t[n] = [offset \in DOMAIN t[n] |-> t[n][offset]]
    BY <1>11
  <2>3. DOMAIN t = 0 .. count /\ t = [n \in DOMAIN t |-> t[n]]
    BY <1>11
  <2>4. \A n \in 0 .. count : t[n] \in [Cells -> Scanned]
    BY <2>1, <2>2
  <2>5. QED
    BY <2>3, <2>4
<1>19. QED
  BY <1>12, <1>14, <1>18
------------------------------------------------------------------------------
(* Types *)

LEMMA RecordType ==
  ASSUME NEW num \in Nat, NEW params \in Seq(Nat), NumArgs(num) <= Len(params)
  PROVE  LET w == RecordOf([num |-> num, params |-> params])
         IN  w \in Seq(Nat) /\ Len(w) = 1 + NumArgs(num) /\ w[1] = num
<1> DEFINE n == NumArgs(num)
           taken == SubSeq(params, 1, n)
           w == <<num>> \o taken
<1>1. n \in 0 .. 4 /\ Len(params) \in Nat /\ \A i \in 1 .. n : params[i] \in Nat
  <2>1. n \in 0 .. 4
    BY NumArgsType
  <2>2. \A i \in 1 .. n : i \in 1 .. Len(params)
    BY <2>1
  <2>3. QED
    BY <2>1, <2>2
<1> HIDE DEF n
<1>2. taken \in Seq(Nat) /\ Len(taken) = n
  <2>1. /\ taken \in Seq(Nat)
        /\ Len(taken) = IF 1 <= n THEN n - 1 + 1 ELSE 0
    BY <1>1, SubSeqProperties
  <2>2. QED
    BY <1>1, <2>1
<1>3. <<num>> \in Seq(Nat) /\ Len(<<num>>) = 1 /\ <<num>>[1] = num
  OBVIOUS
<1> HIDE DEF taken
<1>4. /\ w \in Seq(Nat) /\ Len(w) = 1 + n
      /\ \A i \in 1 .. 1 + n : w[i] = IF i <= 1 THEN <<num>>[i] ELSE taken[i - 1]
  <2>1. /\ w \in Seq(Nat) /\ Len(w) = Len(<<num>>) + Len(taken)
        /\ \A i \in 1 .. Len(<<num>>) + Len(taken) :
             w[i] = IF i <= Len(<<num>>) THEN <<num>>[i] ELSE taken[i - Len(<<num>>)]
    BY <1>2, <1>3, ConcatProperties, Zenon
  <2> HIDE DEF w
  <2>2. QED
    BY <1>2, <1>3, <2>1
<1>5. w[1] = num
  <2>1. 1 \in 1 .. 1 + n
    BY <1>1
  <2>2. w[1] = <<num>>[1]
    BY <1>4, <2>1
  <2>3. QED
    BY <1>3, <2>2
<1>6. RecordOf([num |-> num, params |-> params]) = w
  BY DEF RecordOf, taken, n
<1> HIDE DEF w
<1>7. QED
  BY <1>4, <1>5, <1>6 DEF n

LEMMA PutType ==
  ASSUME NEW r \in Rings, NEW w \in Seq(Nat)
  PROVE  Put(r, w) \in Rings
<1>1. r.readOffset \in Cells /\ r.writeOffset \in Cells /\ r.isFull \in BOOLEAN
      /\ r.buffer \in [Cells -> Nat]
  BY DEF Rings
<1>2. (r.writeOffset + Len(w)) % Size \in Cells
  <2>1. r.writeOffset + Len(w) \in Nat
    BY <1>1 DEF Cells
  <2>2. QED
    BY <2>1, ModType
<1>3. ASSUME NEW k \in Cells
      PROVE  (LET i == Distance(r.writeOffset, k)
              IN  IF i < Len(w) THEN w[i + 1] ELSE r.buffer[k]) \in Nat
  <2>1. Distance(r.writeOffset, k) \in Nat
    <3>1. Size + k - r.writeOffset \in Nat
      BY <1>1, StraceAssumption DEF Cells
    <3>2. (Size + k - r.writeOffset) % Size \in Cells
      BY <3>1, ModType
    <3>3. QED
      BY <3>2 DEF Distance, Cells
  <2> DEFINE i == Distance(r.writeOffset, k)
  <2> HIDE DEF i
  <2>2. (IF i < Len(w) THEN w[i + 1] ELSE r.buffer[k]) \in Nat
    <3>1. CASE i < Len(w)
      <4>1. i + 1 \in 1 .. Len(w)
        BY <2>1, <3>1 DEF i
      <4>2. QED
        BY <3>1, <4>1
    <3>2. CASE ~(i < Len(w))
      BY <1>1, <3>2
    <3>3. QED
      BY <3>1, <3>2
  <2>3. QED
    BY <2>2 DEF i
<1> DEFINE written == [k \in Cells |-> LET i == Distance(r.writeOffset, k)
                                       IN  IF i < Len(w) THEN w[i + 1] ELSE r.buffer[k]]
<1>4. written \in [Cells -> Nat]
  BY <1>3
<1> HIDE DEF written
<1>5. (r.isFull \/ r.readOffset = r.writeOffset) \in BOOLEAN
  BY <1>1
<1>6. Put(r, w) = [readOffset |-> r.readOffset, writeOffset |-> (r.writeOffset + Len(w)) % Size,
                   isFull |-> r.isFull \/ r.readOffset = r.writeOffset, buffer |-> written]
  BY DEF Put, written
<1>7. QED
  BY <1>1, <1>2, <1>4, <1>5, <1>6 DEF Rings

LEMMA TracedType ==
  ASSUME Ring \in Rings, NEW num \in Nat, NEW params \in Seq(Nat), NumArgs(num) <= Len(params)
  PROVE  Traced(num, params) \in Rings
BY RecordType, PutType DEF Traced

LEMMA AfterTakeType ==
  ASSUME NEW r \in Rings, NEW count \in Nat
  PROVE  AfterTake(r, Take(r, count)) \in Rings
<1>1. Take(r, count) \in Scanned
  <2>1. PICK t \in [0 .. count -> [Cells -> Scanned]] : Take(r, count) = t[count][r.readOffset]
    BY TakeLoops
  <2>2. count \in 0 .. count /\ r.readOffset \in Cells
    BY DEF Rings
  <2>3. QED
    BY <2>1, <2>2
<1> DEFINE scan == Take(r, count)
<1> HIDE DEF scan
<1>2. scan.offset \in Cells /\ scan.met \in BOOLEAN
  BY <1>1 DEF scan, Scanned
<1>3. AfterTake(r, scan) \in Rings
  BY <1>2 DEF AfterTake, Rings
<1>4. QED
  BY <1>3 DEF scan

\* The parameters of the calls perform_tracing sees.
LEMMA ParamsType ==
  /\ \A num \in Numbers : /\ <<num, ADD_STRACE>> \in Seq(Nat)
                          /\ <<num, REMOVE_STRACE>> \in Seq(Nat)
                          /\ Len(<<num, ADD_STRACE>>) = 2
                          /\ Len(<<num, REMOVE_STRACE>>) = 2
  /\ \A count \in Counts : <<0, 0, count>> \in Seq(Nat) /\ Len(<<0, 0, count>>) = 3
  /\ NumArgs(SYSCALL_STRACE) = 2
  /\ NumArgs(SYSCALL_READ_STRACE) = 3
<1>1. \A num \in Numbers : num \in Nat
  BY StraceAssumption
<1>2. \A count \in Counts : count \in Nat
  BY StraceAssumption
<1>3. NumArgs(SYSCALL_STRACE) = 2 /\ NumArgs(SYSCALL_READ_STRACE) = 3
  BY DEF NumArgs, SYSCALL_STRACE, SYSCALL_READ_STRACE, OneArgument, TwoArguments, ThreeArguments,
         FourArguments
<1>4. QED
  BY <1>1, <1>2, <1>3 DEF ADD_STRACE, REMOVE_STRACE

RingTyped == Ring \in Rings

LEMMA SetRingType ==
  ASSUME NEW r \in Rings, SetRing(r)
  PROVE  Ring' = r
BY DEF SetRing, Ring, Rings

LEMMA RingStep ==
  ASSUME RingTyped, [Next]_vars
  PROVE  RingTyped'
<1>1. ASSUME UNCHANGED ring
      PROVE  RingTyped'
  BY <1>1 DEF ring, RingTyped, Ring
<1>2. ASSUME NEW num \in Numbers, AddStrace(num) \/ RemoveStrace(num)
      PROVE  RingTyped'
  <2>1. /\ Traced(SYSCALL_STRACE, <<num, ADD_STRACE>>) \in Rings
        /\ Traced(SYSCALL_STRACE, <<num, REMOVE_STRACE>>) \in Rings
    <3>1. SYSCALL_STRACE \in Nat
      BY DEF SYSCALL_STRACE
    <3>2. ASSUME NEW params \in Seq(Nat), Len(params) = 2
          PROVE  Traced(SYSCALL_STRACE, params) \in Rings
      <4>1. NumArgs(SYSCALL_STRACE) <= Len(params)
        BY <3>2, ParamsType
      <4>2. QED
        BY <3>1, <4>1, TracedType DEF RingTyped
    <3>3. QED
      BY <3>2, ParamsType
  <2>2. QED
    BY <1>2, <2>1, SetRingType DEF AddStrace, RemoveStrace, RingTyped
<1>3. ASSUME NEW count \in Counts, ReadStrace(count)
      PROVE  RingTyped'
  <2> DEFINE r == Traced(SYSCALL_READ_STRACE, <<0, 0, count>>)
  <2>1. r \in Rings /\ count \in Nat
    <3>1. SYSCALL_READ_STRACE \in Nat /\ count \in Nat
      BY StraceAssumption DEF SYSCALL_READ_STRACE
    <3>2. ASSUME NEW params \in Seq(Nat), Len(params) = 3
          PROVE  Traced(SYSCALL_READ_STRACE, params) \in Rings
      <4>1. NumArgs(SYSCALL_READ_STRACE) <= Len(params)
        BY <3>2, ParamsType
      <4>2. QED
        BY <3>1, <4>1, TracedType DEF RingTyped
    <3>3. QED
      BY <3>1, <3>2, ParamsType
  <2>2. SetRing(AfterTake(r, Take(r, count)))
    BY <1>3 DEF ReadStrace
  <2> HIDE DEF r
  <2>3. QED
    BY <2>1, <2>2, AfterTakeType, SetRingType DEF RingTyped
<1>4. ASSUME NEW c \in Calls, OtherCall(c)
      PROVE  RingTyped'
  <2>1. Traced(c.num, c.params) \in Rings
    BY CallsAssumption, TracedType DEF RingTyped
  <2>2. QED
    BY <1>4, <2>1, SetRingType DEF OtherCall, RingTyped
<1>5. QED
  BY <1>1, <1>2, <1>3, <1>4 DEF Next, StartStrace, EndStrace, vars, ring

LEMMA RingInit == Init => RingTyped
<1>1. 0 \in Cells /\ Garbage \in Nat
  BY StraceAssumption DEF Cells
<1>2. QED
  BY <1>1 DEF Init, RingTyped, Ring, Rings

\* Both offsets stay inside the ring, whatever records perform_tracing leaves in
\* it, whatever it finds there and wherever the loop of read_strace ends: also
\* when records have run over one another.
THEOREM StraceTyped == Spec => []TypeOK
<1>1. Init => ListInv /\ RingTyped
  BY RingInit DEF Init, ListInv
<1>2. ListInv /\ RingTyped /\ [Next]_vars => ListInv' /\ RingTyped'
  BY ListInvStep, RingStep
<1>3. ListInv /\ RingTyped => TypeOK
  BY DEF ListInv, HeadOK, Heads, RingTyped, Ring, Rings, TypeOK
<1>4. QED
  BY <1>1, <1>2, <1>3, PTL DEF Spec

------------------------------------------------------------------------------
(* The log.  As long as the ring is never filled to the last word, what lies  *)
(* between its offsets is the list of the records that were put in and not    *)
(* taken out, each as long as the number in its first word says.              *)

Whole(recs) == \A i \in 1 .. Len(recs) : Len(recs[i]) = 1 + NumArgs(recs[i][1])

\* The offset after so many words.
OffsetAt(r, p) == (r.readOffset + p) % Size

RingHolds(r, recs, cut) ==
  /\ r \in Rings
  /\ Laid(Size, r.buffer, r.readOffset, recs, cut)
  /\ Whole(recs)
  /\ cut[Len(recs)] < Size
  /\ r.writeOffset = OffsetAt(r, cut[Len(recs)])

\* What the layout says of one offset: the scan goes from cut to cut.
LEMMA RecordIsThere ==
  ASSUME NEW r, NEW recs, NEW cut, RingHolds(r, recs, cut), NEW i \in 0 .. Len(recs) - 1
  PROVE  /\ OffsetAt(r, cut[i]) \in Cells \ {r.writeOffset}
         /\ RecordAt(r, OffsetAt(r, cut[i])) = recs[i + 1]
         /\ Behind(r, OffsetAt(r, cut[i])) = OffsetAt(r, cut[i + 1])
<1> DEFINE N == Len(recs)
           w == recs[i + 1]
           at == OffsetAt(r, cut[i])
<1>1. /\ N \in Nat /\ cut \in [0 .. N -> Nat] /\ cut[N] < Size
      /\ r.readOffset \in 0 .. Size - 1 /\ Size \in Nat \ {0}
      /\ Laid(Size, r.buffer, r.readOffset, recs, cut)
  <2>1. cut[N] < Size /\ Laid(Size, r.buffer, r.readOffset, recs, cut) /\ r \in Rings
    BY DEF RingHolds
  <2>2. N \in Nat /\ cut \in [0 .. N -> Nat]
    BY <2>1 DEF Laid
  <2>3. r.readOffset \in 0 .. Size - 1 /\ Size \in Nat \ {0}
    BY <2>1, StraceAssumption DEF Rings, Cells
  <2>4. QED
    BY <2>1, <2>2, <2>3
<1>2. i \in 0 .. N /\ i + 1 \in 1 .. N /\ N \in 0 .. N /\ i < N
  <2> HIDE DEF N
  <2>1. N \in Nat /\ i \in 0 .. N - 1
    BY <1>1 DEF N
  <2>2. QED
    BY <2>1
<1>3. cut[i] \in Nat /\ cut[N] \in Nat /\ cut[i] < cut[N]
  BY <1>1, <1>2, CutsGrow
<1>4. cut[N] <= Size
  BY <1>1, <1>3
<1>5. /\ IsFound(Size, r.buffer, at, w, OffsetAt(r, cut[i + 1]))
      /\ w \in Seq(Nat) /\ Len(w) >= 1
  BY <1>1, <1>4, RecordIsFound DEF OffsetAt
<1>6. at # r.writeOffset
  <2>1. (r.readOffset + cut[i]) % Size # (r.readOffset + cut[N]) % Size
    BY <1>1, <1>3, PlacesDiffer
  <2>2. QED
    BY <2>1 DEF OffsetAt, RingHolds
<1>7. Len(w) = 1 + NumArgs(w[1])
  BY <1>2 DEF RingHolds, Whole
<1> HIDE DEF w, at
<1>8. at \in Cells
  BY <1>5 DEF IsFound, Cells
<1>9. RecordAt(r, at) = w
  <2>1. NumArgs(r.buffer[at]) = NumArgs(w[1])
    BY <1>5 DEF IsFound
  <2>2. RecordAt(r, at) = [j \in 1 .. Len(w) |-> r.buffer[(at + j - 1) % Size]]
    BY <1>7, <2>1 DEF RecordAt
  <2>3. ASSUME NEW j \in 1 .. Len(w)
        PROVE  r.buffer[(at + j - 1) % Size] = w[j]
    <3>1. at + j - 1 = at + (j - 1)
      BY <1>8 DEF Cells
    <3>2. QED
      BY <1>5, <3>1 DEF IsFound
  <2>4. w = [j \in 1 .. Len(w) |-> w[j]]
    BY <1>5
  <2>5. QED
    BY <2>2, <2>3, <2>4
<1>10. Behind(r, at) = OffsetAt(r, cut[i + 1])
  BY <1>5, <1>9 DEF Behind, IsFound
<1>11. QED
  BY <1>6, <1>8, <1>9, <1>10 DEF at, w

\* What the scan gives from record i + 1 on.
Rest(r, recs, cut, i, n) ==
  LET end == IF i + n <= Len(recs) THEN i + n ELSE Len(recs)
  IN  [offset |-> OffsetAt(r, cut[end]), records |-> SubSeq(recs, i + 1, end),
       met |-> i + n > Len(recs)]

LEMMA RecordsReplaced ==
  ASSUME NEW x \in Scanned, NEW records
  PROVE  [x EXCEPT !.records = records] = [offset |-> x.offset, records |-> records, met |-> x.met]
BY DEF Scanned

\* The loop of read_strace takes the oldest records, as many as it is asked for
\* or all there are, and notices when it could have taken more.
LEMMA TakeIsPrefix ==
  ASSUME NEW r, NEW recs, NEW cut, RingHolds(r, recs, cut), NEW count \in Nat
  PROVE  Take(r, count) = Rest(r, recs, cut, 0, count)
<1> DEFINE N == Len(recs)
<1>1. N \in Nat /\ cut \in [0 .. N -> Nat] /\ recs \in Seq(Seq(Nat)) /\ cut[0] = 0 /\ r \in Rings
  BY DEF RingHolds, Laid
<1>2. PICK t \in [0 .. count -> [Cells -> Scanned]] :
        LoopsOver(t, r, count) /\ Take(r, count) = t[count][r.readOffset]
  BY <1>1, TakeLoops
<1> DEFINE Good == {n \in Nat : n <= count =>
                      \A i \in 0 .. N : t[n][OffsetAt(r, cut[i])] = Rest(r, recs, cut, i, n)}
<1> HIDE DEF N
<1>3. \A i \in 0 .. N : OffsetAt(r, cut[i]) \in Cells
  <2>1. ASSUME NEW i \in 0 .. N PROVE r.readOffset + cut[i] \in Nat
    BY <1>1 DEF Rings, Cells
  <2>2. QED
    BY <2>1, ModType DEF OffsetAt
<1>4. 0 \in Good
  <2>1. ASSUME NEW i \in 0 .. N
        PROVE  t[0][OffsetAt(r, cut[i])] = Rest(r, recs, cut, i, 0)
    <3>1. t[0][OffsetAt(r, cut[i])] = [offset |-> OffsetAt(r, cut[i]), records |-> <<>>, met |-> FALSE]
      BY <1>2, <1>3 DEF LoopsOver
    <3>2. SubSeq(recs, i + 1, i) = <<>>
      BY <1>1, SubSeqEmpty
    <3>3. i + 0 <= N /\ i + 0 = i /\ (i + 0 > N) = FALSE
      BY <1>1
    <3>4. QED
      BY <3>1, <3>2, <3>3 DEF Rest, N
  <2>2. QED
    BY <2>1
<1>5. ASSUME NEW n \in Nat, n \in Good
      PROVE  n + 1 \in Good
  <2>1. SUFFICES ASSUME n + 1 <= count, NEW i \in 0 .. N
                 PROVE  t[n + 1][OffsetAt(r, cut[i])] = Rest(r, recs, cut, i, n + 1)
    OBVIOUS
  <2>2. n <= count /\ n + 1 \in 1 .. count /\ (n + 1) - 1 = n
    BY <2>1
  <2>3. CASE i = N
    <3>1. OffsetAt(r, cut[i]) = r.writeOffset
      BY <2>3 DEF RingHolds, N
    <3>2. t[n + 1][OffsetAt(r, cut[i])] = [offset |-> r.writeOffset, records |-> <<>>, met |-> TRUE]
      BY <1>2, <2>2, <3>1 DEF LoopsOver
    <3>3. ~(i + (n + 1) <= N) /\ (i + (n + 1) > N) = TRUE
      BY <1>1, <2>3
    <3>4. SubSeq(recs, i + 1, N) = <<>>
      BY <1>1, <2>3, SubSeqEmpty
    <3>5. QED
      BY <2>3, <3>1, <3>2, <3>3, <3>4 DEF Rest, N
  <2>4. CASE i # N
    <3> DEFINE end == IF i + (n + 1) <= N THEN i + (n + 1) ELSE N
    <3>1. /\ i \in 0 .. N - 1 /\ i + 1 \in 0 .. N /\ i + 1 \in 1 .. N /\ (i + 1) + n = i + (n + 1)
          /\ end \in i + 1 .. N
      BY <1>1, <2>4
    <3>2. /\ OffsetAt(r, cut[i]) \in Cells \ {r.writeOffset}
          /\ RecordAt(r, OffsetAt(r, cut[i])) = recs[i + 1]
          /\ Behind(r, OffsetAt(r, cut[i])) = OffsetAt(r, cut[i + 1])
      BY <3>1, RecordIsThere DEF N
    <3>3. t[n][OffsetAt(r, cut[i + 1])] = Rest(r, recs, cut, i + 1, n)
      BY <1>5, <2>2, <3>1
    <3>4. t[n + 1][OffsetAt(r, cut[i])]
            = [Rest(r, recs, cut, i + 1, n) EXCEPT !.records = <<recs[i + 1]>> \o @]
      <4> DEFINE o == OffsetAt(r, cut[i])
      <4>1. o \in Cells \ {r.writeOffset}
        BY <3>2
      <4>2. t[n + 1][o] = [t[n][Behind(r, o)] EXCEPT !.records = <<RecordAt(r, o)>> \o @]
        <5> HIDE DEF o
        <5>1. \A k \in 1 .. count, x \in Cells \ {r.writeOffset} :
                t[k][x] = [t[k - 1][Behind(r, x)] EXCEPT !.records = <<RecordAt(r, x)>> \o @]
          BY <1>2 DEF LoopsOver
        <5>2. t[n + 1][o] = [t[(n + 1) - 1][Behind(r, o)] EXCEPT !.records = <<RecordAt(r, o)>> \o @]
          BY <2>2, <4>1, <5>1, Zenon
        <5>3. QED
          BY <2>2, <5>2, Zenon
      <4>3. QED
        BY <3>2, <3>3, <4>2
    <3>5. Rest(r, recs, cut, i + 1, n)
            = [offset |-> OffsetAt(r, cut[end]), records |-> SubSeq(recs, (i + 1) + 1, end),
               met |-> i + (n + 1) > N]
      BY <3>1 DEF Rest, N
    <3>6. SubSeq(recs, i + 1, end) = <<recs[i + 1]>> \o SubSeq(recs, (i + 1) + 1, end)
      <4> HIDE DEF end
      <4>1. QED
        BY <1>1, <3>1, SubSeqRecursiveFirst DEF N
    <3>7. Rest(r, recs, cut, i, n + 1)
            = [offset |-> OffsetAt(r, cut[end]), records |-> SubSeq(recs, i + 1, end),
               met |-> i + (n + 1) > N]
      BY DEF Rest, N
    <3> HIDE DEF end
    <3>8. [Rest(r, recs, cut, i + 1, n) EXCEPT !.records = <<recs[i + 1]>> \o @]
            = [offset |-> OffsetAt(r, cut[end]),
               records |-> <<recs[i + 1]>> \o SubSeq(recs, (i + 1) + 1, end),
               met |-> i + (n + 1) > N]
      <4> DEFINE a == OffsetAt(r, cut[end])
                 b == SubSeq(recs, (i + 1) + 1, end)
                 c == i + (n + 1) > N
                 d == <<recs[i + 1]>>
      <4>1. Rest(r, recs, cut, i + 1, n) = [offset |-> a, records |-> b, met |-> c]
        BY <3>5
      <4> HIDE DEF a, b, c, d
      <4>2. PICK x \in Scanned : x = Rest(r, recs, cut, i + 1, n)
        <5>1. t[n] \in [Cells -> Scanned] /\ OffsetAt(r, cut[i + 1]) \in Cells
          BY <1>2, <1>3, <2>2, <3>1
        <5>2. Rest(r, recs, cut, i + 1, n) \in Scanned
          BY <3>3, <5>1
        <5>3. QED
          BY <5>2
      <4>3. [x EXCEPT !.records = d \o @]
              = [offset |-> x.offset, records |-> d \o x.records, met |-> x.met]
        BY <4>2, RecordsReplaced
      <4>4. x.offset = a /\ x.records = b /\ x.met = c
        BY <4>1, <4>2
      <4>5. [Rest(r, recs, cut, i + 1, n) EXCEPT !.records = d \o @]
              = [offset |-> a, records |-> d \o b, met |-> c]
        BY <4>2, <4>3, <4>4, Zenon
      <4>6. QED
        BY <4>5 DEF a, b, c, d
    <3>9. QED
      BY <3>4, <3>6, <3>7, <3>8, Zenon
  <2>5. QED
    BY <2>3, <2>4
<1>6. Nat \subseteq Good
  <2> HIDE DEF Good
  <2>1. QED
    BY <1>4, <1>5, Induction
<1>7. t[count][OffsetAt(r, cut[0])] = Rest(r, recs, cut, 0, count)
  <2>1. 0 \in 0 .. N /\ count \in Good
    BY <1>1, <1>6
  <2>2. QED
    BY <2>1
<1>8. OffsetAt(r, cut[0]) = r.readOffset
  <2>1. r.readOffset \in 0 .. Size - 1 /\ Size \in Nat \ {0}
    BY <1>1, StraceAssumption DEF Rings, Cells
  <2>2. r.readOffset + 0 = r.readOffset /\ r.readOffset % Size = r.readOffset
    BY <2>1
  <2>3. QED
    BY <1>1, <2>2 DEF OffsetAt
<1>9. QED
  BY <1>2, <1>7, <1>8

\* What is in the ring is what read_strace would find if it asked for all.
LEMMA LogIsHeld ==
  ASSUME NEW r, NEW recs, NEW cut, RingHolds(r, recs, cut)
  PROVE  Take(r, Size).records = recs
<1> DEFINE N == Len(recs)
<1>1. /\ N \in Nat /\ cut \in [0 .. N -> Nat] /\ cut[N] < Size /\ recs \in Seq(Seq(Nat))
      /\ Laid(Size, r.buffer, r.readOffset, recs, cut)
      /\ Size \in Nat \ {0}
  BY StraceAssumption DEF RingHolds, Laid
<1>2. N <= cut[N]
  BY <1>1, CutsGrow
<1>3. cut[N] \in Nat
  <2>1. N \in 0 .. N
    BY <1>1
  <2>2. QED
    BY <1>1, <2>1
<1>4. N < Size
  BY <1>1, <1>2, <1>3
<1>5. Take(r, Size) = Rest(r, recs, cut, 0, Size)
  BY <1>1, TakeIsPrefix
<1>6. (IF 0 + Size <= N THEN 0 + Size ELSE N) = N
  BY <1>1, <1>4
<1>7. Rest(r, recs, cut, 0, Size).records = SubSeq(recs, 1, N)
  BY <1>6 DEF Rest
<1>8. SubSeq(recs, 1, N) = recs
  BY <1>1
<1>9. QED
  BY <1>5, <1>7, <1>8

\* The words between the offsets are those of the records.
LEMMA WordsAreHeld ==
  ASSUME NEW r, NEW recs, NEW cut, RingHolds(r, recs, cut)
  PROVE  /\ Distance(r.readOffset, r.writeOffset) = cut[Len(recs)]
         /\ cut[Len(recs)] \in Nat
<1> DEFINE u == cut[Len(recs)]
           from == r.readOffset
<1>1. /\ from \in 0 .. Size - 1 /\ Size \in Nat \ {0}
      /\ u \in Nat /\ u < Size
      /\ r.writeOffset = (from + u) % Size
  <2>1. /\ Len(recs) \in Nat /\ cut \in [0 .. Len(recs) -> Nat] /\ u < Size
        /\ r.writeOffset = (from + u) % Size /\ from \in 0 .. Size - 1 /\ Size \in Nat \ {0}
    BY StraceAssumption DEF RingHolds, Laid, Rings, Cells, OffsetAt
  <2>2. Len(recs) \in 0 .. Len(recs)
    BY <2>1
  <2>3. QED
    BY <2>1, <2>2
<1> HIDE DEF u, from
<1>2. u \in 0 .. Size - 1 /\ 0 \in 0 .. Size
  BY <1>1
<1>3. (Size + ((from + u) % Size) - ((from + 0) % Size)) % Size = Around(Size + u - 0, Size)
  BY <1>1, <1>2, WayBack
<1>4. (from + 0) % Size = from
  BY <1>1
<1>5. Around(Size + u - 0, Size) = u
  BY <1>1 DEF Around
<1>6. Distance(from, r.writeOffset) = u
  BY <1>1, <1>3, <1>4, <1>5 DEF Distance
<1>7. QED
  BY <1>1, <1>6 DEF from, u

\* A record that has room is one more record behind the others.
LEMMA PutHolds ==
  ASSUME NEW r, NEW recs, NEW cut, RingHolds(r, recs, cut),
         NEW w \in Seq(Nat), Len(w) = 1 + NumArgs(w[1]), cut[Len(recs)] + Len(w) < Size
  PROVE  RingHolds(Put(r, w), Append(recs, w), CutBehind(cut, Len(recs), Len(w)))
<1> DEFINE N == Len(recs)
           new == Put(r, w)
           all == Append(recs, w)
           cuts == CutBehind(cut, N, Len(w))
<1>1. /\ r \in Rings /\ r.readOffset \in 0 .. Size - 1 /\ Size \in Nat \ {0}
      /\ Laid(Size, r.buffer, r.readOffset, recs, cut)
      /\ r.writeOffset = (r.readOffset + cut[N]) % Size
  BY StraceAssumption DEF RingHolds, Rings, Cells, OffsetAt
<1>2. N \in Nat /\ recs \in Seq(Seq(Nat)) /\ Len(w) \in Nat /\ cut[N] \in Nat
  BY WordsAreHeld DEF RingHolds, Laid
<1>3. Len(w) >= 1 /\ cut[N] + Len(w) <= Size
  <2>1. NumArgs(w[1]) \in 0 .. 4
    BY NumArgsType
  <2>2. QED
    BY <1>1, <1>2, <2>1
<1>4. new \in Rings
  BY <1>1, PutType
<1>5. /\ new.readOffset = r.readOffset
      /\ new.writeOffset = (r.writeOffset + Len(w)) % Size
      /\ IsWritten(Size, new.buffer, r.buffer, (r.readOffset + cut[N]) % Size, w)
  BY <1>1 DEF Put, IsWritten, Cells, Distance
<1>6. Laid(Size, new.buffer, r.readOffset, all, cuts)
  BY <1>1, <1>3, <1>5, LaidBehind
<1>7. Len(all) = N + 1 /\ all[N + 1] = w /\ \A i \in 1 .. N : all[i] = recs[i]
  BY <1>2, AppendProperties
<1>8. cuts[N + 1] = cut[N] + Len(w)
  <2>1. N + 1 \in 0 .. N + 1
    BY <1>2
  <2>2. QED
    BY <2>1 DEF CutBehind
<1> HIDE DEF new, all, cuts
<1>9. Whole(all)
  <2>1. ASSUME NEW i \in 1 .. N + 1
        PROVE  Len(all[i]) = 1 + NumArgs(all[i][1])
    <3>1. CASE i = N + 1
      BY <1>7, <3>1
    <3>2. CASE i # N + 1
      <4>1. i \in 1 .. N
        BY <1>2, <3>2
      <4>2. QED
        BY <1>7, <4>1 DEF RingHolds, Whole, N
    <3>3. QED
      BY <3>1, <3>2
  <2>2. QED
    BY <1>7, <2>1 DEF Whole
<1>10. new.writeOffset = OffsetAt(new, cuts[N + 1])
  <2> DEFINE u == cut[N]
             k == Len(w)
             from == r.readOffset
  <2>1. u \in Nat /\ k \in Nat /\ u + k <= Size /\ from \in 0 .. Size - 1
    BY <1>1, <1>2, <1>3
  <2> HIDE DEF u, k, from
  <2>2. (((from + u) % Size) + k) % Size = (from + (u + k)) % Size
    BY <1>1, <2>1, AroundTwice
  <2>3. QED
    BY <1>1, <1>5, <1>8, <2>2 DEF u, k, from, OffsetAt
<1>11. cuts[N + 1] < Size
  BY <1>8 DEF N
<1>12. RingHolds(new, all, cuts)
  BY <1>4, <1>5, <1>6, <1>7, <1>9, <1>10, <1>11 DEF RingHolds
<1>13. QED
  BY <1>12 DEF new, all, cuts, N

\* What read_strace takes is the oldest records, and the others stay.
LEMMA TakeHolds ==
  ASSUME NEW r, NEW recs, NEW cut, RingHolds(r, recs, cut), NEW count \in Nat, NEW n,
         n = IF count <= Len(recs) THEN count ELSE Len(recs)
  PROVE  /\ Take(r, count).records = SubSeq(recs, 1, n)
         /\ RingHolds(AfterTake(r, Take(r, count)), SubSeq(recs, n + 1, Len(recs)),
                      CutOff(cut, Len(recs), n))
<1> DEFINE N == Len(recs)
           scan == Take(r, count)
           new == AfterTake(r, scan)
           rest == SubSeq(recs, n + 1, N)
           cuts == CutOff(cut, N, n)
<1>1. /\ r \in Rings /\ r.readOffset \in 0 .. Size - 1 /\ Size \in Nat \ {0}
      /\ Laid(Size, r.buffer, r.readOffset, recs, cut)
      /\ r.writeOffset = (r.readOffset + cut[N]) % Size
      /\ cut[N] < Size
  BY StraceAssumption DEF RingHolds, Rings, Cells, OffsetAt
<1>2. N \in Nat /\ recs \in Seq(Seq(Nat)) /\ cut \in [0 .. N -> Nat] /\ cut[N] \in Nat
  <2>1. cut[N] \in Nat
    BY WordsAreHeld
  <2>2. recs \in Seq(Seq(Nat)) /\ cut \in [0 .. N -> Nat]
    BY DEF RingHolds, Laid
  <2>3. QED
    BY <2>1, <2>2
<1>3. n \in 0 .. N /\ cut[N] <= Size
  BY <1>1, <1>2
<1>4. scan = [offset |-> OffsetAt(r, cut[n]), records |-> SubSeq(recs, 1, n), met |-> 0 + count > N]
  <2>1. (IF 0 + count <= N THEN 0 + count ELSE N) = n /\ 0 + 1 = 1
    BY <1>2
  <2>2. scan = Rest(r, recs, cut, 0, count)
    BY TakeIsPrefix
  <2>3. QED
    BY <2>1, <2>2 DEF Rest
<1>5. scan.offset = OffsetAt(r, cut[n]) /\ scan.records = SubSeq(recs, 1, n)
  BY <1>4
<1>6. new \in Rings
  BY <1>1, AfterTakeType
<1>7. /\ new.readOffset = (r.readOffset + cut[n]) % Size
      /\ new.writeOffset = r.writeOffset /\ new.buffer = r.buffer
  <2> HIDE DEF scan
  <2>1. QED
    BY <1>1, <1>5 DEF AfterTake, Rings, OffsetAt
<1>8. /\ Laid(Size, r.buffer, (r.readOffset + cut[n]) % Size, rest, cuts)
      /\ cuts[N - n] = cut[N] - cut[n]
  BY <1>1, <1>3, LaidOff
<1>9. Len(rest) = N - n /\ \A i \in 1 .. N - n : rest[i] = recs[n + i]
  BY <1>2, <1>3, RestOfList
<1>10. cut[n] \in Nat /\ cut[n] <= cut[N]
  <2>1. \A i, j \in 0 .. N : i < j => cut[i] < cut[j]
    BY <1>1, CutsGrow
  <2>2. n = N \/ n < N
    BY <1>2, <1>3
  <2>3. N \in 0 .. N
    BY <1>2
  <2>4. CASE n = N
    BY <1>2, <2>4
  <2>5. CASE n < N
    <3>1. cut[n] < cut[N]
      BY <1>3, <2>1, <2>3, <2>5
    <3>2. cut[n] \in Nat
      BY <1>2, <1>3
    <3>3. QED
      BY <1>2, <3>1, <3>2
  <2>6. QED
    BY <2>2, <2>4, <2>5
<1> HIDE DEF new, rest, cuts, scan
<1>11. Whole(rest)
  <2>1. \A i \in 1 .. N - n : n + i \in 1 .. N
    BY <1>2, <1>3
  <2>2. QED
    BY <1>9, <2>1 DEF RingHolds, Whole
<1>12. cuts[Len(rest)] = cut[N] - cut[n]
  BY <1>8, <1>9
<1> DEFINE u == cut[N]
           p == cut[n]
           from == r.readOffset
<1>13. /\ u \in Nat /\ p \in Nat /\ p <= u /\ u < Size /\ from \in 0 .. Size - 1
       /\ cuts[Len(rest)] = u - p
       /\ new.readOffset = (from + p) % Size
       /\ new.writeOffset = (from + u) % Size
  BY <1>1, <1>2, <1>7, <1>10, <1>12
<1> HIDE DEF u, p, from
<1>14. u - p \in Nat /\ p + (u - p) = u /\ u - p < Size
  BY <1>1, <1>13
<1>15. (((from + p) % Size) + (u - p)) % Size = (from + u) % Size
  <2>1. p + (u - p) <= Size
    BY <1>1, <1>13, <1>14
  <2>2. (((from + p) % Size) + (u - p)) % Size = (from + (p + (u - p))) % Size
    BY <1>1, <1>13, <1>14, <2>1, AroundTwice
  <2>3. QED
    BY <1>14, <2>2
<1>16. new.writeOffset = OffsetAt(new, cuts[Len(rest)]) /\ cuts[Len(rest)] < Size
  BY <1>13, <1>14, <1>15 DEF OffsetAt
<1>17. RingHolds(new, rest, cuts)
  BY <1>6, <1>7, <1>8, <1>11, <1>16 DEF RingHolds
<1>18. QED
  BY <1>5, <1>17 DEF new, rest, cuts, scan, N

------------------------------------------------------------------------------
(* What the list selects *)

LEMMA ListIsCounted ==
  ASSUME NEW s \in Seq(Numbers), IsInjective(s)
  PROVE  Cardinality(Range(s)) = Len(s)
<1> DEFINE S == 1 .. Len(s)
           T == Range(s)
<1>1. Len(s) \in Nat /\ DOMAIN s = S /\ s \in [S -> T]
  BY DEF Range
<1>2. s \in Bijection(S, T)
  BY <1>1 DEF Bijection, Injection, Surjection, Range
<1> HIDE DEF T
<1>3. ExistsBijection(1 .. Len(s), T)
  BY <1>2 DEF ExistsBijection
<1>4. QED
  BY <1>1, <1>3, FS_CountingElements DEF T

LEMMA RangeOfAppend ==
  ASSUME NEW s \in Seq(Numbers), NEW e \in Numbers
  PROVE  Range(Append(s, e)) = Range(s) \cup {e}
<1>1. PICK t : t = Append(s, e)
  OBVIOUS
<1>2. /\ Len(s) \in Nat
      /\ DOMAIN s = 1 .. Len(s)
      /\ DOMAIN t = 1 .. Len(s) + 1
      /\ \A i \in 1 .. Len(s) : t[i] = s[i]
      /\ t[Len(s) + 1] = e
  BY <1>1, AppendProperties
<1>3. \A x : x \in Range(t) <=> x \in Range(s) \/ x = e
  <2>1. \A i : i \in 1 .. Len(s) + 1 <=> i \in 1 .. Len(s) \/ i = Len(s) + 1
    BY <1>2
  <2>2. QED
    BY <1>2, <2>1 DEF Range
<1>4. Range(t) = Range(s) \cup {e}
  BY <1>3
<1>5. QED
  BY <1>1, <1>4

LEMMA RangeOfRest ==
  ASSUME NEW s \in Seq(Numbers), NEW e, IsInjective(s), e \in Range(s)
  PROVE  Range(RemoveFirst(s, e)) = Range(s) \ {e}
<1>0. Len(s) \in Nat /\ DOMAIN s = 1 .. Len(s)
  OBVIOUS
<1>1. PICK k \in 1 .. Len(s) : RemoveFirst(s, e) = RemoveAt(s, k) /\ s[k] = e
  BY RemoveFirstIsRemoveAt
<1>2. PICK rest : rest = RemoveAt(s, k)
  OBVIOUS
<1>3. /\ rest \in Seq(Numbers) /\ Len(rest) = Len(s) - 1
      /\ \A i \in 1 .. Len(s) - 1 : rest[i] = IF i < k THEN s[i] ELSE s[i + 1]
  BY <1>2, RemoveAtElements
<1>4. DOMAIN rest = 1 .. Len(s) - 1
  BY <1>0, <1>3
<1>5. ASSUME NEW x \in Range(rest)
      PROVE  x \in Range(s) /\ x # e
  <2>1. PICK i \in 1 .. Len(s) - 1 : x = rest[i]
    BY <1>4 DEF Range
  <2>2. PICK j \in 1 .. Len(s) : x = s[j] /\ j # k
    <3>1. CASE i < k
      BY <1>0, <1>3, <2>1, <3>1
    <3>2. CASE ~(i < k)
      BY <1>0, <1>3, <2>1, <3>2
    <3>3. QED
      BY <3>1, <3>2
  <2>3. s[j] # s[k]
    BY <1>0, <2>2 DEF IsInjective
  <2>4. QED
    BY <1>0, <1>1, <2>2, <2>3 DEF Range
<1>6. ASSUME NEW x \in Range(s), x # e
      PROVE  x \in Range(rest)
  <2>1. PICK j \in 1 .. Len(s) : x = s[j]
    BY <1>0 DEF Range
  <2>2. j # k
    BY <1>1, <1>6, <2>1
  <2>3. \E i \in 1 .. Len(s) - 1 : rest[i] = s[j]
    <3>1. CASE j < k
      <4>1. j \in 1 .. Len(s) - 1
        BY <1>0, <3>1
      <4>2. QED
        BY <1>3, <3>1, <4>1
    <3>2. CASE ~(j < k)
      <4>1. j - 1 \in 1 .. Len(s) - 1 /\ ~(j - 1 < k) /\ (j - 1) + 1 = j
        BY <1>0, <2>2, <3>2
      <4>2. QED
        BY <1>3, <4>1
    <3>3. QED
      BY <3>1, <3>2
  <2>4. QED
    BY <1>4, <2>1, <2>3 DEF Range
<1>7. Range(rest) = Range(s) \ {e}
  BY <1>5, <1>6
<1>8. QED
  BY <1>1, <1>2, <1>7

------------------------------------------------------------------------------
(* The refinement *)

RingIs(r, recs) == \E cut : RingHolds(r, recs, cut)

LogInv == RingIs(Ring, Log)

LEMMA LogIs ==
  ASSUME NEW recs, NEW r, RingIs(r, recs), Ring' = r
  PROVE  Log' = recs /\ LogInv'
<1>1. Take(r, Size).records = recs
  BY LogIsHeld DEF RingIs
<1>2. Log' = recs
  BY <1>1 DEF Log
<1>3. QED
  BY <1>2 DEF LogInv

\* The log with the record of one more call, if it is a traced one.
Logs(c) == IF IsTraced(c.num) THEN Append(Log, RecordOf(c)) ELSE Log

LEMMA TracedIs ==
  ASSUME LogInv, Held < Size, NEW num \in Nat, NEW params \in Seq(Nat),
         NumArgs(num) <= Len(params), WithinBound(num),
         NEW c, c.num = num, c.params = params
  PROVE  RingIs(Traced(num, params), Logs(c))
<1>1. PICK cut : RingHolds(Ring, Log, cut)
  BY DEF LogInv, RingIs
<1>2. CASE ~IsTraced(num)
  BY <1>1, <1>2 DEF Traced, Logs, RingIs
<1>3. CASE IsTraced(num)
  <2> DEFINE w == RecordOf([num |-> num, params |-> params])
  <2>1. w \in Seq(Nat) /\ Len(w) = 1 + NumArgs(num) /\ w[1] = num
    BY RecordType
  <2>2. w = RecordOf(c)
    BY DEF RecordOf
  <2>3. Traced(num, params) = Put(Ring, w)
    BY <1>3 DEF Traced
  <2>4. Logs(c) = Append(Log, w)
    BY <1>3, <2>2 DEF Logs
  <2> HIDE DEF w
  <2>5. cut[Len(Log)] + Len(w) < Size
    <3>1. Ring.readOffset = readOffset /\ Ring.writeOffset = writeOffset
      BY DEF Ring
    <3>2. Distance(readOffset, writeOffset) = cut[Len(Log)] /\ cut[Len(Log)] \in Nat
      BY <1>1, <3>1, WordsAreHeld
    <3>3. Distance(readOffset, writeOffset) + (1 + NumArgs(num)) <= Held
      BY <1>3 DEF WithinBound
    <3>4. NumArgs(num) \in 0 .. 4 /\ Size \in Nat /\ Held \in Nat
      BY NumArgsType, StraceAssumption
    <3> DEFINE u == cut[Len(Log)]
               n == NumArgs(num)
    <3>5. u \in Nat /\ n \in Nat /\ u + (1 + n) <= Held /\ Len(w) = 1 + n
      BY <2>1, <3>2, <3>3, <3>4
    <3> HIDE DEF u, n
    <3>6. u + Len(w) < Size
      BY <3>4, <3>5
    <3>7. QED
      BY <3>6 DEF u
  <2>6. Len(w) = 1 + NumArgs(w[1])
    BY <2>1
  <2>7. RingHolds(Put(Ring, w), Append(Log, w), CutBehind(cut, Len(Log), Len(w)))
    BY <1>1, <2>1, <2>5, <2>6, PutHolds
  <2>8. QED
    BY <2>3, <2>4, <2>7 DEF RingIs
<1>4. QED
  BY <1>2, <1>3

LEMMA LoggedIs ==
  ASSUME ListInv, NEW c
  PROVE  Promise!Logged(c) = Logs(c)
<1>1. Promise!IsLogged(c) <=> IsTraced(c.num)
  BY DEF Promise!IsLogged, IsTraced, IsOn, ListInv, HeadOK, Heads, FULL_TRACING, FILTERED_TRACING
<1>2. QED
  BY <1>1 DEF Promise!Logged, Logs

Tracing == IF ~IsOn THEN "off"
           ELSE IF head.tracing_mode = FULL_TRACING THEN "all" ELSE "selected"

Selected == IF head = NoHead THEN {} ELSE Range(head.list)

\* What a call does to the log, when perform_tracing sees it and it reads nothing.
LEMMA CallIsKept ==
  ASSUME ListInv, LogInv, Held < Size, NEW num \in Nat, NEW params \in Seq(Nat),
         NumArgs(num) <= Len(params), WithinBound(num), SetRing(Traced(num, params)),
         NEW c, c.num = num, c.params = params, call' = c
  PROVE  LogInv' /\ Promise!Keep(c)
<1>1. RingIs(Traced(num, params), Logs(c))
  BY TracedIs
<1>2. Ring' = Traced(num, params)
  <2>1. Traced(num, params) \in Rings
    BY <1>1 DEF RingIs, RingHolds
  <2>2. QED
    BY <2>1, SetRingType
<1>3. Log' = Logs(c) /\ LogInv'
  BY <1>1, <1>2, LogIs
<1>4. QED
  BY <1>3, LoggedIs DEF Promise!Keep

\* A head is not the NULL pointer.
LEMMA HeadIsThere ==
  ASSUME NEW h \in Heads
  PROVE  h # NoHead
<1>1. /\ h.list \in Seq(Nat) /\ h.count \in Nat /\ h.is_traced \in BOOLEAN /\ h.tracing_mode \in Nat
      /\ h = [count |-> h.count, is_traced |-> h.is_traced, tracing_mode |-> h.tracing_mode,
               list |-> h.list]
  <2>1. Numbers \subseteq Nat
    BY StraceAssumption
  <2>2. h.list \in Seq(Numbers)
    BY DEF Heads
  <2>3. h.list \in Seq(Nat)
    BY <2>1, <2>2, SeqMonotonic
  <2>4. QED
    BY <2>3 DEF Heads, FULL_TRACING, FILTERED_TRACING
<1>2. h \in [count : Nat, is_traced : BOOLEAN, tracing_mode : Nat, list : Seq(Nat)]
  BY <1>1
<1>3. QED
  BY <1>2, StraceAssumption

LEMMA StraceIsKept ==
  ASSUME ListInv, LogInv, Held < Size, NEW num \in Numbers, WithinBound(SYSCALL_STRACE),
         NEW op \in {ADD_STRACE, REMOVE_STRACE}, SetRing(Traced(SYSCALL_STRACE, <<num, op>>)),
         NEW c, c.num = SYSCALL_STRACE, c.params = <<num, op>>, call' = c
  PROVE  LogInv' /\ Promise!Keep(c)
<1>1. PICK params : params = <<num, op>>
  OBVIOUS
<1>2. params \in Seq(Nat) /\ NumArgs(SYSCALL_STRACE) <= Len(params)
  BY <1>1, ParamsType
<1>3. SYSCALL_STRACE \in Nat
  BY DEF SYSCALL_STRACE
<1>4. SetRing(Traced(SYSCALL_STRACE, params)) /\ c.params = params
  BY <1>1
<1>5. QED
  BY <1>2, <1>3, <1>4, CallIsKept

LEMMA RingUnchanged ==
  ASSUME LogInv, UNCHANGED ring
  PROVE  LogInv' /\ Log' = Log
<1>1. Ring' = Ring
  BY DEF ring, Ring
<1>2. QED
  BY <1>1 DEF LogInv, Log

LEMMA StartIsKept ==
  ASSUME ListInv, LogInv, NEW mode \in {FULL_TRACING, FILTERED_TRACING, 2}, StartStrace(mode)
  PROVE  LogInv' /\ Promise!Start
<1>1. LogInv' /\ Log' = Log
  BY RingUnchanged DEF StartStrace
<1>2. call'.op = "start" /\ call'.ret = IF mode \in {FULL_TRACING, FILTERED_TRACING} THEN 0 ELSE -1
  BY DEF StartStrace, Called, EINVAL
<1>3. Selected' = Selected
  <2>1. CASE head' = head
    BY <2>1 DEF Selected
  <2>2. CASE head = NoHead /\ head' = NewHead(TRUE, mode)
    <3>1. head'.list = << >>
      BY <2>2 DEF NewHead
    <3>2. Range(<< >>) = {}
      BY DEF Range
    <3>3. QED
      BY <2>2, <3>1, <3>2 DEF Selected
  <2>3. CASE /\ head # NoHead /\ mode \in {FULL_TRACING, FILTERED_TRACING}
             /\ head' = [head EXCEPT !.is_traced = TRUE, !.tracing_mode = mode]
    <3>1. head \in Heads
      BY <2>3 DEF ListInv, HeadOK
    <3>2. head'.list = head.list /\ head' \in Heads
      BY <2>3, <3>1 DEF Heads
    <3>3. head' # NoHead
      BY <3>2, HeadIsThere
    <3>4. QED
      BY <2>3, <3>2, <3>3 DEF Selected
  <2>4. QED
    BY <2>1, <2>2, <2>3 DEF StartStrace
<1>4. CASE mode \in {FULL_TRACING, FILTERED_TRACING}
  <2>1. head' # NoHead => head'.is_traced
    <3>1. CASE head = NoHead
      BY <1>4, <3>1 DEF StartStrace, NewHead
    <3>2. CASE head # NoHead
      BY <1>4, <3>2 DEF StartStrace, ListInv, HeadOK, Heads
    <3>3. QED
      BY <3>1, <3>2
  <2>2. Tracing' \in {"all", "selected"} \/ head' = NoHead
    BY <2>1 DEF Tracing, IsOn
  <2>3. head' # NoHead
    <3>1. CASE head = NoHead
      <4>1. head' = NewHead(TRUE, mode) /\ NewHead(TRUE, mode) \in Heads
        BY <1>4, <3>1, NewHeadOK DEF StartStrace, HeadOK
      <4>2. QED
        BY <4>1, HeadIsThere
    <3>2. CASE head # NoHead
      <4>1. head' \in Heads
        BY <1>4, <3>2 DEF StartStrace, ListInv, HeadOK, Heads
      <4>2. QED
        BY <4>1, HeadIsThere
    <3>3. QED
      BY <3>1, <3>2
  <2>4. QED
    BY <1>1, <1>2, <1>3, <1>4, <2>2, <2>3 DEF Promise!Start, Promise!Done, Tracing, Selected
<1>5. CASE mode \notin {FULL_TRACING, FILTERED_TRACING}
  <2>1. Tracing' = Tracing
    BY <1>5 DEF StartStrace, Tracing, IsOn
  <2>2. QED
    BY <1>1, <1>2, <1>3, <1>5, <2>1 DEF Promise!Start, Promise!Fail, Tracing, Selected
<1>6. QED
  BY <1>4, <1>5

LEMMA EndIsKept ==
  ASSUME ListInv, LogInv, EndStrace
  PROVE  LogInv' /\ Promise!End
<1>1. LogInv' /\ Log' = Log
  BY RingUnchanged DEF EndStrace
<1>2. call'.op = "end" /\ call'.ret = 0
  BY DEF EndStrace, Called
<1>3. Tracing' = "off" /\ Selected' = {}
  BY DEF EndStrace, Tracing, Selected, IsOn
<1>4. QED
  BY <1>1, <1>2, <1>3 DEF Promise!End, Promise!Done, Tracing, Selected

LEMMA SelectIsKept ==
  ASSUME ListInv, LogInv, Held < Size, NEW num \in Numbers, WithinBound(SYSCALL_STRACE),
         AddStrace(num)
  PROVE  LogInv' /\ Promise!Select(call')
<1> DEFINE old == IF head = NoHead THEN NewHead(FALSE, FULL_TRACING) ELSE head
           new == Add(old, num)
<1>1. PICK c : c = call'
  OBVIOUS
<1>2. /\ c.op = "add" /\ c.num = SYSCALL_STRACE /\ c.params = <<num, ADD_STRACE>> /\ c.num1 = num
      /\ c.ret = IF new = old THEN EINVAL ELSE 0
  BY <1>1 DEF AddStrace, Called
<1>3. LogInv' /\ Promise!Keep(c)
  BY <1>1, <1>2, StraceIsKept DEF AddStrace
<1>4. HeadOK(old) /\ HeadOK(new) /\ head' = new
  BY NewHeadOK, AddOK DEF ListInv, AddStrace
<1>5. /\ old # NoHead /\ new # NoHead
      /\ old.list \in Seq(Numbers) /\ old.count \in Nat /\ old.count = Len(old.list)
      /\ IsInjective(old.list) /\ StraceMax \in Nat \ {0}
  BY <1>4, HeadIsThere, StraceAssumption DEF HeadOK, Heads
<1>6. Selected = Range(old.list)
  <2>1. CASE head = NoHead
    <3>1. old.list = << >> /\ Range(<< >>) = {}
      BY <2>1 DEF NewHead, Range
    <3>2. QED
      BY <2>1, <3>1 DEF Selected
  <2>2. CASE head # NoHead
    BY <2>2 DEF Selected
  <2>3. QED
    BY <2>1, <2>2
<1>7. Selected' = Range(new.list)
  BY <1>4, <1>5 DEF Selected
<1>8. Cardinality(Selected) = old.count
  BY <1>5, <1>6, ListIsCounted
<1> DEFINE refused == num \in Selected \/ Cardinality(Selected) = StraceMax
<1>9. refused <=> old.list # << >> /\ (old.count = StraceMax \/ num \in Range(old.list))
  <2>1. old.list = << >> => old.count = 0 /\ Range(old.list) = {}
    <3>1. Len(<< >>) = 0 /\ Range(<< >>) = {}
      BY DEF Range
    <3> HIDE DEF old
    <3>2. QED
      BY <1>5, <3>1
  <2>2. QED
    BY <1>5, <1>6, <1>8, <2>1
<1>10. /\ c.ret = IF refused THEN -1 ELSE 0
       /\ Selected' = IF refused THEN Selected ELSE Selected \cup {num}
  <2>1. CASE refused
    <3>1. new = old
      BY <1>9, <2>1 DEF Add
    <3>2. c.ret = -1 /\ Selected' = Selected
      BY <1>2, <1>6, <1>7, <3>1 DEF EINVAL
    <3>3. QED
      BY <2>1, <3>2
  <2>2. CASE ~refused
    <3>1. new = [old EXCEPT !.list = Append(@, num), !.count = @ + 1]
      BY <1>9, <2>2 DEF Add
    <3>2. new.list = Append(old.list, num) /\ new.count = old.count + 1
      <4> HIDE DEF old, new
      <4>1. QED
        BY <1>4, <3>1 DEF HeadOK, Heads
    <3>3. new # old
      <4> HIDE DEF old, new
      <4>1. new.count # old.count
        BY <1>5, <3>2
      <4>2. QED
        BY <4>1
    <3>4. Selected' = Selected \cup {num}
      BY <1>5, <1>6, <1>7, <3>2, RangeOfAppend
    <3>5. QED
      BY <1>2, <2>2, <3>3, <3>4
  <2>3. QED
    BY <2>1, <2>2
<1>11. Tracing' = Tracing
  <2>1. new.is_traced = old.is_traced /\ new.tracing_mode = old.tracing_mode
    <3> HIDE DEF old
    <3>1. QED
      BY <1>4 DEF Add, HeadOK, Heads
  <2>2. CASE head = NoHead
    BY <1>4, <1>5, <2>1, <2>2 DEF Tracing, IsOn, NewHead
  <2>3. CASE head # NoHead
    BY <1>4, <1>5, <2>1, <2>3 DEF Tracing, IsOn
  <2>4. QED
    BY <2>2, <2>3
<1>12. Promise!Select(c)
  <2> HIDE DEF old, new
  <2>1. c.num1 = num /\ c.op = "add"
    BY <1>2
  <2>2. c.ret = IF c.num1 \in Selected \/ Cardinality(Selected) = StraceMax
                THEN Promise!Fail ELSE Promise!Done
    BY <1>10, <2>1 DEF Promise!Fail, Promise!Done
  <2>3. Selected' = IF c.num1 \in Selected \/ Cardinality(Selected) = StraceMax
                    THEN Selected ELSE Selected \cup {c.num1}
    BY <1>10, <2>1
  <2>4. Promise!Cardinality(Selected) = Cardinality(Selected)
    BY Zenon DEF Promise!Cardinality, Cardinality
  <2>5. QED
    BY <1>3, <1>11, <2>1, <2>2, <2>3, <2>4, Zenon DEF Promise!Select, Tracing, Selected
<1>13. QED
  BY <1>1, <1>3, <1>12

LEMMA DeselectIsKept ==
  ASSUME ListInv, LogInv, Held < Size, NEW num \in Numbers, WithinBound(SYSCALL_STRACE),
         RemoveStrace(num)
  PROVE  LogInv' /\ Promise!Deselect(call')
<1> DEFINE found == head # NoHead /\ num \in Range(head.list)
<1>1. PICK c : c = call'
  OBVIOUS
<1>2. /\ c.op = "remove" /\ c.num = SYSCALL_STRACE /\ c.params = <<num, REMOVE_STRACE>>
      /\ c.num1 = num /\ c.ret = IF found THEN 0 ELSE -1
  BY <1>1 DEF RemoveStrace, Called, EINVAL
<1>3. LogInv' /\ Promise!Keep(c)
  BY <1>1, <1>2, StraceIsKept DEF RemoveStrace
<1>4. found <=> num \in Selected
  BY DEF Selected
<1>5. Selected' = Selected \ {num} /\ Tracing' = Tracing
  <2>1. CASE found
    <3>1. head' = [head EXCEPT !.list = RemoveFirst(@, num), !.count = @ - 1] /\ HeadOK(head)
      BY <2>1 DEF RemoveStrace, ListInv
    <3>2. HeadOK(head')
      BY <2>1, <3>1, RemoveOK
    <3>3. /\ head'.list = RemoveFirst(head.list, num)
          /\ head'.is_traced = head.is_traced /\ head'.tracing_mode = head.tracing_mode
      BY <3>1 DEF HeadOK, Heads
    <3>4. head # NoHead /\ head' # NoHead
      BY <2>1, <3>2, HeadIsThere DEF HeadOK
    <3>5. Range(RemoveFirst(head.list, num)) = Range(head.list) \ {num}
      BY <2>1, <3>1, RangeOfRest DEF HeadOK, Heads
    <3>6. QED
      BY <3>3, <3>4, <3>5 DEF Selected, Tracing, IsOn
  <2>2. CASE ~found
    <3>1. head' = head
      BY <2>2 DEF RemoveStrace
    <3>2. Selected' = Selected /\ Tracing' = Tracing
      BY <3>1 DEF Selected, Tracing, IsOn
    <3>3. QED
      BY <1>4, <2>2, <3>2
  <2>3. QED
    BY <2>1, <2>2
<1> HIDE DEF found
<1>6. Promise!Deselect(c)
  BY <1>2, <1>3, <1>4, <1>5 DEF Promise!Deselect, Promise!Done, Promise!Fail, Tracing, Selected
<1>7. QED
  BY <1>1, <1>3, <1>6

LEMMA OtherIsKept ==
  ASSUME ListInv, LogInv, Held < Size, NEW c \in Calls, WithinBound(c.num), OtherCall(c)
  PROVE  LogInv' /\ Promise!Other(call')
<1>1. PICK made : made = call'
  OBVIOUS
<1>2. made.op = "other" /\ made.num = c.num /\ made.params = c.params
  BY <1>1 DEF OtherCall, Called
<1>3. c.num \in Nat /\ c.params \in Seq(Nat) /\ NumArgs(c.num) <= Len(c.params)
  BY CallsAssumption
<1>4. LogInv' /\ Promise!Keep(made)
  BY <1>1, <1>2, <1>3, CallIsKept DEF OtherCall
<1>5. Tracing' = Tracing /\ Selected' = Selected
  BY DEF OtherCall, Tracing, Selected, IsOn
<1>6. Promise!Other(made)
  BY <1>2, <1>4, <1>5 DEF Promise!Other, Tracing, Selected
<1>7. QED
  BY <1>1, <1>4, <1>6

\* The oldest records, as many as were asked for, are the result, and what is
\* left is the log.
LEMMA ReadIsKept ==
  ASSUME ListInv, LogInv, Held < Size, NEW count \in Counts, WithinBound(SYSCALL_READ_STRACE),
         ReadStrace(count)
  PROVE  LogInv' /\ Promise!Read(call')
<1> DEFINE params == <<0, 0, count>>
           r == Traced(SYSCALL_READ_STRACE, params)
<1>1. PICK c : c = call'
  OBVIOUS
<1>2. /\ c.op = "read" /\ c.num = SYSCALL_READ_STRACE /\ c.params = params /\ c.num1 = count
      /\ c.data = FlattenSeq(Take(r, count).records) /\ c.ret = Len(c.data)
  BY <1>1 DEF ReadStrace, Called
<1>3. PICK recs : recs = Logs(c)
  OBVIOUS
<1>4. RingIs(r, recs)
  <2>1. PICK p : p = params
    OBVIOUS
  <2>2. p \in Seq(Nat) /\ NumArgs(SYSCALL_READ_STRACE) <= Len(p) /\ SYSCALL_READ_STRACE \in Nat
    BY <2>1, ParamsType DEF SYSCALL_READ_STRACE
  <2>3. RingIs(Traced(SYSCALL_READ_STRACE, p), Logs(c))
    BY <1>2, <2>1, <2>2, TracedIs
  <2>4. QED
    BY <1>3, <2>1, <2>3
<1>5. SetRing(AfterTake(r, Take(r, count)))
  BY DEF ReadStrace
<1> HIDE DEF r
<1>6. count \in Nat
  BY StraceAssumption
<1>7. PICK cut : RingHolds(r, recs, cut)
  BY <1>4 DEF RingIs
<1>8. recs \in Seq(Seq(Nat)) /\ Len(recs) \in Nat
  BY <1>7 DEF RingHolds, Laid
<1>9. PICK n : n = IF count <= Len(recs) THEN count ELSE Len(recs)
  OBVIOUS
<1>10. /\ Take(r, count).records = SubSeq(recs, 1, n)
       /\ RingHolds(AfterTake(r, Take(r, count)), SubSeq(recs, n + 1, Len(recs)),
                    CutOff(cut, Len(recs), n))
  BY <1>6, <1>7, <1>9, TakeHolds
<1>11. LogInv' /\ Log' = SubSeq(recs, n + 1, Len(recs))
  <2>1. Ring' = AfterTake(r, Take(r, count))
    BY <1>5, <1>10, SetRingType DEF RingHolds
  <2>2. RingIs(AfterTake(r, Take(r, count)), SubSeq(recs, n + 1, Len(recs)))
    BY <1>10 DEF RingIs
  <2>3. QED
    BY <2>1, <2>2, LogIs
<1>12. Promise!Min({count, Len(recs)}) = n
  <2> DEFINE m == Promise!Min({count, Len(recs)})
  <2>1. n \in {count, Len(recs)} /\ \A y \in {count, Len(recs)} : n <= y
    BY <1>6, <1>8, <1>9
  <2>2. m \in {count, Len(recs)} /\ \A y \in {count, Len(recs)} : m <= y
    BY <2>1 DEF Promise!Min
  <2> HIDE DEF m
  <2>3. m = n
    BY <1>6, <1>8, <2>1, <2>2
  <2>4. QED
    BY <2>3 DEF m
<1>13. Promise!Logged(c) = recs
  BY <1>3, LoggedIs
<1>14. c.data = Promise!FlattenSeq(SubSeq(recs, 1, n))
  BY <1>2, <1>10 DEF FlattenSeq, Promise!FlattenSeq
<1>15. Tracing' = Tracing /\ Selected' = Selected
  BY DEF ReadStrace, Tracing, Selected, IsOn
<1>16. Promise!Read(c)
  BY <1>1, <1>2, <1>11, <1>12, <1>13, <1>14, <1>15 DEF Promise!Read, Tracing, Selected
<1>17. QED
  BY <1>1, <1>11, <1>16

LEMMA StepIsKept ==
  ASSUME ListInv, LogInv, Held < Size, [Next]_vars
  PROVE  LogInv' /\ [Promise!Next]_Promise!vars
<1>1. ASSUME NEW mode \in {FULL_TRACING, FILTERED_TRACING, 2}, StartStrace(mode)
      PROVE  LogInv' /\ Promise!Next
  BY <1>1, StartIsKept DEF Promise!Next
<1>2. ASSUME EndStrace
      PROVE  LogInv' /\ Promise!Next
  BY <1>2, EndIsKept DEF Promise!Next
<1>3. ASSUME WithinBound(SYSCALL_STRACE), NEW num \in Numbers, AddStrace(num)
      PROVE  LogInv' /\ Promise!Next
  BY <1>3, SelectIsKept DEF Promise!Next
<1>4. ASSUME WithinBound(SYSCALL_STRACE), NEW num \in Numbers, RemoveStrace(num)
      PROVE  LogInv' /\ Promise!Next
  BY <1>4, DeselectIsKept DEF Promise!Next
<1>5. ASSUME WithinBound(SYSCALL_READ_STRACE), NEW count \in Counts, ReadStrace(count)
      PROVE  LogInv' /\ Promise!Next
  BY <1>5, ReadIsKept DEF Promise!Next
<1>6. ASSUME NEW c \in Calls, WithinBound(c.num), OtherCall(c)
      PROVE  LogInv' /\ Promise!Next
  BY <1>6, OtherIsKept DEF Promise!Next
<1>7. ASSUME UNCHANGED vars
      PROVE  LogInv' /\ UNCHANGED Promise!vars
  <2>1. LogInv' /\ Log' = Log
    BY <1>7, RingUnchanged DEF vars
  <2>2. Tracing' = Tracing /\ Selected' = Selected /\ call' = call
    BY <1>7 DEF vars, Tracing, Selected, IsOn
  <2>3. QED
    BY <2>1, <2>2 DEF Promise!vars, Tracing, Selected
<1>8. QED
  BY <1>1, <1>2, <1>3, <1>4, <1>5, <1>6, <1>7 DEF Next

LEMMA LogStarts ==
  ASSUME Init
  PROVE  LogInv /\ Promise!Init
<1> DEFINE recs == << >>
           cut == [i \in 0 .. 0 |-> 0]
<1>1. Ring \in Rings /\ Ring.readOffset = 0 /\ Ring.writeOffset = 0
  BY RingInit DEF Init, RingTyped, Ring
<1>2. recs \in Seq(Seq(Nat)) /\ Len(recs) = 0 /\ cut \in [0 .. 0 -> Nat] /\ cut[0] = 0
  OBVIOUS
<1> HIDE DEF recs, cut
<1>3. Laid(Size, Ring.buffer, Ring.readOffset, recs, cut)
  BY <1>2 DEF Laid
<1>4. OffsetAt(Ring, cut[Len(recs)]) = 0 /\ cut[Len(recs)] < Size
  <2>1. (0 + 0) % Size = 0 /\ 0 < Size
    BY StraceAssumption
  <2>2. QED
    BY <1>1, <1>2, <2>1 DEF OffsetAt
<1>5. RingHolds(Ring, recs, cut)
  BY <1>1, <1>2, <1>3, <1>4 DEF RingHolds, Whole
<1>6. Log = recs
  BY <1>5, LogIsHeld DEF Log
<1>7. LogInv
  BY <1>5, <1>6 DEF LogInv, RingIs
<1>8. call.ret = 0 /\ Tracing = "off" /\ Selected = {}
  BY DEF Init, Called, Tracing, Selected, IsOn
<1>9. Promise!Init
  BY <1>6, <1>8 DEF Promise!Init, Promise!Done, Tracing, Selected, recs
<1>10. QED
  BY <1>7, <1>9

\* Every selected call is logged, whole and in order, and every read_strace takes
\* the oldest records, each once, wherever in the ring they lie, as long as the
\* ring is never filled to its last word: perform_tracing does not look whether a
\* record has room, so this is what the program has to see to.
THEOREM LogKept ==
  ASSUME Held < Size
  PROVE  Spec => LogIsKept
<1>1. Init => ListInv /\ LogInv /\ Promise!Init
  BY LogStarts DEF Init, ListInv
<1>2. ListInv /\ LogInv /\ [Next]_vars => ListInv' /\ LogInv' /\ [Promise!Next]_Promise!vars
  BY ListInvStep, StepIsKept
<1>3. QED
  BY <1>1, <1>2, PTL DEF Spec, LogIsKept, Promise!Spec

==============================================================================
