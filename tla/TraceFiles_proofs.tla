-------------------------- MODULE TraceFiles_proofs --------------------------
(***************************************************************************)
(* A trace buffer is a queue, for every size of the ring, every value of   *)
(* the bytes and every length of the calls.  For every number of           *)
(* descriptors, its file counts those that lead to it, its memory is there *)
(* as long as one does, and what is read and written in between goes       *)
(* through a queue that is empty at first.                                 *)
(***************************************************************************)
EXTENDS TraceFiles, SequenceTheorems, FiniteSetTheorems, TLAPS

(* The ring *)

\* Going round at most once.
Wrap(k) == IF k < Size THEN k ELSE k - Size

LEMMA ModIsWrap ==
  ASSUME NEW k \in 0 .. 2 * Size - 1
  PROVE  k % Size = Wrap(k)
<1>0. Size \in Nat \ {0}
  BY TraceBufferAssumption
<1>1. CASE k < Size
  BY <1>0, <1>1 DEF Wrap
<1>2. CASE k >= Size
  BY <1>0, <1>2 DEF Wrap
<1>3. QED
  BY <1>0, <1>1, <1>2
\* What Distance comes to.
Gap(from, to) == IF from <= to THEN to - from ELSE Size + to - from

LEMMA DistanceIsGap ==
  ASSUME NEW from \in Cells, NEW to \in Cells
  PROVE  Distance(from, to) = Gap(from, to)
<1>1. Size + to - from \in 0 .. 2 * Size - 1
  BY TraceBufferAssumption DEF Cells
<1>2. Distance(from, to) = Wrap(Size + to - from)
  BY <1>1, ModIsWrap DEF Distance
<1>3. QED
  BY <1>2, TraceBufferAssumption DEF Wrap, Gap, Cells

\* The bytes held, as a function of the offsets and the flag.
Held(r, w, full) == IF r = w THEN (IF full THEN Size ELSE 0) ELSE Gap(r, w)

LEMMA HeldIsCapacity ==
  ASSUME NEW r \in Cells, NEW w \in Cells, NEW full \in BOOLEAN
  PROVE  Held(r, w, full) = IF Gap(r, w) = 0 /\ full THEN Size ELSE Gap(r, w)
BY TraceBufferAssumption DEF Held, Gap, Cells

\* What a read and a write of n bytes do to it.
LEMMA HeldAfterRead ==
  ASSUME NEW r \in Cells, NEW w \in Cells, NEW full \in BOOLEAN,
         NEW n \in 0 .. Held(r, w, full), NEW flag \in BOOLEAN,
         flag <=> full /\ n # Held(r, w, full)
  PROVE  Held(Wrap(r + n), w, flag) = Held(r, w, full) - n
<1>1. CASE r = w /\ ~full
  BY <1>1, TraceBufferAssumption DEF Held, Wrap, Cells
<1>2. CASE r = w /\ full
  BY <1>2, TraceBufferAssumption DEF Held, Gap, Wrap, Cells
<1>3. CASE r # w
  BY <1>3, TraceBufferAssumption DEF Held, Gap, Wrap, Cells
<1>4. QED
  BY <1>1, <1>2, <1>3

LEMMA HeldIsNotWritten ==
  ASSUME NEW r \in Cells, NEW w \in Cells, NEW full \in BOOLEAN,
         NEW n \in 0 .. Size - Held(r, w, full), NEW i \in 1 .. Held(r, w, full)
  PROVE  ~(Gap(w, Wrap(r + i - 1)) < n)
<1>1. CASE r = w /\ ~full
  BY <1>1, TraceBufferAssumption DEF Held, Cells
<1>2. CASE r = w /\ full
  BY <1>2, TraceBufferAssumption DEF Held, Gap, Wrap, Cells
<1>3. CASE r # w
  BY <1>3, TraceBufferAssumption DEF Held, Gap, Wrap, Cells
<1>4. QED
  BY <1>1, <1>2, <1>3

LEMMA HeldAfterWrite ==
  ASSUME NEW r \in Cells, NEW w \in Cells, NEW full \in BOOLEAN,
         NEW n \in 0 .. Size - Held(r, w, full), NEW flag \in BOOLEAN,
         flag <=> full \/ n = Size - Held(r, w, full)
  PROVE  Held(r, Wrap(w + n), flag) = Held(r, w, full) + n
<1>1. CASE r = w /\ ~full
  BY <1>1, TraceBufferAssumption DEF Held, Gap, Wrap, Cells
<1>2. CASE r = w /\ full
  BY <1>2, TraceBufferAssumption DEF Held, Gap, Wrap, Cells
<1>3. CASE r # w
  BY <1>3, TraceBufferAssumption DEF Held, Gap, Wrap, Cells
<1>4. QED
  BY <1>1, <1>2, <1>3

LEMMA Capacities ==
  ASSUME readOffset \in Cells, writeOffset \in Cells, isFull \in BOOLEAN
  PROVE  /\ ReadCapacity = Held(readOffset, writeOffset, isFull)
         /\ WriteCapacity = Size - Held(readOffset, writeOffset, isFull)
         /\ Held(readOffset, writeOffset, isFull) \in 0 .. Size
<1>1. /\ Distance(readOffset, writeOffset) = Gap(readOffset, writeOffset)
      /\ Distance(writeOffset, readOffset) = Gap(writeOffset, readOffset)
  BY DistanceIsGap
<1>2. QED
  BY <1>1, TraceBufferAssumption DEF ReadCapacity, WriteCapacity, Held, Gap, Cells

LEMMA CapacityAfter ==
  ASSUME readOffset' \in Cells, writeOffset' \in Cells, isFull' \in BOOLEAN
  PROVE  ReadCapacity' = Held(readOffset', writeOffset', isFull')
<1>1. Distance(readOffset, writeOffset)' = Gap(readOffset', writeOffset')
  <2>1. Distance(readOffset', writeOffset') = Gap(readOffset', writeOffset')
    BY DistanceIsGap
  <2>2. QED
    BY <2>1 DEF Distance
<1>2. ReadCapacity' = IF Gap(readOffset', writeOffset') = 0 /\ isFull' THEN Size
                      ELSE Gap(readOffset', writeOffset')
  BY <1>1 DEF ReadCapacity
<1>3. QED
  BY <1>2, HeldIsCapacity

\* n cells read from r on, of c, in a ring b.
Bytewise(b, r, c) == [i \in 1 .. c |-> b[(r + i - 1) % Size]]

LEMMA BytewiseSeq ==
  ASSUME NEW b \in [Cells -> Bytes], NEW r \in Cells, NEW c \in 0 .. Size
  PROVE  /\ Bytewise(b, r, c) \in Seq(Bytes)
         /\ Len(Bytewise(b, r, c)) = c
         /\ \A i \in 1 .. c : Bytewise(b, r, c)[i] = b[Wrap(r + i - 1)]
<1>1. ASSUME NEW i \in 1 .. c
      PROVE  /\ (r + i - 1) % Size = Wrap(r + i - 1)
             /\ Wrap(r + i - 1) \in Cells
  <2>1. r + i - 1 \in 0 .. 2 * Size - 1
    BY TraceBufferAssumption DEF Cells
  <2>2. (r + i - 1) % Size = Wrap(r + i - 1)
    BY <2>1, ModIsWrap
  <2>3. QED
    BY <2>1, <2>2, TraceBufferAssumption DEF Wrap, Cells
<1>2. Bytewise(b, r, c) \in [1 .. c -> Bytes]
  BY <1>1 DEF Bytewise
<1>3. c \in Nat
  BY TraceBufferAssumption
<1>4. QED
  BY <1>1, <1>2, <1>3 DEF Bytewise
------------------------------------------------------------------------------
LEMMA InitIsCreate == Init => TypeOK /\ Queue!Init
<1> SUFFICES ASSUME Init PROVE TypeOK /\ Queue!Init
  OBVIOUS
<1>1. TypeOK
  <2>1. 0 \in Cells
    BY TraceBufferAssumption DEF Cells
  <2>2. QED
    BY <2>1 DEF Init, TypeOK
<1>2. ReadCapacity = 0
  BY <1>1, Capacities DEF Init, TypeOK, Held
<1>3. Contents = <<>>
  BY <1>2 DEF Contents
<1>4. QED
  BY <1>1, <1>3 DEF Init, Queue!Init
------------------------------------------------------------------------------
\* A read of n bytes leaves the queue without its first n.
LEMMA ReadStep ==
  ASSUME TypeOK, NEW count \in Counts, Read(count)
  PROVE  TypeOK' /\ Queue!Read(count)
<1> DEFINE c == ReadCapacity
           n == Lesser(count, c)
<1>1. /\ c = Held(readOffset, writeOffset, isFull)
      /\ c \in 0 .. Size
  BY Capacities DEF TypeOK
<1>2. n \in 0 .. c
  BY <1>1, TraceBufferAssumption DEF Lesser
<1>3. /\ readOffset' = Wrap(readOffset + n)
      /\ readOffset' \in Cells
  <2>1. readOffset + n \in 0 .. 2 * Size - 1
    BY <1>1, <1>2, TraceBufferAssumption DEF TypeOK, Cells
  <2>2. readOffset' = Wrap(readOffset + n)
    BY <2>1, ModIsWrap DEF Read
  <2>3. QED
    BY <2>1, <2>2, TraceBufferAssumption DEF Wrap, Cells
<1>4. /\ isFull' = (isFull /\ n # c)
      /\ writeOffset' = writeOffset
      /\ buffer' = buffer
      /\ call' = [op |-> "read", data |-> Bytewise(buffer, readOffset, n), ret |-> n]
  BY DEF Read, Called, Bytewise
<1>5. TypeOK'
  BY <1>3, <1>4 DEF TypeOK, Read
<1> HIDE DEF c, n
<1>6. ReadCapacity' = c - n
  <2>1. ReadCapacity' = Held(readOffset', writeOffset', isFull')
    BY <1>5, CapacityAfter DEF TypeOK
  <2>2. /\ readOffset \in Cells /\ writeOffset \in Cells /\ isFull \in BOOLEAN
        /\ n \in 0 .. Held(readOffset, writeOffset, isFull)
        /\ isFull' \in BOOLEAN /\ (isFull' <=> isFull /\ n # c)
    BY <1>1, <1>2, <1>4, <1>5 DEF TypeOK
  <2>3. Held(Wrap(readOffset + n), writeOffset, isFull') = Held(readOffset, writeOffset, isFull) - n
    BY <1>1, <2>2, HeldAfterRead
  <2>4. QED
    BY <1>1, <1>3, <1>4, <2>1, <2>3
<1>7. /\ Contents = Bytewise(buffer, readOffset, c)
      /\ Contents' = Bytewise(buffer, readOffset', c - n)
  BY <1>4, <1>6 DEF Contents, Bytewise, c
<1>8. /\ Contents \in Seq(Bytes)
      /\ Len(Contents) = c
      /\ \A i \in 1 .. c : Contents[i] = buffer[Wrap(readOffset + i - 1)]
  BY <1>1, <1>7, BytewiseSeq DEF TypeOK
<1>9. Contents' = SubSeq(Contents, n + 1, c)
  <2>1. /\ SubSeq(Contents, n + 1, c) \in Seq(Bytes)
        /\ Len(SubSeq(Contents, n + 1, c)) = c - n
        /\ \A i \in 1 .. c - n : SubSeq(Contents, n + 1, c)[i] = Contents[n + i]
    BY <1>1, <1>2, <1>8, SubSeqProperties
  <2>0. c - n \in 0 .. Size
    BY <1>1, <1>2, TraceBufferAssumption
  <2>2. /\ Contents' \in Seq(Bytes)
        /\ Len(Contents') = c - n
        /\ \A i \in 1 .. c - n : Contents'[i] = buffer[Wrap(readOffset' + i - 1)]
    BY <1>3, <1>7, <2>0, BytewiseSeq DEF TypeOK
  <2>3. ASSUME NEW i \in 1 .. c - n
        PROVE  Wrap(readOffset' + i - 1) = Wrap(readOffset + (n + i) - 1)
    BY <1>1, <1>2, <1>3, TraceBufferAssumption DEF Wrap, TypeOK, Cells
  <2>4. ASSUME NEW i \in 1 .. c - n
        PROVE  Contents'[i] = SubSeq(Contents, n + 1, c)[i]
    <3>1. n + i \in 1 .. c
      BY <1>1, <1>2, TraceBufferAssumption
    <3>2. QED
      BY <1>8, <2>1, <2>2, <2>3, <3>1
  <2>5. QED
    BY <2>1, <2>2, <2>4, SeqEqual
<1>10. Bytewise(buffer, readOffset, n) = SubSeq(Contents, 1, n)
  <2>1. /\ SubSeq(Contents, 1, n) \in Seq(Bytes)
        /\ Len(SubSeq(Contents, 1, n)) = n
        /\ \A i \in 1 .. n : SubSeq(Contents, 1, n)[i] = Contents[i]
    BY <1>1, <1>2, <1>8, SubSeqProperties
  <2>2. n \in 0 .. Size
    BY <1>1, <1>2, TraceBufferAssumption
  <2>3. /\ Bytewise(buffer, readOffset, n) \in Seq(Bytes)
        /\ Len(Bytewise(buffer, readOffset, n)) = n
        /\ \A i \in 1 .. n :
             Bytewise(buffer, readOffset, n)[i] = buffer[Wrap(readOffset + i - 1)]
    BY <2>2, BytewiseSeq DEF TypeOK
  <2>4. QED
    BY <1>1, <1>2, <1>8, <2>1, <2>3, SeqEqual
<1>11. n = Queue!Lesser(count, Len(Contents))
  BY <1>8 DEF n, c, Lesser, Queue!Lesser
<1>12. QED
  BY <1>4, <1>5, <1>8, <1>9, <1>10, <1>11 DEF Queue!Read

\* A write of n bytes appends them to the queue.
LEMMA WriteStep ==
  ASSUME TypeOK, NEW data \in Inputs, Write(data)
  PROVE  TypeOK' /\ Queue!Write(data)
<1> DEFINE c == Held(readOffset, writeOffset, isFull)
           n == Lesser(Len(data), WriteCapacity)
<1>1. /\ WriteCapacity = Size - c
      /\ ReadCapacity = c
      /\ c \in 0 .. Size
  BY Capacities DEF TypeOK
<1>2. data \in Seq(Bytes) /\ Len(data) \in Nat
  BY TraceBufferAssumption, LenProperties
<1>3. n \in 0 .. Size - c /\ n <= Len(data)
  BY <1>1, <1>2, TraceBufferAssumption DEF Lesser
<1>4. /\ writeOffset' = Wrap(writeOffset + n)
      /\ writeOffset' \in Cells
  <2>1. writeOffset + n \in 0 .. 2 * Size - 1
    BY <1>1, <1>3, TraceBufferAssumption DEF TypeOK, Cells
  <2>2. writeOffset' = Wrap(writeOffset + n)
    BY <2>1, ModIsWrap DEF Write
  <2>3. QED
    BY <2>1, <2>2, TraceBufferAssumption DEF Wrap, Cells
<1>5. /\ isFull' = (isFull \/ n = WriteCapacity)
      /\ readOffset' = readOffset
      /\ mode' = mode
      /\ call' = [op |-> "write", data |-> data, ret |-> n]
  BY DEF Write, Called
<1>6. buffer' = [k \in Cells |-> IF Distance(writeOffset, k) < n
                                 THEN data[Distance(writeOffset, k) + 1] ELSE buffer[k]]
  BY DEF Write
<1> HIDE DEF c, n
<1>7. ASSUME NEW k \in Cells
      PROVE  buffer'[k] = (IF Gap(writeOffset, k) < n THEN data[Gap(writeOffset, k) + 1]
                           ELSE buffer[k])
  BY <1>6, DistanceIsGap DEF TypeOK
<1>8. buffer' \in [Cells -> Bytes]
  <2>1. ASSUME NEW k \in Cells, Gap(writeOffset, k) < n
        PROVE  data[Gap(writeOffset, k) + 1] \in Bytes
    <3>1. Gap(writeOffset, k) + 1 \in 1 .. Len(data)
      BY <1>2, <1>3, <2>1, TraceBufferAssumption DEF Gap, TypeOK, Cells
    <3>2. QED
      BY <1>2, <3>1, ElementOfSeq
  <2>2. ASSUME NEW k \in Cells
        PROVE  buffer'[k] \in Bytes
    BY <1>7, <2>1 DEF TypeOK
  <2>3. QED
    BY <1>6, <2>2
<1>9. TypeOK'
  BY <1>4, <1>5, <1>8 DEF TypeOK
<1>10. ReadCapacity' = c + n
  <2>1. ReadCapacity' = Held(readOffset', writeOffset', isFull')
    BY <1>9, CapacityAfter DEF TypeOK
  <2>2. /\ n \in 0 .. Size - Held(readOffset, writeOffset, isFull)
        /\ isFull' <=> isFull \/ n = Size - Held(readOffset, writeOffset, isFull)
    BY <1>1, <1>3, <1>5 DEF c
  <2>3. Held(readOffset, Wrap(writeOffset + n), isFull')
          = Held(readOffset, writeOffset, isFull) + n
    BY <1>9, <2>2, HeldAfterWrite DEF TypeOK
  <2>4. QED
    BY <1>4, <1>5, <2>1, <2>3 DEF c
<1>11. /\ Contents = Bytewise(buffer, readOffset, c)
       /\ Contents' = Bytewise(buffer', readOffset, c + n)
  BY <1>1, <1>5, <1>10 DEF Contents, Bytewise
<1>12. /\ Contents \in Seq(Bytes)
       /\ Len(Contents) = c
       /\ \A i \in 1 .. c : Contents[i] = buffer[Wrap(readOffset + i - 1)]
  BY <1>1, <1>11, BytewiseSeq DEF TypeOK
<1>13. /\ Contents' \in Seq(Bytes)
       /\ Len(Contents') = c + n
       /\ \A i \in 1 .. c + n : Contents'[i] = buffer'[Wrap(readOffset + i - 1)]
  <2>1. c + n \in 0 .. Size
    BY <1>1, <1>3, TraceBufferAssumption
  <2>2. QED
    BY <1>8, <1>11, <2>1, BytewiseSeq DEF TypeOK
<1>14. /\ SubSeq(data, 1, n) \in Seq(Bytes)
       /\ Len(SubSeq(data, 1, n)) = n
       /\ \A i \in 1 .. n : SubSeq(data, 1, n)[i] = data[i]
  <2>1. n \in Int /\ \A i \in 1 .. n : data[i] \in Bytes
    BY <1>1, <1>2, <1>3, ElementOfSeq, TraceBufferAssumption
  <2>2. QED
    BY <1>1, <1>3, <2>1, SubSeqProperties, TraceBufferAssumption
<1>15. Contents' = Contents \o SubSeq(data, 1, n)
  <2>1. /\ Contents \o SubSeq(data, 1, n) \in Seq(Bytes)
        /\ Len(Contents \o SubSeq(data, 1, n)) = c + n
        /\ \A i \in 1 .. c + n : (Contents \o SubSeq(data, 1, n))[i] =
             IF i <= c THEN Contents[i] ELSE SubSeq(data, 1, n)[i - c]
    BY <1>12, <1>14, ConcatProperties
  <2>2. ASSUME NEW i \in 1 .. c + n
        PROVE  Contents'[i] = (Contents \o SubSeq(data, 1, n))[i]
    <3> DEFINE k == Wrap(readOffset + i - 1)
    <3>0. i \in Nat \ {0} /\ c \in Nat
      BY <1>1, <1>3, TraceBufferAssumption
    <3>1. k \in Cells
      BY <1>1, <1>3, TraceBufferAssumption DEF Wrap, TypeOK, Cells
    <3>2. CASE i <= c
      <4>1. ~(Gap(writeOffset, k) < n)
        <5>1. /\ readOffset \in Cells /\ writeOffset \in Cells /\ isFull \in BOOLEAN
              /\ n \in 0 .. Size - Held(readOffset, writeOffset, isFull)
              /\ i \in 1 .. Held(readOffset, writeOffset, isFull)
          BY <1>1, <1>3, <3>0, <3>2 DEF TypeOK, c
        <5>2. QED
          BY <5>1, HeldIsNotWritten
      <4>2. QED
        <5>1. i \in 1 .. c
          BY <1>1, <3>0, <3>2
        <5>2. Contents[i] = buffer[k]
          BY <1>12, <5>1
        <5>3. buffer'[k] = buffer[k]
          BY <1>7, <3>1, <4>1
        <5>4. QED
          BY <1>13, <2>1, <3>2, <5>2, <5>3
    <3>3. CASE i > c
      <4>1. Gap(writeOffset, k) = i - c - 1
        BY <1>1, <1>3, <3>3, TraceBufferAssumption DEF c, Held, Gap, Wrap, TypeOK, Cells
      <4>2. i - c \in 1 .. n
        BY <1>1, <1>3, <3>3, TraceBufferAssumption
      <4>3. buffer'[k] = data[i - c]
        BY <1>1, <1>3, <1>7, <3>1, <4>1, <4>2, TraceBufferAssumption
      <4>4. Contents'[i] = buffer'[k]
        BY <1>13
      <4>5. (Contents \o SubSeq(data, 1, n))[i] = SubSeq(data, 1, n)[i - c]
        BY <2>1, <3>0, <3>3
      <4>6. SubSeq(data, 1, n)[i - c] = data[i - c]
        BY <1>14, <4>2
      <4>7. QED
        BY <4>3, <4>4, <4>5, <4>6, Zenon
    <3>4. i <= c \/ i > c
      BY <3>0
    <3>5. QED
      BY <3>2, <3>3, <3>4
  <2>3. QED
    BY <1>13, <2>1, <2>2, SeqEqual
<1>16. n = Queue!Lesser(Len(data), Size - Len(Contents))
  BY <1>1, <1>12 DEF n, Lesser, Queue!Lesser
<1>17. QED
  BY <1>5, <1>9, <1>15, <1>16 DEF Queue!Write
------------------------------------------------------------------------------
LEMMA StepIsCall == TypeOK /\ [Next]_vars => TypeOK' /\ [Queue!Next]_<<Contents, call>>
<1> SUFFICES ASSUME TypeOK, [Next]_vars
             PROVE  TypeOK' /\ [Queue!Next]_<<Contents, call>>
  OBVIOUS
<1>1. ASSUME UNCHANGED <<mode, ring>>
      PROVE  TypeOK' /\ Contents' = Contents
  BY <1>1 DEF ring, TypeOK, Contents, ReadCapacity, Distance
<1>2. ASSUME NEW op \in {"read", "write"}, NEW validRange \in BOOLEAN, Refused(op, validRange)
      PROVE  TypeOK' /\ Queue!Refuse
  BY <1>1, <1>2 DEF Refused, Called, Queue!Refuse
<1>3. CASE UNCHANGED vars
  BY <1>1, <1>3 DEF vars
<1>4. QED
  BY <1>2, <1>3, ReadStep, WriteStep DEF Next, Queue!Next

\* The offsets, the flag and the page of a trace buffer are always well-formed.
THEOREM RingTypes == Spec => []TypeOK
<1>1. QED
  BY InitIsCreate, StepIsCall, PTL DEF Spec

\* Every trace buffer is a bounded first-in first-out queue: read and write of
\* tracer.c implement Fifo, with one flag and two offsets that wrap around.
THEOREM RingIsFifo == Spec => IsFifo
<1>1. Spec => []TypeOK
  BY RingTypes
<1>2. QED
  BY <1>1, InitIsCreate, StepIsCall, PTL DEF Spec, IsFifo, Queue!Spec
------------------------------------------------------------------------------
(* The files *)

Inv == DescriptorsAreCounted /\ NothingLeaks

LEMMA TracesAreFinite ==
  ASSUME DescriptorsAreCounted
  PROVE  /\ IsFiniteSet(Traces)
         /\ refCount \in Nat
         /\ refCount = 0 <=> Traces = {}
<1>1. IsFiniteSet(Descriptors)
  BY FS_Interval, TraceFilesAssumption DEF Descriptors
<1>2. IsFiniteSet(Traces)
  BY <1>1, FS_Subset DEF Traces
<1>3. QED
  BY <1>2, FS_CardinalityType, FS_EmptySet DEF DescriptorsAreCounted

LEMMA ClosingOne ==
  ASSUME NEW fd
  PROVE  Closing({fd}) = IF fd \in Traces THEN 1 ELSE 0
<1>1. CASE fd \in Traces
  <2>1. {fd} \cap Traces = {fd}
    BY <1>1
  <2>2. QED
    BY <1>1, <2>1, FS_Singleton DEF Closing
<1>2. CASE fd \notin Traces
  <2>1. {fd} \cap Traces = {}
    BY <1>2
  <2>2. QED
    BY <1>2, <2>1, FS_EmptySet DEF Closing
<1>3. QED
  BY <1>1, <1>2

\* What one more descriptor, and one fewer, makes of the count.
LEMMA OneMore ==
  ASSUME DescriptorsAreCounted, NEW fd \in Descriptors \ Traces,
         files' = [files EXCEPT ![fd] = "trace"]
  PROVE  /\ Traces' = Traces \cup {fd}
         /\ Cardinality(Traces') = refCount + 1
         /\ files' \in [Descriptors -> {"none", "standard", "trace"}]
<1>1. Traces' = Traces \cup {fd}
  BY DEF Traces, DescriptorsAreCounted
<1>2. QED
  BY <1>1, TracesAreFinite, FS_AddElement DEF DescriptorsAreCounted

LEMMA OneFewer ==
  ASSUME DescriptorsAreCounted, NEW fd \in Descriptors, NEW kind \in {"none", "standard"},
         files' = [files EXCEPT ![fd] = kind]
  PROVE  /\ Traces' = Traces \ {fd}
         /\ Cardinality(Traces') = refCount - Closing({fd})
         /\ files' \in [Descriptors -> {"none", "standard", "trace"}]
<1>1. Traces' = Traces \ {fd}
  BY DEF Traces, DescriptorsAreCounted
<1>2. Cardinality(Traces \ {fd}) = refCount - Closing({fd})
  <2>1. IsFiniteSet(Traces) /\ refCount \in Nat
    BY TracesAreFinite
  <2>2. Cardinality(Traces \ {fd}) = IF fd \in Traces THEN refCount - 1 ELSE refCount
    BY <2>1, FS_RemoveElement DEF DescriptorsAreCounted
  <2>3. QED
    BY <2>1, <2>2, ClosingOne
<1>3. files' \in [Descriptors -> {"none", "standard", "trace"}]
  BY DEF DescriptorsAreCounted
<1>4. QED
  BY <1>1, <1>2, <1>3

LEMMA StartIsCounted ==
  ASSUME files = AtStart
  PROVE  /\ Traces = {}
         /\ files \in [Descriptors -> {"none", "standard", "trace"}]
BY DEF AtStart, Traces
------------------------------------------------------------------------------
LEMMA InvInit == FilesInit => Inv
<1> SUFFICES ASSUME FilesInit PROVE Inv
  OBVIOUS
<1>1. Traces = {} /\ files \in [Descriptors -> {"none", "standard", "trace"}]
  BY StartIsCounted DEF FilesInit
<1>2. QED
  BY <1>1, FS_EmptySet DEF FilesInit, Inv, DescriptorsAreCounted, NothingLeaks

LEMMA CreatePreserves == Inv /\ Create => Inv'
<1> SUFFICES ASSUME Inv, Create PROVE Inv'
  OBVIOUS
<1>1. PICK fd \in Lowest(Free) : files' = [files EXCEPT ![fd] = "trace"]
  BY DEF Create
<1>2. fd \in Descriptors \ Traces
  BY <1>1 DEF Lowest, Free, Traces
<1>3. /\ Traces' = Traces \cup {fd}
      /\ Cardinality(Traces') = refCount + 1
      /\ files' \in [Descriptors -> {"none", "standard", "trace"}]
  BY <1>1, <1>2, OneMore DEF Inv
<1>4. refCount = 0 /\ refCount' = 1 /\ heap' = Plus(Pieces, 1)
  BY TracesAreFinite DEF Create, Inv
<1>5. DescriptorsAreCounted'
  BY <1>3, <1>4 DEF DescriptorsAreCounted
<1>6. NothingLeaks'
  BY <1>3, <1>4 DEF NothingLeaks, Plus, Inv, Create
<1>7. QED
  BY <1>5, <1>6 DEF Inv

\* Whichever piece is refused, what was taken before is given back.
LEMMA CreateFailsPreserves == Inv /\ CreateFails => Inv'
<1> SUFFICES ASSUME Inv, CreateFails PROVE Inv'
  OBVIOUS
<1>1. /\ DescriptorsAreCounted' /\ Traces' = Traces
  BY DEF CreateFails, Inv, DescriptorsAreCounted, Traces
<1>2. NothingLeaks'
  <2>1. CASE heap' = heap
    BY <1>1, <2>1 DEF Inv, NothingLeaks
  <2>2. ASSUME NEW n \in 1 .. 4,
               heap' = [p \in Pieces |-> Plus(TakenBefore(n), 1)[p]
                                           - IF p \in GivenBack(n) THEN 1 ELSE 0]
        PROVE  NothingLeaks'
    <3>1. TakenBefore(n) = GivenBack(n)
      <4>1. CASE n = 1
        BY <4>1 DEF TakenBefore, GivenBack, Pieces
      <4>2. CASE n = 2
        BY <4>2 DEF TakenBefore, GivenBack, Pieces
      <4>3. CASE n = 3
        BY <4>3 DEF TakenBefore, GivenBack, Pieces
      <4>4. CASE n = 4
        BY <4>4 DEF TakenBefore, GivenBack, Pieces
      <4>5. QED
        BY <4>1, <4>2, <4>3, <4>4
    <3>2. ASSUME NEW p \in Pieces
          PROVE  heap'[p] = heap[p]
      BY <2>2, <3>1 DEF Plus, Inv, NothingLeaks
    <3>3. QED
      BY <1>1, <3>2 DEF Inv, NothingLeaks
  <2>3. QED
    BY <2>1, <2>2 DEF CreateFails
<1>3. QED
  BY <1>1, <1>2 DEF Inv

LEMMA ClosePreserves ==
  ASSUME Inv, NEW fd \in Descriptors, Close(fd)
  PROVE  Inv'
<1>1. /\ Traces' = Traces \ {fd}
      /\ Cardinality(Traces') = refCount - Closing({fd})
      /\ files' \in [Descriptors -> {"none", "standard", "trace"}]
  BY OneFewer DEF Inv, Close
<1>2. DescriptorsAreCounted'
  BY <1>1 DEF DescriptorsAreCounted, Close, TraceBufferClose
<1>3. refCount' = 0 <=> Traces' = {}
  <2>1. IsFiniteSet(Traces')
    BY <1>1, TracesAreFinite, FS_RemoveElement DEF Inv
  <2>2. QED
    BY <1>2, <2>1, FS_EmptySet DEF DescriptorsAreCounted
<1>4. heap' = IF fd \in Traces /\ Traces' = {} THEN Plus(Pieces, -1) ELSE heap
  BY <1>3, ClosingOne DEF Close, TraceBufferClose
<1>5. NothingLeaks'
  BY <1>1, <1>4 DEF NothingLeaks, Plus, Inv
<1>6. QED
  BY <1>2, <1>5 DEF Inv

LEMMA ExitPreserves == Inv /\ Exit => Inv'
<1> SUFFICES ASSUME Inv, Exit PROVE Inv'
  OBVIOUS
<1>1. /\ Traces' = {}
      /\ files' \in [Descriptors -> {"none", "standard", "trace"}]
  BY DEF Exit, AtStart, Traces
<1>2. Descriptors \cap Traces = Traces
  BY DEF Traces
<1>3. Closing(Descriptors) = refCount
  BY <1>2 DEF Closing, Inv, DescriptorsAreCounted
<1>4. refCount' = 0 /\ heap' = IF refCount > 0 THEN Plus(Pieces, -1) ELSE heap
  BY <1>3, TracesAreFinite DEF Exit, TraceBufferClose, Inv
<1>5. refCount > 0 <=> Traces # {}
  BY TracesAreFinite DEF Inv
<1>6. NothingLeaks'
  BY <1>1, <1>4, <1>5 DEF NothingLeaks, Plus, Inv
<1>7. QED
  BY <1>1, <1>4, <1>6, FS_EmptySet DEF Inv, DescriptorsAreCounted

LEMMA DupPreserves == Inv /\ Dup => Inv'
<1> SUFFICES ASSUME Inv, Dup PROVE Inv'
  OBVIOUS
<1>1. PICK fd \in Lowest(Free \ 0 .. Standard - 1) : files' = [files EXCEPT ![fd] = "trace"]
  BY DEF Dup
<1>2. fd \in Descriptors \ Traces
  BY <1>1 DEF Lowest, Free, Traces
<1>3. /\ Traces' = Traces \cup {fd}
      /\ Cardinality(Traces') = refCount + 1
      /\ files' \in [Descriptors -> {"none", "standard", "trace"}]
  BY <1>1, <1>2, OneMore DEF Inv
<1>4. DescriptorsAreCounted'
  BY <1>3 DEF DescriptorsAreCounted, Dup
<1>5. NothingLeaks'
  BY <1>3 DEF NothingLeaks, Dup, Inv
<1>6. QED
  BY <1>4, <1>5 DEF Inv

\* The descriptor that is overwritten may be one of the buffer, and so may the
\* one that is copied.
LEMMA Dup2Preserves ==
  ASSUME Inv, NEW old \in Descriptors, NEW new \in Descriptors, Dup2(old, new)
  PROVE  Inv'
<1>0. /\ files \in [Descriptors -> {"none", "standard", "trace"}]
      /\ refCount = Cardinality(Traces)
      /\ files' = [files EXCEPT ![new] = files[old]]
      /\ refCount' = refCount - Closing({new}) + Closing({old})
  BY DEF Inv, DescriptorsAreCounted, Dup2
<1>1. CASE old \in Traces
  <2>1. Traces' = Traces \cup {new}
    BY <1>0, <1>1 DEF Traces
  <2>2. DescriptorsAreCounted'
    <3>1. Cardinality(Traces') = IF new \in Traces THEN refCount ELSE refCount + 1
      BY <1>0, <2>1, TracesAreFinite, FS_AddElement DEF Inv
    <3>2. Closing({old}) = 1 /\ Closing({new}) = IF new \in Traces THEN 1 ELSE 0
      BY <1>1, ClosingOne
    <3>3. refCount' = Cardinality(Traces')
      BY <1>0, <3>1, <3>2, TracesAreFinite DEF Inv
    <3>4. QED
      BY <1>0, <1>1, <3>3 DEF DescriptorsAreCounted
  <2>3. heap' = heap
    <3>1. CASE new \in Traces
      <4>1. old \in Traces \ {new}
        BY <1>1 DEF Dup2
      <4>2. Cardinality(Traces \ {new}) = refCount - Closing({new})
        BY <1>0, <3>1, ClosingOne, TracesAreFinite, FS_RemoveElement DEF Inv
      <4>3. Cardinality(Traces \ {new}) # 0
        BY <4>1, TracesAreFinite, FS_RemoveElement, FS_EmptySet DEF Inv
      <4>4. QED
        BY <4>2, <4>3 DEF Dup2
    <3>2. CASE new \notin Traces
      BY <3>2 DEF Dup2
    <3>3. QED
      BY <3>1, <3>2
  <2>4. NothingLeaks'
    BY <1>1, <2>1, <2>3 DEF NothingLeaks, Inv
  <2>5. QED
    BY <2>2, <2>4 DEF Inv
<1>2. CASE old \notin Traces
  <2>1. files[old] \in {"none", "standard"} /\ Closing({old}) = 0
    BY <1>0, <1>2, ClosingOne DEF Traces
  <2>2. /\ Traces' = Traces \ {new}
        /\ Cardinality(Traces') = refCount - Closing({new})
        /\ files' \in [Descriptors -> {"none", "standard", "trace"}]
    BY <1>0, <2>1, OneFewer DEF Inv
  <2>3. Closing({new}) \in Int /\ refCount \in Nat
    BY ClosingOne, TracesAreFinite DEF Inv
  <2>4. DescriptorsAreCounted'
    BY <1>0, <2>1, <2>2, <2>3 DEF DescriptorsAreCounted
  <2>5. refCount - Closing({new}) = 0 <=> Traces' = {}
    <3>1. IsFiniteSet(Traces')
      BY <2>2, TracesAreFinite, FS_RemoveElement DEF Inv
    <3>2. QED
      BY <2>2, <3>1, FS_EmptySet
  <2>6. heap' = IF new \in Traces /\ Traces' = {} THEN Plus(Pieces, -1) ELSE heap
    BY <2>5 DEF Dup2
  <2>7. NothingLeaks'
    BY <2>2, <2>6 DEF NothingLeaks, Plus, Inv
  <2>8. QED
    BY <2>4, <2>7 DEF Inv
<1>3. QED
  BY <1>1, <1>2

LEMMA InvNext == Inv /\ [FilesNext]_filesVars => Inv'
<1>1. ASSUME Inv, UNCHANGED fileVars
      PROVE  Inv'
  BY <1>1 DEF fileVars, Inv, DescriptorsAreCounted, NothingLeaks, Traces
<1>2. QED
  BY <1>1, CreatePreserves, CreateFailsPreserves, ClosePreserves, ExitPreserves,
     DupPreserves, Dup2Preserves DEF FilesNext, Use, filesVars

\* The reference count of a trace buffer file is the number of descriptors that
\* lead to it, after every sequence of calls and for every number of descriptors.
THEOREM FilesAreCounted == FilesSpec => []DescriptorsAreCounted
<1>1. FilesSpec => []Inv
  BY InvInit, InvNext, PTL DEF FilesSpec
<1>2. Inv => DescriptorsAreCounted
  BY DEF Inv
<1>3. QED
  BY <1>1, <1>2, PTL

\* The memory of a trace buffer is freed by the last close, once, and by a
\* creation that fails at any of its four allocations.
THEOREM FilesDoNotLeak == FilesSpec => []NothingLeaks
<1>1. FilesSpec => []Inv
  BY InvInit, InvNext, PTL DEF FilesSpec
<1>2. Inv => NothingLeaks
  BY DEF Inv
<1>3. QED
  BY <1>1, <1>2, PTL
------------------------------------------------------------------------------
\* What the calls that make, share and close the file are for the queue.
LEMMA FileStepIsCall ==
  TypeOK /\ [FilesNext]_filesVars => TypeOK' /\ [Queue!Next]_<<Contents, call>>
<1> SUFFICES ASSUME TypeOK, [FilesNext]_filesVars
             PROVE  TypeOK' /\ [Queue!Next]_<<Contents, call>>
  OBVIOUS
<1>1. ASSUME UNCHANGED <<mode, ring>>
      PROVE  TypeOK' /\ Contents' = Contents
  BY <1>1 DEF ring, TypeOK, Contents, ReadCapacity, Distance
<1>2. ASSUME UNCHANGED vars
      PROVE  TypeOK' /\ [Queue!Next]_<<Contents, call>>
  BY <1>1, <1>2 DEF vars
<1>3. ASSUME UNCHANGED <<mode, ring>>, NEW op \in {"dup", "close"}, Called(op, <<>>, 0)
      PROVE  TypeOK' /\ Queue!Keep
  BY <1>1, <1>3 DEF Called, Queue!Keep
<1>4. ASSUME Create
      PROVE  TypeOK' /\ Queue!Create
  <2>1. /\ readOffset' = 0 /\ writeOffset' = 0 /\ isFull' = FALSE
        /\ buffer' \in [Cells -> Bytes] /\ mode' \in SUBSET {"read", "write"}
        /\ call' = [op |-> "create", data |-> <<>>, ret |-> 0]
    BY <1>4 DEF Create, Called
  <2>2. TypeOK'
    <3>1. 0 \in Cells
      BY TraceBufferAssumption DEF Cells
    <3>2. QED
      BY <2>1, <3>1 DEF TypeOK
  <2>3. ReadCapacity' = 0
    <3>1. ReadCapacity' = Held(readOffset', writeOffset', isFull')
      BY <2>2, CapacityAfter DEF TypeOK
    <3>2. QED
      BY <2>1, <3>1 DEF Held
  <2>4. Contents' = <<>>
    BY <2>3 DEF Contents
  <2>5. QED
    BY <2>1, <2>2, <2>4 DEF Queue!Create
<1>5. CASE CreateFails
  BY <1>2, <1>5 DEF CreateFails
<1>6. ASSUME NEW fd \in Descriptors, Close(fd)
      PROVE  TypeOK' /\ Queue!Keep
  BY <1>3, <1>6 DEF Close
<1>7. ASSUME Exit
      PROVE  TypeOK' /\ Queue!Keep
  BY <1>3, <1>7 DEF Exit
<1>8. ASSUME Dup
      PROVE  TypeOK' /\ Queue!Keep
  BY <1>3, <1>8 DEF Dup
<1>9. ASSUME NEW old \in Descriptors, NEW new \in Descriptors, Dup2(old, new)
      PROVE  TypeOK' /\ Queue!Keep
  BY <1>3, <1>9 DEF Dup2
<1>10. CASE Use
  <2>1. Next
    BY <1>10 DEF Use
  <2>2. QED
    BY <2>1, StepIsCall
<1>11. CASE UNCHANGED filesVars
  BY <1>2, <1>11 DEF filesVars
<1>12. QED
  BY <1>4, <1>5, <1>6, <1>7, <1>8, <1>9, <1>10, <1>11 DEF FilesNext, Queue!Next

\* A trace buffer is a queue, empty when it is made, over its whole life: the
\* offsets, the flag and the page of an earlier file leave nothing behind.
THEOREM FilesAreQueues == FilesSpec => IsFifo
<1>1. FilesInit => TypeOK /\ Queue!Init
  BY InitIsCreate DEF FilesInit
<1>2. QED
  BY <1>1, FileStepIsCall, PTL DEF FilesSpec, IsFifo, Queue!Spec
==============================================================================
