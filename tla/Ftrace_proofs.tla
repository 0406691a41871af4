---------------------------- MODULE Ftrace_proofs ----------------------------
(***************************************************************************)
(* The list of traced functions names none twice and never outgrows        *)
(* FTRACE_MAX, code is only ever a function's own or the trap over a copy  *)
(* of it, and the log is what FunctionLog promises, for every set of       *)
(* functions, every size of the ring, every bound and every order of       *)
(* calls.                                                                  *)
(*                                                                         *)
(* The log rests on what the ring holds: the records put in and not read   *)
(* yet, each behind its length, one behind the other from the read offset  *)
(* to the write offset (RingHolds).                                        *)
(***************************************************************************)
EXTENDS Ftrace, ListLemmas

Elements == [faddr : Functs, num_args : Nat, capture_backtrace : BOOLEAN,
             code_backup : {Prologue, Invalid, Garbage}]

\* A function is listed with a number of arguments it may be listed with.
Infos == {info \in Elements : info.num_args \in Arities[info.faddr]}

\* What is in the list and in the code.
TracingTypes ==
  /\ list \in Seq(Infos)
  /\ count \in Nat
  /\ code \in [Functs -> {Prologue, Invalid}]

\* The inductive invariant.
TracingInv == TracingTypes /\ FunctionListIsSet /\ CodeIsIntact

\* As no function is listed twice, the search finds the one element it has.
LEMMA FoundIsListed ==
  ASSUME TracingInv, NEW f \in Functs, NEW k \in DOMAIN list, list[k].faddr = f
  PROVE  IndexOf(f) = k
<1>1. DOMAIN list = 1 .. Len(list) /\ Len(list) \in Nat
  BY DEF TracingInv, TracingTypes
<1>2. ASSUME NEW j \in 1 .. k - 1
      PROVE  list[j].faddr # f
  <2>1. j \in DOMAIN list /\ j # k
    BY <1>1
  <2>2. QED
    BY <2>1 DEF TracingInv, FunctionListIsSet
<1>3. ASSUME NEW i \in DOMAIN list, list[i].faddr = f
      PROVE  i = k
  BY <1>3 DEF TracingInv, FunctionListIsSet
<1>4. QED
  BY <1>2, <1>3 DEF IndexOf

LEMMA ListedHasIndex ==
  ASSUME TracingInv, NEW f \in Functs, IsListed(f)
  PROVE  /\ IndexOf(f) \in DOMAIN list
         /\ list[IndexOf(f)].faddr = f
         /\ list[IndexOf(f)] \in Infos
         /\ code[f] = Invalid => list[IndexOf(f)].code_backup = Prologue
<1>1. PICK k \in DOMAIN list : list[k].faddr = f
  BY DEF IsListed
<1>2. IndexOf(f) = k
  BY <1>1, FoundIsListed
<1>3. list[k] \in Infos
  BY DEF TracingInv, TracingTypes
<1>4. ASSUME code[f] = Invalid
      PROVE  list[k].code_backup = Prologue
  <2>1. code[f] # Prologue
    BY <1>4, FtraceAssumption
  <2>2. PICK i \in DOMAIN list : list[i].faddr = f /\ list[i].code_backup = Prologue
    BY <2>1 DEF TracingInv, CodeIsIntact
  <2>3. i = k
    BY <1>1, <2>2 DEF TracingInv, FunctionListIsSet
  <2>4. QED
    BY <2>2, <2>3
<1>5. QED
  BY <1>1, <1>2, <1>3, <1>4

\* Taking the trap out gives a function its own code back.
LEMMA UntrappedCode ==
  ASSUME TracingInv, NEW f \in Functs, IsListed(f)
  PROVE  /\ Untrapped(f) \in [Functs -> {Prologue, Invalid}]
         /\ Untrapped(f)[f] = Prologue
         /\ \A g \in Functs \ {f} : Untrapped(f)[g] = code[g]
<1>1. code \in [Functs -> {Prologue, Invalid}]
  BY DEF TracingInv, TracingTypes
<1>2. CASE code[f] = Invalid
  BY <1>1, <1>2, ListedHasIndex DEF Untrapped
<1>3. CASE code[f] # Invalid
  BY <1>1, <1>3 DEF Untrapped
<1>4. QED
  BY <1>2, <1>3
------------------------------------------------------------------------------
LEMMA AddKeeps ==
  ASSUME TracingInv, NEW f \in Functs, NEW nargs \in Arities[f], AddFtrace(f, nargs)
  PROVE  TracingInv'
<1>0. nargs \in Int /\ list \in Seq(Infos) /\ count \in Nat /\ Len(list) \in Nat
  BY FtraceAssumption DEF TracingInv, TracingTypes
<1>1. CASE UNCHANGED tracing
  BY <1>1 DEF tracing, TracingInv, TracingTypes, FunctionListIsSet, CodeIsIntact
<1>2. CASE ~UNCHANGED tracing
  <2>1. /\ list' = Append(list, Info(f, nargs)) /\ count' = count + 1 /\ code' = code
        /\ count # FtraceMax /\ ~IsListed(f)
    BY <1>2 DEF AddFtrace, tracing
  <2>2. Info(f, nargs) \in Infos /\ Info(f, nargs).faddr = f
    <3>1. nargs \in Nat
      BY <1>0, <1>2 DEF AddFtrace, tracing
    <3>2. QED
      BY <3>1 DEF Info, Infos, Elements
  <2>3. /\ list' \in Seq(Infos)
        /\ Len(list') = Len(list) + 1
        /\ \A i \in 1 .. Len(list) : list'[i] = list[i]
        /\ list'[Len(list) + 1] = Info(f, nargs)
    BY <1>0, <2>1, <2>2, AppendProperties
  <2>4. DOMAIN list = 1 .. Len(list) /\ DOMAIN list' = 1 .. Len(list) + 1
    BY <1>0, <2>3
  <2>5. TracingTypes'
    BY <1>0, <2>1, <2>3 DEF TracingInv, TracingTypes
  <2>6. FunctionListIsSet'
    <3>1. ASSUME NEW i \in DOMAIN list', NEW j \in DOMAIN list', list'[i].faddr = list'[j].faddr
          PROVE  i = j
      <4>1. \A k \in DOMAIN list : list'[k].faddr # f
        BY <2>1, <2>3, <2>4 DEF IsListed
      <4>2. \A k \in DOMAIN list' : k \in DOMAIN list \/ k = Len(list) + 1
        BY <1>0, <2>4
      <4>3. list'[Len(list) + 1].faddr = f
        BY <2>2, <2>3
      <4>4. CASE i \in DOMAIN list /\ j \in DOMAIN list
        BY <2>3, <2>4, <3>1, <4>4 DEF TracingInv, FunctionListIsSet
      <4>5. CASE ~(i \in DOMAIN list /\ j \in DOMAIN list)
        BY <3>1, <4>1, <4>2, <4>3, <4>5
      <4>6. QED
        BY <4>4, <4>5
    <3>2. count' = Len(list') /\ count' <= FtraceMax
      BY <1>0, <2>1, <2>3, FtraceAssumption DEF TracingInv, FunctionListIsSet
    <3>3. QED
      BY <3>1, <3>2 DEF FunctionListIsSet
  <2>7. CodeIsIntact'
    <3>1. \A i \in DOMAIN list : i \in DOMAIN list' /\ list'[i] = list[i]
      BY <1>0, <2>3, <2>4
    <3>2. QED
      BY <2>1, <3>1 DEF TracingInv, CodeIsIntact
  <2>8. QED
    BY <2>5, <2>6, <2>7 DEF TracingInv
<1>3. QED
  BY <1>1, <1>2

LEMMA RemoveKeeps ==
  ASSUME TracingInv, NEW f \in Functs, RemoveFtrace(f)
  PROVE  TracingInv'
<1>0. list \in Seq(Infos) /\ count \in Nat /\ Len(list) \in Nat /\ DOMAIN list = 1 .. Len(list)
  BY DEF TracingInv, TracingTypes
<1>1. CASE ~IsListed(f)
  BY <1>1 DEF RemoveFtrace, tracing, TracingInv, TracingTypes, FunctionListIsSet, CodeIsIntact
<1>2. CASE IsListed(f)
  <2> DEFINE k == IndexOf(f)
             old(i) == IF i < k THEN i ELSE i + 1
  <2>1. list' = RemoveAt(list, k) /\ count' = count - 1 /\ code' = Untrapped(f)
    BY <1>2 DEF RemoveFtrace
  <2>2. k \in 1 .. Len(list) /\ list[k].faddr = f
    BY <1>0, <1>2, ListedHasIndex
  <2>3. /\ code' \in [Functs -> {Prologue, Invalid}]
        /\ code'[f] = Prologue
        /\ \A g \in Functs \ {f} : code'[g] = code[g]
    BY <1>2, <2>1, UntrappedCode
  <2> HIDE DEF k
  <2>4. /\ list' \in Seq(Infos)
        /\ Len(list') = Len(list) - 1
        /\ \A i \in 1 .. Len(list) - 1 : list'[i] = IF i < k THEN list[i] ELSE list[i + 1]
    BY <1>0, <2>1, <2>2, RemoveAtElements
  <2>5. DOMAIN list' = 1 .. Len(list) - 1
    BY <1>0, <2>4
  <2>6. \A i \in DOMAIN list' : old(i) \in DOMAIN list /\ list'[i] = list[old(i)]
    BY <1>0, <2>2, <2>4, <2>5
  <2>7. count' = Len(list') /\ count' \in Nat /\ count' <= FtraceMax
    BY <1>0, <2>1, <2>2, <2>4, FtraceAssumption DEF TracingInv, FunctionListIsSet
  <2>8. FunctionListIsSet'
    <3>1. ASSUME NEW i \in DOMAIN list', NEW j \in DOMAIN list', list'[i].faddr = list'[j].faddr
          PROVE  i = j
      <4>1. old(i) = old(j)
        <5> HIDE DEF old
        <5>1. QED
          BY <2>6, <3>1 DEF TracingInv, FunctionListIsSet
      <4>2. i \in Int /\ j \in Int /\ k \in Int
        BY <1>0, <2>2, <2>5
      <4>3. QED
        BY <4>1, <4>2
    <3>2. QED
      BY <2>7, <3>1 DEF FunctionListIsSet
  <2>9. CodeIsIntact'
    <3>1. SUFFICES ASSUME NEW g \in Functs, code'[g] # Prologue
                   PROVE  /\ code'[g] = Invalid
                          /\ \E i \in DOMAIN list' : list'[i].faddr = g
                                                       /\ list'[i].code_backup = Prologue
      BY DEF CodeIsIntact
    <3>2. g # f /\ code'[g] = code[g]
      BY <2>3, <3>1
    <3>3. PICK n \in DOMAIN list : list[n].faddr = g /\ list[n].code_backup = Prologue
      BY <3>1, <3>2 DEF TracingInv, CodeIsIntact
    <3>4. n # k
      BY <2>2, <3>2, <3>3
    <3>5. PICK i \in DOMAIN list' : old(i) = n
      <4>1. CASE n < k
        <5>1. n \in DOMAIN list' /\ old(n) = n
          BY <1>0, <2>2, <2>5, <4>1
        <5>2. QED
          BY <5>1
      <4>2. CASE n > k
        <5>1. n - 1 \in DOMAIN list' /\ old(n - 1) = n
          BY <1>0, <2>2, <2>5, <4>2
        <5>2. QED
          BY <5>1
      <4>3. n < k \/ n > k
        BY <1>0, <2>2, <3>4
      <4>4. QED
        BY <4>1, <4>2, <4>3
    <3>6. list'[i] = list[n]
      BY <2>6, <3>5
    <3>7. QED
      BY <2>3, <3>1, <3>3, <3>6
  <2>10. QED
    BY <2>3, <2>4, <2>7, <2>8, <2>9 DEF TracingInv, TracingTypes
<1>3. QED
  BY <1>1, <1>2

\* An element that is changed in place goes on naming its function.
LEMMA ChangeKeeps ==
  ASSUME TracingInv, NEW f \in Functs, IsListed(f), NEW info \in Infos, info.faddr = f,
         list' = [list EXCEPT ![IndexOf(f)] = info], count' = count
  PROVE  /\ list' \in Seq(Infos)
         /\ DOMAIN list' = DOMAIN list
         /\ list'[IndexOf(f)] = info
         /\ \A i \in DOMAIN list \ {IndexOf(f)} : list'[i] = list[i]
         /\ FunctionListIsSet'
<1>0. list \in Seq(Infos) /\ Len(list) \in Nat /\ DOMAIN list = 1 .. Len(list)
  BY DEF TracingInv, TracingTypes
<1>1. IndexOf(f) \in DOMAIN list /\ list[IndexOf(f)].faddr = f
  BY ListedHasIndex
<1>2. /\ list' \in Seq(Infos) /\ DOMAIN list' = DOMAIN list /\ Len(list') = Len(list)
      /\ list'[IndexOf(f)] = info
      /\ \A i \in DOMAIN list \ {IndexOf(f)} : list'[i] = list[i]
  BY <1>0, <1>1, ExceptSeq
<1>3. \A i \in DOMAIN list : list'[i].faddr = list[i].faddr
  BY <1>1, <1>2
<1>4. FunctionListIsSet'
  BY <1>2, <1>3 DEF TracingInv, FunctionListIsSet
<1>5. QED
  BY <1>2, <1>4

LEMMA EnableKeeps ==
  ASSUME TracingInv, NEW f \in Functs, NEW op, EnableFtrace(op, f)
  PROVE  TracingInv'
<1>1. CASE ~IsListed(f)
  BY <1>1 DEF EnableFtrace, tracing, TracingInv, TracingTypes, FunctionListIsSet, CodeIsIntact
<1>2. CASE IsListed(f)
  <2> DEFINE k == IndexOf(f)
             backup == IF code[f] = Invalid THEN list[k].code_backup ELSE code[f]
             flag == list[k].capture_backtrace \/ op = "enable_backtrace"
             info == [list[k] EXCEPT !.capture_backtrace = flag, !.code_backup = backup]
  <2>1. list' = [list EXCEPT ![k] = info] /\ code' = [code EXCEPT ![f] = Invalid]
        /\ count' = count
    BY <1>2 DEF EnableFtrace
  <2>2. /\ k \in DOMAIN list /\ list[k].faddr = f /\ list[k] \in Infos
        /\ code[f] = Invalid => list[k].code_backup = Prologue
    BY <1>2, ListedHasIndex
  <2>3. code \in [Functs -> {Prologue, Invalid}]
    BY DEF TracingInv, TracingTypes
  <2>4. backup = Prologue
    BY <2>2, <2>3
  <2>5. flag \in BOOLEAN
    OBVIOUS
  <2> HIDE DEF backup, flag, k
  <2>6. info \in Infos /\ info.faddr = f /\ info.code_backup = Prologue
    BY <2>2, <2>4, <2>5 DEF Infos, Elements
  <2> HIDE DEF info
  <2>7. /\ list' \in Seq(Infos)
        /\ DOMAIN list' = DOMAIN list
        /\ list'[k] = info
        /\ \A i \in DOMAIN list \ {k} : list'[i] = list[i]
        /\ FunctionListIsSet'
    BY <1>2, <2>1, <2>6, ChangeKeeps DEF k
  <2>8. TracingTypes'
    BY <2>1, <2>3, <2>7 DEF TracingInv, TracingTypes
  <2>9. ASSUME NEW g \in Functs
        PROVE  \/ code'[g] = Prologue
               \/ /\ code'[g] = Invalid
                  /\ \E i \in DOMAIN list' : list'[i].faddr = g /\ list'[i].code_backup = Prologue
    <3>1. CASE g = f
      BY <2>1, <2>2, <2>3, <2>6, <2>7, <3>1
    <3>2. CASE g # f
      <4>1. code'[g] = code[g]
        BY <2>1, <2>3, <3>2
      <4>2. \A i \in DOMAIN list : list[i].faddr = g => list'[i] = list[i]
        BY <2>2, <2>7, <3>2
      <4>3. QED
        BY <2>7, <4>1, <4>2 DEF TracingInv, CodeIsIntact
    <3>3. QED
      BY <3>1, <3>2
  <2>10. QED
    BY <2>7, <2>8, <2>9 DEF TracingInv, CodeIsIntact
<1>3. QED
  BY <1>1, <1>2

LEMMA DisableKeeps ==
  ASSUME TracingInv, NEW f \in Functs, NEW op, DisableFtrace(op, f)
  PROVE  TracingInv'
<1>1. CASE ~IsListed(f)
  BY <1>1 DEF DisableFtrace, tracing, TracingInv, TracingTypes, FunctionListIsSet, CodeIsIntact
<1>2. CASE IsListed(f)
  <2> DEFINE k == IndexOf(f)
             flag == list[k].capture_backtrace /\ op # "disable_backtrace"
             info == [list[k] EXCEPT !.capture_backtrace = flag]
  <2>1. list' = [list EXCEPT ![k] = info] /\ code' = Untrapped(f) /\ count' = count
    BY <1>2 DEF DisableFtrace
  <2>2. k \in DOMAIN list /\ list[k].faddr = f /\ list[k] \in Infos
    BY <1>2, ListedHasIndex
  <2>3. /\ code' \in [Functs -> {Prologue, Invalid}]
        /\ code'[f] = Prologue
        /\ \A g \in Functs \ {f} : code'[g] = code[g]
    BY <1>2, <2>1, UntrappedCode
  <2>4. flag \in BOOLEAN
    OBVIOUS
  <2> HIDE DEF flag, k
  <2>5. info \in Infos /\ info.faddr = f
    BY <2>2, <2>4 DEF Infos, Elements
  <2> HIDE DEF info
  <2>6. /\ list' \in Seq(Infos)
        /\ DOMAIN list' = DOMAIN list
        /\ \A i \in DOMAIN list \ {k} : list'[i] = list[i]
        /\ FunctionListIsSet'
    BY <1>2, <2>1, <2>5, ChangeKeeps DEF k
  <2>7. TracingTypes'
    BY <2>1, <2>3, <2>6 DEF TracingInv, TracingTypes
  <2>8. ASSUME NEW g \in Functs, code'[g] # Prologue
        PROVE  /\ code'[g] = Invalid
               /\ \E i \in DOMAIN list' : list'[i].faddr = g /\ list'[i].code_backup = Prologue
    <3>1. g # f /\ code'[g] = code[g]
      BY <2>3, <2>8
    <3>2. \A i \in DOMAIN list : list[i].faddr = g => list'[i] = list[i]
      BY <2>2, <2>6, <3>1
    <3>3. QED
      BY <2>6, <2>8, <3>1, <3>2 DEF TracingInv, CodeIsIntact
  <2>9. QED
    BY <2>6, <2>7, <2>8 DEF TracingInv, CodeIsIntact
<1>3. QED
  BY <1>1, <1>2
------------------------------------------------------------------------------
LEMMA TracingInit == Init => TracingInv
BY FtraceAssumption DEF Init, TracingInv, TracingTypes, FunctionListIsSet, CodeIsIntact

LEMMA TracingStep == TracingInv /\ [Next]_vars => TracingInv'
<1> SUFFICES ASSUME TracingInv, [Next]_vars PROVE TracingInv'
  OBVIOUS
<1>1. ASSUME UNCHANGED tracing
      PROVE  TracingInv'
  BY <1>1 DEF tracing, TracingInv, TracingTypes, FunctionListIsSet, CodeIsIntact
<1>2. ASSUME NEW f \in Functs, NEW regs \in Registers, CallFunction(f, regs)
      PROVE  TracingInv'
  BY <1>1, <1>2 DEF CallFunction
<1>3. CASE ReturnFromFunction
  BY <1>1, <1>3 DEF ReturnFromFunction
<1>4. ASSUME NEW most \in Counts, ReadFtrace(most)
      PROVE  TracingInv'
  BY <1>1, <1>4 DEF ReadFtrace
<1>5. CASE UNCHANGED vars
  BY <1>1, <1>5 DEF vars
<1>6. QED
  BY <1>2, <1>3, <1>4, <1>5, AddKeeps, RemoveKeeps, EnableKeeps, DisableKeeps DEF Next

\* The functions that are traced are a set of at most FTRACE_MAX, counted right,
\* whatever FTRACE_MAX is and however many functions there are to ask for.
THEOREM ListIsSet == Spec => []FunctionListIsSet
<1>1. TracingInv => FunctionListIsSet
  BY DEF TracingInv
<1>2. QED
  BY <1>1, TracingInit, TracingStep, PTL DEF Spec

\* do_ftrace never loses the instructions it takes out of a function: a trap is
\* always backed by the function's own code, in the element that names it, and
\* nothing but the trap and that code is ever written.
THEOREM OwnCodeIsKept == Spec => []CodeIsIntact
<1>1. TracingInv => CodeIsIntact
  BY DEF TracingInv
<1>2. QED
  BY <1>1, TracingInit, TracingStep, PTL DEF Spec
------------------------------------------------------------------------------
(* The loop of read_ftrace, over any buffer and up to any write offset *)

Buffers == [Cells -> Nat]

\* What the loop comes to.
Scanned == [offset : Cells, records : Seq(Seq(Nat)), met : BOOLEAN]

RecordIn(b, offset) == [i \in 1 .. b[offset] |-> b[(offset + i) % Size]]

\* The offset behind the record at an offset.
Behind(b, offset) == (offset + 1 + Len(RecordIn(b, offset))) % Size

TakeIn(b, end, from, most) ==
  LET take[n \in 0 .. most] == [offset \in Cells |->
        IF n = 0 THEN [offset |-> offset, records |-> <<>>, met |-> FALSE]
        ELSE LET words == RecordIn(b, offset)
                 next  == (offset + 1 + Len(words)) % Size
             IN  IF next = end
                 THEN [offset |-> next, records |-> <<words>>, met |-> TRUE]
                 ELSE [take[n - 1][next] EXCEPT !.records = <<words>> \o @]]
  IN  take[most][from]

LEMMA TakeIsTakeIn == \A from, most : Take(from, most) = TakeIn(buffer, writeOffset, from, most)
BY DEF Take, TakeIn, RecordAt, RecordIn

LEMMA ModType ==
  ASSUME NEW n \in Nat
  PROVE  n % Size \in Cells
BY FtraceAssumption DEF Cells

LEMMA RecordInType ==
  ASSUME NEW b \in Buffers, NEW offset \in Cells
  PROVE  /\ RecordIn(b, offset) \in Seq(Nat)
         /\ Len(RecordIn(b, offset)) = b[offset]
         /\ Behind(b, offset) \in Cells
<1>1. b[offset] \in Nat
  BY DEF Buffers
<1>2. \A i \in 1 .. b[offset] : b[(offset + i) % Size] \in Nat
  <2>1. \A i \in 1 .. b[offset] : offset + i \in Nat
    BY <1>1 DEF Cells
  <2>2. \A i \in 1 .. b[offset] : (offset + i) % Size \in Cells
    BY <2>1, ModType
  <2>3. QED
    BY <2>2 DEF Buffers
<1>3. RecordIn(b, offset) \in Seq(Nat) /\ Len(RecordIn(b, offset)) = b[offset]
  BY <1>1, <1>2 DEF RecordIn
<1>4. offset + 1 + Len(RecordIn(b, offset)) \in Nat
  BY <1>1, <1>3 DEF Cells
<1>5. Behind(b, offset) \in Cells
  BY <1>4, ModType DEF Behind
<1>6. QED
  BY <1>3, <1>5

\* The steps of the loop: t[n][offset] is what comes of it from an offset, with
\* n more records asked for.
LoopsOver(t, b, end, most) ==
  /\ \A offset \in Cells :
       t[0][offset] = [offset |-> offset, records |-> <<>>, met |-> FALSE]
  /\ \A n \in 1 .. most, offset \in Cells :
       Behind(b, offset) = end =>
         t[n][offset] = [offset |-> end, records |-> <<RecordIn(b, offset)>>, met |-> TRUE]
  /\ \A n \in 1 .. most, offset \in Cells :
       Behind(b, offset) # end =>
         t[n][offset] = [t[n - 1][Behind(b, offset)]
                           EXCEPT !.records = <<RecordIn(b, offset)>> \o @]

LEMMA TakeLoops ==
  ASSUME NEW b \in Buffers, NEW end \in Cells, NEW from \in Cells, NEW most \in Nat
  PROVE  \E t \in [0 .. most -> [Cells -> Scanned]] :
           LoopsOver(t, b, end, most) /\ TakeIn(b, end, from, most) = t[most][from]
<1> DEFINE Body(take, n, offset) ==
             IF n = 0 THEN [offset |-> offset, records |-> <<>>, met |-> FALSE]
             ELSE LET words == RecordIn(b, offset)
                      next  == (offset + 1 + Len(words)) % Size
                  IN  IF next = end
                      THEN [offset |-> next, records |-> <<words>>, met |-> TRUE]
                      ELSE [take[n - 1][next] EXCEPT !.records = <<words>> \o @]
           Defines(take) ==
             take = [n \in 0 .. most |-> [offset \in Cells |-> Body(take, n, offset)]]
           base == [offset \in Cells |-> [offset |-> offset, records |-> <<>>, met |-> FALSE]]
           next == [offset \in Cells |-> Behind(b, offset)]
           step == [p \in Cells \X Scanned |->
                      IF Behind(b, p[1]) = end
                      THEN [offset |-> end, records |-> <<RecordIn(b, p[1])>>, met |-> TRUE]
                      ELSE [p[2] EXCEPT !.records = <<RecordIn(b, p[1])>> \o @]]
<1>1. ASSUME NEW scan \in Scanned, NEW words \in Seq(Nat)
      PROVE  [scan EXCEPT !.records = <<words>> \o @] \in Scanned
  <2>1. <<words>> \in Seq(Seq(Nat)) /\ scan.records \in Seq(Seq(Nat))
    BY DEF Scanned
  <2>2. <<words>> \o scan.records \in Seq(Seq(Nat))
    BY <2>1, ConcatProperties
  <2>3. QED
    BY <2>2 DEF Scanned
<1>2. ASSUME NEW offset \in Cells, NEW words \in Seq(Nat)
      PROVE  /\ [offset |-> offset, records |-> <<>>, met |-> FALSE] \in Scanned
             /\ [offset |-> offset, records |-> <<words>>, met |-> TRUE] \in Scanned
  <2>1. <<words>> \in Seq(Seq(Nat)) /\ <<>> \in Seq(Seq(Nat))
    OBVIOUS
  <2>2. QED
    BY <2>1 DEF Scanned
<1>3. base \in [Cells -> Scanned]
  <2>1. <<>> \in Seq(Nat)
    OBVIOUS
  <2>2. QED
    BY <1>2, <2>1
<1>4. next \in [Cells -> Cells]
  BY RecordInType
<1>5. step \in [Cells \X Scanned -> Scanned]
  <2>1. \A p \in Cells \X Scanned :
          /\ [offset |-> end, records |-> <<RecordIn(b, p[1])>>, met |-> TRUE] \in Scanned
          /\ [p[2] EXCEPT !.records = <<RecordIn(b, p[1])>> \o @] \in Scanned
    BY <1>1, <1>2, RecordInType
  <2>2. QED
    BY <2>1
<1>6. \A offset \in Cells, scan \in Scanned :
        step[<<offset, scan>>] = IF Behind(b, offset) = end
                                 THEN [offset |-> end, records |-> <<RecordIn(b, offset)>>, met |-> TRUE]
                                 ELSE [scan EXCEPT !.records = <<RecordIn(b, offset)>> \o @]
  OBVIOUS
<1>7. \A offset \in Cells : /\ base[offset] = [offset |-> offset, records |-> <<>>, met |-> FALSE]
                           /\ next[offset] = Behind(b, offset)
  OBVIOUS
<1> HIDE DEF base, next, step
<1>8. PICK f \in [0 .. most -> [Cells -> Scanned]] : Scans(f, Cells, most, base, step, next)
  BY <1>3, <1>4, <1>5, ScanExists
<1>9. ASSUME NEW n \in 0 .. most, NEW offset \in Cells
      PROVE  f[n][offset] = Body(f, n, offset)
  <2>1. CASE n = 0
    BY <1>7, <1>8, <2>1 DEF Scans
  <2>2. CASE n # 0
    <3>1. n \in 1 .. most /\ n - 1 \in 0 .. most
      BY <2>2
    <3>2. next[offset] \in Cells /\ next[offset] = Behind(b, offset)
      BY <1>4, <1>7
    <3>3. f[n - 1][Behind(b, offset)] \in Scanned
      BY <3>1, <3>2
    <3>4. f[n][offset] = step[<<offset, f[n - 1][Behind(b, offset)]>>]
      BY <1>8, <3>1, <3>2 DEF Scans
    <3>5. f[n][offset] = IF Behind(b, offset) = end
                         THEN [offset |-> end, records |-> <<RecordIn(b, offset)>>, met |-> TRUE]
                         ELSE [f[n - 1][Behind(b, offset)]
                                 EXCEPT !.records = <<RecordIn(b, offset)>> \o @]
      BY <1>6, <3>3, <3>4
    <3>6. QED
      BY <2>2, <3>5 DEF Behind
  <2>3. QED
    BY <2>1, <2>2
<1>10. Defines(f)
  <2> HIDE DEF Body
  <2>1. \A n \in 0 .. most : f[n] = [offset \in Cells |-> Body(f, n, offset)]
    BY <1>8, <1>9
  <2>2. QED
    BY <1>8, <2>1
<1> DEFINE t == CHOOSE take : Defines(take)
<1>11. Defines(t)
  <2> HIDE DEF Defines
  <2>1. QED
    BY <1>10
<1>12. TakeIn(b, end, from, most) = t[most][from]
  BY DEF TakeIn
<1> HIDE DEF t
<1>13. ASSUME NEW n \in 0 .. most, NEW offset \in Cells
       PROVE  t[n][offset] = Body(t, n, offset)
  <2> HIDE DEF Body
  <2>1. t = [m \in 0 .. most |-> [o \in Cells |-> Body(t, m, o)]]
    BY <1>11
  <2>2. t[n] = [o \in Cells |-> Body(t, n, o)]
    BY <2>1, Zenon
  <2>3. QED
    BY <2>2, Zenon
<1>14. LoopsOver(t, b, end, most)
  <2>1. 0 \in 0 .. most
    OBVIOUS
  <2>2. ASSUME NEW offset \in Cells
        PROVE  t[0][offset] = [offset |-> offset, records |-> <<>>, met |-> FALSE]
    BY <1>13, <2>1
  <2>3. ASSUME NEW n \in 1 .. most, NEW offset \in Cells
        PROVE  /\ Behind(b, offset) = end =>
                    t[n][offset] = [offset |-> end, records |-> <<RecordIn(b, offset)>>, met |-> TRUE]
               /\ Behind(b, offset) # end =>
                    t[n][offset] = [t[n - 1][Behind(b, offset)]
                                      EXCEPT !.records = <<RecordIn(b, offset)>> \o @]
    <3>1. n \in 0 .. most /\ n # 0
      OBVIOUS
    <3>2. t[n][offset] = Body(t, n, offset)
      <4> HIDE DEF Body
      <4>1. QED
        BY <1>13, <3>1
    <3>3. QED
      BY <3>1, <3>2 DEF Behind
  <2>4. QED
    BY <2>2, <2>3 DEF LoopsOver
<1> DEFINE Typed == {n \in Nat : n <= most => \A offset \in Cells : t[n][offset] \in Scanned}
<1>15. 0 \in Typed
  <2>1. \A offset \in Cells : t[0][offset] \in Scanned
    <3>1. <<>> \in Seq(Nat)
      OBVIOUS
    <3>2. QED
      BY <1>2, <1>14, <3>1 DEF LoopsOver
  <2>2. QED
    BY <2>1
<1>16. ASSUME NEW n \in Nat, n \in Typed
       PROVE  n + 1 \in Typed
  <2>1. SUFFICES ASSUME n + 1 <= most, NEW offset \in Cells PROVE t[n + 1][offset] \in Scanned
    OBVIOUS
  <2>2. n + 1 \in 1 .. most /\ n <= most /\ (n + 1) - 1 = n
    BY <2>1
  <2>3. Behind(b, offset) \in Cells /\ RecordIn(b, offset) \in Seq(Nat)
    BY RecordInType
  <2>4. t[n][Behind(b, offset)] \in Scanned
    BY <1>16, <2>2, <2>3
  <2>5. CASE Behind(b, offset) = end
    BY <1>2, <1>14, <2>2, <2>3, <2>5 DEF LoopsOver
  <2>6. CASE Behind(b, offset) # end
    <3>1. t[n + 1][offset] = [t[n][Behind(b, offset)] EXCEPT !.records = <<RecordIn(b, offset)>> \o @]
      <4>1. \A k \in 1 .. most, o \in Cells :
              Behind(b, o) # end =>
                t[k][o] = [t[k - 1][Behind(b, o)] EXCEPT !.records = <<RecordIn(b, o)>> \o @]
        BY <1>14 DEF LoopsOver
      <4>2. t[n + 1][offset] = [t[(n + 1) - 1][Behind(b, offset)]
                                  EXCEPT !.records = <<RecordIn(b, offset)>> \o @]
        BY <2>2, <2>6, <4>1, Zenon
      <4>3. QED
        BY <2>2, <4>2, Zenon
    <3>2. QED
      BY <1>1, <2>3, <2>4, <3>1
  <2>7. QED
    BY <2>5, <2>6
<1>17. Nat \subseteq Typed
  <2> HIDE DEF Typed
  <2>1. QED
    BY <1>15, <1>16, Induction
<1>18. t \in [0 .. most -> [Cells -> Scanned]]
  <2>1. \A n \in 0 .. most, offset \in Cells : t[n][offset] \in Scanned
    BY <1>17
  <2>2. \A n \in 0 .. most : DOMAIN t[n] = Cells /\ t[n] = [offset \in DOMAIN t[n] |-> t[n][offset]]
    BY <1>11
  <2>3. DOMAIN t = 0 .. most /\ t = [n \in DOMAIN t |-> t[n]]
    BY <1>11
  <2>4. \A n \in 0 .. most : t[n] \in [Cells -> Scanned]
    BY <2>1, <2>2
  <2>5. QED
    BY <2>3, <2>4
<1>19. QED
  BY <1>12, <1>14, <1>18
------------------------------------------------------------------------------
(* The ring.  What lies between its offsets is the list of the records put in *)
(* and not read yet, each with its length in front.                           *)

Framed(frames) == \A i \in 1 .. Len(frames) : Len(frames[i]) = 1 + frames[i][1]

\* A record without its length, and the records of a ring.
Content(frame) == [j \in 1 .. Len(frame) - 1 |-> frame[j + 1]]
Contents(frames) == [i \in 1 .. Len(frames) |-> Content(frames[i])]

\* The offset after so many words.
OffsetAt(from, p) == (from + p) % Size

\* A full ring and an empty one have the same offsets and differ in the flag.
RingHolds(b, from, end, full, frames, cut) ==
  /\ b \in Buffers /\ from \in Cells /\ end \in Cells /\ full \in BOOLEAN
  /\ Laid(Size, b, from, frames, cut)
  /\ Framed(frames)
  /\ cut[Len(frames)] <= Size
  /\ end = OffsetAt(from, cut[Len(frames)])
  /\ Len(frames) = 0 <=> from = end /\ ~full

LEMMA RingFacts ==
  ASSUME NEW b, NEW from, NEW end, NEW full, NEW frames, NEW cut,
         RingHolds(b, from, end, full, frames, cut), NEW N, N = Len(frames)
  PROVE  /\ N \in Nat /\ frames \in Seq(Seq(Nat))
         /\ \A i \in 0 .. N : cut[i] \in Nat
         /\ \A i \in 1 .. N : frames[i] \in Seq(Nat) /\ Len(frames[i]) >= 1
         /\ cut[0] = 0 /\ cut[N] <= Size
         /\ \A i, j \in 0 .. N : i < j => cut[i] < cut[j]
         /\ N <= cut[N]
         /\ from \in 0 .. Size - 1 /\ Size \in Nat \ {0}
         /\ Laid(Size, b, from, frames, cut)
<1>1. Laid(Size, b, from, frames, cut) /\ cut[N] <= Size /\ from \in Cells
  BY DEF RingHolds
<1>2. /\ frames \in Seq(Seq(Nat)) /\ cut \in [0 .. N -> Nat] /\ cut[0] = 0
      /\ \A i \in 1 .. N : Len(frames[i]) >= 1
  BY <1>1 DEF Laid
<1>3. from \in 0 .. Size - 1 /\ Size \in Nat \ {0}
  BY <1>1, FtraceAssumption DEF Cells
<1>4. (\A i, j \in 0 .. N : i < j => cut[i] < cut[j]) /\ N <= cut[N]
  BY <1>1, CutsGrow
<1>5. N \in Nat /\ \A i \in 1 .. N : frames[i] \in Seq(Nat)
  BY <1>2
<1>6. QED
  BY <1>1, <1>2, <1>3, <1>4, <1>5

LEMMA ContentsType ==
  ASSUME NEW frames \in Seq(Seq(Nat)), \A i \in 1 .. Len(frames) : Len(frames[i]) >= 1
  PROVE  /\ Contents(frames) \in Seq(Seq(Nat))
         /\ Len(Contents(frames)) = Len(frames)
         /\ \A i \in 1 .. Len(frames) : Contents(frames)[i] = Content(frames[i])
<1>1. ASSUME NEW w \in Seq(Nat), Len(w) >= 1
      PROVE  Content(w) \in Seq(Nat)
  <2>1. \A j \in 1 .. Len(w) - 1 : w[j + 1] \in Nat
    BY <1>1
  <2>2. QED
    BY <1>1, <2>1 DEF Content
<1>2. \A i \in 1 .. Len(frames) : Content(frames[i]) \in Seq(Nat)
  BY <1>1
<1>3. QED
  BY <1>2 DEF Contents

\* Offsets that lie between the ends of the ring are not the last one, which may
\* be the first again.
LEMMA PlacesApart ==
  ASSUME NEW from \in 0 .. Size - 1, NEW p \in Nat, NEW q \in Nat, 0 < p, p < q, q <= Size
  PROVE  OffsetAt(from, p) # OffsetAt(from, q)
<1>0. Size \in Nat \ {0}
  BY FtraceAssumption
<1>1. CASE q < Size
  BY <1>0, <1>1, PlacesDiffer DEF OffsetAt
<1>2. CASE q = Size
  <2>1. (from + 0) % Size # (from + p) % Size
    BY <1>0, <1>2, PlacesDiffer
  <2>2. (from + Size) % Size = from /\ (from + 0) % Size = from
    BY <1>0
  <2>3. QED
    BY <1>2, <2>1, <2>2 DEF OffsetAt
<1>3. QED
  BY <1>0, <1>1, <1>2

\* What the layout says of one offset: the scan goes from cut to cut.
LEMMA RecordIsThere ==
  ASSUME NEW b, NEW from, NEW end, NEW full, NEW frames, NEW cut,
         RingHolds(b, from, end, full, frames, cut), NEW i \in 0 .. Len(frames) - 1
  PROVE  /\ OffsetAt(from, cut[i]) \in Cells
         /\ RecordIn(b, OffsetAt(from, cut[i])) = Content(frames[i + 1])
         /\ Behind(b, OffsetAt(from, cut[i])) = OffsetAt(from, cut[i + 1])
         /\ OffsetAt(from, cut[i + 1]) = end <=> i + 1 = Len(frames)
<1>0. PICK N : N = Len(frames)
  OBVIOUS
<1>1. /\ N \in Nat /\ \A k \in 0 .. N : cut[k] \in Nat
      /\ cut[0] = 0 /\ cut[N] <= Size
      /\ \A k, j \in 0 .. N : k < j => cut[k] < cut[j]
      /\ from \in 0 .. Size - 1 /\ Size \in Nat \ {0}
      /\ Laid(Size, b, from, frames, cut)
  BY <1>0, RingFacts
<1>2. i \in 0 .. N /\ i + 1 \in 1 .. N /\ i + 1 \in 0 .. N /\ N \in 0 .. N /\ 0 \in 0 .. N /\ 0 < i + 1
  BY <1>0, <1>1
<1> DEFINE w == frames[i + 1]
           at == OffsetAt(from, cut[i])
<1>3. /\ IsFound(Size, b, at, w, OffsetAt(from, cut[i + 1]))
      /\ w \in Seq(Nat) /\ Len(w) >= 1
  BY <1>0, <1>1, RecordIsFound DEF OffsetAt
<1>4. Len(w) = 1 + w[1]
  BY <1>0, <1>2 DEF RingHolds, Framed
<1> HIDE DEF w, at
<1>5. at \in Cells /\ at \in Nat
  BY <1>3 DEF IsFound, Cells
<1>6. b[at] = Len(w) - 1
  <2>1. b[at] = w[1] /\ 1 \in 1 .. Len(w)
    BY <1>3 DEF IsFound
  <2>2. w[1] \in Nat
    BY <1>3, <2>1
  <2>3. QED
    BY <1>3, <1>4, <2>1, <2>2
<1>7. RecordIn(b, at) = Content(w)
  <2>1. ASSUME NEW j \in 1 .. Len(w) - 1
        PROVE  b[(at + j) % Size] = w[j + 1]
    <3>1. j + 1 \in 1 .. Len(w) /\ at + ((j + 1) - 1) = at + j
      BY <1>3, <1>5
    <3>2. b[(at + ((j + 1) - 1)) % Size] = w[j + 1]
      BY <1>3, <3>1 DEF IsFound
    <3>3. QED
      BY <3>1, <3>2
  <2>2. QED
    BY <1>6, <2>1 DEF RecordIn, Content
<1>8. Behind(b, at) = OffsetAt(from, cut[i + 1])
  <2>1. Len(Content(w)) = Len(w) - 1
    BY <1>3 DEF Content
  <2>2. at + 1 + Len(RecordIn(b, at)) = at + Len(w)
    BY <1>3, <1>5, <1>7, <2>1
  <2>3. (at + Len(w)) % Size = OffsetAt(from, cut[i + 1])
    BY <1>3 DEF IsFound
  <2>4. QED
    BY <2>2, <2>3 DEF Behind
<1>9. OffsetAt(from, cut[i + 1]) = end <=> i + 1 = N
  <2>1. end = OffsetAt(from, cut[N])
    BY <1>0 DEF RingHolds
  <2>2. CASE i + 1 # N
    <3>1. i + 1 < N
      BY <1>1, <1>2, <2>2
    <3>2. PICK p \in Nat : p = cut[i + 1]
      BY <1>1, <1>2
    <3>3. PICK q \in Nat : q = cut[N]
      BY <1>1, <1>2
    <3>4. cut[0] < cut[i + 1] /\ cut[i + 1] < cut[N]
      BY <1>1, <1>2, <3>1
    <3>5. 0 < p /\ p < q /\ q <= Size
      BY <1>1, <3>2, <3>3, <3>4
    <3>6. OffsetAt(from, p) # OffsetAt(from, q)
      BY <1>1, <3>5, PlacesApart
    <3>7. QED
      BY <2>1, <2>2, <3>2, <3>3, <3>6
  <2>3. QED
    BY <2>1, <2>2
<1>10. QED
  BY <1>0, <1>5, <1>7, <1>8, <1>9 DEF at, w

\* What the scan gives from record i + 1 on.
Rest(from, frames, cut, i, n) ==
  LET k == IF i + n <= Len(frames) THEN i + n ELSE Len(frames)
  IN  [offset |-> OffsetAt(from, cut[k]), records |-> SubSeq(Contents(frames), i + 1, k),
       met |-> i + n >= Len(frames)]

LEMMA RecordsReplaced ==
  ASSUME NEW x \in Scanned, NEW records
  PROVE  [x EXCEPT !.records = records] = [offset |-> x.offset, records |-> records, met |-> x.met]
BY DEF Scanned

\* The loop of read_ftrace takes the oldest records, as many as it is asked for
\* or all there are, and notices when the one it took is the last.
LEMMA TakeIsPrefix ==
  ASSUME NEW b, NEW from, NEW end, NEW full, NEW frames, NEW cut,
         RingHolds(b, from, end, full, frames, cut), frames # <<>>, NEW most \in Nat
  PROVE  TakeIn(b, end, from, most) = Rest(from, frames, cut, 0, most)
<1>0. PICK N : N = Len(frames)
  OBVIOUS
<1>1. /\ N \in Nat /\ \A k \in 0 .. N : cut[k] \in Nat
      /\ cut[0] = 0 /\ frames \in Seq(Seq(Nat))
      /\ \A k \in 1 .. N : Len(frames[k]) >= 1
      /\ from \in 0 .. Size - 1 /\ Size \in Nat \ {0}
  BY <1>0, RingFacts
<1>2. N >= 1
  BY <1>0, <1>1
<1>3. PICK recs : recs = Contents(frames)
  OBVIOUS
<1>4. /\ recs \in Seq(Seq(Nat)) /\ Len(recs) = N
      /\ \A k \in 1 .. N : recs[k] = Content(frames[k])
  BY <1>0, <1>1, <1>3, ContentsType
<1>5. b \in Buffers /\ end \in Cells /\ from \in Cells
  BY DEF RingHolds
<1>6. PICK t \in [0 .. most -> [Cells -> Scanned]] :
        LoopsOver(t, b, end, most) /\ TakeIn(b, end, from, most) = t[most][from]
  BY <1>5, TakeLoops
<1> DEFINE Comes(i, n) ==
             [offset |-> OffsetAt(from, cut[IF i + n <= N THEN i + n ELSE N]),
              records |-> SubSeq(recs, i + 1, IF i + n <= N THEN i + n ELSE N),
              met |-> i + n >= N]
           Good == {n \in Nat : n <= most =>
                      \A i \in 0 .. N - 1 : t[n][OffsetAt(from, cut[i])] = Comes(i, n)}
<1>7. ASSUME NEW i \in 0 .. N - 1
      PROVE  /\ OffsetAt(from, cut[i]) \in Cells
             /\ RecordIn(b, OffsetAt(from, cut[i])) = recs[i + 1]
             /\ Behind(b, OffsetAt(from, cut[i])) = OffsetAt(from, cut[i + 1])
             /\ OffsetAt(from, cut[i + 1]) = end <=> i + 1 = N
  <2>1. i + 1 \in 1 .. N
    BY <1>1
  <2>2. QED
    BY <1>0, <1>4, <2>1, RecordIsThere
<1>8. 0 \in Good
  <2>1. ASSUME NEW i \in 0 .. N - 1
        PROVE  t[0][OffsetAt(from, cut[i])] = Comes(i, 0)
    <3>1. t[0][OffsetAt(from, cut[i])] = [offset |-> OffsetAt(from, cut[i]), records |-> <<>>, met |-> FALSE]
      BY <1>6, <1>7 DEF LoopsOver
    <3>2. SubSeq(recs, i + 1, i) = <<>>
      BY <1>4, SubSeqEmpty
    <3>3. i + 0 <= N /\ i + 0 = i /\ (i + 0 >= N) = FALSE
      BY <1>1
    <3>4. Comes(i, 0) = [offset |-> OffsetAt(from, cut[i]), records |-> SubSeq(recs, i + 1, i), met |-> FALSE]
      BY <3>3
    <3> HIDE DEF Comes
    <3>5. QED
      BY <3>1, <3>2, <3>4
  <2>2. QED
    BY <2>1
<1>9. ASSUME NEW n \in Nat, n \in Good
      PROVE  n + 1 \in Good
  <2>1. SUFFICES ASSUME n + 1 <= most, NEW i \in 0 .. N - 1
                 PROVE  t[n + 1][OffsetAt(from, cut[i])] = Comes(i, n + 1)
    <3> HIDE DEF Comes
    <3>1. QED
      OBVIOUS
  <2>2. n <= most /\ n + 1 \in 1 .. most /\ n \in 0 .. most /\ (n + 1) - 1 = n
    BY <2>1
  <2> DEFINE o == OffsetAt(from, cut[i])
             k == IF i + (n + 1) <= N THEN i + (n + 1) ELSE N
  <2>3. o \in Cells /\ RecordIn(b, o) = recs[i + 1] /\ Behind(b, o) = OffsetAt(from, cut[i + 1])
    BY <1>7
  <2>4. Comes(i, n + 1) = [offset |-> OffsetAt(from, cut[k]), records |-> SubSeq(recs, i + 1, k),
                           met |-> i + (n + 1) >= N]
    OBVIOUS
  <2>5. CASE i + 1 = N
    <3>1. k = N /\ (i + (n + 1) >= N) = TRUE /\ N \in 1 .. N
      BY <1>1, <1>2, <2>5
    <3>2. Behind(b, o) = end /\ OffsetAt(from, cut[N]) = end
      BY <1>7, <2>3, <2>5
    <3>a. recs[N] = recs[i + 1]
      BY <2>5
    <3> HIDE DEF o, k, Comes
    <3>3. t[n + 1][o] = [offset |-> end, records |-> <<recs[N]>>, met |-> TRUE]
      <4>1. \A m \in 1 .. most, x \in Cells :
              Behind(b, x) = end =>
                t[m][x] = [offset |-> end, records |-> <<RecordIn(b, x)>>, met |-> TRUE]
        BY <1>6 DEF LoopsOver
      <4>2. t[n + 1][o] = [offset |-> end, records |-> <<RecordIn(b, o)>>, met |-> TRUE]
        BY <2>2, <2>3, <3>2, <4>1, Zenon
      <4>3. QED
        BY <2>3, <3>a, <4>2, Zenon
    <3>4. SubSeq(recs, N, N) = <<recs[N]>>
      <4>1. SubSeq(recs, N, N) = <<recs[N]>> \o SubSeq(recs, N + 1, N)
        <5>1. N \in 1 .. Len(recs) /\ N \in N .. Len(recs)
          BY <1>1, <1>2, <1>4
        <5>2. QED
          BY <1>4, <5>1, SubSeqRecursiveFirst
      <4>2. SubSeq(recs, N + 1, N) = <<>>
        BY <1>1, <1>4, SubSeqEmpty
      <4>3. <<recs[N]>> \o <<>> = <<recs[N]>>
        OBVIOUS
      <4>4. QED
        BY <4>1, <4>2, <4>3
    <3>5. Comes(i, n + 1) = [offset |-> end, records |-> <<recs[N]>>, met |-> TRUE]
      BY <2>4, <2>5, <3>1, <3>2, <3>4
    <3>6. QED
      BY <3>3, <3>5 DEF o
  <2>6. CASE i + 1 # N
    <3>1. /\ i + 1 \in 0 .. N - 1 /\ i + 1 \in 1 .. N /\ (i + 1) + n = i + (n + 1)
          /\ k \in i + 1 .. N
      BY <1>1, <2>6
    <3>2. Behind(b, o) # end
      BY <1>7, <2>3, <2>6
    <3>3. t[n][OffsetAt(from, cut[i + 1])] = Comes(i + 1, n)
      <4> HIDE DEF Comes
      <4>1. \A j \in 0 .. N - 1 : t[n][OffsetAt(from, cut[j])] = Comes(j, n)
        BY <1>9, <2>2
      <4>2. QED
        BY <3>1, <4>1, Zenon
    <3> DEFINE a == OffsetAt(from, cut[k])
               rest == SubSeq(recs, (i + 1) + 1, k)
               c == i + (n + 1) >= N
               d == <<recs[i + 1]>>
    <3>4. Comes(i + 1, n) = [offset |-> a, records |-> rest, met |-> c]
      BY <3>1
    <3>5. SubSeq(recs, i + 1, k) = d \o rest
      <4> HIDE DEF k
      <4>1. QED
        BY <1>4, <3>1, SubSeqRecursiveFirst
    <3> HIDE DEF Comes, a, rest, c, d, k, o
    <3>6. t[n + 1][o] = [t[n][Behind(b, o)] EXCEPT !.records = <<RecordIn(b, o)>> \o @]
      <4>1. \A m \in 1 .. most, x \in Cells :
              Behind(b, x) # end =>
                t[m][x] = [t[m - 1][Behind(b, x)] EXCEPT !.records = <<RecordIn(b, x)>> \o @]
        BY <1>6 DEF LoopsOver
      <4>2. t[n + 1][o] = [t[(n + 1) - 1][Behind(b, o)] EXCEPT !.records = <<RecordIn(b, o)>> \o @]
        BY <2>2, <2>3, <3>2, <4>1, Zenon
      <4>3. QED
        BY <2>2, <4>2, Zenon
    <3>7. PICK x \in Scanned : x = t[n][Behind(b, o)]
      <4>1. Behind(b, o) \in Cells
        BY <1>7, <2>3, <3>1
      <4>2. QED
        BY <1>6, <2>2, <4>1
    <3>8. x.offset = a /\ x.records = rest /\ x.met = c
      BY <2>3, <3>3, <3>4, <3>7
    <3>9. [x EXCEPT !.records = d \o @] = [offset |-> x.offset, records |-> d \o x.records, met |-> x.met]
      BY <3>7, RecordsReplaced
    <3>10. t[n + 1][o] = [offset |-> a, records |-> d \o rest, met |-> c]
      BY <2>3, <3>6, <3>7, <3>8, <3>9, Zenon DEF d
    <3>11. Comes(i, n + 1) = [offset |-> a, records |-> d \o rest, met |-> c]
      BY <2>4, <3>5, Zenon DEF a, c
    <3>12. QED
      BY <3>10, <3>11, Zenon DEF o
  <2>7. QED
    BY <2>5, <2>6
<1>10. Nat \subseteq Good
  <2> HIDE DEF Good
  <2>1. QED
    BY <1>8, <1>9, Induction
<1>11. t[most][OffsetAt(from, cut[0])] = Comes(0, most)
  <2>1. 0 \in 0 .. N - 1 /\ most \in Good /\ most <= most
    BY <1>1, <1>2, <1>10
  <2> HIDE DEF Comes
  <2>2. \A j \in 0 .. N - 1 : t[most][OffsetAt(from, cut[j])] = Comes(j, most)
    BY <2>1
  <2>3. QED
    BY <2>1, <2>2, Zenon
<1>12. OffsetAt(from, cut[0]) = from
  <2>1. from \in 0 .. Size - 1 /\ Size \in Nat \ {0}
    BY <1>1
  <2>2. from + 0 = from /\ from \in 0 .. 2 * Size - 1 /\ Around(from, Size) = from
    BY <2>1 DEF Around
  <2>3. from % Size = from
    BY <2>1, <2>2, ModIsAround
  <2>4. QED
    BY <1>1, <2>2, <2>3 DEF OffsetAt
<1>13. Rest(from, frames, cut, 0, most) = Comes(0, most)
  BY <1>0, <1>3 DEF Rest
<1>14. QED
  BY <1>6, <1>11, <1>12, <1>13, Zenon
------------------------------------------------------------------------------
\* A ring whose offsets meet is empty or full to the last word.
LEMMA EndsMeet ==
  ASSUME NEW b, NEW from, NEW end, NEW full, NEW frames, NEW cut,
         RingHolds(b, from, end, full, frames, cut), NEW u, u = cut[Len(frames)]
  PROVE  /\ u \in 0 .. Size
         /\ frames = <<>> <=> u = 0
         /\ from = end <=> u \in {0, Size}
         /\ end = (from + u) % Size
<1>0. PICK N : N = Len(frames)
  OBVIOUS
<1>1. /\ N \in Nat /\ frames \in Seq(Seq(Nat))
      /\ \A k \in 0 .. N : cut[k] \in Nat
      /\ cut[0] = 0 /\ cut[N] <= Size /\ N <= cut[N]
      /\ from \in 0 .. Size - 1 /\ Size \in Nat \ {0}
  BY <1>0, RingFacts
<1>2. N \in 0 .. N /\ u = cut[N]
  BY <1>0, <1>1
<1>3. u \in Nat /\ u <= Size /\ N <= u
  BY <1>1, <1>2
<1>4. end = (from + u) % Size
  BY DEF RingHolds, OffsetAt
<1>5. frames = <<>> <=> N = 0
  BY <1>0, <1>1
<1>6. N = 0 => u = 0
  BY <1>1, <1>2
<1>7. from = end <=> u \in {0, Size}
  <2>1. from + u \in 0 .. 2 * Size - 1
    BY <1>1, <1>3
  <2>2. end = Around(from + u, Size)
    BY <1>1, <1>4, <2>1, ModIsAround
  <2>3. from \in Nat /\ from < Size /\ Size \in Nat
    BY <1>1
  <2>4. end = IF from + u < Size THEN from + u ELSE (from + u) - Size
    BY <2>2 DEF Around
  <2>5. from = end <=> u = 0 \/ u = Size
    BY <1>3, <2>3, <2>4
  <2>6. QED
    BY <2>5
<1>8. QED
  BY <1>1, <1>3, <1>4, <1>5, <1>6, <1>7

\* The flag tells the empty ring from the full one.
LEMMA FlagTells ==
  ASSUME NEW b, NEW from, NEW end, NEW full, NEW frames, NEW cut,
         RingHolds(b, from, end, full, frames, cut), NEW u, u = cut[Len(frames)]
  PROVE  /\ frames = <<>> <=> from = end /\ ~full
         /\ u = Size <=> from = end /\ full
<1>1. /\ u \in 0 .. Size
      /\ frames = <<>> <=> u = 0
      /\ from = end <=> u \in {0, Size}
  BY EndsMeet
<1>2. frames = <<>> <=> from = end /\ ~full
  <2>1. Len(frames) = 0 <=> from = end /\ ~full
    BY DEF RingHolds
  <2>2. frames \in Seq(Seq(Nat))
    BY RingFacts
  <2>3. QED
    BY <2>1, <2>2
<1>3. QED
  BY <1>1, <1>2, FtraceAssumption

\* The room is what the records leave of the ring.
LEMMA RoomIs ==
  ASSUME NEW frames, NEW cut, NEW u,
         RingHolds(buffer, readOffset, writeOffset, isFull, frames, cut), u = cut[Len(frames)]
  PROVE  Room = Size - u
<1>1. /\ u \in 0 .. Size
      /\ readOffset = writeOffset <=> u \in {0, Size}
      /\ writeOffset = (readOffset + u) % Size
      /\ u = Size <=> readOffset = writeOffset /\ isFull
      /\ Size \in Nat \ {0} /\ readOffset \in 0 .. Size - 1
  <2>1. u = Size <=> readOffset = writeOffset /\ isFull
    BY FlagTells
  <2>2. /\ u \in 0 .. Size
        /\ readOffset = writeOffset <=> u \in {0, Size}
        /\ writeOffset = (readOffset + u) % Size
    BY EndsMeet
  <2>3. Size \in Nat \ {0} /\ readOffset \in 0 .. Size - 1
    BY RingFacts
  <2>4. QED
    BY <2>1, <2>2, <2>3
<1>2. CASE readOffset = writeOffset
  <2>1. CASE isFull
    BY <1>1, <1>2, <2>1 DEF Room
  <2>2. CASE ~isFull
    <3>1. u = 0 /\ Size - 0 = Size
      BY <1>1, <1>2, <2>2
    <3>2. QED
      BY <1>2, <2>2, <3>1 DEF Room
  <2>3. QED
    BY <2>1, <2>2
<1>3. CASE readOffset # writeOffset
  <2>1. 0 \in 0 .. Size - 1 /\ u \in 0 .. Size /\ u # 0
    BY <1>1, <1>3
  <2>2. (Size + ((readOffset + 0) % Size) - ((readOffset + u) % Size)) % Size = Around(Size + 0 - u, Size)
    BY <1>1, <2>1, WayBack
  <2>3. (readOffset + 0) % Size = readOffset
    <3>1. readOffset + 0 \in 0 .. 2 * Size - 1 /\ Around(readOffset + 0, Size) = readOffset
      BY <1>1 DEF Around
    <3>2. QED
      BY <1>1, <3>1, ModIsAround
  <2>4. Around(Size + 0 - u, Size) = Size - u
    <3>1. Size + 0 - u < Size /\ Size + 0 - u = Size - u
      BY <1>1, <2>1
    <3>2. QED
      BY <3>1 DEF Around
  <2>5. Distance(writeOffset, readOffset) = Size - u
    BY <1>1, <2>2, <2>3, <2>4 DEF Distance
  <2>6. QED
    BY <1>3, <2>5 DEF Room
<1>4. QED
  BY <1>2, <1>3

\* What read_ftrace would find if it asked for all is what is in the ring.
LEMMA LogIsHeld ==
  ASSUME NEW b, NEW from, NEW end, NEW full, NEW frames, NEW cut,
         RingHolds(b, from, end, full, frames, cut), frames # <<>>
  PROVE  TakeIn(b, end, from, Size).records = Contents(frames)
<1>0. PICK N : N = Len(frames)
  OBVIOUS
<1>1. /\ N \in Nat /\ frames \in Seq(Seq(Nat))
      /\ \A k \in 0 .. N : cut[k] \in Nat
      /\ \A k \in 1 .. N : Len(frames[k]) >= 1
      /\ cut[N] <= Size /\ N <= cut[N] /\ Size \in Nat
  BY <1>0, RingFacts
<1>2. N <= Size
  <2>1. N \in 0 .. N
    BY <1>1
  <2>2. cut[N] \in Nat
    BY <1>1, <2>1
  <2>3. QED
    BY <1>1, <2>2
<1>3. TakeIn(b, end, from, Size) = Rest(from, frames, cut, 0, Size)
  BY <1>1, TakeIsPrefix
<1>4. (IF 0 + Size <= N THEN 0 + Size ELSE N) = N /\ 0 + 1 = 1
  BY <1>1, <1>2
<1>5. Rest(from, frames, cut, 0, Size).records = SubSeq(Contents(frames), 1, N)
  BY <1>0, <1>4 DEF Rest
<1>6. PICK recs : recs = Contents(frames)
  OBVIOUS
<1>7. recs \in Seq(Seq(Nat)) /\ Len(recs) = N
  BY <1>0, <1>1, <1>6, ContentsType
<1>8. SubSeq(recs, 1, N) = recs
  BY <1>7
<1>9. QED
  BY <1>3, <1>5, <1>6, <1>8

\* The words the records take, each with the one for its length.
LEMMA HeldIs ==
  ASSUME NEW b, NEW from, NEW end, NEW full, NEW frames, NEW cut,
         RingHolds(b, from, end, full, frames, cut)
  PROVE  SumFunction([i \in DOMAIN Contents(frames) |-> Len(Contents(frames)[i]) + 1]) = cut[Len(frames)]
<1>0. PICK N : N = Len(frames)
  OBVIOUS
<1>1. /\ N \in Nat /\ frames \in Seq(Seq(Nat))
      /\ \A k \in 0 .. N : cut[k] \in Nat
      /\ \A k \in 1 .. N : Len(frames[k]) >= 1 /\ frames[k] \in Seq(Nat)
      /\ cut[0] = 0
      /\ Laid(Size, b, from, frames, cut)
  BY <1>0, RingFacts
<1>2. PICK recs : recs = Contents(frames)
  OBVIOUS
<1>3. /\ recs \in Seq(Seq(Nat)) /\ Len(recs) = N
      /\ \A k \in 1 .. N : recs[k] = Content(frames[k])
  BY <1>0, <1>1, <1>2, ContentsType
<1>4. PICK f : f = [i \in DOMAIN recs |-> Len(recs[i]) + 1]
  OBVIOUS
<1>5. f \in [1 .. N -> Int] /\ \A k \in 1 .. N : f[k] = Len(frames[k])
  <2>1. ASSUME NEW k \in 1 .. N
        PROVE  Len(recs[k]) + 1 = Len(frames[k]) /\ Len(frames[k]) \in Int
    <3>1. PICK w \in Seq(Nat) : w = frames[k] /\ Len(w) >= 1
      BY <1>1
    <3>2. Len(Content(w)) = Len(w) - 1
      BY <3>1 DEF Content
    <3>3. QED
      BY <1>3, <3>1, <3>2
  <2>2. DOMAIN recs = 1 .. N
    BY <1>1, <1>3
  <2>3. QED
    BY <1>4, <2>1, <2>2
<1>6. \A k \in 1 .. N : cut[k] = cut[k - 1] + f[k]
  BY <1>0, <1>1, <1>5 DEF Laid
<1>7. IsFiniteSet(1 .. N)
  BY <1>1, FS_Interval
<1>8. /\ SumFunctionOnSet(f, {}) = 0
      /\ \A S \in SUBSET (1 .. N), x \in 1 .. N : x \in S =>
           SumFunctionOnSet(f, S) = f[x] + SumFunctionOnSet(f, S \ {x})
  <2>1. PICK D : D = 1 .. N
    OBVIOUS
  <2>2. IsFiniteSet(D) /\ f \in [D -> Int]
    BY <1>5, <1>7, <2>1
  <2>3. /\ SumFunctionOnSet(f, {}) = 0
        /\ \A S \in SUBSET D, x \in D : x \in S =>
             SumFunctionOnSet(f, S) = f[x] + SumFunctionOnSet(f, S \ {x})
    BY <2>2, SumRules
  <2>4. QED
    BY <2>1, <2>3
<1> DEFINE Good == {n \in Nat : n <= N => SumFunctionOnSet(f, 1 .. n) = cut[n]}
<1>9. 0 \in Good
  <2>1. 1 .. 0 = {}
    OBVIOUS
  <2>2. QED
    BY <1>1, <1>8, <2>1
<1>10. ASSUME NEW n \in Nat, n \in Good
       PROVE  n + 1 \in Good
  <2>1. SUFFICES ASSUME n + 1 <= N
                 PROVE  SumFunctionOnSet(f, 1 .. n + 1) = cut[n + 1]
    OBVIOUS
  <2>2. n + 1 \in 1 .. N /\ n + 1 \in 1 .. n + 1 /\ 1 .. n + 1 \in SUBSET (1 .. N)
        /\ (n + 1) - 1 = n /\ n <= N
    BY <1>1, <2>1
  <2>3. (1 .. n + 1) \ {n + 1} = 1 .. n
    OBVIOUS
  <2>4. SumFunctionOnSet(f, 1 .. n + 1) = f[n + 1] + SumFunctionOnSet(f, (1 .. n + 1) \ {n + 1})
    BY <1>8, <2>2, Zenon
  <2>5. SumFunctionOnSet(f, 1 .. n) = cut[n]
    BY <1>10, <2>2
  <2>6. cut[n + 1] = cut[n] + f[n + 1]
    BY <1>6, <2>2
  <2>7. f[n + 1] \in Int /\ cut[n] \in Int
    BY <1>1, <1>5, <2>2
  <2>8. PICK s : s = SumFunctionOnSet(f, 1 .. n + 1)
    OBVIOUS
  <2>9. s = f[n + 1] + cut[n]
    BY <2>3, <2>4, <2>5, <2>8, Zenon
  <2>10. QED
    BY <2>6, <2>7, <2>8, <2>9
<1>11. Nat \subseteq Good
  <2> HIDE DEF Good
  <2>1. QED
    BY <1>9, <1>10, Induction
<1>12. SumFunctionOnSet(f, 1 .. N) = cut[N]
  BY <1>1, <1>11
<1>13. SumFunction(f) = SumFunctionOnSet(f, DOMAIN f)
  BY DEF SumFunction
<1>14. DOMAIN f = 1 .. N
  BY <1>5
<1>15. QED
  BY <1>0, <1>2, <1>4, <1>12, <1>13, <1>14, Zenon
------------------------------------------------------------------------------
(* The records of a ring that is written or read *)

LEMMA FrameIs ==
  ASSUME NEW words \in Seq(Nat), NEW w, w = <<Len(words)>> \o words
  PROVE  /\ w \in Seq(Nat) /\ Len(w) = 1 + Len(words)
         /\ w[1] = Len(words)
         /\ Content(w) = words
<1>1. /\ w \in Seq(Nat) /\ Len(w) = 1 + Len(words)
      /\ w[1] = Len(words)
      /\ \A j \in 1 .. Len(words) : w[j + 1] = words[j]
  <2>1. <<Len(words)>> \in Seq(Nat) /\ Len(<<Len(words)>>) = 1
    OBVIOUS
  <2>2. w \in Seq(Nat) /\ Len(w) = 1 + Len(words)
    BY <2>1, ConcatProperties
  <2>3. \A j \in 1 .. 1 + Len(words) : w[j] = IF j <= 1 THEN <<Len(words)>>[j] ELSE words[j - 1]
    BY <2>1, ConcatProperties
  <2>4. ASSUME NEW j \in 1 .. Len(words)
        PROVE  w[j + 1] = words[j]
    <3>1. j + 1 \in 1 .. 1 + Len(words) /\ ~(j + 1 <= 1) /\ (j + 1) - 1 = j
      OBVIOUS
    <3>2. w[j + 1] = words[(j + 1) - 1]
      BY <2>3, <3>1
    <3>3. QED
      BY <3>1, <3>2
  <2>5. w[1] = Len(words)
    <3>1. 1 \in 1 .. 1 + Len(words) /\ 1 <= 1
      OBVIOUS
    <3>2. QED
      BY <2>3, <3>1
  <2>6. QED
    BY <2>2, <2>4, <2>5
<1>2. Len(w) - 1 = Len(words)
  BY <1>1
<1>3. Content(w) = [j \in 1 .. Len(words) |-> words[j]]
  BY <1>1, <1>2 DEF Content
<1>4. words = [j \in 1 .. Len(words) |-> words[j]]
  <2>1. DOMAIN words = 1 .. Len(words) /\ words = [j \in DOMAIN words |-> words[j]]
    OBVIOUS
  <2>2. QED
    BY <2>1, Zenon
<1>5. QED
  BY <1>1, <1>3, <1>4, Zenon

LEMMA ContentsAppend ==
  ASSUME NEW frames \in Seq(Seq(Nat)), \A i \in 1 .. Len(frames) : Len(frames[i]) >= 1,
         NEW w \in Seq(Nat), Len(w) >= 1
  PROVE  Contents(Append(frames, w)) = Append(Contents(frames), Content(w))
<1>0. PICK N : N = Len(frames)
  OBVIOUS
<1>1. PICK all : all = Append(frames, w)
  OBVIOUS
<1>2. /\ N \in Nat /\ all \in Seq(Seq(Nat)) /\ Len(all) = N + 1
      /\ \A i \in 1 .. N : all[i] = frames[i]
      /\ all[N + 1] = w
  BY <1>0, <1>1, AppendProperties
<1>3. \A i \in 1 .. N + 1 : Len(all[i]) >= 1
  <2>1. \A i \in 1 .. N + 1 : i \in 1 .. N \/ i = N + 1
    BY <1>2
  <2>2. QED
    BY <1>0, <1>2, <2>1
<1>4. PICK old : old = Contents(frames)
  OBVIOUS
<1>5. PICK new : new = Contents(all)
  OBVIOUS
<1>6. PICK c : c = Content(w)
  OBVIOUS
<1>7. old \in Seq(Seq(Nat)) /\ Len(old) = N /\ \A i \in 1 .. N : old[i] = Content(frames[i])
  BY <1>0, <1>4, ContentsType
<1>8. new \in Seq(Seq(Nat)) /\ Len(new) = N + 1 /\ \A i \in 1 .. N + 1 : new[i] = Content(all[i])
  BY <1>2, <1>3, <1>5, ContentsType
<1>9. \A i \in 1 .. N : i \in 1 .. N + 1
  BY <1>2
<1>10. N + 1 \in 1 .. N + 1
  BY <1>2
<1>11. (\A i \in 1 .. N : new[i] = old[i]) /\ new[N + 1] = c
  BY <1>2, <1>6, <1>7, <1>8, <1>9, <1>10
<1>12. c \in Seq(Nat)
  BY <1>8, <1>10, <1>11
<1>13. new = Append(old, c)
  BY <1>2, <1>7, <1>8, <1>11, <1>12
<1>14. QED
  BY <1>1, <1>4, <1>5, <1>6, <1>13

LEMMA ContentsRest ==
  ASSUME NEW frames \in Seq(Seq(Nat)), \A i \in 1 .. Len(frames) : Len(frames[i]) >= 1,
         NEW k \in 0 .. Len(frames)
  PROVE  Contents(SubSeq(frames, k + 1, Len(frames)))
           = SubSeq(Contents(frames), k + 1, Len(Contents(frames)))
<1>0. PICK N : N = Len(frames)
  OBVIOUS
<1>1. PICK rest : rest = SubSeq(frames, k + 1, N)
  OBVIOUS
<1>2. PICK recs : recs = Contents(frames)
  OBVIOUS
<1>3. /\ N \in Nat /\ rest \in Seq(Seq(Nat)) /\ Len(rest) = N - k
      /\ \A i \in 1 .. N - k : rest[i] = frames[k + i]
  BY <1>0, <1>1, RestOfList
<1>4. recs \in Seq(Seq(Nat)) /\ Len(recs) = N /\ \A i \in 1 .. N : recs[i] = Content(frames[i])
  BY <1>0, <1>2, ContentsType
<1>5. PICK left : left = SubSeq(recs, k + 1, N)
  OBVIOUS
<1>6. left \in Seq(Seq(Nat)) /\ Len(left) = N - k /\ \A i \in 1 .. N - k : left[i] = recs[k + i]
  BY <1>0, <1>4, <1>5, RestOfList
<1>7. \A i \in 1 .. N - k : k + i \in 1 .. N
  BY <1>0, <1>3
<1>8. PICK new : new = Contents(rest)
  OBVIOUS
<1>9. new \in Seq(Seq(Nat)) /\ Len(new) = N - k /\ \A i \in 1 .. N - k : new[i] = Content(rest[i])
  <2>1. \A i \in 1 .. Len(rest) : Len(rest[i]) >= 1
    BY <1>0, <1>3, <1>7
  <2>2. QED
    BY <1>3, <1>8, <2>1, ContentsType
<1>10. \A i \in 1 .. N - k : new[i] = left[i]
  BY <1>3, <1>4, <1>6, <1>7, <1>9
<1>11. new = left
  BY <1>6, <1>9, <1>10, SeqEqual
<1>12. QED
  BY <1>0, <1>1, <1>2, <1>4, <1>5, <1>8, <1>11

\* A record that has room is one more record behind the others.
LEMMA PutHolds ==
  ASSUME NEW b, NEW from, NEW end, NEW full, NEW frames, NEW cut,
         RingHolds(b, from, end, full, frames, cut),
         NEW w \in Seq(Nat), Len(w) = 1 + w[1], Len(w) >= 1, cut[Len(frames)] + Len(w) <= Size,
         NEW new \in Buffers, IsWritten(Size, new, b, end, w),
         NEW next, next = (end + Len(w)) % Size,
         NEW flag \in BOOLEAN, flag = IF next = from THEN TRUE ELSE full
  PROVE  RingHolds(new, from, next, flag, Append(frames, w), CutBehind(cut, Len(frames), Len(w)))
<1>0. PICK N : N = Len(frames)
  OBVIOUS
<1>1. /\ N \in Nat /\ frames \in Seq(Seq(Nat))
      /\ \A k \in 0 .. N : cut[k] \in Nat
      /\ from \in 0 .. Size - 1 /\ Size \in Nat \ {0}
      /\ Laid(Size, b, from, frames, cut)
  BY <1>0, RingFacts
<1>2. PICK u : u = cut[N]
  OBVIOUS
<1>3. u \in 0 .. Size /\ end = (from + u) % Size
  BY <1>0, <1>2, EndsMeet
<1>4. PICK n : n = Len(w)
  OBVIOUS
<1>5. n \in Nat /\ n >= 1 /\ u + n <= Size /\ u \in Nat
  BY <1>0, <1>2, <1>3, <1>4
<1>6. PICK all : all = Append(frames, w)
  OBVIOUS
<1>7. PICK cuts : cuts = CutBehind(cut, N, n)
  OBVIOUS
<1>8. Laid(Size, new, from, all, cuts)
  BY <1>0, <1>1, <1>2, <1>3, <1>4, <1>6, <1>7, LaidBehind
<1>9. /\ all \in Seq(Seq(Nat)) /\ Len(all) = N + 1
      /\ \A i \in 1 .. N : all[i] = frames[i]
      /\ all[N + 1] = w
  BY <1>0, <1>1, <1>6, AppendProperties
<1>10. cuts[N + 1] = u + n
  <2>1. N + 1 \in 0 .. N + 1
    BY <1>1
  <2>2. QED
    BY <1>2, <1>7, <2>1 DEF CutBehind
<1>11. Framed(all)
  <2>1. \A i \in 1 .. N + 1 : i \in 1 .. N \/ i = N + 1
    BY <1>1
  <2>2. \A i \in 1 .. N : Len(frames[i]) = 1 + frames[i][1]
    BY <1>0 DEF RingHolds, Framed
  <2>3. \A i \in 1 .. N + 1 : Len(all[i]) = 1 + all[i][1]
    BY <1>9, <2>1, <2>2
  <2>4. QED
    BY <1>9, <2>3 DEF Framed
<1>12. next = OffsetAt(from, u + n)
  <2>1. (((from + u) % Size) + n) % Size = (from + (u + n)) % Size
    BY <1>1, <1>5, AroundTwice
  <2>2. QED
    BY <1>3, <1>4, <2>1 DEF OffsetAt
<1>13. next \in Cells
  <2>1. from + (u + n) \in Nat
    BY <1>1, <1>5
  <2>2. QED
    BY <1>12, <2>1, ModType DEF OffsetAt
<1>14. from \in Cells
  BY DEF RingHolds
<1>15. Len(all) # 0 /\ ~(from = next /\ ~flag)
  <2>1. Len(all) # 0
    BY <1>1, <1>9
  <2>2. next = from => flag
    BY Zenon
  <2>3. QED
    BY <2>1, <2>2
<1>16. RingHolds(new, from, next, flag, all, cuts)
  BY <1>5, <1>8, <1>9, <1>10, <1>11, <1>12, <1>13, <1>14, <1>15 DEF RingHolds
<1>17. QED
  BY <1>0, <1>4, <1>6, <1>7, <1>16

\* What read_ftrace takes is the oldest records, and the others stay; when it has
\* met the end, nothing is left and the ring is no longer full.
LEMMA TakeHolds ==
  ASSUME NEW b, NEW from, NEW end, NEW full, NEW frames, NEW cut,
         RingHolds(b, from, end, full, frames, cut), frames # <<>>, NEW most \in Nat,
         NEW k, k = IF most <= Len(frames) THEN most ELSE Len(frames),
         NEW scan, scan = TakeIn(b, end, from, most),
         NEW flag \in BOOLEAN, scan.met => ~flag, ~scan.met => flag = full
  PROVE  /\ scan.records = SubSeq(Contents(frames), 1, k)
         /\ RingHolds(b, scan.offset, end, flag,
                      SubSeq(frames, k + 1, Len(frames)), CutOff(cut, Len(frames), k))
<1>0. PICK N : N = Len(frames)
  OBVIOUS
<1>1. /\ N \in Nat /\ frames \in Seq(Seq(Nat))
      /\ \A i \in 0 .. N : cut[i] \in Nat
      /\ cut[0] = 0 /\ cut[N] <= Size
      /\ \A i, j \in 0 .. N : i < j => cut[i] < cut[j]
      /\ from \in 0 .. Size - 1 /\ Size \in Nat \ {0}
      /\ Laid(Size, b, from, frames, cut)
  BY <1>0, RingFacts
<1>2. N # 0 /\ k \in 0 .. N /\ N \in 0 .. N
  BY <1>0, <1>1
<1>3. scan = [offset |-> OffsetAt(from, cut[k]), records |-> SubSeq(Contents(frames), 1, k),
              met |-> most >= N]
  <2>1. scan = Rest(from, frames, cut, 0, most)
    BY TakeIsPrefix
  <2>2. (IF 0 + most <= N THEN 0 + most ELSE N) = k /\ 0 + 1 = 1 /\ 0 + most = most
    BY <1>0, <1>1
  <2>3. QED
    BY <1>0, <2>1, <2>2 DEF Rest
<1>4. PICK u : u = cut[N]
  OBVIOUS
<1>5. PICK p : p = cut[k]
  OBVIOUS
<1>6. u \in Nat /\ p \in Nat /\ u <= Size
  BY <1>1, <1>2, <1>4, <1>5
<1>7. end = OffsetAt(from, u) /\ b \in Buffers /\ end \in Cells /\ full \in BOOLEAN
  BY <1>0, <1>4 DEF RingHolds
<1>8. PICK at : at = OffsetAt(from, p)
  OBVIOUS
<1>9. PICK met \in BOOLEAN : met = (most >= N)
  <2>1. (most >= N) \in BOOLEAN
    OBVIOUS
  <2>2. QED
    BY <2>1, Zenon
<1>10. scan.offset = at /\ scan.met = met /\ scan.records = SubSeq(Contents(frames), 1, k)
  BY <1>3, <1>5, <1>8, <1>9
<1>11. at \in Cells
  <2>1. from + p \in Nat
    BY <1>1, <1>6
  <2>2. QED
    BY <1>8, <2>1, ModType DEF OffsetAt
<1>12. PICK rest : rest = SubSeq(frames, k + 1, N)
  OBVIOUS
<1>13. PICK cuts : cuts = CutOff(cut, N, k)
  OBVIOUS
<1>14. Laid(Size, b, at, rest, cuts) /\ cuts[N - k] = u - p
  <2>1. /\ Laid(Size, b, (from + p) % Size, rest, cuts)
        /\ cuts[N - k] = u - p
    <3>1. /\ Laid(Size, b, from, frames, cut) /\ k \in 0 .. Len(frames)
          /\ cut[Len(frames)] <= Size
          /\ Size \in Nat \ {0} /\ from \in 0 .. Size - 1
      BY <1>0, <1>1, <1>2
    <3>2. /\ Laid(Size, b, (from + cut[k]) % Size, SubSeq(frames, k + 1, Len(frames)),
                  CutOff(cut, Len(frames), k))
          /\ CutOff(cut, Len(frames), k)[Len(frames) - k] = cut[Len(frames)] - cut[k]
      BY <3>1, LaidOff
    <3>3. QED
      BY <1>0, <1>4, <1>5, <1>12, <1>13, <3>2
  <2>2. QED
    BY <1>8, <2>1 DEF OffsetAt
<1>15. Len(rest) = N - k /\ \A i \in 1 .. N - k : rest[i] = frames[k + i]
  <2>1. k \in 0 .. Len(frames) /\ frames \in Seq(Seq(Nat))
    BY <1>0, <1>1, <1>2
  <2>2. /\ Len(SubSeq(frames, k + 1, Len(frames))) = Len(frames) - k
        /\ \A i \in 1 .. Len(frames) - k : SubSeq(frames, k + 1, Len(frames))[i] = frames[k + i]
    BY <2>1, RestOfList
  <2>3. QED
    BY <1>0, <1>12, <2>2
<1>16. Framed(rest)
  <2>1. \A i \in 1 .. N - k : k + i \in 1 .. N
    BY <1>1, <1>2
  <2>2. \A i \in 1 .. N : Len(frames[i]) = 1 + frames[i][1]
    BY <1>0 DEF RingHolds, Framed
  <2>3. \A i \in 1 .. N - k : Len(rest[i]) = 1 + rest[i][1]
    BY <1>15, <2>1, <2>2
  <2>4. QED
    BY <1>15, <2>3 DEF Framed
<1>17. k = N \/ p < u
  <2>1. k = N \/ k < N
    BY <1>1, <1>2
  <2>2. k < N => cut[k] < cut[N]
    BY <1>1, <1>2
  <2>3. QED
    BY <1>4, <1>5, <2>1, <2>2
<1>18. p <= u
  BY <1>4, <1>5, <1>6, <1>17
<1>19. u - p \in Nat /\ u - p <= Size /\ p + (u - p) = u
  BY <1>1, <1>6, <1>18
<1>20. end = OffsetAt(at, u - p)
  <2>1. p + (u - p) <= Size /\ u - p \in Nat
    BY <1>6, <1>19
  <2>2. (((from + p) % Size) + (u - p)) % Size = (from + (p + (u - p))) % Size
    BY <1>1, <1>6, <2>1, AroundTwice
  <2>3. QED
    BY <1>7, <1>8, <1>19, <2>2 DEF OffsetAt
<1>21. (met => ~flag) /\ (~met => flag = full)
  BY <1>10
<1>22. Len(rest) = 0 <=> at = end /\ ~flag
  <2>1. CASE most >= N
    <3>1. k = N
      BY <1>0, <1>1, <2>1
    <3>2. p = u /\ N - k = 0
      BY <1>1, <1>4, <1>5, <3>1
    <3>3. met
      BY <1>9, <2>1, Zenon
    <3>4. QED
      BY <1>7, <1>8, <1>15, <1>21, <3>2, <3>3
  <2>2. CASE ~(most >= N)
    <3>0. ~met
      BY <1>9, <2>2, Zenon
    <3>1. k = most /\ k # N /\ N - k # 0 /\ ~met
      BY <1>0, <1>1, <2>2, <3>0
    <3>2. ASSUME at = end, ~full
          PROVE  FALSE
      <4>1. p < u
        BY <1>17, <3>1
      <4>2. CASE p = 0
        <5>1. from + 0 = from /\ from \in 0 .. 2 * Size - 1 /\ Around(from, Size) = from
          BY <1>1 DEF Around
        <5>2. at = from
          BY <1>1, <1>8, <4>2, <5>1, ModIsAround DEF OffsetAt
        <5>3. QED
          BY <1>0, <1>2, <3>2, <5>2 DEF RingHolds
      <4>3. CASE p # 0
        <5>1. 0 < p
          BY <1>6, <4>3
        <5>2. QED
          BY <1>1, <1>6, <1>7, <1>8, <3>2, <4>1, <5>1, PlacesApart
      <4>4. QED
        BY <4>2, <4>3
    <3>3. flag = full
      BY <1>21, <3>0, Zenon
    <3>4. QED
      <4>1. Len(rest) # 0
        BY <1>15, <3>1
      <4>2. at = end => flag
        BY <3>2, <3>3, Zenon
      <4>3. QED
        BY <4>1, <4>2
  <2>3. QED
    BY <2>1, <2>2
<1>23. RingHolds(b, at, end, flag, rest, cuts)
  BY <1>7, <1>11, <1>14, <1>15, <1>16, <1>19, <1>20, <1>21, <1>22 DEF RingHolds
<1>24. QED
  BY <1>0, <1>10, <1>12, <1>13, <1>23
------------------------------------------------------------------------------
(* The list of functions, as the promise sees it *)

Listed == DOMAIN Listing
Enabled == {f \in Functs : code[f] = Invalid}
Backtraced == {f \in DOMAIN Listing : list[IndexOf(f)].capture_backtrace}

ListingFacts ==
  /\ \A f : f \in Listed <=> \E i \in DOMAIN list : list[i].faddr = f
  /\ Listed \subseteq Functs
  /\ \A i \in DOMAIN list : Listing[list[i].faddr] = list[i].num_args
  /\ \A i \in DOMAIN list : list[i].faddr \in Backtraced <=> list[i].capture_backtrace
  /\ Backtraced \subseteq Listed
  /\ Listing = [f \in Listed |-> Listing[f]]
  /\ Cardinality(Listed) = count
  /\ \A f \in Functs : IsListed(f) <=> f \in Listed
  /\ Enabled \subseteq Listed

LEMMA ListingIs == TracingInv => ListingFacts
<1> SUFFICES ASSUME TracingInv PROVE ListingFacts
  OBVIOUS
<1> DEFINE named == {list[i].faddr : i \in DOMAIN list}
<1>1. list \in Seq(Infos) /\ Len(list) \in Nat /\ DOMAIN list = 1 .. Len(list) /\ count = Len(list)
  BY DEF TracingInv, TracingTypes, FunctionListIsSet
<1>2. \A i \in DOMAIN list : list[i].faddr \in Functs
  BY <1>1 DEF Infos, Elements
<1>3. \A i \in DOMAIN list : IndexOf(list[i].faddr) = i
  BY <1>2, FoundIsListed
<1>4. Listed = named
  BY DEF Listed, Listing
<1>5. \A f \in named : Listing[f] = list[IndexOf(f)].num_args
  BY DEF Listing
<1>6. Listing = [f \in Listed |-> Listing[f]]
  BY <1>4, <1>5 DEF Listing
<1>7. \A i \in DOMAIN list : Listing[list[i].faddr] = list[i].num_args
  BY <1>3, <1>5
<1>8. \A i \in DOMAIN list : list[i].faddr \in Backtraced <=> list[i].capture_backtrace
  BY <1>3, <1>4 DEF Backtraced, Listed
<1>9. Cardinality(Listed) = count
  <2>1. PICK names : names = [i \in 1 .. Len(list) |-> list[i].faddr]
    OBVIOUS
  <2>2. names \in [1 .. Len(list) -> named]
    BY <1>1, <2>1
  <2>3. \A i, j \in 1 .. Len(list) : names[i] = names[j] => i = j
    BY <1>1, <2>1 DEF TracingInv, FunctionListIsSet
  <2>4. \A f \in named : \E i \in 1 .. Len(list) : names[i] = f
    BY <1>1, <2>1
  <2> HIDE DEF named
  <2>5. names \in Injection(1 .. Len(list), named)
    BY <2>2, <2>3 DEF Injection, IsInjective
  <2>6. ExistsBijection(1 .. Len(list), named)
    BY <2>2, <2>4, <2>5 DEF ExistsBijection, Bijection, Surjection
  <2>7. Cardinality(named) = Len(list)
    BY <1>1, <2>6, FS_CountingElements
  <2>8. QED
    BY <1>1, <1>4, <2>7
<1>10. \A f \in Functs : IsListed(f) <=> f \in Listed
  BY <1>4 DEF IsListed
<1>11. Enabled \subseteq Listed
  <2>1. \A f \in Enabled : f \in Functs /\ code[f] # Prologue
    BY FtraceAssumption DEF Enabled
  <2>2. QED
    BY <1>4, <2>1 DEF TracingInv, CodeIsIntact
<1>12. Listed \subseteq Functs
  BY <1>2, <1>4
<1>13. Backtraced \subseteq Listed
  BY DEF Backtraced, Listed
<1>14. \A f : f \in Listed <=> \E i \in DOMAIN list : list[i].faddr = f
  BY <1>4
<1>15. QED
  BY <1>6, <1>7, <1>8, <1>9, <1>10, <1>11, <1>12, <1>13, <1>14 DEF ListingFacts

LEMMA ListingIsNext == TracingInv' => ListingFacts'
BY ListingIs, PTL

\* What is listed after a change of the list, and with how many arguments.
LEMMA SameListing ==
  ASSUME ListingFacts, ListingFacts', Listed' = Listed,
         \A f \in Listed : Listing'[f] = Listing[f]
  PROVE  Listing' = Listing
<1>1. Listing = [f \in Listed |-> Listing[f]]
  BY DEF ListingFacts
<1>2. Listing' = [f \in Listed' |-> Listing'[f]]
  BY DEF ListingFacts
<1>3. QED
  BY <1>1, <1>2

\* Only what tracing a function may change.
Tracing(f, traced, flag) ==
  /\ Listing' = Listing
  /\ Enabled' = IF traced THEN Enabled \cup {f} ELSE Enabled \ {f}
  /\ Backtraced' = IF flag THEN Backtraced \cup {f} ELSE Backtraced \ {f}

LEMMA ChangeSwitches ==
  ASSUME TracingInv, TracingInv', NEW f \in Functs, IsListed(f), NEW info \in Infos,
         info.faddr = f, info.num_args = list[IndexOf(f)].num_args,
         list' = [list EXCEPT ![IndexOf(f)] = info],
         NEW traced \in BOOLEAN, code'[f] = IF traced THEN Invalid ELSE Prologue,
         \A g \in Functs \ {f} : code'[g] = code[g]
  PROVE  Tracing(f, traced, info.capture_backtrace)
<1>0. ListingFacts /\ ListingFacts'
  BY ListingIs, ListingIsNext
<1>1. PICK k : k = IndexOf(f)
  OBVIOUS
<1>2. k \in DOMAIN list /\ list[k].faddr = f
  BY <1>1, ListedHasIndex
<1>3. list \in Seq(Infos)
  BY DEF TracingInv, TracingTypes
<1>4. /\ DOMAIN list' = DOMAIN list
      /\ list'[k] = info
      /\ \A i \in DOMAIN list \ {k} : list'[i] = list[i]
  BY <1>1, <1>2, <1>3
<1>5. \A i \in DOMAIN list : list'[i].faddr = list[i].faddr /\ list'[i].num_args = list[i].num_args
  BY <1>1, <1>2, <1>4
<1>6. Listed' = Listed
  <2>1. \A g : g \in Listed <=> \E i \in DOMAIN list : list[i].faddr = g
    BY <1>0 DEF ListingFacts
  <2>2. \A g : g \in Listed' <=> \E i \in DOMAIN list' : list'[i].faddr = g
    BY <1>0 DEF ListingFacts
  <2>3. ASSUME NEW g, NEW i
        PROVE  i \in DOMAIN list /\ list[i].faddr = g <=> i \in DOMAIN list' /\ list'[i].faddr = g
    <3>1. i \in DOMAIN list <=> i \in DOMAIN list'
      BY <1>4
    <3>2. i \in DOMAIN list => list'[i].faddr = list[i].faddr
      BY <1>5
    <3>3. QED
      BY <3>1, <3>2
  <2>4. \A g : g \in Listed' <=> g \in Listed
    BY <2>1, <2>2, <2>3
  <2>5. QED
    BY <2>4
<1>7. Listing' = Listing
  <2>1. ASSUME NEW g \in Listed
        PROVE  Listing'[g] = Listing[g]
    <3>1. PICK i \in DOMAIN list : list[i].faddr = g
      BY <1>0 DEF ListingFacts
    <3>2. Listing[g] = list[i].num_args
      BY <1>0, <3>1 DEF ListingFacts
    <3>3. \A j \in DOMAIN list' : Listing'[list'[j].faddr] = list'[j].num_args
      BY <1>0 DEF ListingFacts
    <3>4. i \in DOMAIN list' /\ list'[i].faddr = g
      BY <1>4, <1>5, <3>1
    <3>5. Listing'[g] = list'[i].num_args
      BY <3>3, <3>4
    <3>6. QED
      BY <1>5, <3>2, <3>5
  <2>2. QED
    BY <1>0, <1>6, <2>1, SameListing
<1>8. Enabled' = IF traced THEN Enabled \cup {f} ELSE Enabled \ {f}
  <2>1. \A g : g \in Enabled <=> g \in Functs /\ code[g] = Invalid
    BY DEF Enabled
  <2>2. \A g : g \in Enabled' <=> g \in Functs /\ code'[g] = Invalid
    BY DEF Enabled
  <2>3. CASE traced
    BY <2>1, <2>2, <2>3
  <2>4. CASE ~traced
    <3>1. code'[f] # Invalid
      BY <2>4, FtraceAssumption
    <3>2. QED
      BY <2>1, <2>2, <2>4, <3>1
  <2>5. QED
    BY <2>3, <2>4
<1>9. Backtraced' = IF info.capture_backtrace THEN Backtraced \cup {f} ELSE Backtraced \ {f}
  <2>1. \A i \in DOMAIN list : list[i].faddr \in Backtraced <=> list[i].capture_backtrace
    BY <1>0 DEF ListingFacts
  <2>2. \A i \in DOMAIN list' : list'[i].faddr \in Backtraced' <=> list'[i].capture_backtrace
    BY <1>0 DEF ListingFacts
  <2>3. ASSUME NEW g \in Listed, g # f
        PROVE  g \in Backtraced' <=> g \in Backtraced
    <3>1. PICK i \in DOMAIN list : list[i].faddr = g
      BY <1>0 DEF ListingFacts
    <3>2. i # k
      BY <1>2, <2>3, <3>1
    <3>3. i \in DOMAIN list' /\ list'[i] = list[i]
      BY <1>4, <3>2
    <3>4. QED
      BY <2>1, <2>2, <3>1, <3>3
  <2>4. f \in Backtraced' <=> info.capture_backtrace
    <3>1. k \in DOMAIN list' /\ list'[k].faddr = f /\ list'[k].capture_backtrace = info.capture_backtrace
      BY <1>2, <1>4
    <3>2. QED
      BY <2>2, <3>1
  <2>5. Backtraced \subseteq Listed /\ Backtraced' \subseteq Listed
    <3>1. Backtraced \subseteq Listed /\ Backtraced' \subseteq Listed'
      BY <1>0 DEF ListingFacts
    <3>2. QED
      BY <1>6, <3>1
  <2>6. f \in Listed
    BY <1>0, <1>2 DEF ListingFacts
  <2>7. QED
    BY <2>3, <2>4, <2>5, <2>6
<1>10. QED
  BY <1>7, <1>8, <1>9 DEF Tracing
------------------------------------------------------------------------------
(* The calls that change the list keep the promise *)

LEMMA ListingUnchanged ==
  ASSUME UNCHANGED tracing
  PROVE  Listing' = Listing /\ Enabled' = Enabled /\ Backtraced' = Backtraced
BY DEF tracing, Listing, Enabled, Backtraced, IndexOf

LEMMA AddListed ==
  ASSUME TracingInv, TracingInv', NEW f \in Functs, NEW n \in Nat,
         list' = Append(list, Info(f, n)), code' = code
  PROVE  /\ Listing' = [g \in Listed \cup {f} |-> IF g = f THEN n ELSE Listing[g]]
         /\ Enabled' = Enabled
         /\ Backtraced' = Backtraced
<1>0. ListingFacts /\ ListingFacts'
  BY ListingIs, ListingIsNext
<1>1. list \in Seq(Infos) /\ list' \in Seq(Infos)
  BY DEF TracingInv, TracingTypes
<1>2. PICK info : info = Info(f, n)
  OBVIOUS
<1>3. info.faddr = f /\ info.num_args = n /\ info.capture_backtrace = FALSE
  BY <1>2 DEF Info
<1>4. PICK k \in Nat : k = Len(list)
  BY <1>1
<1>5. /\ DOMAIN list = 1 .. k /\ DOMAIN list' = 1 .. k + 1
      /\ \A i \in 1 .. k : list'[i] = list[i]
      /\ list'[k + 1] = info
  BY <1>1, <1>2, <1>4
<1>6. \A i : i \in DOMAIN list' <=> i \in DOMAIN list \/ i = k + 1
  BY <1>5
<1>7. /\ \A g : g \in Listed <=> \E i \in DOMAIN list : list[i].faddr = g
      /\ \A g : g \in Listed' <=> \E i \in DOMAIN list' : list'[i].faddr = g
  BY <1>0 DEF ListingFacts
<1>8. Listed' = Listed \cup {f}
  <2>1. ASSUME NEW g
        PROVE  g \in Listed' <=> g \in Listed \/ g = f
    <3>1. ASSUME g \in Listed'
          PROVE  g \in Listed \/ g = f
      <4>1. PICK i \in DOMAIN list' : list'[i].faddr = g
        BY <1>7, <3>1
      <4>2. QED
        BY <1>3, <1>5, <1>6, <1>7, <4>1
    <3>2. ASSUME g \in Listed
          PROVE  g \in Listed'
      <4>1. PICK i \in DOMAIN list : list[i].faddr = g
        BY <1>7, <3>2
      <4>2. i \in DOMAIN list' /\ list'[i] = list[i]
        BY <1>5, <1>6
      <4>3. QED
        BY <1>7, <4>1, <4>2
    <3>3. f \in Listed'
      BY <1>3, <1>5, <1>6, <1>7
    <3>4. QED
      BY <3>1, <3>2, <3>3
  <2>2. QED
    BY <2>1
<1>9. /\ \A i \in DOMAIN list : Listing[list[i].faddr] = list[i].num_args
      /\ \A i \in DOMAIN list' : Listing'[list'[i].faddr] = list'[i].num_args
  BY <1>0 DEF ListingFacts
<1>10. /\ \A i \in DOMAIN list : list[i].faddr \in Backtraced <=> list[i].capture_backtrace
       /\ \A i \in DOMAIN list' : list'[i].faddr \in Backtraced' <=> list'[i].capture_backtrace
  BY <1>0 DEF ListingFacts
<1>11. Listing'[f] = n /\ f \notin Backtraced'
  <2>1. k + 1 \in DOMAIN list' /\ list'[k + 1].faddr = f /\ list'[k + 1].num_args = n
        /\ list'[k + 1].capture_backtrace = FALSE
    BY <1>3, <1>5, <1>6
  <2>2. QED
    BY <1>9, <1>10, <2>1
<1>12. ASSUME NEW g \in Listed
       PROVE  Listing'[g] = Listing[g] /\ (g \in Backtraced' <=> g \in Backtraced)
  <2>1. PICK i \in DOMAIN list : list[i].faddr = g
    BY <1>7
  <2>2. i \in DOMAIN list' /\ list'[i] = list[i]
    BY <1>5, <1>6
  <2>3. QED
    BY <1>9, <1>10, <2>1, <2>2
<1>13. f \notin Listed
  <2>1. ASSUME NEW i \in DOMAIN list, list[i].faddr = f
        PROVE  FALSE
    <3>1. i \in DOMAIN list' /\ k + 1 \in DOMAIN list' /\ i # k + 1
      BY <1>5, <1>6
    <3>2. list'[i].faddr = list'[k + 1].faddr
      BY <1>3, <1>5, <2>1
    <3>3. QED
      BY <3>1, <3>2 DEF TracingInv, FunctionListIsSet
  <2>2. QED
    BY <1>7, <2>1
<1>14. Backtraced' = Backtraced
  <2>1. Backtraced \subseteq Listed /\ Backtraced' \subseteq Listed'
    BY <1>0 DEF ListingFacts
  <2>2. QED
    BY <1>8, <1>11, <1>12, <1>13, <2>1
<1>15. Enabled' = Enabled
  BY DEF Enabled
<1>16. Listing' = [g \in Listed \cup {f} |-> IF g = f THEN n ELSE Listing[g]]
  <2>1. Listing' = [g \in Listed' |-> Listing'[g]]
    BY <1>0 DEF ListingFacts
  <2>2. \A g \in Listed \cup {f} : Listing'[g] = IF g = f THEN n ELSE Listing[g]
    BY <1>11, <1>12, <1>13
  <2>3. QED
    BY <1>8, <2>1, <2>2
<1>17. QED
  BY <1>14, <1>15, <1>16

LEMMA AddIsKept ==
  ASSUME TracingInv, TracingInv', Log' = Log, NEW f \in Functs, NEW nargs \in Arities[f],
         AddFtrace(f, nargs)
  PROVE  Promise!AddFunction(call')
<1>0. ListingFacts
  BY ListingIs
<1>1. PICK c : c = call'
  OBVIOUS
<1> DEFINE refused == f \in Listed \/ Cardinality(Listed) = FtraceMax \/ nargs < 0
<1>2. refused <=> count = FtraceMax \/ IsListed(f) \/ nargs < 0
  BY <1>0 DEF ListingFacts
<1>3. c.op = "add" /\ c.f = f /\ c.n = nargs /\ c.ret = IF refused THEN -1 ELSE 0
  BY <1>1, <1>2 DEF AddFtrace, Called, EINVAL
<1>4. UNCHANGED stack
  BY DEF AddFtrace
<1>5. nargs \in Int
  BY FtraceAssumption
<1>6. CASE refused
  <2>1. UNCHANGED tracing
    BY <1>2, <1>6 DEF AddFtrace, tracing
  <2>2. Listing' = Listing /\ Enabled' = Enabled /\ Backtraced' = Backtraced
    BY <2>1, ListingUnchanged
  <2>3. QED
    BY <1>1, <1>3, <1>4, <1>6, <2>2 DEF Promise!AddFunction, Promise!Listed, Promise!Cardinality,
         Cardinality, Listed, Enabled, Backtraced, EINVAL
<1>7. CASE ~refused
  <2>1. list' = Append(list, Info(f, nargs)) /\ code' = code /\ nargs \in Nat
    BY <1>2, <1>5, <1>7 DEF AddFtrace
  <2>2. /\ Listing' = [g \in Listed \cup {f} |-> IF g = f THEN nargs ELSE Listing[g]]
        /\ Enabled' = Enabled /\ Backtraced' = Backtraced
    BY <2>1, AddListed
  <2>3. QED
    BY <1>1, <1>3, <1>4, <1>7, <2>2 DEF Promise!AddFunction, Promise!Listed, Promise!Cardinality,
         Cardinality, Listed, Enabled, Backtraced, EINVAL
<1>8. QED
  BY <1>6, <1>7

LEMMA RemoveListed ==
  ASSUME TracingInv, TracingInv', NEW f \in Functs, IsListed(f),
         list' = RemoveAt(list, IndexOf(f)), code' = Untrapped(f)
  PROVE  /\ Listing' = [g \in Listed \ {f} |-> Listing[g]]
         /\ Enabled' = Enabled \ {f}
         /\ Backtraced' = Backtraced \ {f}
<1>0. ListingFacts /\ ListingFacts'
  BY ListingIs, ListingIsNext
<1>1. PICK k : k = IndexOf(f)
  OBVIOUS
<1>2. k \in DOMAIN list /\ list[k].faddr = f
  BY <1>1, ListedHasIndex
<1>3. list \in Seq(Infos) /\ Len(list) \in Nat /\ DOMAIN list = 1 .. Len(list)
  BY DEF TracingInv, TracingTypes
<1>4. /\ list' \in Seq(Infos)
      /\ Len(list') = Len(list) - 1
      /\ \A i \in 1 .. Len(list) - 1 : list'[i] = IF i < k THEN list[i] ELSE list[i + 1]
  BY <1>1, <1>2, <1>3, RemoveAtElements
<1>5. DOMAIN list' = 1 .. Len(list) - 1
  BY <1>3, <1>4
<1>6. ASSUME NEW i \in DOMAIN list'
      PROVE  \E j \in DOMAIN list : j # k /\ list'[i] = list[j]
  <2>1. CASE i < k
    <3>1. i \in DOMAIN list /\ i # k /\ list'[i] = list[i]
      BY <1>2, <1>3, <1>4, <1>5, <2>1
    <3>2. QED
      BY <3>1
  <2>2. CASE ~(i < k)
    <3>1. i + 1 \in DOMAIN list /\ i + 1 # k /\ list'[i] = list[i + 1]
      BY <1>2, <1>3, <1>4, <1>5, <2>2
    <3>2. QED
      BY <3>1
  <2>3. QED
    BY <2>1, <2>2
<1>7. ASSUME NEW j \in DOMAIN list, j # k
      PROVE  \E i \in DOMAIN list' : list'[i] = list[j]
  <2>1. CASE j < k
    <3>1. j \in DOMAIN list' /\ list'[j] = list[j]
      BY <1>2, <1>3, <1>4, <1>5, <2>1
    <3>2. QED
      BY <3>1
  <2>2. CASE ~(j < k)
    <3>1. PICK i \in Int : i = j - 1
      BY <1>3
    <3>2. i \in 1 .. Len(list) - 1 /\ ~(i < k) /\ i + 1 = j
      BY <1>2, <1>3, <1>7, <2>2, <3>1
    <3>3. i \in DOMAIN list' /\ list'[i] = list[j]
      BY <1>4, <1>5, <3>2
    <3>4. QED
      BY <3>3
  <2>3. QED
    BY <2>1, <2>2
<1>8. /\ \A g : g \in Listed <=> \E i \in DOMAIN list : list[i].faddr = g
      /\ \A g : g \in Listed' <=> \E i \in DOMAIN list' : list'[i].faddr = g
  BY <1>0 DEF ListingFacts
<1>9. \A j \in DOMAIN list : list[j].faddr = f => j = k
  BY <1>2 DEF TracingInv, FunctionListIsSet
<1>10. Listed' = Listed \ {f}
  <2>1. ASSUME NEW g \in Listed'
        PROVE  g \in Listed /\ g # f
    <3>1. PICK i \in DOMAIN list' : list'[i].faddr = g
      BY <1>8
    <3>2. PICK j \in DOMAIN list : j # k /\ list'[i] = list[j]
      BY <1>6
    <3>3. QED
      BY <1>8, <1>9, <3>1, <3>2
  <2>2. ASSUME NEW g \in Listed, g # f
        PROVE  g \in Listed'
    <3>1. PICK j \in DOMAIN list : list[j].faddr = g
      BY <1>8
    <3>2. PICK i \in DOMAIN list' : list'[i] = list[j]
      BY <1>2, <1>7, <2>2, <3>1
    <3>3. QED
      BY <1>8, <3>1, <3>2
  <2>3. QED
    BY <2>1, <2>2
<1>11. /\ \A i \in DOMAIN list : Listing[list[i].faddr] = list[i].num_args
       /\ \A i \in DOMAIN list' : Listing'[list'[i].faddr] = list'[i].num_args
  BY <1>0 DEF ListingFacts
<1>12. /\ \A i \in DOMAIN list : list[i].faddr \in Backtraced <=> list[i].capture_backtrace
       /\ \A i \in DOMAIN list' : list'[i].faddr \in Backtraced' <=> list'[i].capture_backtrace
  BY <1>0 DEF ListingFacts
<1>13. ASSUME NEW g \in Listed'
       PROVE  Listing'[g] = Listing[g] /\ (g \in Backtraced' <=> g \in Backtraced)
  <2>1. PICK i \in DOMAIN list' : list'[i].faddr = g
    BY <1>8
  <2>2. PICK j \in DOMAIN list : list'[i] = list[j]
    BY <1>6
  <2>3. QED
    BY <1>11, <1>12, <2>1, <2>2
<1>14. Backtraced' = Backtraced \ {f}
  <2>1. Backtraced \subseteq Listed /\ Backtraced' \subseteq Listed'
    BY <1>0 DEF ListingFacts
  <2>2. QED
    BY <1>10, <1>13, <2>1
<1>15. Listing' = [g \in Listed \ {f} |-> Listing[g]]
  <2>1. Listing' = [g \in Listed' |-> Listing'[g]]
    BY <1>0 DEF ListingFacts
  <2>2. \A g \in Listed \ {f} : Listing'[g] = Listing[g]
    BY <1>10, <1>13
  <2>3. QED
    BY <1>10, <2>1, <2>2
<1>16. Enabled' = Enabled \ {f}
  <2>1. code'[f] # Invalid /\ \A g \in Functs \ {f} : code'[g] = code[g]
    BY UntrappedCode, FtraceAssumption
  <2>2. QED
    BY <2>1 DEF Enabled
<1>17. QED
  BY <1>14, <1>15, <1>16

LEMMA RemoveIsKept ==
  ASSUME TracingInv, TracingInv', Log' = Log, NEW f \in Functs, RemoveFtrace(f)
  PROVE  Promise!RemoveFunction(call')
<1>0. ListingFacts
  BY ListingIs
<1>1. PICK c : c = call'
  OBVIOUS
<1>2. IsListed(f) <=> f \in Listed
  BY <1>0 DEF ListingFacts
<1>3. c.op = "remove" /\ c.f = f /\ c.ret = IF f \in Listed THEN 0 ELSE -1
  BY <1>1, <1>2 DEF RemoveFtrace, Called, EINVAL
<1>4. UNCHANGED stack
  BY DEF RemoveFtrace
<1>5. /\ Listing' = [g \in Listed \ {f} |-> Listing[g]]
      /\ Enabled' = Enabled \ {f}
      /\ Backtraced' = Backtraced \ {f}
  <2>1. CASE IsListed(f)
    BY <2>1, RemoveListed DEF RemoveFtrace
  <2>2. CASE ~IsListed(f)
    <3>1. Listing' = Listing /\ Enabled' = Enabled /\ Backtraced' = Backtraced
      BY <2>2, ListingUnchanged DEF RemoveFtrace
    <3>2. f \notin Listed /\ f \notin Enabled /\ f \notin Backtraced /\ Listing = [g \in Listed |-> Listing[g]]
      BY <1>0, <1>2, <2>2 DEF ListingFacts
    <3>3. Listed \ {f} = Listed /\ Enabled \ {f} = Enabled /\ Backtraced \ {f} = Backtraced
      BY <3>2
    <3>4. QED
      BY <3>1, <3>2, <3>3
  <2>3. QED
    BY <2>1, <2>2
<1>6. Promise!Restrict(Listing, Listed \ {f}) = [g \in Listed \ {f} |-> Listing[g]]
  BY DEF Promise!Restrict
<1>7. QED
  BY <1>1, <1>3, <1>4, <1>5, <1>6, Zenon DEF Promise!RemoveFunction, Promise!Listed,
     Listed, Enabled, Backtraced, EINVAL

LEMMA EnableIsKept ==
  ASSUME TracingInv, TracingInv', Log' = Log, NEW f \in Functs,
         NEW op \in {"enable", "enable_backtrace"}, EnableFtrace(op, f)
  PROVE  Promise!Switch(call')
<1>0. ListingFacts
  BY ListingIs
<1>1. PICK c : c = call'
  OBVIOUS
<1>2. IsListed(f) <=> f \in Listed
  BY <1>0 DEF ListingFacts
<1>3. c.op = op /\ c.f = f /\ c.ret = IF f \in Listed THEN 0 ELSE -1
  BY <1>1, <1>2 DEF EnableFtrace, Called, EINVAL
<1>4. UNCHANGED stack
  BY DEF EnableFtrace
<1>5. CASE ~IsListed(f)
  <2>1. Listing' = Listing /\ Enabled' = Enabled /\ Backtraced' = Backtraced
    BY <1>5, ListingUnchanged DEF EnableFtrace
  <2>2. QED
    BY <1>1, <1>2, <1>3, <1>4, <1>5, <2>1 DEF Promise!Switch, Promise!Listed, Listed, Enabled, Backtraced, EINVAL
<1>6. CASE IsListed(f)
  <2> DEFINE k == IndexOf(f)
             backup == IF code[f] = Invalid THEN list[k].code_backup ELSE code[f]
             flag == list[k].capture_backtrace \/ op = "enable_backtrace"
             info == [list[k] EXCEPT !.capture_backtrace = flag, !.code_backup = backup]
  <2>1. list' = [list EXCEPT ![k] = info] /\ code' = [code EXCEPT ![f] = Invalid]
    BY <1>6 DEF EnableFtrace
  <2>2. k \in DOMAIN list /\ list[k].faddr = f /\ list[k] \in Infos
    BY <1>6, ListedHasIndex
  <2>3. code \in [Functs -> {Prologue, Invalid}]
    BY DEF TracingInv, TracingTypes
  <2>4. backup \in {Prologue, Invalid, Garbage}
    BY <2>2, <2>3 DEF Infos, Elements
  <2>5. flag \in BOOLEAN
    OBVIOUS
  <2>6. f \in Backtraced <=> list[k].capture_backtrace
    BY <1>0, <2>2 DEF ListingFacts
  <2> HIDE DEF backup
  <2>7. PICK x \in Infos : x = list[k]
    BY <2>2
  <2>8. PICK y : y = flag
    OBVIOUS
  <2>9. PICK z : z = info
    OBVIOUS
  <2>10. z = [x EXCEPT !.capture_backtrace = y, !.code_backup = backup]
    BY <2>7, <2>8, <2>9
  <2>11. z \in Infos /\ z.faddr = f /\ z.num_args = list[k].num_args /\ z.capture_backtrace = y
    BY <2>2, <2>4, <2>5, <2>7, <2>8, <2>10 DEF Infos, Elements
  <2>12. list' = [list EXCEPT ![k] = z]
    BY <2>1, <2>9
  <2> HIDE DEF info, flag
  <2>13. code'[f] = Invalid /\ \A g \in Functs \ {f} : code'[g] = code[g]
    BY <2>1, <2>3
  <2>14. Tracing(f, TRUE, z.capture_backtrace)
    <3>1. code'[f] = IF TRUE THEN Invalid ELSE Prologue
      BY <2>13
    <3>2. QED
      BY <1>6, <2>11, <2>12, <2>13, <3>1, ChangeSwitches
  <2>15. Listing' = Listing /\ Enabled' = Enabled \cup {f}
    BY <2>14 DEF Tracing
  <2>16. Backtraced' = IF op = "enable_backtrace" THEN Backtraced \cup {f} ELSE Backtraced
    <3>1. Backtraced' = IF y THEN Backtraced \cup {f} ELSE Backtraced \ {f}
      BY <2>11, <2>14 DEF Tracing
    <3>2. y <=> f \in Backtraced \/ op = "enable_backtrace"
      BY <2>6, <2>8 DEF flag
    <3>3. QED
      BY <3>1, <3>2
  <2>17. QED
    BY <1>1, <1>2, <1>3, <1>4, <1>6, <2>15, <2>16
       DEF Promise!Switch, Promise!Listed, Listed, Enabled, Backtraced, EINVAL
<1>7. QED
  BY <1>5, <1>6

LEMMA DisableIsKept ==
  ASSUME TracingInv, TracingInv', Log' = Log, NEW f \in Functs,
         NEW op \in {"disable", "disable_backtrace"}, DisableFtrace(op, f)
  PROVE  Promise!Switch(call')
<1>0. ListingFacts
  BY ListingIs
<1>1. PICK c : c = call'
  OBVIOUS
<1>2. IsListed(f) <=> f \in Listed
  BY <1>0 DEF ListingFacts
<1>3. c.op = op /\ c.f = f /\ c.ret = IF f \in Listed THEN 0 ELSE -1
  BY <1>1, <1>2 DEF DisableFtrace, Called, EINVAL
<1>4. UNCHANGED stack
  BY DEF DisableFtrace
<1>5. CASE ~IsListed(f)
  <2>1. Listing' = Listing /\ Enabled' = Enabled /\ Backtraced' = Backtraced
    BY <1>5, ListingUnchanged DEF DisableFtrace
  <2>2. QED
    BY <1>1, <1>2, <1>3, <1>4, <1>5, <2>1 DEF Promise!Switch, Promise!Listed, Listed, Enabled, Backtraced, EINVAL
<1>6. CASE IsListed(f)
  <2> DEFINE k == IndexOf(f)
             flag == list[k].capture_backtrace /\ op # "disable_backtrace"
             info == [list[k] EXCEPT !.capture_backtrace = flag]
  <2>1. list' = [list EXCEPT ![k] = info] /\ code' = Untrapped(f)
    BY <1>6 DEF DisableFtrace
  <2>2. k \in DOMAIN list /\ list[k].faddr = f /\ list[k] \in Infos
    BY <1>6, ListedHasIndex
  <2>3. code'[f] = Prologue /\ \A g \in Functs \ {f} : code'[g] = code[g]
    BY <1>6, <2>1, UntrappedCode
  <2>4. flag \in BOOLEAN
    OBVIOUS
  <2>5. f \in Backtraced <=> list[k].capture_backtrace
    BY <1>0, <2>2 DEF ListingFacts
  <2>6. PICK x \in Infos : x = list[k]
    BY <2>2
  <2>7. PICK y : y = flag
    OBVIOUS
  <2>8. PICK z : z = info
    OBVIOUS
  <2>9. z = [x EXCEPT !.capture_backtrace = y]
    BY <2>6, <2>7, <2>8
  <2>10. z \in Infos /\ z.faddr = f /\ z.num_args = list[k].num_args /\ z.capture_backtrace = y
    BY <2>2, <2>4, <2>6, <2>7, <2>9 DEF Infos, Elements
  <2>11. list' = [list EXCEPT ![k] = z]
    BY <2>1, <2>8
  <2> HIDE DEF info, flag
  <2>12. Tracing(f, FALSE, z.capture_backtrace)
    <3>1. code'[f] = IF FALSE THEN Invalid ELSE Prologue
      BY <2>3
    <3>2. QED
      BY <1>6, <2>3, <2>10, <2>11, <3>1, ChangeSwitches
  <2>13. Listing' = Listing /\ Enabled' = Enabled \ {f}
    BY <2>12 DEF Tracing
  <2>14. Backtraced' = IF op = "disable_backtrace" THEN Backtraced \ {f} ELSE Backtraced
    <3>1. Backtraced' = IF y THEN Backtraced \cup {f} ELSE Backtraced \ {f}
      BY <2>10, <2>12 DEF Tracing
    <3>2. y <=> f \in Backtraced /\ op # "disable_backtrace"
      BY <2>5, <2>7 DEF flag
    <3>3. QED
      BY <3>1, <3>2
  <2>15. QED
    BY <1>1, <1>2, <1>3, <1>4, <1>6, <2>13, <2>14
       DEF Promise!Switch, Promise!Listed, Listed, Enabled, Backtraced, EINVAL
<1>7. QED
  BY <1>5, <1>6
------------------------------------------------------------------------------
(* The log *)

\* What is logged in a ring, for every list of records it can hold.
LogOf(b, from, end, full) ==
  IF from = end /\ ~full THEN <<>> ELSE TakeIn(b, end, from, Size).records

RingIs(b, from, end, full, recs) ==
  \E frames, cut : RingHolds(b, from, end, full, frames, cut) /\ recs = Contents(frames)

LogInv == RingIs(buffer, readOffset, writeOffset, isFull, Log)

LEMMA LogIsLogOf ==
  /\ Log = LogOf(buffer, readOffset, writeOffset, isFull)
  /\ Log' = LogOf(buffer', readOffset', writeOffset', isFull')
BY DEF Log, LogOf, IsEmpty, Take, TakeIn, RecordAt, RecordIn

LEMMA NoContents ==
  ASSUME NEW frames, Len(frames) = 0
  PROVE  Contents(frames) = <<>>
<1>1. 1 .. Len(frames) = {}
  OBVIOUS
<1>2. QED
  BY <1>1 DEF Contents

LEMMA LogOfIs ==
  ASSUME NEW b, NEW from, NEW end, NEW full, NEW frames, NEW cut,
         RingHolds(b, from, end, full, frames, cut)
  PROVE  LogOf(b, from, end, full) = Contents(frames)
<1>1. frames = <<>> <=> from = end /\ ~full
  BY FlagTells
<1>2. CASE frames = <<>>
  <2>1. Len(frames) = 0
    BY <1>2
  <2>2. QED
    BY <1>1, <1>2, <2>1, NoContents DEF LogOf
<1>3. CASE frames # <<>>
  BY <1>1, <1>3, LogIsHeld DEF LogOf
<1>4. QED
  BY <1>2, <1>3

LEMMA LogIs ==
  ASSUME NEW recs, RingIs(buffer', readOffset', writeOffset', isFull', recs)
  PROVE  Log' = recs /\ LogInv'
<1>1. PICK frames, cut :
        /\ RingHolds(buffer', readOffset', writeOffset', isFull', frames, cut)
        /\ recs = Contents(frames)
  BY DEF RingIs
<1>2. Log' = recs
  BY <1>1, LogOfIs, LogIsLogOf
<1>3. QED
  BY <1>2 DEF LogInv

LEMMA LogUnchanged ==
  ASSUME LogInv, UNCHANGED ring
  PROVE  Log' = Log /\ LogInv'
<1>1. Log' = Log
  BY LogIsLogOf DEF ring
<1>2. QED
  BY <1>1 DEF LogInv, ring

------------------------------------------------------------------------------
(* A record *)

StackTypes == stack \in Seq(Functs) /\ mode \subseteq {"read", "write"}

LEMMA FrontOf ==
  ASSUME NEW S, NEW s \in Seq(S), NEW e \in S
  PROVE  Front(Append(s, e)) = s /\ Append(s, e) \in Seq(S)
<1>1. PICK t : t = Append(s, e)
  OBVIOUS
<1>2. t \in Seq(S) /\ Len(t) = Len(s) + 1 /\ \A i \in 1 .. Len(s) : t[i] = s[i]
  BY <1>1, AppendProperties
<1>3. Len(t) - 1 = Len(s) /\ Len(s) \in Nat
  BY <1>2
<1>4. Front(t) = [i \in 1 .. Len(s) |-> t[i]]
  BY <1>2, <1>3 DEF Front
<1>5. s = [i \in 1 .. Len(s) |-> s[i]]
  <2>1. DOMAIN s = 1 .. Len(s) /\ s = [i \in DOMAIN s |-> s[i]]
    OBVIOUS
  <2>2. QED
    BY <2>1, Zenon
<1>6. Front(t) = s
  BY <1>2, <1>4, <1>5
<1>7. QED
  BY <1>1, <1>2, <1>6

\* The frames a fault finds are the callers; the function itself is named before.
Callers == <<Main>> \o stack

LEMMA BacktraceIs ==
  ASSUME StackTypes, NEW f \in Functs
  PROVE  Backtrace(Append(stack, f)) = Reverse(Callers) /\ Reverse(Callers) \in Seq(Nat)
<1>1. Front(Append(stack, f)) = stack
  BY FrontOf DEF StackTypes
<1>2. stack \in Seq(Nat)
  <2>1. stack \in Seq(Functs) /\ Functs \subseteq Nat
    BY FtraceAssumption DEF StackTypes
  <2>2. QED
    BY <2>1, SeqMonotonic
<1>3. <<Main>> \in Seq(Nat)
  BY FtraceAssumption
<1>4. PICK s \in Seq(Nat) : s = Callers
  BY <1>2, <1>3, ConcatProperties DEF Callers
<1>5. Reverse(s) \in Seq(Nat)
  <2>1. \A i \in 1 .. Len(s) : Len(s) - i + 1 \in 1 .. Len(s)
    OBVIOUS
  <2>2. \A i \in 1 .. Len(s) : s[Len(s) - i + 1] \in Nat
    BY <2>1
  <2>3. Reverse(s) = [i \in 1 .. Len(s) |-> s[Len(s) - i + 1]]
    BY DEF Reverse
  <2>4. QED
    BY <2>2, <2>3
<1>6. QED
  BY <1>1, <1>4, <1>5 DEF Backtrace, Callers

\* What is logged of a call, from what is known of the list.
Logged(f, regs) ==
  <<f>> \o SubSeq(regs, 1, Listing[f]) \o IF f \in Backtraced THEN <<f>> \o Reverse(Callers) ELSE <<>>

LEMMA RecordIs ==
  ASSUME TracingInv, StackTypes, NEW f \in Functs, IsListed(f), NEW regs \in Registers
  PROVE  /\ RecordOf(f, regs, Append(stack, f)) = Logged(f, regs)
         /\ Logged(f, regs) \in Seq(Nat)
<1>0. ListingFacts
  BY ListingIs
<1>1. PICK info : info = list[IndexOf(f)]
  OBVIOUS
<1>2. IndexOf(f) \in DOMAIN list /\ info.faddr = f /\ info \in Infos
  BY <1>1, ListedHasIndex
<1>3. Listing[f] = info.num_args /\ (f \in Backtraced <=> info.capture_backtrace)
  BY <1>0, <1>1, <1>2 DEF ListingFacts
<1>4. Backtrace(Append(stack, f)) = Reverse(Callers) /\ Reverse(Callers) \in Seq(Nat)
  BY BacktraceIs
<1>5. RecordOf(f, regs, Append(stack, f)) = Logged(f, regs)
  BY <1>1, <1>3, <1>4 DEF RecordOf, Logged
<1>6. PICK n \in Nat : n = Listing[f] /\ n <= Len(regs)
  <2>1. info.num_args \in Nat /\ info.num_args \in Arities[f]
    BY <1>2 DEF Infos, Elements
  <2>2. info.num_args <= Len(regs)
    BY <2>1, FtraceAssumption
  <2>3. QED
    BY <1>3, <2>1, <2>2
<1>7. regs \in Seq(Nat)
  BY FtraceAssumption
<1>8. SubSeq(regs, 1, n) \in Seq(Nat)
  BY <1>6, <1>7
<1>9. <<f>> \in Seq(Nat) /\ <<>> \in Seq(Nat)
  BY FtraceAssumption
<1>10. PICK a \in Seq(Nat) : a = <<f>> \o SubSeq(regs, 1, n)
  BY <1>8, <1>9, ConcatProperties
<1>11. PICK z \in Seq(Nat) : z = IF f \in Backtraced THEN <<f>> \o Reverse(Callers) ELSE <<>>
  BY <1>4, <1>9, ConcatProperties
<1>12. Logged(f, regs) = a \o z
  BY <1>6, <1>10, <1>11 DEF Logged
<1>13. Logged(f, regs) \in Seq(Nat)
  BY <1>12, ConcatProperties
<1>14. QED
  BY <1>5, <1>13

\* Writing a record changes its words and nothing else.
LEMMA PutWrites ==
  ASSUME buffer \in Buffers, writeOffset \in Cells, NEW words \in Seq(Nat), Put(words),
         NEW w, w = <<Len(words)>> \o words
  PROVE  /\ buffer' \in Buffers
         /\ IsWritten(Size, buffer', buffer, writeOffset, w)
         /\ writeOffset' = (writeOffset + Len(w)) % Size
         /\ isFull' = (isFull \/ writeOffset' = readOffset)
         /\ readOffset' = readOffset
<1>1. /\ buffer' = [k \in Cells |-> LET i == Distance(writeOffset, k)
                                   IN  IF i < Len(w) THEN w[i + 1] ELSE buffer[k]]
      /\ writeOffset' = (writeOffset + Len(w)) % Size
      /\ isFull' = (isFull \/ writeOffset' = readOffset)
      /\ readOffset' = readOffset
  BY DEF Put
<1>2. w \in Seq(Nat) /\ Len(w) \in Nat
  BY FrameIs
<1>3. ASSUME NEW k \in Cells
      PROVE  LET i == Distance(writeOffset, k) IN (IF i < Len(w) THEN w[i + 1] ELSE buffer[k]) \in Nat
  <2>1. Size + k - writeOffset \in Nat
    BY FtraceAssumption DEF Cells
  <2>2. Distance(writeOffset, k) \in Nat
    <3>1. Distance(writeOffset, k) \in Cells
      BY <2>1, ModType DEF Distance
    <3>2. QED
      BY <3>1 DEF Cells
  <2>3. PICK i \in Nat : i = Distance(writeOffset, k)
    BY <2>2
  <2>4. i < Len(w) => w[i + 1] \in Nat
    <3>1. i < Len(w) => i + 1 \in 1 .. Len(w)
      BY <1>2
    <3>2. QED
      BY <1>2, <3>1
  <2>5. buffer[k] \in Nat
    BY DEF Buffers
  <2>6. QED
    BY <2>3, <2>4, <2>5
<1>4. buffer' \in Buffers
  BY <1>1, <1>3 DEF Buffers
<1>5. IsWritten(Size, buffer', buffer, writeOffset, w)
  BY <1>1 DEF IsWritten, Cells, Distance
<1>6. QED
  BY <1>1, <1>4, <1>5
------------------------------------------------------------------------------
(* The steps that write, read and leave the log alone keep the promise *)

\* What the promise counts is what lies in the ring.
LEMMA HeldWords ==
  ASSUME LogInv
  PROVE  \E frames, cut :
           /\ RingHolds(buffer, readOffset, writeOffset, isFull, frames, cut)
           /\ Log = Contents(frames)
           /\ Promise!Held = cut[Len(frames)]
<1>1. PICK frames, cut :
        /\ RingHolds(buffer, readOffset, writeOffset, isFull, frames, cut)
        /\ Log = Contents(frames)
  BY DEF LogInv, RingIs
<1>2. SumFunction([i \in DOMAIN Contents(frames) |-> Len(Contents(frames)[i]) + 1]) = cut[Len(frames)]
  BY <1>1, HeldIs
<1>3. Promise!Held = SumFunction([i \in DOMAIN Log |-> Len(Log[i]) + 1])
  BY DEF Promise!Held, Promise!SumFunction, Promise!SumFunctionOnSet, Promise!FoldFunctionOnSet,
         Promise!MapThenFoldSet, SumFunction, SumFunctionOnSet, FoldFunctionOnSet, MapThenFoldSet
<1>4. QED
  BY <1>1, <1>2, <1>3

\* A call that is traced is logged when the ring is not full, and has room then.
LEMMA FaultIs ==
  ASSUME TracingInv, StackTypes, LogInv, NEW f \in Functs, NEW regs \in Registers,
         code[f] = Invalid, WithinBound(f, regs, Append(stack, f)), Fault(f, regs, Append(stack, f))
  PROVE  /\ Log' = IF "write" \in mode /\ Promise!Held < Size
                   THEN Append(Log, Logged(f, regs)) ELSE Log
         /\ LogInv'
<1>1. PICK frames, cut :
        /\ RingHolds(buffer, readOffset, writeOffset, isFull, frames, cut)
        /\ Log = Contents(frames)
        /\ Promise!Held = cut[Len(frames)]
  BY HeldWords
<1>2. PICK u : u = cut[Len(frames)]
  OBVIOUS
<1>3. u \in 0 .. Size
  BY <1>1, <1>2, EndsMeet
<1>4. Size \in Nat \ {0}
  BY FtraceAssumption
<1>5. u = Size <=> readOffset = writeOffset /\ isFull
  BY <1>1, <1>2, FlagTells
<1>6. Promise!Held < Size <=> ~(readOffset = writeOffset /\ isFull)
  BY <1>1, <1>2, <1>3, <1>4, <1>5
<1>7. CASE ~("write" \in mode /\ ~(readOffset = writeOffset /\ isFull))
  <2>1. UNCHANGED ring
    BY <1>7 DEF Fault
  <2>2. Log' = Log /\ LogInv'
    BY <2>1, LogUnchanged
  <2>3. QED
    BY <1>6, <1>7, <2>2
<1>8. CASE "write" \in mode /\ ~(readOffset = writeOffset /\ isFull)
  <2>1. IsListed(f)
    <3>1. f \in Enabled
      BY DEF Enabled
    <3>2. QED
      BY <3>1, ListingIs DEF ListingFacts
  <2>2. PICK words \in Seq(Nat) : words = Logged(f, regs) /\ words = RecordOf(f, regs, Append(stack, f))
    BY <2>1, RecordIs
  <2>3. Put(words)
    BY <1>8, <2>2 DEF Fault
  <2>4. PICK w : w = <<Len(words)>> \o words
    OBVIOUS
  <2>5. w \in Seq(Nat) /\ Len(w) = 1 + Len(words) /\ w[1] = Len(words) /\ Content(w) = words
    BY <2>4, FrameIs
  <2>6. PICK n \in Nat : n = Len(words)
    OBVIOUS
  <2>7. u + (1 + n) <= Size
    <3>1. Room = Size - u
      BY <1>1, <1>2, RoomIs
    <3>2. Room = 0 \/ 1 + n <= Room
      BY <2>2, <2>6 DEF WithinBound
    <3>3. u # Size
      BY <1>5, <1>8
    <3>4. QED
      BY <1>3, <1>4, <3>1, <3>2, <3>3
  <2>8. Len(w) = 1 + w[1] /\ Len(w) >= 1 /\ cut[Len(frames)] + Len(w) <= Size
    BY <1>2, <2>5, <2>6, <2>7
  <2>9. /\ buffer \in Buffers /\ writeOffset \in Cells /\ readOffset \in Cells
        /\ isFull \in BOOLEAN
    BY <1>1 DEF RingHolds
  <2>10. /\ buffer' \in Buffers
         /\ IsWritten(Size, buffer', buffer, writeOffset, w)
         /\ writeOffset' = (writeOffset + Len(w)) % Size
         /\ isFull' = (isFull \/ writeOffset' = readOffset)
         /\ readOffset' = readOffset
    BY <2>3, <2>4, <2>9, PutWrites
  <2>11. isFull' \in BOOLEAN
    BY <2>9, <2>10
  <2>12. RingHolds(buffer', readOffset, writeOffset', isFull', Append(frames, w),
                   CutBehind(cut, Len(frames), Len(w)))
    <3>1. PICK new \in Buffers : new = buffer'
      BY <2>10
    <3>2. PICK next : next = writeOffset'
      OBVIOUS
    <3>3. PICK flag \in BOOLEAN : flag = isFull'
      BY <2>11
    <3>4. /\ IsWritten(Size, new, buffer, writeOffset, w)
          /\ next = (writeOffset + Len(w)) % Size
          /\ flag = IF next = readOffset THEN TRUE ELSE isFull
      BY <2>9, <2>10, <3>1, <3>2, <3>3
    <3>5. RingHolds(new, readOffset, next, flag, Append(frames, w), CutBehind(cut, Len(frames), Len(w)))
      <4>1. RingHolds(buffer, readOffset, writeOffset, isFull, frames, cut)
        BY <1>1
      <4>2. w \in Seq(Nat) /\ Len(w) = 1 + w[1] /\ Len(w) >= 1 /\ cut[Len(frames)] + Len(w) <= Size
        BY <2>5, <2>8
      <4>3. new \in Buffers /\ flag \in BOOLEAN
        BY <3>1, <3>3
      <4>4. QED
        BY <3>4, <4>1, <4>2, <4>3, PutHolds
    <3>6. QED
      BY <3>1, <3>2, <3>3, <3>5
  <2>13. Contents(Append(frames, w)) = Append(Log, words)
    <3>1. frames \in Seq(Seq(Nat)) /\ \A i \in 1 .. Len(frames) : Len(frames[i]) >= 1
      BY <1>1, RingFacts
    <3>2. QED
      BY <1>1, <2>5, <2>8, <3>1, ContentsAppend
  <2>14. RingIs(buffer', readOffset', writeOffset', isFull', Append(Log, words))
    <3>1. PICK all : all = Append(frames, w)
      OBVIOUS
    <3>2. PICK cuts : cuts = CutBehind(cut, Len(frames), Len(w))
      OBVIOUS
    <3>3. PICK recs : recs = Append(Log, words)
      OBVIOUS
    <3>4. RingHolds(buffer', readOffset', writeOffset', isFull', all, cuts) /\ recs = Contents(all)
      BY <2>10, <2>12, <2>13, <3>1, <3>2, <3>3
    <3>5. RingIs(buffer', readOffset', writeOffset', isFull', recs)
      BY <3>4, Zenon DEF RingIs
    <3>6. QED
      BY <3>3, <3>5
  <2>15. Log' = Append(Log, words) /\ LogInv'
    BY <2>14, LogIs
  <2>16. QED
    BY <1>6, <1>8, <2>2, <2>15
<1>9. QED
  BY <1>7, <1>8

LEMMA CallIsKept ==
  ASSUME TracingInv, StackTypes, LogInv, NEW f \in Functs, NEW regs \in Registers,
         CallFunction(f, regs)
  PROVE  LogInv' /\ StackTypes' /\ Promise!Call(call')
<1>0. ListingFacts
  BY ListingIs
<1>1. PICK c : c = call'
  OBVIOUS
<1>2. c.op = "call" /\ c.f = f /\ c.args = regs
  BY <1>1 DEF CallFunction, Called
<1>3. stack' = Append(stack, f) /\ UNCHANGED tracing /\ mode' = mode
  BY DEF CallFunction
<1>4. Listing' = Listing /\ Enabled' = Enabled /\ Backtraced' = Backtraced
  BY <1>3, ListingUnchanged
<1>5. StackTypes'
  BY <1>3, FrontOf DEF StackTypes
<1>6. /\ LogInv'
      /\ Log' = IF f \in Enabled /\ "write" \in mode /\ Promise!Held < Size
                THEN Append(Log, Logged(f, regs)) ELSE Log
  <2>1. CASE code[f] = Invalid
    <3>1. WithinBound(f, regs, Append(stack, f)) /\ Fault(f, regs, Append(stack, f))
      BY <2>1 DEF CallFunction
    <3>2. f \in Enabled
      BY <2>1 DEF Enabled
    <3>3. QED
      BY <2>1, <3>1, <3>2, FaultIs
  <2>2. CASE code[f] # Invalid
    <3>1. UNCHANGED ring /\ f \notin Enabled
      BY <2>2 DEF CallFunction, Enabled
    <3>2. QED
      BY <3>1, LogUnchanged
  <2>3. QED
    BY <2>1, <2>2
<1>7. Promise!RecordOf(c) = Logged(f, regs)
  BY <1>2 DEF Promise!RecordOf, Promise!Callers, Promise!Reverse, Logged, Callers, Reverse, Backtraced
<1>8. Promise!Call(c)
  BY <1>2, <1>3, <1>4, <1>6, <1>7 DEF Promise!Call, Enabled, Backtraced
<1>9. QED
  BY <1>1, <1>5, <1>6, <1>8

LEMMA ReturnIsKept ==
  ASSUME StackTypes, LogInv, ReturnFromFunction
  PROVE  LogInv' /\ StackTypes' /\ Promise!Return(call')
<1>1. PICK c : c = call'
  OBVIOUS
<1>2. c.op = "return"
  BY <1>1 DEF ReturnFromFunction, Called
<1>3. stack # <<>> /\ stack' = Front(stack) /\ UNCHANGED tracing /\ mode' = mode /\ UNCHANGED ring
  BY DEF ReturnFromFunction
<1>4. Listing' = Listing /\ Enabled' = Enabled /\ Backtraced' = Backtraced
  BY <1>3, ListingUnchanged
<1>5. LogInv' /\ Log' = Log
  BY <1>3, LogUnchanged
<1>6. StackTypes'
  <2>1. stack \in Seq(Functs) /\ Len(stack) - 1 \in Nat
    BY <1>3 DEF StackTypes
  <2>2. Front(stack) = [i \in 1 .. Len(stack) - 1 |-> stack[i]]
    BY <2>1 DEF Front
  <2>3. \A i \in 1 .. Len(stack) - 1 : stack[i] \in Functs
    BY <2>1
  <2>4. Front(stack) \in Seq(Functs)
    BY <2>1, <2>2, <2>3
  <2>5. QED
    BY <1>3, <2>4 DEF StackTypes
<1>7. Promise!Return(c)
  BY <1>2, <1>3, <1>4, <1>5 DEF Promise!Return, Promise!Front, Front, Enabled, Backtraced
<1>8. QED
  BY <1>1, <1>5, <1>6, <1>7

LEMMA LeastIs ==
  ASSUME NEW m \in Nat, NEW n \in Nat, NEW k, k = IF m <= n THEN m ELSE n
  PROVE  Promise!Min({m, n}) = k
<1> DEFINE x == Promise!Min({m, n})
<1>1. k \in {m, n} /\ \A y \in {m, n} : k <= y
  OBVIOUS
<1>2. x \in {m, n} /\ \A y \in {m, n} : x <= y
  BY <1>1 DEF Promise!Min
<1> HIDE DEF x
<1>3. x = k
  BY <1>1, <1>2
<1>4. QED
  BY <1>3 DEF x

LEMMA NothingFlat ==
  ASSUME NEW n, n = 0
  PROVE  /\ Promise!FlattenSeq(SubSeq(<<>>, 1, n)) = <<>>
         /\ SubSeq(<<>>, n + 1, Len(<<>>)) = <<>>
<1>1. SubSeq(<<>>, 1, n) = <<>> /\ SubSeq(<<>>, n + 1, Len(<<>>)) = <<>>
  OBVIOUS
<1>2. Promise!FlattenSeq(<<>>) = <<>>
  BY DEF Promise!FlattenSeq
<1>3. QED
  BY <1>1, <1>2

LEMMA ReadIsKept ==
  ASSUME LogInv, NEW most \in Counts, ReadFtrace(most)
  PROVE  LogInv' /\ Promise!Read(call')
<1>1. PICK c : c = call'
  OBVIOUS
<1>2. c.op = "read" /\ c.n = most
  BY <1>1 DEF ReadFtrace, Called
<1>3. UNCHANGED tracing /\ stack' = stack /\ writeOffset' = writeOffset /\ buffer' = buffer
  BY DEF ReadFtrace
<1>4. Listing' = Listing /\ Enabled' = Enabled /\ Backtraced' = Backtraced
  BY <1>3, ListingUnchanged
<1>5. most \in Nat
  BY FtraceAssumption
<1>6. PICK frames, cut :
        /\ RingHolds(buffer, readOffset, writeOffset, isFull, frames, cut)
        /\ Log = Contents(frames)
  BY DEF LogInv, RingIs
<1>7. PICK N : N = Len(frames)
  OBVIOUS
<1>8. N \in Nat /\ frames \in Seq(Seq(Nat)) /\ \A i \in 1 .. N : Len(frames[i]) >= 1
  BY <1>6, <1>7, RingFacts
<1>9. Len(Log) = N /\ Log \in Seq(Seq(Nat))
  BY <1>6, <1>7, <1>8, ContentsType
<1>10. PICK k : k = IF most <= N THEN most ELSE N
  OBVIOUS
<1>11. Promise!Min({c.n, Len(Log)}) = k
  BY <1>2, <1>5, <1>8, <1>9, <1>10, LeastIs
<1>12. frames = <<>> <=> IsEmpty
  BY <1>6, FlagTells DEF IsEmpty
<1>13. CASE "read" \in mode /\ ~IsEmpty
  <2>1. PICK scan : scan = TakeIn(buffer, writeOffset, readOffset, most)
    OBVIOUS
  <2>2. /\ readOffset' = scan.offset
        /\ isFull' = (isFull /\ ~scan.met)
        /\ c.data = FlattenSeq(scan.records) /\ c.ret = Len(c.data)
    BY <1>1, <1>13, <2>1, TakeIsTakeIn DEF ReadFtrace, Called
  <2>3. /\ scan.records = SubSeq(Contents(frames), 1, k)
        /\ RingHolds(buffer, scan.offset, writeOffset, isFull',
                     SubSeq(frames, k + 1, Len(frames)), CutOff(cut, Len(frames), k))
    <3>1. frames # <<>> /\ k = IF most <= Len(frames) THEN most ELSE Len(frames)
      BY <1>7, <1>10, <1>12, <1>13
    <3>2. RingHolds(buffer, readOffset, writeOffset, isFull, frames, cut)
      BY <1>6
    <3>3. PICK flag \in BOOLEAN : flag = isFull'
      BY <2>2, <3>2 DEF RingHolds
    <3>4. (scan.met => ~flag) /\ (~scan.met => flag = isFull)
      BY <2>2, <3>2, <3>3 DEF RingHolds
    <3>5. scan.records = SubSeq(Contents(frames), 1, k)
      BY <1>5, <2>1, <3>1, <3>2, <3>4, TakeHolds
    <3>6. RingHolds(buffer, scan.offset, writeOffset, flag,
                    SubSeq(frames, k + 1, Len(frames)), CutOff(cut, Len(frames), k))
      BY <1>5, <2>1, <3>1, <3>2, <3>4, TakeHolds
    <3>7. QED
      BY <3>3, <3>5, <3>6
  <2>4. Contents(SubSeq(frames, k + 1, Len(frames))) = SubSeq(Log, k + 1, Len(Log))
    <3>1. k \in 0 .. Len(frames)
      BY <1>5, <1>7, <1>8, <1>10
    <3>2. QED
      BY <1>6, <1>7, <1>8, <3>1, ContentsRest
  <2>5. RingIs(buffer', readOffset', writeOffset', isFull', SubSeq(Log, k + 1, Len(Log)))
    <3>1. PICK rest : rest = SubSeq(frames, k + 1, Len(frames))
      OBVIOUS
    <3>2. PICK cuts : cuts = CutOff(cut, Len(frames), k)
      OBVIOUS
    <3>3. PICK recs : recs = SubSeq(Log, k + 1, Len(Log))
      OBVIOUS
    <3>4. RingHolds(buffer', readOffset', writeOffset', isFull', rest, cuts) /\ recs = Contents(rest)
      BY <1>3, <2>2, <2>3, <2>4, <3>1, <3>2, <3>3
    <3>5. RingIs(buffer', readOffset', writeOffset', isFull', recs)
      BY <3>4, Zenon DEF RingIs
    <3>6. QED
      BY <3>3, <3>5
  <2>6. Log' = SubSeq(Log, k + 1, Len(Log)) /\ LogInv'
    BY <2>5, LogIs
  <2>7. c.data = Promise!FlattenSeq(SubSeq(Log, 1, k))
    <3>1. scan.records = SubSeq(Log, 1, k)
      BY <1>6, <2>3
    <3>2. \A recs : FlattenSeq(recs) = Promise!FlattenSeq(recs)
      BY DEF FlattenSeq, Promise!FlattenSeq
    <3>3. QED
      BY <2>2, <3>1, <3>2, Zenon
  <2>8. Promise!Read(c)
    BY <1>2, <1>3, <1>4, <1>11, <1>13, <2>2, <2>6, <2>7 DEF Promise!Read, Enabled, Backtraced
  <2>9. QED
    BY <1>1, <2>6, <2>8
<1>14. CASE ~("read" \in mode /\ ~IsEmpty)
  <2>1. readOffset' = readOffset /\ isFull' = isFull
    BY <1>14 DEF ReadFtrace
  <2>2. Log' = Log /\ LogInv'
    BY <1>3, <2>1, LogUnchanged DEF ring
  <2>3. c.data = <<>> /\ c.ret = IF "read" \in mode THEN 0 ELSE -1
    BY <1>1, <1>14 DEF ReadFtrace, Called, EINVAL
  <2>4. CASE "read" \in mode
    <3>1. Len(frames) = 0
      BY <1>12, <1>14, <2>4
    <3>2. Log = <<>> /\ k = 0
      BY <1>5, <1>6, <1>7, <1>10, <3>1, NoContents
    <3>3. c.data = Promise!FlattenSeq(SubSeq(Log, 1, k)) /\ Log' = SubSeq(Log, k + 1, Len(Log))
      BY <2>2, <2>3, <3>2, NothingFlat
    <3>4. c.ret = Len(c.data)
      BY <2>3, <2>4
    <3>5. Promise!Read(c)
      BY <1>2, <1>3, <1>4, <1>11, <2>4, <3>3, <3>4 DEF Promise!Read, Enabled, Backtraced
    <3>6. QED
      BY <1>1, <2>2, <3>5
  <2>5. CASE "read" \notin mode
    <3>1. c.ret \in {EINVAL}
      BY <2>3, <2>5 DEF EINVAL
    <3>2. Promise!Read(c)
      BY <1>2, <1>3, <1>4, <2>2, <2>5, <3>1 DEF Promise!Read, Enabled, Backtraced
    <3>3. QED
      BY <1>1, <2>2, <3>2
  <2>6. QED
    BY <2>4, <2>5
<1>15. QED
  BY <1>13, <1>14
------------------------------------------------------------------------------
LEMMA LogStarts ==
  ASSUME Init
  PROVE  StackTypes /\ LogInv /\ Log = <<>>
<1> DEFINE frames == << >>
           cut == [i \in 0 .. 0 |-> 0]
<1>1. frames \in Seq(Seq(Nat)) /\ Len(frames) = 0 /\ cut \in [0 .. 0 -> Nat] /\ cut[0] = 0
  OBVIOUS
<1> HIDE DEF frames, cut
<1>2. /\ buffer \in Buffers /\ readOffset = 0 /\ writeOffset = 0 /\ isFull = FALSE
      /\ 0 \in Cells /\ Size \in Nat \ {0}
  BY FtraceAssumption DEF Init, Buffers, Cells
<1>3. Laid(Size, buffer, readOffset, frames, cut) /\ Framed(frames)
  BY <1>1 DEF Laid, Framed
<1>4. OffsetAt(readOffset, cut[Len(frames)]) = 0 /\ cut[Len(frames)] <= Size
  <2>1. 0 + 0 = 0 /\ 0 \in 0 .. 2 * Size - 1 /\ Around(0, Size) = 0
    BY <1>2 DEF Around
  <2>2. 0 % Size = 0
    BY <1>2, <2>1, ModIsAround
  <2>3. cut[Len(frames)] = 0 /\ 0 <= Size
    BY <1>1, <1>2
  <2>4. QED
    BY <1>2, <2>1, <2>2, <2>3 DEF OffsetAt
<1>5. RingHolds(buffer, readOffset, writeOffset, isFull, frames, cut)
  BY <1>1, <1>2, <1>3, <1>4 DEF RingHolds
<1>6. Log = Contents(frames)
  BY <1>5, LogOfIs, LogIsLogOf
<1>7. LogInv
  BY <1>5, <1>6 DEF LogInv, RingIs
<1>8. Log = <<>>
  BY <1>1, <1>6, NoContents
<1>9. StackTypes
  BY DEF Init, StackTypes
<1>10. QED
  BY <1>7, <1>8, <1>9

LEMMA PromiseStarts ==
  ASSUME Init
  PROVE  Promise!Init
<1>0. ListingFacts
  BY ListingIs, TracingInit
<1>1. list = <<>> /\ stack = <<>> /\ mode \subseteq {"read", "write"} /\ call.ret = 0
  BY DEF Init, Called
<1>2. Listed = {}
  BY <1>0, <1>1 DEF ListingFacts
<1>3. Enabled = {} /\ Backtraced = {}
  BY <1>0, <1>2 DEF ListingFacts
<1>4. Listing = <<>>
  <2>1. Listing = [f \in Listed |-> Listing[f]]
    BY <1>0 DEF ListingFacts
  <2>2. QED
    BY <1>2, <2>1
<1>5. Log = <<>>
  BY LogStarts
<1>6. QED
  BY <1>1, <1>3, <1>4, <1>5 DEF Promise!Init, Enabled, Backtraced

\* All that a step needs.
IInv == TracingInv /\ StackTypes /\ LogInv

LEMMA StepIsKept ==
  ASSUME IInv, [Next]_vars
  PROVE  IInv' /\ [Promise!Next]_Promise!vars
<1>0. TracingInv /\ TracingInv' /\ StackTypes /\ LogInv
  BY TracingStep DEF IInv
<1>1. ASSUME UNCHANGED <<stack, mode, ring>>
      PROVE  IInv' /\ Log' = Log /\ mode' = mode
  BY <1>0, <1>1, LogUnchanged DEF IInv, StackTypes
<1>2. ASSUME NEW f \in Functs, NEW nargs \in Arities[f], AddFtrace(f, nargs)
      PROVE  IInv' /\ Promise!Next
  <2>1. IInv' /\ Log' = Log /\ mode' = mode
    BY <1>1, <1>2 DEF AddFtrace
  <2>2. QED
    BY <1>0, <1>2, <2>1, AddIsKept DEF Promise!Next
<1>3. ASSUME NEW f \in Functs, RemoveFtrace(f)
      PROVE  IInv' /\ Promise!Next
  <2>1. IInv' /\ Log' = Log /\ mode' = mode
    BY <1>1, <1>3 DEF RemoveFtrace
  <2>2. QED
    BY <1>0, <1>3, <2>1, RemoveIsKept DEF Promise!Next
<1>4. ASSUME NEW f \in Functs, NEW op \in {"enable", "enable_backtrace"}, EnableFtrace(op, f)
      PROVE  IInv' /\ Promise!Next
  <2>1. IInv' /\ Log' = Log /\ mode' = mode
    BY <1>1, <1>4 DEF EnableFtrace
  <2>2. QED
    BY <1>0, <1>4, <2>1, EnableIsKept DEF Promise!Next
<1>5. ASSUME NEW f \in Functs, NEW op \in {"disable", "disable_backtrace"}, DisableFtrace(op, f)
      PROVE  IInv' /\ Promise!Next
  <2>1. IInv' /\ Log' = Log /\ mode' = mode
    BY <1>1, <1>5 DEF DisableFtrace
  <2>2. QED
    BY <1>0, <1>5, <2>1, DisableIsKept DEF Promise!Next
<1>6. ASSUME NEW f \in Functs, NEW regs \in Registers, CallFunction(f, regs)
      PROVE  IInv' /\ Promise!Next
  <2>1. mode' = mode
    BY <1>6 DEF CallFunction
  <2>2. QED
    BY <1>0, <1>6, <2>1, CallIsKept DEF Promise!Next, IInv
<1>7. ASSUME ReturnFromFunction
      PROVE  IInv' /\ Promise!Next
  <2>1. mode' = mode
    BY <1>7 DEF ReturnFromFunction
  <2>2. QED
    BY <1>0, <1>7, <2>1, ReturnIsKept DEF Promise!Next, IInv
<1>8. ASSUME NEW most \in Counts, ReadFtrace(most)
      PROVE  IInv' /\ Promise!Next
  <2>1. mode' = mode /\ stack' = stack
    BY <1>8 DEF ReadFtrace
  <2>2. StackTypes'
    BY <1>0, <2>1 DEF StackTypes
  <2>3. QED
    BY <1>0, <1>8, <2>1, <2>2, ReadIsKept DEF Promise!Next, IInv
<1>9. ASSUME UNCHANGED vars
      PROVE  IInv' /\ UNCHANGED Promise!vars
  <2>1. UNCHANGED tracing /\ UNCHANGED <<stack, mode, ring>> /\ call' = call
    BY <1>9 DEF vars
  <2>2. IInv' /\ Log' = Log /\ mode' = mode /\ stack' = stack
    BY <1>1, <2>1
  <2>3. Listing' = Listing /\ Enabled' = Enabled /\ Backtraced' = Backtraced
    BY <2>1, ListingUnchanged
  <2>4. QED
    BY <2>1, <2>2, <2>3 DEF Promise!vars, Enabled, Backtraced
<1>10. QED
  BY <1>2, <1>3, <1>4, <1>5, <1>6, <1>7, <1>8, <1>9 DEF Next

\* Whatever is traced, called and read, in whatever order, the log is what
\* ftrace promises: a record for every call of a function that is traced then,
\* with its arguments and callers, delivered once and in order, for every size of
\* the ring, every place of the offsets in it, the full ring included.
THEOREM CallsLogged == Spec => CallsAreLogged
<1>1. Init => IInv /\ Promise!Init
  BY LogStarts, PromiseStarts, TracingInit DEF IInv
<1>2. IInv /\ [Next]_vars => IInv' /\ [Promise!Next]_Promise!vars
  BY StepIsKept
<1>3. QED
  BY <1>1, <1>2, PTL DEF Spec, CallsAreLogged, Promise!Spec

\* The offsets never leave the ring, its words stay numbers, and the list, the
\* code and the stack hold nothing but what the calls put there, for every size of
\* the ring and every number of calls.
THEOREM FtraceTyped == Spec => []TypeOK
<1>1. Init => IInv
  BY LogStarts, TracingInit DEF IInv
<1>2. IInv /\ [Next]_vars => IInv'
  BY StepIsKept
<1>3. IInv => TypeOK
  <2>1. SUFFICES ASSUME IInv PROVE TypeOK
    OBVIOUS
  <2>2. Infos \subseteq Elements
    BY DEF Infos
  <2>3. list \in Seq(Elements)
    BY <2>1, <2>2, SeqMonotonic DEF IInv, TracingInv, TracingTypes
  <2>4. count \in Nat /\ code \in [Functs -> {Prologue, Invalid, Garbage}]
    BY <2>1 DEF IInv, TracingInv, TracingTypes
  <2>5. readOffset \in Cells /\ writeOffset \in Cells /\ isFull \in BOOLEAN /\ buffer \in [Cells -> Nat]
    BY <2>1 DEF IInv, LogInv, RingIs, RingHolds, Buffers
  <2>6. stack \in Seq(Functs) /\ mode \subseteq {"read", "write"}
    BY <2>1 DEF IInv, StackTypes
  <2>7. QED
    BY <2>3, <2>4, <2>5, <2>6 DEF TypeOK, Elements
<1>4. QED
  BY <1>1, <1>2, <1>3, PTL DEF Spec
==============================================================================
