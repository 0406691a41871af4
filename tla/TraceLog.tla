------------------------------ MODULE TraceLog ------------------------------
(***************************************************************************)
(* What strace promises a process: a log of its system calls, one record   *)
(* per call that is selected, read back once and in order.                 *)
(***************************************************************************)
EXTENDS Integers, Sequences, SequencesExt, FiniteSetsExt

CONSTANTS StraceMax,   \* how many system calls can be selected
          Known,       \* the system calls there are
          RecordOf(_)  \* what is logged of a call, given as a record

VARIABLES tracing,   \* "off", "all" or "selected"
          selected,  \* the numbers of the calls selected by name
          log,       \* the records not read yet
          call       \* the last call and its result

vars == <<tracing, selected, log, call>>

Fail == -1
Done == 0

Init ==
  /\ tracing = "off"
  /\ selected = {}
  /\ log = <<>>
  /\ call.ret = Done

IsLogged(c) ==
  /\ c.num \in Known
  /\ tracing = "all" \/ (tracing = "selected" /\ c.num \in selected)

\* The call that is made is itself one of the calls to log.
Logged(c) == IF IsLogged(c) THEN Append(log, RecordOf(c)) ELSE log

Keep(c) == log' = Logged(c) /\ call' = c

Start ==
  /\ call'.op = "start"
  /\ \/ call'.ret = Done /\ tracing' \in {"all", "selected"}
     \/ call'.ret = Fail /\ tracing' = tracing
  /\ UNCHANGED <<selected, log>>

End ==
  /\ call'.op = "end"
  /\ call'.ret = Done
  /\ tracing' = "off"
  /\ selected' = {}
  /\ UNCHANGED log

Select(c) ==
  LET refused == c.num1 \in selected \/ Cardinality(selected) = StraceMax
  IN  /\ c.op = "add"
      /\ Keep(c)
      /\ c.ret = IF refused THEN Fail ELSE Done
      /\ selected' = IF refused THEN selected ELSE selected \cup {c.num1}
      /\ UNCHANGED tracing

Deselect(c) ==
  /\ c.op = "remove"
  /\ Keep(c)
  /\ c.ret = IF c.num1 \in selected THEN Done ELSE Fail
  /\ selected' = selected \ {c.num1}
  /\ UNCHANGED tracing

\* As many records as asked for, the oldest first, or all there are.
Read(c) ==
  LET records == Logged(c)
      n       == Min({c.num1, Len(records)})
  IN  /\ c.op = "read"
      /\ call' = c
      /\ c.data = FlattenSeq(SubSeq(records, 1, n))
      /\ c.ret = Len(c.data)
      /\ log' = SubSeq(records, n + 1, Len(records))
      /\ UNCHANGED <<tracing, selected>>

Other(c) ==
  /\ c.op = "other"
  /\ Keep(c)
  /\ UNCHANGED <<tracing, selected>>

Next == \/ Start \/ End
        \/ Select(call') \/ Deselect(call') \/ Read(call') \/ Other(call')

Spec == Init /\ [][Next]_vars
==============================================================================
