---------------------------- MODULE FunctionLog ----------------------------
(***************************************************************************)
(* What ftrace promises a process: a log of the calls of the functions it  *)
(* traces, one record per call, read back once and in order.  Tracing is   *)
(* invisible to the functions: they are called and return as ever.         *)
(***************************************************************************)
EXTENDS Integers, Sequences, SequencesExt, FiniteSetsExt, Functions

CONSTANTS FtraceMax,   \* how many functions can be listed
          Room,        \* the words the log can hold, with one more per record
          Errors,      \* what a refused call returns
          Main         \* the function that calls the others first

VARIABLES arity,        \* the number of arguments of every listed function
          enabled,      \* the functions whose calls are logged
          backtraced,   \* the ones that are logged with their callers
          open,         \* what the log may be used for: "read", "write"
          stack,        \* the functions that run, the innermost last
          log,          \* the records not read yet
          call          \* the last call and its result

vars == <<arity, enabled, backtraced, open, stack, log, call>>

Listed == DOMAIN arity

Init ==
  /\ arity = <<>>
  /\ enabled = {}
  /\ backtraced = {}
  /\ open \subseteq {"read", "write"}
  /\ stack = <<>>
  /\ log = <<>>
  /\ call.ret = 0

AddFunction(c) ==
  LET refused == c.f \in Listed \/ Cardinality(Listed) = FtraceMax \/ c.n < 0
  IN  /\ c.op = "add"
      /\ IF refused THEN c.ret \in Errors ELSE c.ret = 0
      /\ arity' = IF refused THEN arity ELSE [g \in Listed \cup {c.f} |-> IF g = c.f THEN c.n ELSE arity[g]]
      /\ UNCHANGED <<enabled, backtraced, stack, log>>

RemoveFunction(c) ==
  /\ c.op = "remove"
  /\ IF c.f \in Listed THEN c.ret = 0 ELSE c.ret \in Errors
  /\ arity' = Restrict(arity, Listed \ {c.f})
  /\ enabled' = enabled \ {c.f}
  /\ backtraced' = backtraced \ {c.f}
  /\ UNCHANGED <<stack, log>>

\* The four calls that switch tracing and backtracing of a listed function.
Switch(c) ==
  /\ c.op \in {"enable", "disable", "enable_backtrace", "disable_backtrace"}
  /\ IF c.f \in Listed
     THEN /\ c.ret = 0
          /\ enabled' = IF c.op \in {"enable", "enable_backtrace"}
                        THEN enabled \cup {c.f} ELSE enabled \ {c.f}
          /\ backtraced' = CASE c.op = "enable_backtrace"  -> backtraced \cup {c.f}
                             [] c.op = "disable_backtrace" -> backtraced \ {c.f}
                             [] OTHER -> backtraced
     ELSE c.ret \in Errors /\ UNCHANGED <<enabled, backtraced>>
  /\ UNCHANGED <<arity, stack, log>>

\* The places the functions that run were called from, the innermost first; the
\* call of Main is none of them.
Callers == <<Main>> \o stack

RecordOf(c) ==
  <<c.f>> \o SubSeq(c.args, 1, arity[c.f])
    \o IF c.f \in backtraced THEN <<c.f>> \o Reverse(Callers) ELSE <<>>

Held == SumFunction([i \in DOMAIN log |-> Len(log[i]) + 1])

\* A log that is exactly full takes no record, and the function runs all the same.
Call(c) ==
  /\ c.op = "call"
  /\ stack' = Append(stack, c.f)
  /\ log' = IF c.f \in enabled /\ "write" \in open /\ Held < Room
            THEN Append(log, RecordOf(c)) ELSE log
  /\ UNCHANGED <<arity, enabled, backtraced>>

Return(c) ==
  /\ c.op = "return"
  /\ stack # <<>>
  /\ stack' = Front(stack)
  /\ UNCHANGED <<arity, enabled, backtraced, log>>

\* As many records as asked for, the oldest first, or all there are.
Read(c) ==
  LET n == Min({c.n, Len(log)})
  IN  /\ c.op = "read"
      /\ IF "read" \in open
         THEN /\ c.data = FlattenSeq(SubSeq(log, 1, n))
              /\ c.ret = Len(c.data)
              /\ log' = SubSeq(log, n + 1, Len(log))
         ELSE c.ret \in Errors /\ log' = log
      /\ UNCHANGED <<arity, enabled, backtraced, stack>>

\* The call that is made says which of the steps it is.
Next ==
  /\ open' = open
  /\ \/ AddFunction(call') \/ RemoveFunction(call') \/ Switch(call')
     \/ Call(call') \/ Return(call') \/ Read(call')

Spec == Init /\ [][Next]_vars
==============================================================================
