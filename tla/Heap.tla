-------------------------------- MODULE Heap --------------------------------
(***************************************************************************)
(* What memalloc and memfree promise their caller: blocks of memory that   *)
(* are its own.  A block lies in memory obtained from the system, shares   *)
(* no word with another block that is in use, and keeps what is written to *)
(* it, whatever other blocks are allocated, written to and freed.          *)
(* Addresses count words.                                                  *)
(***************************************************************************)
EXTENDS Integers, Functions

CONSTANTS WordsOf(_)   \* the words that a number of bytes takes

VARIABLES mapped,   \* the words obtained from the system
          live,     \* the size asked for of every block in use, by address
          data,     \* the words of every block in use
          call      \* the last call and its result

vars == <<mapped, live, data, call>>

Words(p, size) == p .. p + WordsOf(size) - 1

Init ==
  /\ mapped = {}
  /\ live = <<>>
  /\ data = <<>>

\* What a new block holds is left open.
Alloc(c) ==
  /\ c.op = "memalloc"
  /\ c.ret \notin DOMAIN live
  /\ live' = [p \in DOMAIN live \cup {c.ret} |-> IF p = c.ret THEN c.size ELSE live[p]]
  /\ Restrict(data', DOMAIN live) = data
  /\ mapped \subseteq mapped'
  /\ Words(c.ret, c.size) \subseteq mapped'
  /\ \A p \in DOMAIN live : Words(p, live[p]) \cap Words(c.ret, c.size) = {}

Free(c) ==
  /\ c.op = "memfree"
  /\ c.ret = 0
  /\ live' = Restrict(live, DOMAIN live \ {c.ptr})
  /\ data' = Restrict(data, DOMAIN live \ {c.ptr})
  /\ UNCHANGED mapped

Write(c) ==
  /\ c.op = "write"
  /\ data' = [data EXCEPT ![c.ptr] = [i \in DOMAIN @ |-> c.value]]
  /\ UNCHANGED <<mapped, live>>

Next == Alloc(call') \/ Free(call') \/ Write(call')

Spec == Init /\ [][Next]_vars
==============================================================================
