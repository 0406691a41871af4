---------------------------- MODULE MCTraceBuffer ----------------------------
(***************************************************************************)
(* A ring of four bytes and calls of up to five: every pair of offsets     *)
(* with every call that stops short of them, meets them, fills the ring,   *)
(* drains it or asks for more.  One standard descriptor and two more: the  *)
(* file is duplicated, closed in every order and made again.  The last     *)
(* call has no influence on the next one, nor has a ring no file has.      *)
(***************************************************************************)
EXTENDS TraceFiles, SequencesExt

Strings == BoundedSeq(Bytes, Size + 1)

Relevant == <<fileVars, IF Traces = {} THEN <<>> ELSE <<mode, ring>>>>
==============================================================================
