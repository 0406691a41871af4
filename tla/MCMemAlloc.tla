----------------------------- MODULE MCMemAlloc -----------------------------
(***************************************************************************)
(* Chunks of ten words, room for two of them side by side: a chunk holds  *)
(* up to three blocks, with all three outcomes of a split (a rest that is  *)
(* a block, one that is too small and none), and one request needs both    *)
(* chunks.  States are told apart by the words that are sizes or links,    *)
(* and by which words in use hold what the caller wrote; what other words  *)
(* hold, and what the last call was, has no influence on the next one.     *)
(***************************************************************************)
EXTENDS MemAlloc

Links == UNION {{b + 1, b + 2} : b \in FreeBlocks}

Written == {a \in UNION {p .. p + WordsOf(live[p]) - 1 : p \in DOMAIN live} :
              mem[a] \in Data}

Relevant == <<[a \in Blocks \cup Links |-> mem[a]], Written, head, mapped, live>>
==============================================================================
