------------------------------- MODULE PageMap -------------------------------
(***************************************************************************)
(* What mmap, munmap and mprotect promise a process: its address space is  *)
(* a map from pages to access rights, and a call changes exactly the pages *)
(* it names.  The list of areas, its order, its splits and its merges do   *)
(* not show.                                                               *)
(***************************************************************************)
EXTENDS Integers, Vma

CONSTANTS Top,      \* the last page looked at; bounds the address space
          Lengths   \* the lengths, in pages, a call may pass

VARIABLES perm,     \* the access to every page
          call      \* the last call, its arguments and its result

Pages == AreaStart + 1 .. Top     \* page AreaStart belongs to the dummy

Region(addr, length) == addr .. addr + length - 1

Free(addr, length) ==
  \A v \in Region(addr, length) : v > AreaStart /\ (v <= Top => perm[v] = NoAccess)

Called(op, addr, length, prot, fixed, ret) ==
  [op |-> op, addr |-> addr, length |-> length, prot |-> prot,
   fixed |-> fixed, ret |-> ret, lost |-> FALSE]

Set(region, prot) == [v \in Pages |-> IF v \in region THEN prot ELSE perm[v]]

Init ==
  /\ perm = [v \in Pages |-> NoAccess]
  /\ call = Called("none", Null, 0, NoAccess, FALSE, Success)

\* The caller's own address is used when it can be.
MmapThere(addr, length, prot, fixed) ==
  /\ call' = Called("mmap", addr, length, prot, fixed, addr)
  /\ prot \in ValidProt
  /\ addr \in AreaStart .. AreaEnd
  /\ Free(addr, length)
  /\ perm' = Set(Region(addr, length), prot)

\* Otherwise, unless the address is binding, the lowest free region is.
MmapLowest(addr, length, prot, lowest) ==
  /\ call' = Called("mmap", addr, length, prot, FALSE, lowest)
  /\ prot \in ValidProt
  /\ \/ addr = Null
     \/ addr \in AreaStart .. AreaEnd /\ ~Free(addr, length)
  /\ Free(lowest, length)
  /\ \A v \in AreaStart .. lowest - 1 : ~Free(v, length)
  /\ perm' = Set(Region(lowest, length), prot)

MmapRefused(addr, length, prot, fixed) ==
  /\ call' = Called("mmap", addr, length, prot, fixed, EINVAL)
  /\ \/ prot \notin ValidProt
     \/ addr = Null /\ fixed
     \/ addr # Null /\ addr \notin AreaStart .. AreaEnd
     \/ fixed /\ ~Free(addr, length)
  /\ perm' = perm

Munmap(addr, length) ==
  /\ call' = Called("munmap", addr, length, NoAccess, FALSE, Success)
  /\ perm' = Set(Region(addr, length), NoAccess)

Mprotect(addr, length, prot) ==
  /\ call' = Called("mprotect", addr, length, prot, FALSE, Success)
  /\ prot \in ValidProt
  /\ perm' = Set({v \in Region(addr, length) \cap Pages : perm[v] # NoAccess}, prot)

MprotectRefused(addr, length, prot) ==
  /\ call' = Called("mprotect", addr, length, prot, FALSE, EINVAL)
  /\ prot \notin ValidProt
  /\ perm' = perm

Next ==
  \E addr \in {Null} \cup AreaStart .. Top, length \in Lengths, prot \in 1 .. 3 :
    \/ \E fixed \in BOOLEAN : MmapThere(addr, length, prot, fixed)
    \/ \E lowest \in Pages : MmapLowest(addr, length, prot, lowest)
    \/ \E fixed \in BOOLEAN : MmapRefused(addr, length, prot, fixed)
    \/ Munmap(addr, length)
    \/ Mprotect(addr, length, prot)
    \/ MprotectRefused(addr, length, prot)
==============================================================================
