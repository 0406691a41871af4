------------------------------ MODULE VmaCalls ------------------------------
(***************************************************************************)
(* One process calling mmap, munmap and mprotect: the area list the kernel *)
(* keeps for it, against the page map the calls promise.                   *)
(***************************************************************************)
EXTENDS Integers, Sequences, Vma

CONSTANTS Top,      \* bound: no area reaches past page Top
          Lengths   \* the lengths, in pages, a call may pass

\* A length is positive ("It is assumed to be a positive integer", section 1.1
\* of CS330_Assignment_3_2023.pdf); nothing in v2p.c looks.
ASSUME VmaCallsAssumption == Top \in Nat /\ Lengths \subseteq Nat \ {0}

VARIABLES areas,    \* current->vm_area: <<>> stands for NULL
          call      \* the last call, its arguments and its result

vars == <<areas, call>>

Addresses == {Null} \cup AreaStart .. Top
Prots     == 1 .. 3    \* PROT_WRITE alone, 2, is refused

Called(op, addr, length, prot, fixed, ret, lost) ==
  [op |-> op, addr |-> addr, length |-> length, prot |-> prot,
   fixed |-> fixed, ret |-> ret, lost |-> lost]

WithinBound(list) == \A i \in DOMAIN list : list[i].end <= Top + 1

Init ==
  /\ areas = <<>>
  /\ call = Called("none", Null, 0, NoAccess, FALSE, Success, FALSE)

Mmap(addr, length, prot, fixed) ==
  LET result == Map(areas, addr, length, prot, fixed)
  IN  /\ WithinBound(result.areas)
      /\ areas' = result.areas
      /\ call' = Called("mmap", addr, length, prot, fixed, result.ret,
                        result.ret # EINVAL /\ result.areas = WithDummy(areas))

Munmap(addr, length) ==
  /\ areas' = Unmap(areas, addr, addr + length)
  /\ call' = Called("munmap", addr, length, NoAccess, FALSE, Success, FALSE)

\* vm_area_mprotect follows the list without looking whether there is one: a
\* process calls it after its first mmap.
Mprotect(addr, length, prot) ==
  /\ areas # <<>>
  /\ LET result == Protect(areas, addr, addr + length, prot)
     IN  /\ areas' = result.areas
         /\ call' = Called("mprotect", addr, length, prot, FALSE, result.ret, result.lost)

Next ==
  \E addr \in Addresses, length \in Lengths :
    \/ \E prot \in Prots, fixed \in BOOLEAN : Mmap(addr, length, prot, fixed)
    \/ Munmap(addr, length)
    \/ \E prot \in Prots : Mprotect(addr, length, prot)

Spec == Init /\ [][Next]_vars
------------------------------------------------------------------------------
TypeOK ==
  /\ areas \in Seq([start : AreaStart .. Top, end : AreaStart .. Top + 1,
                    prot : {NoAccess} \cup ValidProt])
  /\ call.ret \in {EINVAL} \cup 0 .. Top

\* The list stays a list of non-empty, disjoint areas in address order that
\* starts with the dummy: the loops of v2p.c stop early, insert after the first
\* gap that fits and cut areas up on the strength of it.
SortedAndDisjoint ==
  areas # <<>> =>
    /\ areas[1] = Dummy
    /\ \A i \in DOMAIN areas : areas[i].start < areas[i].end
    /\ \A i \in 2 .. Len(areas) :
         areas[i].prot # NoAccess /\ areas[i - 1].end <= areas[i].start

\* Two areas that touch differ in their access: whatever way a region came to
\* lie beside another (hint, lowest gap, mprotect of a part), they were merged.
Merged ==
  \A i \in 2 .. Len(areas) :
    areas[i - 1].end = areas[i].start => areas[i - 1].prot # areas[i].prot

\* A successful mmap leaves every page of the region it returned mapped with
\* the access asked for (vm_area_map: "if requested region free then allocate").
MmapMapsRegion ==
  [][call'.op = "mmap" /\ call'.ret # EINVAL =>
       \A v \in call'.ret .. call'.ret + call'.length - 1 :
         ProtOf(areas', v) = call'.prot]_vars

Promised == INSTANCE PageMap
  WITH perm <- [v \in AreaStart + 1 .. Top |-> ProtOf(areas, v)]

\* What a call may do that lost a part of its region: mmap nothing, mprotect
\* no more than take memory away from its own region.
LosesOwnAlone ==
  \A v \in AreaStart + 1 .. Top :
    ProtOf(areas', v) # ProtOf(areas, v) =>
      /\ call'.op = "mprotect"
      /\ v \in call'.addr .. call'.addr + call'.length - 1
      /\ ProtOf(areas, v) # NoAccess
      /\ ProtOf(areas', v) \in {NoAccess, call'.prot}

\* Every call does to the page map what the call promises and nothing else,
\* whatever splits, trims and merges of the list it takes.  One that met the
\* case vm_area_map has no branch for, or an area past MMAP_AREA_END, leaves
\* every other region alone all the same.
CallsKeepPromise == [][Promised!Next \/ (call'.lost /\ LosesOwnAlone)]_vars
==============================================================================
