----------------------------- MODULE MyDU_proofs -----------------------------
(***************************************************************************)
(* For every tree of directories, every limit on descriptors and every way *)
(* a system call or a child may fail, the parent and its children never    *)
(* wait for each other in vain and never mix up their pipes, and a total   *)
(* that is printed is right.  The recursions of the model, the sums over   *)
(* sets and the walk of the tree, are shown to have solutions first.       *)
(***************************************************************************)
EXTENDS MyDU, ListLemmas

\* A pipe that holds one message at most.
PipeOK ==
  /\ pipe = [data |-> pipe.data, writers |-> pipe.writers]
  /\ pipe.data = <<>> \/ \E n : pipe.data = <<n>>
  /\ pipe.writers \subseteq {"parent", "child"}

\* What the pipe and the child are at every point of the parent.
Stage ==
  /\ parent \in {"open", "next", "pipe"} =>
       child = "none" /\ pipe.data = <<>> /\ pipe.writers = {}
  /\ parent = "fork" =>
       child = "none" /\ pipe.data = <<>> /\ "child" \notin pipe.writers
  /\ parent = "wait" =>
       /\ child \in {"close", "walk", "write", "exit", "gone"}
       /\ child \in {"close", "walk", "write"} => pipe.data = <<>>
       /\ child = "gone" => "child" \notin pipe.writers
  /\ parent = "close" => child = "none" /\ "child" \notin pipe.writers
  /\ parent = "read" => child = "none" /\ pipe.writers = {}
  /\ parent = "done" => child = "none"

\* The inductive invariant.
StageInv ==
  /\ parent \in {"open", "next", "pipe", "fork", "wait", "close", "read", "done"}
  /\ PipeOK
  /\ Stage
------------------------------------------------------------------------------
LEMMA StageInit == Init => StageInv
BY DEF Init, StageInv, PipeOK, Stage

LEMMA OneMessageIsTaken ==
  ASSUME NEW n
  PROVE  Tail(<<n>>) = <<>>
<1>1. <<n>> \in Seq({n})
  OBVIOUS
<1>2. Len(<<n>>) = 1
  OBVIOUS
<1>3. Tail(<<n>>) \in Seq({n}) /\ Len(Tail(<<n>>)) = 0
  BY <1>1, <1>2, HeadTailProperties
<1>4. QED
  BY <1>3, EmptySeq

\* The parent before and after the time it has a child.
LEMMA BetweenChildren ==
  ASSUME StageInv, OpenRoot \/ NextEntry \/ MakePipe \/ PrintSize
  PROVE  StageInv'
<1>1. CASE OpenRoot
  BY <1>1 DEF OpenRoot, Fail, StageInv, PipeOK, Stage
<1>2. CASE NextEntry
  <2>1. parent' \in {"done", "pipe", "next"} /\ UNCHANGED <<pipe, child>> /\ parent = "next"
    BY <1>2 DEF NextEntry, Fail
  <2>2. QED
    BY <2>1 DEF StageInv, PipeOK, Stage
<1>3. CASE MakePipe
  <2>1. /\ parent = "pipe" /\ parent' = "fork" /\ child' = child
        /\ pipe' \in {pipe, [data |-> <<>>, writers |-> {"parent"}]}
    BY <1>3 DEF MakePipe
  <2>2. QED
    BY <2>1 DEF StageInv, PipeOK, Stage
<1>4. CASE PrintSize
  BY <1>4 DEF PrintSize, StageInv, PipeOK, Stage
<1>5. QED
  BY <1>1, <1>2, <1>3, <1>4

LEMMA ForkKeeps == StageInv /\ Fork => StageInv'
<1> SUFFICES ASSUME StageInv, Fork PROVE StageInv'
  OBVIOUS
<1>1. CASE parent' = "done"
  <2>1. parent = "fork" /\ UNCHANGED <<child, pipe>>
    BY <1>1 DEF Fork, Fail
  <2>2. QED
    BY <1>1, <2>1 DEF StageInv, PipeOK, Stage
<1>2. CASE parent' = "wait"
  <2>1. PICK more \in SUBSET {"child"} :
          /\ parent = "fork" /\ child' = "close"
          /\ pipe' = [pipe EXCEPT !.writers = @ \cup more]
    BY <1>2 DEF Fork, Fail
  <2>2. PipeOK'
    BY <2>1 DEF StageInv, PipeOK
  <2>3. pipe'.data = pipe.data
    BY <2>1 DEF StageInv, PipeOK
  <2>4. QED
    BY <1>2, <2>1, <2>2, <2>3 DEF StageInv, Stage
<1>3. QED
  BY <1>1, <1>2 DEF Fork, Fail

LEMMA WaitKeeps == StageInv /\ Wait => StageInv'
BY DEF Wait, StageInv, PipeOK, Stage

LEMMA CloseKeeps == StageInv /\ CloseWriteEnd => StageInv'
<1> SUFFICES ASSUME StageInv, CloseWriteEnd PROVE StageInv'
  OBVIOUS
<1>1. /\ parent = "close" /\ parent' = "read" /\ child' = child
      /\ pipe' = [pipe EXCEPT !.writers = @ \ {"parent"}]
  BY DEF CloseWriteEnd
<1>2. PipeOK'
  BY <1>1 DEF StageInv, PipeOK
<1>3. pipe'.writers = {}
  BY <1>1 DEF StageInv, PipeOK, Stage
<1>4. QED
  BY <1>1, <1>2, <1>3 DEF StageInv, Stage

LEMMA ReadKeeps == StageInv /\ ReadPipe => StageInv'
<1> SUFFICES ASSUME StageInv, ReadPipe PROVE StageInv'
  OBVIOUS
<1>1. parent = "read" /\ child' = child /\ child = "none" /\ pipe.writers = {}
  BY DEF ReadPipe, StageInv, Stage
<1>2. CASE pipe.data # <<>>
  <2>1. parent' = "next" /\ pipe' = [pipe EXCEPT !.data = Tail(@)]
    BY <1>2 DEF ReadPipe
  <2>2. Tail(pipe.data) = <<>>
    BY <1>2, OneMessageIsTaken DEF StageInv, PipeOK
  <2>3. pipe' = [data |-> <<>>, writers |-> {}]
    BY <1>1, <2>1, <2>2 DEF StageInv, PipeOK
  <2>4. pipe'.data = <<>> /\ pipe'.writers = {}
    BY <2>3
  <2>5. PipeOK'
    BY <2>3, <2>4 DEF PipeOK
  <2>6. Stage'
    BY <1>1, <2>1, <2>3, <2>4 DEF Stage
  <2>7. QED
    BY <2>1, <2>5, <2>6 DEF StageInv
<1>3. CASE pipe.data = <<>>
  <2>1. parent' = "done" /\ pipe' = pipe
    BY <1>3 DEF ReadPipe, Fail
  <2>2. QED
    BY <1>1, <2>1 DEF StageInv, PipeOK, Stage
<1>4. QED
  BY <1>2, <1>3

\* A child runs only while the parent waits for it.
LEMMA ChildKeeps == StageInv /\ (Child \/ KillChild) => StageInv'
<1> SUFFICES ASSUME StageInv, Child \/ KillChild PROVE StageInv'
  OBVIOUS
<1>1. parent = "wait" /\ parent' = "wait"
  BY DEF Child, CloseReadEnd, WalkFolder, WriteSize, ExitChild, KillChild, StageInv, Stage
<1>2. ASSUME Gone
      PROVE  StageInv'
  <2>1. child' = "gone" /\ pipe' = [pipe EXCEPT !.writers = @ \ {"child"}]
    BY <1>2 DEF Gone
  <2>2. PipeOK' /\ "child" \notin pipe'.writers
    BY <2>1 DEF StageInv, PipeOK
  <2>3. QED
    BY <1>1, <2>1, <2>2 DEF StageInv, Stage
<1>3. CASE CloseReadEnd
  BY <1>1, <1>3 DEF CloseReadEnd, StageInv, PipeOK, Stage
<1>4. CASE WalkFolder
  <2>1. CASE child' = "write"
    <3>1. child = "walk" /\ pipe' = pipe
      BY <1>4, <2>1 DEF WalkFolder, Gone
    <3>2. QED
      BY <1>1, <2>1, <3>1 DEF StageInv, PipeOK, Stage
  <2>2. CASE child' # "write"
    BY <1>2, <1>4, <2>2 DEF WalkFolder
  <2>3. QED
    BY <2>1, <2>2
<1>5. CASE WriteSize
  <2>1. /\ child = "write" /\ child' = "exit"
        /\ pipe' = pipe \/ pipe' = [pipe EXCEPT !.data = Append(@, direcSize)]
    BY <1>5 DEF WriteSize
  <2>2. pipe.data = <<>>
    BY <1>1, <2>1 DEF StageInv, Stage
  <2>3. PipeOK'
    <3>1. CASE pipe' = pipe
      BY <3>1 DEF StageInv, PipeOK
    <3>2. CASE pipe' = [pipe EXCEPT !.data = Append(@, direcSize)]
      <4>1. Append(pipe.data, direcSize) = <<direcSize>>
        BY <2>2
      <4>2. pipe' = [data |-> <<direcSize>>, writers |-> pipe.writers]
        BY <3>2, <4>1 DEF StageInv, PipeOK
      <4>3. QED
        BY <4>2 DEF StageInv, PipeOK
    <3>3. QED
      BY <2>1, <3>1, <3>2
  <2>4. QED
    BY <1>1, <2>1, <2>3 DEF StageInv, Stage
<1>6. CASE ExitChild
  BY <1>2, <1>6 DEF ExitChild
<1>7. CASE KillChild
  BY <1>2, <1>7 DEF KillChild
<1>8. QED
  BY <1>3, <1>4, <1>5, <1>6, <1>7 DEF Child

LEMMA StageStep == StageInv /\ [Next]_vars => StageInv'
<1>1. ASSUME StageInv, UNCHANGED vars
      PROVE  StageInv'
  BY <1>1 DEF vars, StageInv, PipeOK, Stage
<1>2. QED
  BY <1>1, BetweenChildren, ForkKeeps, WaitKeeps, CloseKeeps, ReadKeeps, ChildKeeps
  DEF Next, Parent

\* For every tree, limit and failure: a child is gone before the next one is
\* made and before the program ends, its answer is taken out of the pipe, and
\* the read of an answer that will never come gets the end of the file.
THEOREM ChildrenAreCollected == Spec => []ChildIsCollected
<1>1. StageInv => ChildIsCollected
  BY DEF StageInv, PipeOK, Stage, ChildIsCollected
<1>2. QED
  BY <1>1, StageInit, StageStep, PTL DEF Spec
------------------------------------------------------------------------------
(* The tree *)

\* The entries of a node; a file has none.
KidsOf(n) == IF n \in Dirs THEN Kids[n] ELSE {}

\* The tree as the proofs use it: every node but the root is an entry of one
\* other, and entries are deeper.
LEMMA TreeFacts ==
  /\ \A n \in Nodes : KidsOf(n) \in SUBSET Nodes
  /\ \A n, m \in Nodes : n # m => KidsOf(n) \cap KidsOf(m) = {}
  /\ UNION {KidsOf(n) : n \in Nodes} = Nodes \ {Root}
  /\ \E depth \in [Nodes -> 0 .. Cardinality(Nodes)] :
       \A n \in Nodes : \A m \in KidsOf(n) : depth[m] = depth[n] + 1
<1>1. \A n \in Nodes : KidsOf(n) \in SUBSET (Nodes \ {Root})
  BY MyDUAssumption DEF KidsOf
<1>2. \A n, m \in Nodes : n # m => KidsOf(n) \cap KidsOf(m) = {}
  BY MyDUAssumption DEF KidsOf
<1>3. PICK depth \in [Nodes -> 0 .. Cardinality(Nodes)] :
        \A n \in Nodes \ {Root} : \E d \in Dirs : n \in Kids[d] /\ depth[n] = depth[d] + 1
  BY MyDUAssumption
<1>4. \A m \in Nodes \ {Root} : \E d \in Nodes : m \in KidsOf(d) /\ depth[m] = depth[d] + 1
  BY <1>3, MyDUAssumption DEF KidsOf
<1>5. ASSUME NEW n \in Nodes, NEW m \in KidsOf(n)
      PROVE  depth[m] = depth[n] + 1
  <2>1. m \in Nodes \ {Root}
    BY <1>1
  <2>2. PICK d \in Nodes : m \in KidsOf(d) /\ depth[m] = depth[d] + 1
    BY <1>4, <2>1
  <2>3. d = n
    BY <1>2, <2>2
  <2>4. QED
    BY <2>2, <2>3
<1>6. UNION {KidsOf(n) : n \in Nodes} = Nodes \ {Root}
  BY <1>1, <1>4
<1>7. QED
  BY <1>1, <1>2, <1>3, <1>5, <1>6

\* What holds of a node when it holds of its entries holds of all nodes.
LEMMA TreeInduction ==
  ASSUME NEW Good, \A n \in Nodes : KidsOf(n) \subseteq Good => n \in Good
  PROVE  Nodes \subseteq Good
<1> DEFINE N == Cardinality(Nodes)
<1>1. N \in Nat
  BY FS_CardinalityType, MyDUAssumption
<1>2. PICK depth \in [Nodes -> 0 .. N] :
        \A n \in Nodes : \A m \in KidsOf(n) : depth[m] = depth[n] + 1
  BY TreeFacts
<1> HIDE DEF N
<1>3. \A n \in Nodes : KidsOf(n) \in SUBSET Nodes
  BY TreeFacts
<1> DEFINE Deep == {k \in Nat : \A n \in Nodes : depth[n] + k >= N => n \in Good}
<1>4. 0 \in Deep
  <2>1. ASSUME NEW n \in Nodes, depth[n] + 0 >= N
        PROVE  n \in Good
    <3>1. depth[n] = N
      BY <1>1, <2>1
    <3>2. KidsOf(n) = {}
      <4>1. ASSUME NEW m \in KidsOf(n) PROVE FALSE
        <5>1. m \in Nodes /\ depth[m] = N + 1
          BY <1>2, <1>3, <3>1
        <5>2. depth[m] \in 0 .. N
          BY <5>1
        <5>3. QED
          BY <1>1, <5>1, <5>2
      <4>2. QED
        BY <4>1
    <3>3. QED
      BY <3>2
  <2>2. QED
    BY <2>1
<1>5. ASSUME NEW k \in Nat, k \in Deep
      PROVE  k + 1 \in Deep
  <2>1. ASSUME NEW n \in Nodes, depth[n] + (k + 1) >= N
        PROVE  n \in Good
    <3>1. ASSUME NEW m \in KidsOf(n)
          PROVE  m \in Good
      <4>1. m \in Nodes /\ depth[m] = depth[n] + 1 /\ depth[n] \in 0 .. N
        BY <1>2, <1>3
      <4>2. depth[m] + k >= N
        BY <1>1, <2>1, <4>1
      <4>3. QED
        BY <1>5, <4>1, <4>2
    <3>2. QED
      BY <3>1
  <2>2. QED
    BY <2>1
<1>6. Nat \subseteq Deep
  <2> HIDE DEF Deep
  <2>1. QED
    BY <1>4, <1>5, Induction
<1>7. ASSUME NEW n \in Nodes
      PROVE  n \in Good
  <2>1. depth[n] + N >= N /\ N \in Deep
    BY <1>1, <1>6
  <2>2. QED
    BY <2>1
<1>8. QED
  BY <1>7

\* What step gives for a node depends on the entries of the node only.
LooksAtEntries(step, R) ==
  \A n \in Nodes, g, h \in [Nodes -> R] :
    (\A m \in KidsOf(n) : g[m] = h[m]) => step[<<n, g>>] = step[<<n, h>>]

\* A function on the nodes that is defined by what it is on the entries exists.
LEMMA TreeRecursion ==
  ASSUME NEW R, NEW base \in [Nodes -> R], NEW step \in [Nodes \X [Nodes -> R] -> R],
         LooksAtEntries(step, R)
  PROVE  \E g \in [Nodes -> R] : \A n \in Nodes : g[n] = step[<<n, g>>]
<1> DEFINE N == Cardinality(Nodes)
           S == [Nodes -> R]
           all == [p \in (1 .. N + 1) \X S |-> [n \in Nodes |-> step[<<n, p[2]>>]]]
<1>1. N \in Nat
  BY FS_CardinalityType, MyDUAssumption
<1>2. PICK depth \in [Nodes -> 0 .. N] :
        \A n \in Nodes : \A m \in KidsOf(n) : depth[m] = depth[n] + 1
  BY TreeFacts
<1>3. \A n \in Nodes : KidsOf(n) \in SUBSET Nodes
  BY TreeFacts
<1> HIDE DEF N
<1>4. \A k \in 1 .. N + 1, g \in S : all[<<k, g>>] = [n \in Nodes |-> step[<<n, g>>]]
  OBVIOUS
<1>5. all \in [(1 .. N + 1) \X S -> S]
  <2>1. \A g \in S : [n \in Nodes |-> step[<<n, g>>]] \in S
    OBVIOUS
  <2>2. \A p \in (1 .. N + 1) \X S : p[2] \in S
    OBVIOUS
  <2> HIDE DEF S
  <2>3. QED
    BY <2>1, <2>2
<1> HIDE DEF all
<1>6. PICK t \in [0 .. N + 1 -> S] : Iterates(t, N + 1, base, all)
  <2>1. PICK M \in Nat : M = N + 1
    BY <1>1
  <2>2. base \in S /\ all \in [(1 .. M) \X S -> S]
    BY <1>5, <2>1
  <2> HIDE DEF S
  <2>3. \E t \in [0 .. M -> S] : Iterates(t, M, base, all)
    BY <2>2, Recursion
  <2>4. QED
    BY <2>1, <2>3
<1>7. ASSUME NEW k \in 1 .. N + 1, NEW n \in Nodes
      PROVE  k - 1 \in 0 .. N + 1 /\ k \in 0 .. N + 1 /\ t[k][n] = step[<<n, t[k - 1]>>]
  <2>1. k - 1 \in 0 .. N + 1 /\ k \in 0 .. N + 1
    BY <1>1
  <2>2. t[k] = all[<<k, t[k - 1]>>]
    BY <1>6 DEF Iterates
  <2>3. t[k] = [m \in Nodes |-> step[<<m, t[k - 1]>>]]
    <3>1. t[k - 1] \in S
      BY <2>1
    <3> HIDE DEF S
    <3>2. QED
      BY <1>4, <2>2, <3>1
  <2>4. QED
    BY <2>1, <2>3
<1> DEFINE Good == {n \in Nodes : \A k, l \in (N - depth[n]) + 1 .. N + 1 : t[k][n] = t[l][n]}
<1>8. ASSUME NEW n \in Nodes, KidsOf(n) \subseteq Good
      PROVE  n \in Good
  <2>0. depth[n] \in 0 .. N
    OBVIOUS
  <2>1. ASSUME NEW k \in (N - depth[n]) + 1 .. N + 1, NEW l \in (N - depth[n]) + 1 .. N + 1
        PROVE  t[k][n] = t[l][n]
    <3>1. /\ k \in 1 .. N + 1 /\ l \in 1 .. N + 1
          /\ k - 1 \in N - depth[n] .. N + 1 /\ l - 1 \in N - depth[n] .. N + 1
      BY <1>1, <2>0
    <3>2. ASSUME NEW m \in KidsOf(n)
          PROVE  t[k - 1][m] = t[l - 1][m]
      <4>1. m \in Good /\ depth[m] = depth[n] + 1
        BY <1>2, <1>8
      <4>2. (N - depth[m]) + 1 = N - depth[n]
        BY <1>1, <2>0, <4>1
      <4>3. QED
        BY <3>1, <4>1, <4>2
    <3>3. t[k - 1] \in [Nodes -> R] /\ t[l - 1] \in [Nodes -> R]
      BY <1>7, <3>1
    <3>4. step[<<n, t[k - 1]>>] = step[<<n, t[l - 1]>>]
      BY <3>2, <3>3 DEF LooksAtEntries
    <3>5. QED
      BY <1>7, <3>1, <3>4
  <2>2. QED
    BY <2>1
<1>9. Nodes \subseteq Good
  <2> HIDE DEF Good
  <2>1. QED
    BY <1>8, TreeInduction
<1>10. N \in 0 .. N + 1 /\ N + 1 \in 1 .. N + 1 /\ (N + 1) - 1 = N
  BY <1>1
<1>11. ASSUME NEW n \in Nodes
       PROVE  t[N + 1][n] = step[<<n, t[N + 1]>>]
  <2>1. ASSUME NEW m \in KidsOf(n)
        PROVE  t[N][m] = t[N + 1][m]
    <3>1. m \in Nodes /\ depth[m] = depth[n] + 1 /\ depth[m] \in 0 .. N /\ depth[n] \in 0 .. N
      BY <1>2, <1>3
    <3>2. N \in (N - depth[m]) + 1 .. N + 1 /\ N + 1 \in (N - depth[m]) + 1 .. N + 1
      BY <1>1, <3>1
    <3>3. QED
      BY <1>9, <3>1, <3>2
  <2>2. t[N] \in [Nodes -> R] /\ t[N + 1] \in [Nodes -> R]
    BY <1>10
  <2>3. step[<<n, t[N]>>] = step[<<n, t[N + 1]>>]
    BY <2>1, <2>2 DEF LooksAtEntries
  <2>4. t[N + 1][n] = step[<<n, t[N]>>]
    BY <1>7, <1>10
  <2>5. QED
    BY <2>3, <2>4
<1>12. t[N + 1] \in [Nodes -> R]
  BY <1>10
<1>13. QED
  BY <1>11, <1>12

\* The bytes of every node and all that is below it.
IsWhole(whole) ==
  /\ whole \in [Nodes -> Nat]
  /\ \A n \in Nodes : whole[n] = Bytes[n] + SumFunctionOnSet(whole, KidsOf(n))

Whole == CHOOSE whole : IsWhole(whole)

LEMMA WholeExists == IsWhole(Whole)
<1> DEFINE base == [n \in Nodes |-> 0]
           step == [p \in Nodes \X [Nodes -> Nat] |-> Bytes[p[1]] + SumFunctionOnSet(p[2], KidsOf(p[1]))]
<1>1. /\ IsFiniteSet(Nodes)
      /\ \A n \in Nodes : Bytes[n] \in Nat /\ KidsOf(n) \in SUBSET Nodes
  BY MyDUAssumption, TreeFacts
<1>2. base \in [Nodes -> Nat]
  OBVIOUS
<1>3. \A n \in Nodes, g \in [Nodes -> Nat] : step[<<n, g>>] = Bytes[n] + SumFunctionOnSet(g, KidsOf(n))
  OBVIOUS
<1>4. \A n \in Nodes, g \in [Nodes -> Nat] : SumFunctionOnSet(g, KidsOf(n)) \in Nat
  BY <1>1, SumNat
<1>5. step \in [Nodes \X [Nodes -> Nat] -> Nat]
  <2>1. \A p \in Nodes \X [Nodes -> Nat] : p[1] \in Nodes /\ p[2] \in [Nodes -> Nat]
    OBVIOUS
  <2>2. \A p \in Nodes \X [Nodes -> Nat] : Bytes[p[1]] + SumFunctionOnSet(p[2], KidsOf(p[1])) \in Nat
    BY <1>1, <1>4, <2>1
  <2>3. QED
    BY <2>2
<1>6. ASSUME NEW n \in Nodes, NEW g \in [Nodes -> Nat], NEW h \in [Nodes -> Nat],
             \A m \in KidsOf(n) : g[m] = h[m]
      PROVE  step[<<n, g>>] = step[<<n, h>>]
  <2>1. g \in [Nodes -> Int] /\ h \in [Nodes -> Int]
    OBVIOUS
  <2>2. SumFunctionOnSet(g, KidsOf(n)) = SumFunctionOnSet(h, KidsOf(n))
    BY <1>1, <1>6, <2>1, SumSame
  <2>3. QED
    BY <1>3, <2>2
<1> HIDE DEF base, step
<1>7. PICK g \in [Nodes -> Nat] : \A n \in Nodes : g[n] = step[<<n, g>>]
  <2>1. LooksAtEntries(step, Nat)
    BY <1>6 DEF LooksAtEntries
  <2>2. QED
    BY <1>2, <1>5, <2>1, TreeRecursion
<1>8. IsWhole(g)
  BY <1>3, <1>7 DEF IsWhole
<1>9. QED
  BY <1>8, Zenon DEF Whole

\* The entries of different directories are different.
LEMMA SumOfSums ==
  ASSUME NEW f \in [Nodes -> Int], NEW below \in [Nodes -> Int],
         \A n \in Nodes : below[n] = SumFunctionOnSet(f, KidsOf(n)),
         NEW I \in SUBSET Nodes
  PROVE  SumFunctionOnSet(below, I) = SumFunctionOnSet(f, UNION {KidsOf(n) : n \in I})
<1> DEFINE U(s) == UNION {KidsOf(n) : n \in s}
           Good == {s \in SUBSET Nodes : SumFunctionOnSet(below, s) = SumFunctionOnSet(f, U(s))}
<1>1. IsFiniteSet(Nodes)
  BY MyDUAssumption
<1>2. {} \in Good
  <2>1. U({}) = {}
    OBVIOUS
  <2>2. SumFunctionOnSet(below, {}) = 0 /\ SumFunctionOnSet(f, {}) = 0
    BY <1>1, SumRules
  <2>3. QED
    BY <2>1, <2>2
<1>3. ASSUME NEW s \in SUBSET Nodes, s # {}, \A x \in s : s \ {x} \in Good
      PROVE  s \in Good
  <2>1. PICK x \in Nodes : x \in s
    BY <1>3
  <2>2. PICK A \in SUBSET Nodes : A = KidsOf(x)
    BY TreeFacts
  <2>3. PICK B : B = U(s \ {x})
    OBVIOUS
  <2>4. B \in SUBSET Nodes /\ A \cap B = {} /\ U(s) = A \cup B
    <3>1. \A n \in s \ {x} : KidsOf(n) \in SUBSET Nodes /\ KidsOf(x) \cap KidsOf(n) = {}
      BY TreeFacts
    <3>2. U(s) = KidsOf(x) \cup U(s \ {x})
      BY <2>1
    <3>3. QED
      BY <2>2, <2>3, <3>1, <3>2
  <2>5. SumFunctionOnSet(f, U(s)) = SumFunctionOnSet(f, A) + SumFunctionOnSet(f, B)
    <3>1. SumFunctionOnSet(f, A \cup B) = SumFunctionOnSet(f, A) + SumFunctionOnSet(f, B)
      BY <1>1, <2>4, SumUnion
    <3>2. QED
      BY <2>4, <3>1, Zenon
  <2>6. SumFunctionOnSet(below, s) = below[x] + SumFunctionOnSet(below, s \ {x})
    BY <1>1, <2>1, SumRules
  <2>7. SumFunctionOnSet(below, s \ {x}) = SumFunctionOnSet(f, B) /\ below[x] = SumFunctionOnSet(f, A)
    BY <1>3, <2>1, <2>2, <2>3
  <2>8. SumFunctionOnSet(below, s) = SumFunctionOnSet(f, U(s))
    BY <2>5, <2>6, <2>7
  <2>9. QED
    BY <2>8
<1>4. SUBSET Nodes \subseteq Good
  <2> HIDE DEF Good
  <2>1. QED
    BY <1>1, <1>2, <1>3, SetInduction
<1>5. QED
  BY <1>4

\* What is below the root is everything.
LEMMA WholeOfRoot == Whole[Root] = TotalSize
<1>1. /\ IsFiniteSet(Nodes) /\ Root \in Nodes
      /\ Bytes \in [Nodes -> Int]
  BY MyDUAssumption
<1>2. PICK w \in [Nodes -> Int] :
        w = Whole /\ \A n \in Nodes : w[n] = Bytes[n] + SumFunctionOnSet(w, KidsOf(n))
  BY WholeExists DEF IsWhole
<1> DEFINE below == [n \in Nodes |-> SumFunctionOnSet(w, KidsOf(n))]
<1>3. \A n \in Nodes : below[n] = SumFunctionOnSet(w, KidsOf(n))
  OBVIOUS
<1>4. below \in [Nodes -> Int]
  <2>1. \A n \in Nodes : SumFunctionOnSet(w, KidsOf(n)) \in Int
    BY <1>1, TreeFacts, SumRules
  <2>2. QED
    BY <2>1
<1>5. \A n \in Nodes : w[n] = Bytes[n] + below[n]
  BY <1>2, <1>3
<1> HIDE DEF below
<1>6. SumFunctionOnSet(w, Nodes) = SumFunctionOnSet(Bytes, Nodes) + SumFunctionOnSet(below, Nodes)
  BY <1>1, <1>4, <1>5, SumPlus
<1>7. SumFunctionOnSet(below, Nodes) = SumFunctionOnSet(w, Nodes \ {Root})
  <2>1. PICK rest : rest = UNION {KidsOf(n) : n \in Nodes}
    OBVIOUS
  <2>2. rest = Nodes \ {Root}
    BY <2>1, TreeFacts
  <2>3. SumFunctionOnSet(below, Nodes) = SumFunctionOnSet(w, rest)
    BY <1>3, <1>4, <2>1, SumOfSums
  <2>4. QED
    BY <2>2, <2>3
<1>8. SumFunctionOnSet(w, Nodes) = w[Root] + SumFunctionOnSet(w, Nodes \ {Root})
  BY <1>1, SumRules
<1>9. /\ w[Root] \in Int /\ SumFunctionOnSet(w, Nodes \ {Root}) \in Int
      /\ SumFunctionOnSet(Bytes, Nodes) \in Int
  <2>1. Nodes \in SUBSET Nodes /\ Nodes \ {Root} \in SUBSET Nodes
    OBVIOUS
  <2>2. \A S \in SUBSET Nodes : SumFunctionOnSet(w, S) \in Int /\ SumFunctionOnSet(Bytes, S) \in Int
    BY <1>1, SumRules
  <2>3. QED
    BY <1>1, <2>1, <2>2
<1>10. w[Root] = SumFunctionOnSet(Bytes, Nodes)
  <2>1. w[Root] + SumFunctionOnSet(w, Nodes \ {Root}) = SumFunctionOnSet(Bytes, Nodes) + SumFunctionOnSet(w, Nodes \ {Root})
    BY <1>6, <1>7, <1>8, Zenon
  <2>2. ASSUME NEW x \in Int, NEW y \in Int, NEW z \in Int, x + y = z + y
        PROVE  x = z
    BY <2>2
  <2>3. QED
    BY <1>9, <2>1, <2>2, Zenon
<1>11. QED
  BY <1>2, <1>10 DEF TotalSize
------------------------------------------------------------------------------
(* What a child finds *)

\* total is what the walk of every node gives, with up to N descriptors left.
IsTotal(total, N) ==
  \A k \in 0 .. N, n \in Nodes :
    total[k][n] = IF n \notin Dirs THEN Bytes[n]
                  ELSE IF ~CanOpen(n, k) THEN -1
                  ELSE Bytes[n] + SumFunctionOnSet(total[k - 1], Kids[n])

\* One level of the walk gives a number.
LEMMA OneLevel ==
  ASSUME NEW g \in [Nodes -> Int], NEW k \in Nat, NEW n \in Nodes
  PROVE  (IF n \notin Dirs THEN Bytes[n]
          ELSE IF ~CanOpen(n, k) THEN -1 ELSE Bytes[n] + SumFunctionOnSet(g, Kids[n])) \in Int
<1>1. Bytes[n] \in Int /\ IsFiniteSet(Nodes)
  BY MyDUAssumption
<1>2. n \in Dirs => SumFunctionOnSet(g, Kids[n]) \in Int
  <2>1. \A S \in SUBSET Nodes : SumFunctionOnSet(g, S) \in Int
    BY <1>1, SumRules
  <2>2. n \in Dirs => Kids[n] \in SUBSET Nodes
    BY MyDUAssumption
  <2>3. QED
    BY <2>1, <2>2
<1>3. QED
  BY <1>1, <1>2

\* The recursion that folderSize is has a solution,
LEMMA TotalExists ==
  ASSUME NEW N \in Nat
  PROVE  \E total \in [0 .. N -> [Nodes -> Int]] : IsTotal(total, N)
<1> DEFINE S == [Nodes -> Int]
           E(g, k, n) == IF n \notin Dirs THEN Bytes[n]
                         ELSE IF ~CanOpen(n, k) THEN -1 ELSE Bytes[n] + SumFunctionOnSet(g, Kids[n])
           base == [n \in Nodes |-> IF n \notin Dirs THEN Bytes[n] ELSE -1]
           step == [p \in (1 .. N) \X S |-> [n \in Nodes |-> E(p[2], p[1], n)]]
<1>1. \A g \in S, k \in Nat, n \in Nodes : E(g, k, n) \in Int
  BY OneLevel
<1>2. base \in S
  BY MyDUAssumption
<1> HIDE DEF E
<1>3. step \in [(1 .. N) \X S -> S]
  <2>1. \A p \in (1 .. N) \X S : p[1] \in Nat /\ p[2] \in S
    OBVIOUS
  <2>2. \A p \in (1 .. N) \X S : [n \in Nodes |-> E(p[2], p[1], n)] \in S
    BY <1>1, <2>1
  <2> HIDE DEF S
  <2>3. QED
    BY <2>2
<1>4. \A k \in 1 .. N, g \in S : step[<<k, g>>] = [n \in Nodes |-> E(g, k, n)]
  OBVIOUS
<1> HIDE DEF step
<1>5. PICK t \in [0 .. N -> S] : Iterates(t, N, base, step)
  <2> HIDE DEF S, base
  <2>1. QED
    BY <1>2, <1>3, Recursion
<1>6. ASSUME NEW k \in 0 .. N, NEW n \in Nodes
      PROVE  t[k][n] = E(t[k - 1], k, n)
  <2>1. CASE k = 0
    <3>1. t[0] = base /\ ~CanOpen(n, 0)
      BY <1>5 DEF Iterates, CanOpen
    <3>2. QED
      BY <2>1, <3>1 DEF E
  <2>2. CASE k # 0
    <3>1. k \in 1 .. N /\ k - 1 \in 0 .. N
      BY <2>2
    <3>2. t[k] = step[<<k, t[k - 1]>>]
      BY <1>5, <3>1 DEF Iterates
    <3>3. t[k - 1] \in S
      BY <3>1
    <3> HIDE DEF S
    <3>4. t[k] = [m \in Nodes |-> E(t[k - 1], k, m)]
      BY <1>4, <3>1, <3>2, <3>3
    <3>5. QED
      BY <3>4
  <2>3. QED
    BY <2>1, <2>2
<1>7. IsTotal(t, N)
  BY <1>6 DEF IsTotal, E
<1>8. QED
  BY <1>7

\* and folderSize is one.
LEMMA FolderSizeIs ==
  ASSUME NEW N \in Nat
  PROVE  \E total \in [0 .. N -> [Nodes -> Int]] :
           IsTotal(total, N) /\ \A d \in Nodes : FolderSize(d, N) = total[N][d]
<1> DEFINE Solves(total) ==
             total = [free \in 0 .. N |-> [n \in Nodes |->
                        IF n \notin Dirs THEN Bytes[n]
                        ELSE IF ~CanOpen(n, free) THEN -1
                        ELSE Bytes[n] + SumFunctionOnSet(total[free - 1], Kids[n])]]
           total == CHOOSE total : Solves(total)
<1>1. \A d \in Nodes : FolderSize(d, N) = total[N][d]
  BY DEF FolderSize
<1>2. PICK t \in [0 .. N -> [Nodes -> Int]] : IsTotal(t, N)
  BY TotalExists
<1>3. Solves(t)
  <2>1. ASSUME NEW k \in 0 .. N
        PROVE  t[k] = [n \in Nodes |->
                        IF n \notin Dirs THEN Bytes[n]
                        ELSE IF ~CanOpen(n, k) THEN -1
                        ELSE Bytes[n] + SumFunctionOnSet(t[k - 1], Kids[n])]
    <3>1. t[k] = [n \in Nodes |-> t[k][n]]
      OBVIOUS
    <3>2. \A n \in Nodes : t[k][n] = IF n \notin Dirs THEN Bytes[n]
                        ELSE IF ~CanOpen(n, k) THEN -1
                        ELSE Bytes[n] + SumFunctionOnSet(t[k - 1], Kids[n])
      BY <1>2, Zenon DEF IsTotal
    <3>3. QED
      BY <3>1, <3>2, Zenon
  <2>2. t = [k \in 0 .. N |-> t[k]]
    OBVIOUS
  <2>3. QED
    BY <2>1, <2>2, Zenon
<1>4. Solves(total)
  <2> HIDE DEF Solves
  <2>1. QED
    BY <1>3, Zenon
<1> HIDE DEF total
<1>5. \A k \in 0 .. N : total[k] = [n \in Nodes |->
                        IF n \notin Dirs THEN Bytes[n]
                        ELSE IF ~CanOpen(n, k) THEN -1
                        ELSE Bytes[n] + SumFunctionOnSet(total[k - 1], Kids[n])]
  BY <1>4, Zenon
<1>6. IsTotal(total, N)
  BY <1>5, Zenon DEF IsTotal
<1>7. \A k \in 0 .. N : total[k] = [n \in Nodes |-> total[k][n]]
  BY <1>5, Zenon
<1> HIDE DEF Solves
<1> DEFINE Good == {k \in Nat : k <= N => total[k] \in [Nodes -> Int]}
<1>8. 0 \in Good
  <2>1. 0 \in 0 .. N
    OBVIOUS
  <2>2. \A n \in Nodes : total[0][n] \in Int
    BY <1>6, <2>1, MyDUAssumption DEF IsTotal, CanOpen
  <2>3. total[0] = [n \in Nodes |-> total[0][n]]
    BY <1>7, <2>1
  <2>4. QED
    BY <2>2, <2>3
<1>9. ASSUME NEW k \in Nat, k \in Good
      PROVE  k + 1 \in Good
  <2>1. SUFFICES ASSUME k + 1 <= N PROVE total[k + 1] \in [Nodes -> Int]
    OBVIOUS
  <2>2. k + 1 \in 0 .. N /\ k \in 0 .. N /\ (k + 1) - 1 = k
    BY <2>1
  <2>3. total[k] \in [Nodes -> Int]
    BY <1>9, <2>2
  <2>4. ASSUME NEW n \in Nodes PROVE total[k + 1][n] \in Int
    <3>1. total[k + 1][n] = IF n \notin Dirs THEN Bytes[n]
                            ELSE IF ~CanOpen(n, k + 1) THEN -1
                            ELSE Bytes[n] + SumFunctionOnSet(total[k], Kids[n])
      BY <1>6, <2>2 DEF IsTotal
    <3>2. (IF n \notin Dirs THEN Bytes[n]
           ELSE IF ~CanOpen(n, k + 1) THEN -1
           ELSE Bytes[n] + SumFunctionOnSet(total[k], Kids[n])) \in Int
      <4>1. PICK next \in Nat : next = k + 1
        OBVIOUS
      <4>2. QED
        BY <2>3, <4>1, OneLevel
    <3>3. QED
      BY <3>1, <3>2, Zenon
  <2>5. total[k + 1] = [n \in Nodes |-> total[k + 1][n]]
    BY <1>7, <2>2
  <2>6. QED
    BY <2>4, <2>5
<1>10. Nat \subseteq Good
  <2> HIDE DEF Good
  <2>1. QED
    BY <1>8, <1>9, Induction
<1>11. \A k \in 0 .. N : total[k] \in [Nodes -> Int]
  BY <1>10
<1>12. total = [k \in 0 .. N |-> total[k]]
  BY <1>4, Zenon DEF Solves
<1>13. total \in [0 .. N -> [Nodes -> Int]]
  BY <1>11, <1>12
<1>14. QED
  BY <1>1, <1>6, <1>13

\* What Max gives.
LEMMA LargestIs ==
  ASSUME NEW S, IsFiniteSet(S), NEW f, \A m \in S : f[m] \in Nat
  PROVE  /\ Max({0} \cup {f[m] : m \in S}) \in Nat
         /\ \A m \in S : f[m] <= Max({0} \cup {f[n] : n \in S})
<1> DEFINE V(s) == {0} \cup {f[m] : m \in s}
           Good == {s \in SUBSET S : \E b \in V(s) : \A y \in V(s) : b >= y}
<1>1. {} \in Good
  OBVIOUS
<1>2. ASSUME NEW s \in SUBSET S, s # {}, \A x \in s : s \ {x} \in Good
      PROVE  s \in Good
  <2>1. PICK x \in s : TRUE
    BY <1>2
  <2>2. PICK b \in V(s \ {x}) : \A y \in V(s \ {x}) : b >= y
    BY <1>2, <2>1
  <2>3. b \in V(s) /\ f[x] \in V(s) /\ b \in Nat /\ f[x] \in Nat
    BY <2>1, <2>2
  <2>4. \A y \in V(s) : y \in V(s \ {x}) \/ y = f[x]
    BY <2>1
  <2>5. V(s) \subseteq Nat
    OBVIOUS
  <2> HIDE DEF V
  <2>6. CASE b >= f[x]
    <3>1. \A y \in V(s) : b >= y
      BY <2>2, <2>4, <2>6
    <3>2. QED
      BY <2>3, <3>1
  <2>7. CASE ~(b >= f[x])
    <3>1. \A y \in V(s) : f[x] >= y
      <4>1. ASSUME NEW y \in V(s) PROVE f[x] >= y
        <5>1. y \in Nat
          BY <2>5
        <5>2. CASE y = f[x]
          BY <2>3, <5>2
        <5>3. CASE y \in V(s \ {x})
          <6>1. b >= y
            BY <2>2, <5>3
          <6>2. QED
            BY <2>3, <2>7, <5>1, <6>1
        <5>4. QED
          BY <2>4, <5>2, <5>3
      <4>2. QED
        BY <4>1
    <3>2. QED
      BY <2>3, <3>1
  <2>8. QED
    BY <2>6, <2>7
<1>3. SUBSET S \subseteq Good
  <2> HIDE DEF Good
  <2>1. QED
    BY <1>1, <1>2, SetInduction
<1>4. \E b \in V(S) : \A y \in V(S) : b >= y
  BY <1>3
<1>5. V(S) \subseteq Nat /\ \A m \in S : f[m] \in V(S)
  OBVIOUS
<1> HIDE DEF V
<1>6. Max(V(S)) \in V(S) /\ \A y \in V(S) : Max(V(S)) >= y
  BY <1>4, Zenon DEF Max
<1>7. Max(V(S)) \in Nat /\ \A m \in S : f[m] <= Max(V(S))
  BY <1>5, <1>6
<1>8. QED
  BY <1>7 DEF V

\* h is the number of directories on the longest way down from every node.
IsHeight(h) ==
  \A n \in Nodes :
    h[n] = IF n \notin Dirs THEN 0 ELSE 1 + Max({0} \cup {h[m] : m \in Kids[n]})

LEMMA KidsAre ==
  \A n \in Dirs : n \in Nodes /\ Kids[n] \in SUBSET Nodes /\ IsFiniteSet(Kids[n]) /\ KidsOf(n) = Kids[n]
<1>1. \A n \in Dirs : n \in Nodes /\ Kids[n] \in SUBSET Nodes /\ KidsOf(n) = Kids[n]
  BY MyDUAssumption DEF KidsOf
<1>2. \A S \in SUBSET Nodes : IsFiniteSet(S)
  BY MyDUAssumption, FS_Subset
<1>3. QED
  BY <1>1, <1>2

LEMMA HeightExists == \E h \in [Nodes -> Nat] : IsHeight(h)
<1> DEFINE E(n, g) == IF n \notin Dirs THEN 0 ELSE 1 + Max({0} \cup {g[m] : m \in Kids[n]})
           base == [n \in Nodes |-> 0]
           step == [p \in Nodes \X [Nodes -> Nat] |-> E(p[1], p[2])]
<1>1. base \in [Nodes -> Nat]
  OBVIOUS
<1>2. ASSUME NEW n \in Nodes, NEW g \in [Nodes -> Nat]
      PROVE  E(n, g) \in Nat
  <2>1. CASE n \in Dirs
    <3>1. PICK K : K = Kids[n]
      OBVIOUS
    <3>2. IsFiniteSet(K) /\ \A m \in K : g[m] \in Nat
      BY <2>1, <3>1, KidsAre
    <3>3. Max({0} \cup {g[m] : m \in K}) \in Nat
      BY <3>2, LargestIs
    <3>4. 1 + Max({0} \cup {g[m] : m \in K}) \in Nat
      BY <3>3
    <3>5. QED
      BY <2>1, <3>1, <3>4
  <2>2. QED
    BY <2>1
<1>3. ASSUME NEW n \in Nodes, NEW g \in [Nodes -> Nat], NEW h \in [Nodes -> Nat],
             \A m \in KidsOf(n) : g[m] = h[m]
      PROVE  E(n, g) = E(n, h)
  <2>1. CASE n \in Dirs
    <3>1. {g[m] : m \in Kids[n]} = {h[m] : m \in Kids[n]}
      BY <1>3, <2>1, KidsAre
    <3>2. QED
      BY <2>1, <3>1, Zenon
  <2>2. QED
    BY <2>1
<1> HIDE DEF E
<1>4. step \in [Nodes \X [Nodes -> Nat] -> Nat]
  BY <1>2
<1>5. \A n \in Nodes, g \in [Nodes -> Nat] : step[<<n, g>>] = E(n, g)
  OBVIOUS
<1> HIDE DEF base, step
<1>6. LooksAtEntries(step, Nat)
  BY <1>3, <1>5 DEF LooksAtEntries
<1>7. PICK h \in [Nodes -> Nat] : \A n \in Nodes : h[n] = step[<<n, h>>]
  BY <1>1, <1>4, <1>6, TreeRecursion
<1>8. \A n \in Nodes : h[n] = E(n, h)
  BY <1>5, <1>7
<1>9. IsHeight(h)
  BY <1>8, Zenon DEF IsHeight, E
<1>10. QED
  BY <1>9

\* The height of the tree bounds that of its subdirectories, and every step
\* down costs one.
Steps(h) ==
  /\ h \in [Nodes -> Nat]
  /\ \A n \in Dirs : h[n] >= 1 /\ \A m \in Kids[n] : h[m] + 1 <= h[n]
  /\ Height \in Nat
  /\ \A d \in Subdirs : h[d] <= Height

LEMMA HeightIs == \E h : Steps(h)
<1> DEFINE Solves(height) ==
             height = [n \in Nodes |->
                         IF n \notin Dirs THEN 0 ELSE 1 + Max({0} \cup {height[m] : m \in Kids[n]})]
           height == CHOOSE height : Solves(height)
<1>1. Height = Max({0} \cup {height[d] : d \in Subdirs})
  BY DEF Height
<1>2. PICK g \in [Nodes -> Nat] : IsHeight(g)
  BY HeightExists
<1>3. Solves(g)
  <2>1. g = [n \in Nodes |-> g[n]]
    OBVIOUS
  <2>2. QED
    BY <1>2, <2>1, Zenon DEF IsHeight
<1>4. Solves(height)
  <2> HIDE DEF Solves
  <2>1. QED
    BY <1>3, Zenon
<1> HIDE DEF height
<1>5. IsHeight(height)
  BY <1>4, Zenon DEF IsHeight
<1>6. height = [n \in Nodes |-> height[n]]
  BY <1>4, Zenon
<1> HIDE DEF Solves
<1>7. ASSUME NEW n \in Dirs, \A m \in Kids[n] : height[m] \in Nat
      PROVE  height[n] \in Nat /\ height[n] >= 1 /\ \A m \in Kids[n] : height[m] + 1 <= height[n]
  <2>1. PICK K : K = Kids[n]
    OBVIOUS
  <2>2. IsFiniteSet(K) /\ \A m \in K : height[m] \in Nat
    BY <1>7, <2>1, KidsAre
  <2>3. PICK b : b = Max({0} \cup {height[m] : m \in K})
    OBVIOUS
  <2>4. b \in Nat /\ \A m \in K : height[m] <= b
    BY <2>2, <2>3, LargestIs
  <2>5. n \in Nodes
    BY KidsAre
  <2>6. height[n] = 1 + b
    BY <1>5, <2>1, <2>3, <2>5, Zenon DEF IsHeight
  <2>7. QED
    BY <2>1, <2>2, <2>4, <2>6
<1> DEFINE Good == {n \in Nodes : height[n] \in Nat}
<1>8. ASSUME NEW n \in Nodes, KidsOf(n) \subseteq Good
      PROVE  n \in Good
  <2>1. CASE n \in Dirs
    <3>1. \A m \in Kids[n] : height[m] \in Nat
      BY <1>8, <2>1, KidsAre
    <3>2. height[n] \in Nat
      BY <1>7, <2>1, <3>1
    <3>3. QED
      BY <3>2
  <2>2. CASE n \notin Dirs
    <3>1. height[n] = 0
      BY <1>5, <2>2, Zenon DEF IsHeight
    <3>2. QED
      BY <3>1
  <2>3. QED
    BY <2>1, <2>2
<1>9. Nodes \subseteq Good
  <2> HIDE DEF Good
  <2>1. QED
    BY <1>8, TreeInduction
<1>10. height \in [Nodes -> Nat]
  BY <1>6, <1>9
<1>11. \A n \in Dirs : height[n] >= 1 /\ \A m \in Kids[n] : height[m] + 1 <= height[n]
  BY <1>7, <1>10, KidsAre
<1>12. /\ Height \in Nat
       /\ \A d \in Subdirs : height[d] <= Height
  <2>1. PICK K : K = Subdirs
    OBVIOUS
  <2>2. K \in SUBSET Nodes
    BY <2>1, MyDUAssumption DEF Subdirs
  <2>3. IsFiniteSet(K) /\ \A m \in K : height[m] \in Nat
    BY <1>10, <2>2, FS_Subset, MyDUAssumption
  <2>4. PICK b : b = Max({0} \cup {height[m] : m \in K})
    OBVIOUS
  <2>5. b \in Nat /\ \A m \in K : height[m] <= b
    BY <2>3, <2>4, LargestIs
  <2>6. QED
    BY <1>1, <2>1, <2>4, <2>5
<1>13. QED
  BY <1>10, <1>11, <1>12 DEF Steps

LEMMA NodeSumsAgree ==
  ASSUME NEW f \in [Nodes -> Int], NEW g \in [Nodes -> Int], NEW K \in SUBSET Nodes,
         \A m \in K : f[m] = g[m]
  PROVE  SumFunctionOnSet(f, K) = SumFunctionOnSet(g, K)
<1>1. IsFiniteSet(Nodes)
  BY MyDUAssumption
<1>2. QED
  BY <1>1, SumSame

\* A child never finds more than there is, and all there is when it can open
\* every directory.
LEMMA FolderSizeRight ==
  ASSUME NEW N \in Nat, NEW d \in Subdirs
  PROVE  /\ FolderSize(d, N) \in Int
         /\ FolderSize(d, N) <= Whole[d]
         /\ unreadable = {} /\ Height <= N => FolderSize(d, N) = Whole[d]
<1>1. PICK t \in [0 .. N -> [Nodes -> Int]] :
        IsTotal(t, N) /\ \A n \in Nodes : FolderSize(n, N) = t[N][n]
  BY FolderSizeIs
<1>2. PICK h : Steps(h)
  BY HeightIs
<1>3. PICK w \in [Nodes -> Nat] :
        w = Whole /\ \A n \in Nodes : w[n] = Bytes[n] + SumFunctionOnSet(w, KidsOf(n))
  BY WholeExists DEF IsWhole
<1>4. /\ IsFiniteSet(Nodes)
      /\ w \in [Nodes -> Int]
      /\ \A n \in Nodes : Bytes[n] \in Nat
  BY MyDUAssumption
<1>5. ASSUME NEW g \in [Nodes -> Int], NEW K \in SUBSET Nodes, \A m \in K : g[m] = w[m]
      PROVE  SumFunctionOnSet(g, K) = SumFunctionOnSet(w, K)
  <2>1. w \in [Nodes -> Int]
    BY <1>4
  <2>2. QED
    BY <1>5, <2>1, NodeSumsAgree
<1>6. SumFunctionOnSet(w, {}) = 0
  BY <1>4, SumRules
<1>7. ASSUME NEW n \in Nodes, n \notin Dirs
      PROVE  w[n] = Bytes[n]
  <2>1. KidsOf(n) = {}
    BY <1>7 DEF KidsOf
  <2>2. w[n] = Bytes[n] + SumFunctionOnSet(w, {})
    BY <1>3, <2>1
  <2>3. QED
    BY <1>4, <1>6, <2>2
<1>8. \A n \in Dirs : w[n] = Bytes[n] + SumFunctionOnSet(w, Kids[n])
  BY <1>3, KidsAre
<1> DEFINE Bounded == {k \in Nat : k <= N => \A n \in Nodes : t[k][n] <= w[n]}
           Exact == {k \in Nat : k <= N => \A n \in Nodes : h[n] <= k => t[k][n] = w[n]}
<1>9. 0 \in Bounded
  <2>1. 0 \in 0 .. N
    OBVIOUS
  <2>2. \A n \in Nodes : t[0][n] <= w[n]
    <3>1. \A n \in Nodes : t[0][n] = IF n \notin Dirs THEN Bytes[n] ELSE -1
      BY <1>1, <2>1 DEF IsTotal, CanOpen
    <3>2. \A n \in Nodes : n \notin Dirs => t[0][n] = w[n] /\ w[n] \in Nat
      BY <1>7, <3>1
    <3>3. \A n \in Nodes : n \in Dirs => t[0][n] = -1 /\ w[n] \in Nat
      BY <3>1
    <3>4. ASSUME NEW n \in Nodes PROVE t[0][n] <= w[n]
      <4>1. CASE n \in Dirs
        BY <3>3, <4>1
      <4>2. CASE n \notin Dirs
        BY <3>2, <4>2
      <4>3. QED
        BY <4>1, <4>2
    <3>5. QED
      BY <3>4
  <2>3. QED
    BY <2>2
<1>10. ASSUME NEW k \in Nat, k \in Bounded
      PROVE  k + 1 \in Bounded
  <2>1. SUFFICES ASSUME k + 1 <= N, NEW n \in Nodes PROVE t[k + 1][n] <= w[n]
    OBVIOUS
  <2>2. k + 1 \in 0 .. N /\ k \in 0 .. N /\ (k + 1) - 1 = k /\ k <= N
    BY <2>1
  <2>3. t[k] \in [Nodes -> Int] /\ \A m \in Nodes : t[k][m] <= w[m]
    BY <1>10, <2>2
  <2>4. t[k + 1][n] = IF n \notin Dirs THEN Bytes[n]
                      ELSE IF ~CanOpen(n, k + 1) THEN -1
                      ELSE Bytes[n] + SumFunctionOnSet(t[k], Kids[n])
    BY <1>1, <2>2 DEF IsTotal
  <2>5. CASE n \notin Dirs
    BY <1>4, <1>7, <2>4, <2>5
  <2>6. CASE n \in Dirs /\ ~CanOpen(n, k + 1)
    <3>1. t[k + 1][n] = -1
      BY <2>4, <2>6
    <3>2. QED
      BY <1>3, <3>1
  <2>7. CASE n \in Dirs /\ CanOpen(n, k + 1)
    <3>1. PICK K \in SUBSET Nodes : K = Kids[n]
      BY <2>7, KidsAre
    <3>2. SumFunctionOnSet(t[k], K) <= SumFunctionOnSet(w, K)
      BY <1>4, <2>3, SumCompare
    <3>3. SumFunctionOnSet(t[k], K) \in Int /\ SumFunctionOnSet(w, K) \in Int
      BY <1>4, <2>3, SumRules
    <3>4. t[k + 1][n] = Bytes[n] + SumFunctionOnSet(t[k], K) /\ w[n] = Bytes[n] + SumFunctionOnSet(w, K)
      BY <1>8, <2>4, <2>7, <3>1
    <3>5. QED
      BY <1>4, <3>2, <3>3, <3>4
  <2>8. QED
    BY <2>5, <2>6, <2>7
<1>11. Nat \subseteq Bounded
  <2> HIDE DEF Bounded
  <2>1. QED
    BY <1>9, <1>10, Induction
<1>12. ASSUME unreadable = {}
       PROVE  Nat \subseteq Exact
  <2>1. 0 \in Exact
    <3>1. 0 \in 0 .. N
      OBVIOUS
    <3>2. ASSUME NEW n \in Nodes, h[n] <= 0
          PROVE  t[0][n] = w[n]
      <4>1. n \notin Dirs
        BY <1>2, <3>2 DEF Steps
      <4>2. t[0][n] = Bytes[n]
        BY <1>1, <3>1, <4>1 DEF IsTotal
      <4>3. QED
        BY <1>7, <4>1, <4>2
    <3>3. QED
      BY <3>2
  <2>2. ASSUME NEW k \in Nat, k \in Exact
        PROVE  k + 1 \in Exact
    <3>1. SUFFICES ASSUME k + 1 <= N, NEW n \in Nodes, h[n] <= k + 1
                   PROVE  t[k + 1][n] = w[n]
      OBVIOUS
    <3>2. k + 1 \in 0 .. N /\ k \in 0 .. N /\ (k + 1) - 1 = k /\ k <= N
      BY <3>1
    <3>3. t[k + 1][n] = IF n \notin Dirs THEN Bytes[n]
                        ELSE IF ~CanOpen(n, k + 1) THEN -1
                        ELSE Bytes[n] + SumFunctionOnSet(t[k], Kids[n])
      BY <1>1, <3>2 DEF IsTotal
    <3>4. CASE n \notin Dirs
      BY <1>7, <3>3, <3>4
    <3>5. CASE n \in Dirs
      <4>1. CanOpen(n, k + 1)
        BY <1>12, <3>2 DEF CanOpen
      <4>2. PICK K \in SUBSET Nodes : K = Kids[n]
        BY <3>5, KidsAre
      <4>3. \A m \in K : h[m] <= k
        <5>0. h[n] <= k + 1
          BY <3>1
        <5>1. ASSUME NEW m \in K PROVE h[m] <= k
          <6>1. h[m] + 1 <= h[n] /\ h[m] \in Nat /\ h[n] \in Nat
            <7>1. \A x \in Nodes : h[x] \in Nat
              BY <1>2 DEF Steps
            <7>2. \A x \in Kids[n] : h[x] + 1 <= h[n]
              BY <1>2, <3>5 DEF Steps
            <7>3. m \in Kids[n] /\ m \in Nodes /\ n \in Nodes
              BY <4>2
            <7>4. QED
              BY <7>1, <7>2, <7>3
          <6>2. \A x, y \in Nat : x + 1 <= y /\ y <= k + 1 => x <= k
            OBVIOUS
          <6>3. QED
            BY <5>0, <6>1, <6>2, Zenon
        <5>2. QED
          BY <5>1
      <4>4. t[k] \in [Nodes -> Int] /\ \A m \in K : t[k][m] = w[m]
        BY <2>2, <3>2, <4>3
      <4>5. SumFunctionOnSet(t[k], K) = SumFunctionOnSet(w, K)
        <5>1. PICK g \in [Nodes -> Int] : g = t[k] /\ \A m \in K : g[m] = w[m]
          BY <4>4
        <5>2. SumFunctionOnSet(g, K) = SumFunctionOnSet(w, K)
          BY <1>5, <5>1
        <5>3. QED
          BY <5>1, <5>2, Zenon
      <4>6. t[k + 1][n] = Bytes[n] + SumFunctionOnSet(t[k], K) /\ w[n] = Bytes[n] + SumFunctionOnSet(w, K)
        BY <1>8, <3>3, <3>5, <4>1, <4>2
      <4>7. QED
        BY <4>5, <4>6
    <3>6. QED
      BY <3>4, <3>5
  <2>3. QED
    <3> HIDE DEF Exact
    <3>1. QED
      BY <2>1, <2>2, Induction
<1>13. d \in Nodes /\ N \in 0 .. N /\ h[d] <= Height /\ h[d] \in Nat /\ Height \in Nat
  BY <1>2, MyDUAssumption DEF Subdirs, Steps
<1>14. t[N][d] \in Int /\ t[N][d] <= w[d]
  BY <1>11, <1>13
<1>15. ASSUME unreadable = {}, Height <= N
       PROVE  t[N][d] = w[d]
  <2>1. h[d] <= N /\ N \in Exact
    BY <1>12, <1>13, <1>15
  <2>2. QED
    BY <1>13, <2>1
<1>16. QED
  BY <1>1, <1>3, <1>13, <1>14, <1>15
------------------------------------------------------------------------------
(* What is counted and what is open, at every point of the parent *)

\* Every directory can be opened.
AllIsRead == unreadable = {} /\ EnoughDescriptors

\* The amount counted for what has so many bytes: the same when all is read.
Counts(amount, bytes) ==
  /\ amount \in Int
  /\ amount <= bytes
  /\ AllIsRead => amount = bytes

\* The bytes of the entries the parent went through, and the subdirectories
\* among them.
Seen == Bytes[Root] + SumFunctionOnSet(Whole, Kids[Root] \ left)
Passed == Cardinality(Subdirs \ left)

WithChild == {"pipe", "fork", "wait", "close", "read"}

\* Where the parent is and what it has printed.
Shape ==
  /\ limit \in Nat \ {4, 5}
  /\ left \subseteq Kids[Root]
  /\ current \in Nodes
  /\ size \in Int
  /\ parent = "open" => left = Kids[Root] /\ used = OpenAtStart
  /\ parent \in WithChild => current \in Subdirs \ left
  /\ output \in {Nothing, Error, Total}
  /\ parent # "done" => output = Nothing
  /\ output = Total => left = {}

\* Every subdirectory leaves a read end open; a pipe in use takes one more for
\* the end that is written to.
Descriptors ==
  /\ parent # "open" /\ output # Error =>
       used \in OpenAtStart .. limit /\ ("parent" \in pipe.writers => used >= OpenAtStart + 2)
  /\ AllIsRead =>
       /\ parent \in {"next", "read"} => used = OpenAtStart + Passed
       /\ parent = "pipe" => used = (OpenAtStart + Passed) - 1
       /\ parent \in {"fork", "wait", "close"} =>
            used = OpenAtStart + Passed + 1 /\ "parent" \in pipe.writers

\* What was counted, and what the child that runs, or the message it left, adds
\* to it, is what was seen.
Amounts ==
  /\ parent = "next" \/ output = Total => Counts(size, Seen)
  /\ parent \in WithChild => Counts(size + Whole[current], Seen)
  /\ child = "write" => Counts(direcSize, Whole[current])
  /\ \A n : pipe.data = <<n>> => Counts(n, Whole[current])

\* The inductive invariant of the amounts.
AccountInv == StageInv /\ Shape /\ Descriptors /\ Amounts
------------------------------------------------------------------------------
\* The root and its entries.
LEMMA RootFacts ==
  /\ Root \in Dirs /\ Root \in Nodes /\ Kids[Root] \subseteq Nodes
  /\ Subdirs \subseteq Kids[Root] /\ Subdirs \subseteq Dirs
  /\ IsFiniteSet(Nodes) /\ IsFiniteSet(Subdirs)
  /\ Cardinality(Subdirs) \in Nat
  /\ Bytes \in [Nodes -> Nat] /\ Whole \in [Nodes -> Nat] /\ Whole \in [Nodes -> Int]
  /\ \A n \in Nodes : n \notin Dirs => Whole[n] = Bytes[n]
<1>1. /\ Root \in Dirs /\ Root \in Nodes /\ Kids[Root] \subseteq Nodes
      /\ IsFiniteSet(Nodes) /\ Bytes \in [Nodes -> Nat]
  BY MyDUAssumption
<1>2. Subdirs \subseteq Kids[Root] /\ Subdirs \subseteq Dirs /\ Subdirs \subseteq Nodes
  BY <1>1 DEF Subdirs
<1>3. IsFiniteSet(Subdirs) /\ Cardinality(Subdirs) \in Nat
  BY <1>1, <1>2, FS_Subset, FS_CardinalityType
<1>4. Whole \in [Nodes -> Nat]
  BY WholeExists DEF IsWhole
<1>5. PICK w \in [Nodes -> Int] : w = Whole
  BY <1>4
<1>6. ASSUME NEW n \in Nodes, n \notin Dirs
      PROVE  Whole[n] = Bytes[n]
  <2>1. SumFunctionOnSet(w, {}) = 0
    BY <1>1, SumRules
  <2>2. KidsOf(n) = {}
    BY <1>6 DEF KidsOf
  <2>3. Whole[n] = Bytes[n] + SumFunctionOnSet(w, {})
    BY <1>5, <2>2, WholeExists DEF IsWhole
  <2>4. QED
    BY <1>1, <2>1, <2>3
<1>7. QED
  BY <1>1, <1>2, <1>3, <1>4, <1>6

\* What going on to another entry adds.
LEMMA OneMore ==
  ASSUME NEW l \in SUBSET Kids[Root], NEW e \in l
  PROVE  /\ SumFunctionOnSet(Whole, Kids[Root] \ l) \in Int
         /\ SumFunctionOnSet(Whole, Kids[Root] \ (l \ {e})) = Whole[e] + SumFunctionOnSet(Whole, Kids[Root] \ l)
         /\ Whole[e] \in Nat
<1>1. PICK K \in SUBSET Nodes : K = Kids[Root] \ (l \ {e})
  BY RootFacts
<1>2. PICK M \in SUBSET Nodes : M = Kids[Root] \ l
  BY RootFacts
<1>3. e \in K /\ K \ {e} = M /\ e \in Nodes
  BY <1>1, <1>2, RootFacts
<1>4. SumFunctionOnSet(Whole, M) \in Int
  BY RootFacts, SumRules
<1>5. SumFunctionOnSet(Whole, K) = Whole[e] + SumFunctionOnSet(Whole, K \ {e})
  BY <1>3, RootFacts, SumRules
<1>6. Whole[e] \in Nat
  BY <1>3, RootFacts
<1>7. QED
  BY <1>1, <1>2, <1>3, <1>4, <1>5, <1>6, Zenon

LEMMA CountSubdirs ==
  ASSUME NEW l \in SUBSET Kids[Root]
  PROVE  /\ Cardinality(Subdirs \ l) \in Nat
         /\ Cardinality(Subdirs \ l) <= Cardinality(Subdirs)
         /\ \A e \in l : Cardinality(Subdirs \ (l \ {e})) =
                           IF e \in Dirs THEN Cardinality(Subdirs \ l) + 1 ELSE Cardinality(Subdirs \ l)
<1>1. Subdirs \ l \in SUBSET Subdirs
  OBVIOUS
<1>2. /\ IsFiniteSet(Subdirs \ l)
      /\ Cardinality(Subdirs \ l) \in Nat
      /\ Cardinality(Subdirs \ l) <= Cardinality(Subdirs)
  BY <1>1, RootFacts, FS_Subset, FS_CardinalityType
<1>3. ASSUME NEW e \in l
      PROVE  Cardinality(Subdirs \ (l \ {e})) =
                IF e \in Dirs THEN Cardinality(Subdirs \ l) + 1 ELSE Cardinality(Subdirs \ l)
  <2>1. CASE e \in Dirs
    <3>1. Subdirs \ (l \ {e}) = (Subdirs \ l) \cup {e} /\ e \notin Subdirs \ l
      BY <2>1 DEF Subdirs
    <3>2. Cardinality((Subdirs \ l) \cup {e}) = Cardinality(Subdirs \ l) + 1
      BY <1>2, <3>1, FS_AddElement
    <3>3. QED
      BY <2>1, <3>1, <3>2, Zenon
  <2>2. CASE e \notin Dirs
    <3>1. Subdirs \ (l \ {e}) = Subdirs \ l
      BY <2>2 DEF Subdirs
    <3>2. QED
      BY <2>2, <3>1, Zenon
  <2>3. QED
    BY <2>1, <2>2
<1>4. QED
  BY <1>2, <1>3

\* Where every directory can be opened there are descriptors for every child.
LEMMA RoomFor ==
  ASSUME AllIsRead, Shape
  PROVE  /\ Height \in Nat
         /\ Passed \in Nat
         /\ OpenAtStart + Passed + Height <= limit
         /\ Subdirs # {} => Height >= 1
<1>1. PICK h : Steps(h)
  BY HeightIs
<1>2. Height \in Nat
  BY <1>1 DEF Steps
<1>3. Passed \in Nat /\ Passed <= Cardinality(Subdirs) /\ Cardinality(Subdirs) \in Nat
  BY CountSubdirs, RootFacts DEF Passed, Shape
<1>4. OpenAtStart + Cardinality(Subdirs) + Height <= limit /\ limit \in Nat
  BY DEF AllIsRead, EnoughDescriptors, Shape
<1>5. ASSUME Subdirs # {}
      PROVE  Height >= 1
  <2>1. PICK d \in Subdirs : TRUE
    BY <1>5
  <2>2. d \in Dirs /\ d \in Nodes
    BY RootFacts
  <2>3. h[d] \in Nat /\ h[d] >= 1 /\ h[d] <= Height
    BY <1>1, <2>1, <2>2 DEF Steps
  <2>4. QED
    BY <1>2, <2>3
<1>6. QED
  BY <1>2, <1>3, <1>4, <1>5 DEF OpenAtStart
------------------------------------------------------------------------------
LEMMA AccountInit == Init => AccountInv
<1> SUFFICES ASSUME Init PROVE AccountInv
  OBVIOUS
<1>1. StageInv
  BY StageInit
<1>2. limit \in Nat \ {4, 5}
  BY MyDUAssumption DEF Init
<1>3. Shape
  BY <1>2, RootFacts DEF Init, Shape, WithChild, Nothing, Error, Total
<1>4. Descriptors
  BY DEF Init, Descriptors
<1>5. Amounts
  BY DEF Init, Amounts, WithChild, Nothing, Total
<1>6. QED
  BY <1>1, <1>3, <1>4, <1>5 DEF AccountInv

\* The files, the failures and the limit do not change.
LEMMA SameLimits ==
  ASSUME UNCHANGED filesystem
  PROVE  AllIsRead' <=> AllIsRead
BY DEF filesystem, AllIsRead, EnoughDescriptors

\* An empty pipe has no message.
LEMMA NoMessage == \A n : <<>> # <<n>>
<1>1. ASSUME NEW n PROVE <<>> # <<n>>
  <2>1. Len(<<n>>) = 1 /\ Len(<<>>) = 0
    OBVIOUS
  <2>2. QED
    BY <2>1
<1>2. QED
  BY <1>1

LEMMA OpenAccounts == AccountInv /\ OpenRoot => AccountInv'
<1> SUFFICES ASSUME AccountInv, OpenRoot PROVE AccountInv'
  OBVIOUS
<1>0. StageInv' /\ StageInv /\ Shape /\ Descriptors /\ Amounts
  BY BetweenChildren DEF AccountInv
<1>1. /\ parent = "open" /\ child = "none" /\ pipe.data = <<>> /\ pipe.writers = {}
      /\ left = Kids[Root] /\ used = OpenAtStart /\ output = Nothing
      /\ UNCHANGED <<filesystem, left, current, used, pipe, child, direcSize>>
  BY <1>0 DEF OpenRoot, StageInv, Stage, Shape
<1>2. CASE parent' = "done"
  <2>1. output' = Error /\ size' = size
    BY <1>2 DEF OpenRoot, Fail
  <2>2. Shape'
    BY <1>0, <1>1, <1>2, <2>1 DEF Shape, filesystem, WithChild, Error, Total, Nothing
  <2>3. Descriptors'
    BY <1>2, <2>1 DEF Descriptors
  <2>4. Amounts'
    BY <1>1, <1>2, <2>1, NoMessage DEF Amounts, WithChild, Error, Total
  <2>5. QED
    BY <1>0, <2>2, <2>3, <2>4 DEF AccountInv
<1>3. CASE parent' # "done"
  <2>1. parent' = "next" /\ size' = Bytes[Root] /\ output' = output /\ limit >= OpenAtStart
    BY <1>0, <1>3 DEF OpenRoot, Fail, Shape, OpenAtStart
  <2>2. Bytes[Root] \in Int
    BY RootFacts
  <2>3. Shape'
    BY <1>0, <1>1, <2>1, <2>2 DEF Shape, filesystem, WithChild, Error, Total, Nothing
  <2>4. Subdirs \ left = {} /\ Kids[Root] \ left = {}
    BY <1>1, RootFacts
  <2>5. Passed' = 0
    BY <1>1, <2>4, FS_EmptySet DEF Passed
  <2>6. Seen' = Bytes[Root]
    <3>1. SumFunctionOnSet(Whole, {}) = 0
      BY RootFacts, SumRules
    <3>2. Seen' = Bytes[Root] + SumFunctionOnSet(Whole, {})
      BY <1>1, <2>4, Zenon DEF Seen
    <3>3. QED
      BY <2>2, <3>1, <3>2
  <2>7. Descriptors'
    BY <1>0, <1>1, <2>1, <2>5 DEF Descriptors, OpenAtStart, Shape, filesystem
  <2>8. Amounts'
    BY <1>1, <2>1, <2>2, <2>6, NoMessage DEF Amounts, Counts, WithChild, Nothing, Total
  <2>9. QED
    BY <1>0, <2>3, <2>7, <2>8 DEF AccountInv
<1>4. QED
  BY <1>2, <1>3

LEMMA EntryAccounts == AccountInv /\ NextEntry => AccountInv'
<1> SUFFICES ASSUME AccountInv, NextEntry PROVE AccountInv'
  OBVIOUS
<1>0. StageInv' /\ StageInv /\ Shape /\ Descriptors /\ Amounts
  BY BetweenChildren DEF AccountInv
<1>1. PICK e \in left :
        /\ left' = left \ {e} /\ current' = e
        /\ IF e \in missing THEN Fail /\ UNCHANGED size
           ELSE /\ UNCHANGED output
                /\ IF e \in Dirs THEN parent' = "pipe" /\ UNCHANGED size
                   ELSE parent' = "next" /\ size' = size + Bytes[e]
  BY DEF NextEntry
<1>2. /\ parent = "next" /\ child = "none" /\ pipe.data = <<>> /\ pipe.writers = {}
      /\ output = Nothing
      /\ UNCHANGED <<filesystem, used, pipe, child, direcSize>>
  BY <1>0 DEF NextEntry, StageInv, Stage, Shape
<1>3. /\ left \in SUBSET Kids[Root] /\ left' \in SUBSET Kids[Root] /\ e \in Nodes /\ e \in Kids[Root]
      /\ size \in Int /\ Bytes[e] \in Nat /\ Bytes[Root] \in Nat
  BY <1>0, <1>1, RootFacts DEF Shape
<1>4. AllIsRead' <=> AllIsRead
  BY <1>2, SameLimits
<1>5. CASE e \in missing
  <2>1. parent' = "done" /\ output' = Error /\ size' = size
    BY <1>1, <1>5 DEF Fail
  <2>2. Shape'
    BY <1>0, <1>1, <1>2, <1>3, <2>1 DEF Shape, filesystem, WithChild, Error, Total, Nothing
  <2>3. Descriptors'
    BY <2>1 DEF Descriptors
  <2>4. Amounts'
    BY <1>2, <2>1, NoMessage DEF Amounts, WithChild, Error, Total
  <2>5. QED
    BY <1>0, <2>2, <2>3, <2>4 DEF AccountInv
<1>6. ASSUME e \notin missing
      PROVE  /\ Seen' = Seen + Whole[e] /\ Whole[e] \in Nat /\ Seen \in Int
             /\ Passed \in Nat
             /\ Passed' = IF e \in Dirs THEN Passed + 1 ELSE Passed
             /\ Counts(size, Seen)
  <2>1. PICK now, then :
          /\ now \in Int
          /\ now = SumFunctionOnSet(Whole, Kids[Root] \ left)
          /\ then = SumFunctionOnSet(Whole, Kids[Root] \ (left \ {e}))
          /\ then = Whole[e] + now /\ Whole[e] \in Nat
    BY <1>3, OneMore
  <2>2. Seen = Bytes[Root] + now /\ Seen' = Bytes[Root] + then
    BY <1>1, <2>1, Zenon DEF Seen
  <2>3. Seen' = Seen + Whole[e] /\ Seen \in Int
    BY <1>3, <2>1, <2>2
  <2>4. /\ Cardinality(Subdirs \ left) \in Nat
        /\ Cardinality(Subdirs \ (left \ {e})) =
             IF e \in Dirs THEN Cardinality(Subdirs \ left) + 1 ELSE Cardinality(Subdirs \ left)
    BY <1>3, CountSubdirs
  <2>5. Passed \in Nat /\ Passed' = IF e \in Dirs THEN Passed + 1 ELSE Passed
    BY <1>1, <2>4, Zenon DEF Passed
  <2>6. Counts(size, Seen)
    BY <1>0, <1>2 DEF Amounts
  <2>7. QED
    BY <2>1, <2>3, <2>5, <2>6
<1>7. CASE e \notin missing /\ e \in Dirs
  <2>1. parent' = "pipe" /\ size' = size /\ output' = output
    BY <1>1, <1>7
  <2>2. Shape'
    <3>1. e \in Subdirs \ left'
      BY <1>1, <1>3, <1>7 DEF Subdirs
    <3>2. QED
      BY <1>0, <1>1, <1>2, <1>3, <2>1, <3>1 DEF Shape, filesystem, WithChild, Error, Total, Nothing
  <2>3. Descriptors'
    BY <1>0, <1>2, <1>4, <1>6, <1>7, <2>1 DEF Descriptors, OpenAtStart, Shape, filesystem
  <2>4. Amounts'
    <3>1. Counts(size + Whole[e], Seen + Whole[e])
      BY <1>3, <1>6, <1>7 DEF Counts
    <3>2. size' + Whole[current'] = size + Whole[e] /\ Seen' = Seen + Whole[e]
      BY <1>1, <1>6, <1>7, <2>1
    <3>3. Counts(size + Whole[current], Seen)'
      BY <1>4, <3>1, <3>2 DEF Counts
    <3>4. QED
      BY <1>2, <2>1, <3>3, NoMessage DEF Amounts, WithChild, Total, Nothing
  <2>5. QED
    BY <1>0, <2>2, <2>3, <2>4 DEF AccountInv
<1>8. CASE e \notin missing /\ e \notin Dirs
  <2>1. parent' = "next" /\ size' = size + Bytes[e] /\ output' = output
    BY <1>1, <1>8
  <2>2. Shape'
    BY <1>0, <1>1, <1>2, <1>3, <2>1 DEF Shape, filesystem, WithChild, Error, Total, Nothing
  <2>3. Descriptors'
    BY <1>0, <1>2, <1>4, <1>6, <1>8, <2>1 DEF Descriptors, OpenAtStart, Shape, filesystem
  <2>4. Whole[e] = Bytes[e]
    BY <1>3, <1>8, RootFacts
  <2>5. Amounts'
    <3>1. Counts(size + Whole[e], Seen + Whole[e])
      BY <1>3, <1>6, <1>8 DEF Counts
    <3>2. size' = size + Whole[e] /\ Seen' = Seen + Whole[e]
      BY <1>6, <1>8, <2>1, <2>4
    <3>3. Counts(size, Seen)'
      BY <1>4, <3>1, <3>2 DEF Counts
    <3>4. QED
      BY <1>2, <2>1, <3>3, NoMessage DEF Amounts, WithChild, Total, Nothing
  <2>6. QED
    BY <1>0, <2>2, <2>3, <2>5 DEF AccountInv
<1>9. QED
  BY <1>5, <1>7, <1>8

\* Nothing the account speaks of changes but the parent's place.
LEMMA PlaceSame ==
  ASSUME UNCHANGED <<filesystem, left>>
  PROVE  /\ AllIsRead' <=> AllIsRead
         /\ Seen' = Seen /\ Passed' = Passed
         /\ \A a, b : Counts(a, b)' <=> Counts(a, b)
BY SameLimits DEF Seen, Passed, Counts

LEMMA PipeAccounts == AccountInv /\ MakePipe => AccountInv'
<1> SUFFICES ASSUME AccountInv, MakePipe PROVE AccountInv'
  OBVIOUS
<1>0. StageInv' /\ StageInv /\ Shape /\ Descriptors /\ Amounts
  BY BetweenChildren DEF AccountInv
<1>1. /\ parent = "pipe" /\ parent' = "fork" /\ child = "none" /\ pipe.data = <<>> /\ pipe.writers = {}
      /\ output = Nothing
      /\ UNCHANGED <<filesystem, left, current, size, child, direcSize, output>>
  BY <1>0 DEF MakePipe, StageInv, Stage, Shape
<1>2. /\ AllIsRead' <=> AllIsRead
      /\ Seen' = Seen /\ Passed' = Passed
  BY <1>1, PlaceSame
<1>3. Shape'
  BY <1>0, <1>1 DEF Shape, filesystem, WithChild, Error, Total, Nothing
<1>4. \/ used + 2 <= limit /\ pipe'.data = <<>> /\ pipe'.writers = {"parent"} /\ used' = used + 2
      \/ ~(used + 2 <= limit) /\ pipe' = pipe /\ used' = used
  BY DEF MakePipe
<1>5. used \in OpenAtStart .. limit /\ limit \in Nat
  BY <1>0, <1>1 DEF Descriptors, Shape, Error, Nothing
<1>6. ASSUME AllIsRead
      PROVE  used + 2 <= limit /\ used = (OpenAtStart + Passed) - 1 /\ Passed \in Nat
  <2>1. current \in Subdirs
    BY <1>0, <1>1 DEF Shape, WithChild
  <2>2. Height \in Nat /\ Passed \in Nat /\ OpenAtStart + Passed + Height <= limit /\ Height >= 1
    BY <1>0, <1>6, <2>1, RoomFor
  <2>3. used = (OpenAtStart + Passed) - 1
    BY <1>0, <1>1, <1>6 DEF Descriptors
  <2>4. QED
    BY <1>5, <2>2, <2>3 DEF OpenAtStart
<1>7. Descriptors'
  <2>1. ASSUME AllIsRead
        PROVE  used' = OpenAtStart + Passed + 1 /\ "parent" \in pipe'.writers
    BY <1>4, <1>6, <2>1 DEF OpenAtStart
  <2>2. used' \in OpenAtStart .. limit /\ ("parent" \in pipe'.writers => used' >= OpenAtStart + 2)
    BY <1>1, <1>4, <1>5 DEF OpenAtStart
  <2>3. limit' = limit
    BY <1>1 DEF filesystem
  <2>4. QED
    BY <1>1, <1>2, <2>1, <2>2, <2>3 DEF Descriptors
<1>8. Amounts'
  <2>1. pipe'.data = <<>>
    BY <1>1, <1>4
  <2>2. Counts(size + Whole[current], Seen)
    BY <1>0, <1>1, NoMessage DEF Amounts, WithChild
  <2>3. QED
    BY <1>1, <1>2, <2>1, <2>2, NoMessage DEF Amounts, Counts, WithChild, Total, Nothing
<1>9. QED
  BY <1>0, <1>3, <1>7, <1>8 DEF AccountInv

LEMMA ForkAccounts == AccountInv /\ Fork => AccountInv'
<1> SUFFICES ASSUME AccountInv, Fork PROVE AccountInv'
  OBVIOUS
<1>0. StageInv' /\ StageInv /\ Shape /\ Descriptors /\ Amounts
  BY ForkKeeps DEF AccountInv
<1>1. /\ parent = "fork" /\ child = "none" /\ pipe.data = <<>>
      /\ output = Nothing
      /\ UNCHANGED <<filesystem, left, current, size, used, direcSize>>
  BY <1>0 DEF Fork, StageInv, Stage, Shape
<1>2. /\ AllIsRead' <=> AllIsRead
      /\ Seen' = Seen /\ Passed' = Passed
  BY <1>1, PlaceSame
<1>3. CASE parent' = "done"
  <2>1. output' = Error /\ child' = child /\ pipe' = pipe
    BY <1>3 DEF Fork, Fail
  <2>2. Shape'
    BY <1>0, <1>1, <1>3, <2>1 DEF Shape, filesystem, WithChild, Error, Total, Nothing
  <2>3. Descriptors'
    BY <1>3, <2>1 DEF Descriptors
  <2>4. Amounts'
    BY <1>1, <1>3, <2>1, NoMessage DEF Amounts, WithChild, Error, Total
  <2>5. QED
    BY <1>0, <2>2, <2>3, <2>4 DEF AccountInv
<1>4. CASE parent' # "done"
  <2>1. PICK more \in SUBSET {"child"} :
          /\ parent' = "wait" /\ child' = "close" /\ output' = output
          /\ pipe' = [pipe EXCEPT !.writers = @ \cup more]
    BY <1>4 DEF Fork, Fail
  <2>2. pipe'.data = <<>> /\ ("parent" \in pipe'.writers <=> "parent" \in pipe.writers)
    BY <1>0, <1>1, <2>1 DEF StageInv, PipeOK
  <2>3. Shape'
    BY <1>0, <1>1, <2>1 DEF Shape, filesystem, WithChild, Error, Total, Nothing
  <2>4. Descriptors'
    BY <1>0, <1>1, <1>2, <2>1, <2>2 DEF Descriptors, filesystem
  <2>5. Amounts'
    <3>1. Counts(size + Whole[current], Seen)
      BY <1>0, <1>1, NoMessage DEF Amounts, WithChild
    <3>2. QED
      BY <1>1, <1>2, <2>1, <2>2, <3>1, NoMessage DEF Amounts, Counts, WithChild, Total, Nothing
  <2>6. QED
    BY <1>0, <2>3, <2>4, <2>5 DEF AccountInv
<1>5. QED
  BY <1>3, <1>4

LEMMA WaitAccounts == AccountInv /\ Wait => AccountInv'
<1> SUFFICES ASSUME AccountInv, Wait PROVE AccountInv'
  OBVIOUS
<1>0. StageInv' /\ StageInv /\ Shape /\ Descriptors /\ Amounts
  BY WaitKeeps DEF AccountInv
<1>1. /\ parent = "wait" /\ parent' = "close" /\ child' = "none" /\ output = Nothing
      /\ UNCHANGED <<filesystem, left, current, size, used, pipe, direcSize, output>>
  BY <1>0 DEF Wait, Shape
<1>2. /\ AllIsRead' <=> AllIsRead
      /\ Seen' = Seen /\ Passed' = Passed
  BY <1>1, PlaceSame
<1>3. Shape'
  BY <1>0, <1>1 DEF Shape, filesystem, WithChild, Error, Total, Nothing
<1>4. Descriptors'
  BY <1>0, <1>1, <1>2 DEF Descriptors, filesystem
<1>5. Amounts'
  BY <1>0, <1>1, <1>2 DEF Amounts, Counts, WithChild, Total, Nothing
<1>6. QED
  BY <1>0, <1>3, <1>4, <1>5 DEF AccountInv

LEMMA CloseAccounts == AccountInv /\ CloseWriteEnd => AccountInv'
<1> SUFFICES ASSUME AccountInv, CloseWriteEnd PROVE AccountInv'
  OBVIOUS
<1>0. StageInv' /\ StageInv /\ Shape /\ Descriptors /\ Amounts
  BY CloseKeeps DEF AccountInv
<1>1. /\ parent = "close" /\ parent' = "read" /\ child = "none" /\ output = Nothing
      /\ UNCHANGED <<filesystem, left, current, size, child, direcSize, output>>
      /\ used' = IF "parent" \in pipe.writers THEN used - 1 ELSE used
      /\ pipe' = [pipe EXCEPT !.writers = @ \ {"parent"}]
  BY <1>0 DEF CloseWriteEnd, StageInv, Stage, Shape
<1>2. /\ AllIsRead' <=> AllIsRead
      /\ Seen' = Seen /\ Passed' = Passed
  BY <1>1, PlaceSame
<1>3. Shape'
  BY <1>0, <1>1 DEF Shape, filesystem, WithChild, Error, Total, Nothing
<1>4. pipe'.data = pipe.data /\ "parent" \notin pipe'.writers
  BY <1>0, <1>1 DEF StageInv, PipeOK
<1>5. Descriptors'
  <2>1. /\ used \in OpenAtStart .. limit /\ limit \in Nat
        /\ "parent" \in pipe.writers => used >= OpenAtStart + 2
    BY <1>0, <1>1 DEF Descriptors, Shape, Error, Nothing
  <2>2. used' \in OpenAtStart .. limit /\ limit' = limit
    BY <1>1, <2>1 DEF OpenAtStart, filesystem
  <2>3. ASSUME AllIsRead
        PROVE  used' = OpenAtStart + Passed
    <3>1. used = OpenAtStart + Passed + 1 /\ "parent" \in pipe.writers
      BY <1>0, <1>1, <2>3 DEF Descriptors
    <3>2. Passed \in Nat
      BY <1>0, <2>3, RoomFor
    <3>3. QED
      BY <1>1, <3>1, <3>2 DEF OpenAtStart
  <2>4. QED
    BY <1>1, <1>2, <1>4, <2>2, <2>3 DEF Descriptors
<1>6. Amounts'
  BY <1>0, <1>1, <1>2, <1>4 DEF Amounts, Counts, WithChild, Total, Nothing
<1>7. QED
  BY <1>0, <1>3, <1>5, <1>6 DEF AccountInv

LEMMA ReadAccounts == AccountInv /\ ReadPipe => AccountInv'
<1> SUFFICES ASSUME AccountInv, ReadPipe PROVE AccountInv'
  OBVIOUS
<1>0. StageInv' /\ StageInv /\ Shape /\ Descriptors /\ Amounts
  BY ReadKeeps DEF AccountInv
<1>1. /\ parent = "read" /\ child = "none" /\ output = Nothing /\ pipe.writers = {}
      /\ UNCHANGED <<filesystem, left, current, used, child, direcSize>>
  BY <1>0 DEF ReadPipe, StageInv, Stage, Shape
<1>2. /\ AllIsRead' <=> AllIsRead
      /\ Seen' = Seen /\ Passed' = Passed
  BY <1>1, PlaceSame
<1>3. CASE pipe.data = <<>>
  <2>1. parent' = "done" /\ output' = Error /\ size' = size /\ pipe' = pipe
    BY <1>3 DEF ReadPipe, Fail
  <2>2. Shape'
    BY <1>0, <1>1, <2>1 DEF Shape, filesystem, WithChild, Error, Total, Nothing
  <2>3. Descriptors'
    BY <2>1 DEF Descriptors
  <2>4. Amounts'
    BY <1>1, <1>3, <2>1, NoMessage DEF Amounts, WithChild, Error, Total
  <2>5. QED
    BY <1>0, <2>2, <2>3, <2>4 DEF AccountInv
<1>4. CASE pipe.data # <<>>
  <2>1. PICK n : pipe.data = <<n>>
    BY <1>0, <1>4 DEF StageInv, PipeOK
  <2>2. /\ parent' = "next" /\ output' = output /\ size' = size + n
        /\ pipe' = [pipe EXCEPT !.data = Tail(@)]
    <3>1. Head(<<n>>) = n
      OBVIOUS
    <3>2. QED
      BY <1>4, <2>1, <3>1 DEF ReadPipe
  <2>3. Tail(<<n>>) = <<>>
    BY OneMessageIsTaken
  <2>4. pipe'.data = <<>> /\ pipe'.writers = {}
    BY <1>0, <1>1, <2>1, <2>2, <2>3 DEF StageInv, PipeOK
  <2>5. Counts(n, Whole[current]) /\ Counts(size + Whole[current], Seen)
    BY <1>0, <1>1, <2>1 DEF Amounts, WithChild
  <2>6. /\ current \in Nodes /\ Whole[current] \in Int /\ size \in Int
        /\ Bytes[Root] \in Int /\ SumFunctionOnSet(Whole, Kids[Root] \ left) \in Int
    <3>1. Kids[Root] \ left \in SUBSET Nodes
      BY RootFacts
    <3>2. SumFunctionOnSet(Whole, Kids[Root] \ left) \in Int
      BY <3>1, RootFacts, SumRules
    <3>3. QED
      BY <1>0, <3>2, RootFacts DEF Shape
  <2>7. Seen \in Int
    BY <2>6 DEF Seen
  <2>8. Counts(size + n, Seen)
    BY <2>5, <2>6, <2>7 DEF Counts
  <2>9. Shape'
    BY <1>0, <1>1, <2>2, <2>8 DEF Shape, Counts, filesystem, WithChild, Error, Total, Nothing
  <2>10. Descriptors'
    BY <1>0, <1>1, <1>2, <2>2, <2>4 DEF Descriptors, filesystem
  <2>11. Amounts'
    <3>1. Counts(size, Seen)'
      BY <1>2, <2>2, <2>8 DEF Counts
    <3>2. QED
      BY <1>1, <2>2, <2>4, <3>1, NoMessage DEF Amounts, WithChild, Total, Nothing
  <2>12. QED
    BY <1>0, <2>9, <2>10, <2>11 DEF AccountInv
<1>5. QED
  BY <1>3, <1>4

LEMMA PrintAccounts == AccountInv /\ PrintSize => AccountInv'
<1> SUFFICES ASSUME AccountInv, PrintSize PROVE AccountInv'
  OBVIOUS
<1>0. StageInv' /\ StageInv /\ Shape /\ Descriptors /\ Amounts
  BY BetweenChildren DEF AccountInv
<1>1. /\ parent = "next" /\ left = {} /\ output' = Total /\ parent' = "done" /\ output = Nothing
      /\ child = "none" /\ pipe.data = <<>>
      /\ UNCHANGED <<filesystem, left, current, size, used, pipe, child, direcSize>>
  BY <1>0 DEF PrintSize, StageInv, Stage, Shape
<1>2. /\ AllIsRead' <=> AllIsRead
      /\ Seen' = Seen /\ Passed' = Passed
  BY <1>1, PlaceSame
<1>3. Shape'
  BY <1>0, <1>1 DEF Shape, filesystem, WithChild, Error, Total, Nothing
<1>4. Descriptors'
  BY <1>0, <1>1, <1>2 DEF Descriptors, filesystem, Nothing, Error
<1>5. Amounts'
  <2>1. Counts(size, Seen)
    BY <1>0, <1>1 DEF Amounts
  <2>2. QED
    BY <1>1, <1>2, <2>1, NoMessage DEF Amounts, Counts, WithChild
<1>6. QED
  BY <1>0, <1>3, <1>4, <1>5 DEF AccountInv

LEMMA ChildAccounts == AccountInv /\ (Child \/ KillChild) => AccountInv'
<1> SUFFICES ASSUME AccountInv, Child \/ KillChild PROVE AccountInv'
  OBVIOUS
<1>0. StageInv' /\ StageInv /\ Shape /\ Descriptors /\ Amounts
  BY ChildKeeps DEF AccountInv
<1>1. /\ parent = "wait" /\ parent' = "wait" /\ output = Nothing
      /\ UNCHANGED <<filesystem, left, current, size, used, output>>
  BY <1>0 DEF Child, CloseReadEnd, WalkFolder, WriteSize, ExitChild, KillChild, StageInv, Stage, Shape
<1>2. /\ AllIsRead' <=> AllIsRead
      /\ Seen' = Seen /\ Passed' = Passed
  BY <1>1, PlaceSame
<1>3. Shape'
  BY <1>0, <1>1 DEF Shape, filesystem, WithChild, Error, Total, Nothing
<1>4. ("parent" \in pipe'.writers <=> "parent" \in pipe.writers)
      /\ (pipe'.data = pipe.data \/ WriteSize)
  <2>1. CASE UNCHANGED pipe
    BY <2>1
  <2>2. CASE Gone
    BY <1>0, <2>2 DEF Gone, StageInv, PipeOK
  <2>3. CASE WriteSize
    <3>1. pipe' = pipe \/ pipe' = [pipe EXCEPT !.data = Append(@, direcSize)]
      BY <2>3 DEF WriteSize
    <3>2. QED
      BY <1>0, <2>3, <3>1 DEF StageInv, PipeOK
  <2>4. QED
    BY <2>1, <2>2, <2>3 DEF Child, CloseReadEnd, WalkFolder, ExitChild, KillChild
<1>5. Descriptors'
  BY <1>0, <1>1, <1>2, <1>4 DEF Descriptors, filesystem
<1>6. Counts(size + Whole[current], Seen)' /\ \A a, b : Counts(a, b)' <=> Counts(a, b)
  <2>1. Counts(size + Whole[current], Seen)
    BY <1>0, <1>1 DEF Amounts, WithChild
  <2>2. QED
    BY <1>1, <1>2, <2>1 DEF Counts
<1>7. Amounts'
  <2>1. CASE child' # "write" /\ pipe'.data = pipe.data
    BY <1>0, <1>1, <1>2, <1>6, <2>1 DEF Amounts, Counts, Total, Nothing
  <2>2. CASE WriteSize
    <3>1. child = "write" /\ child' = "exit"
          /\ (pipe' = pipe \/ pipe' = [pipe EXCEPT !.data = Append(@, direcSize)])
      BY <2>2 DEF WriteSize
    <3>2. pipe.data = <<>>
      BY <1>0, <1>1, <3>1 DEF StageInv, Stage
    <3>3. pipe'.data = <<>> \/ pipe'.data = <<direcSize>>
      <4>1. Append(<<>>, direcSize) = <<direcSize>>
        OBVIOUS
      <4>2. QED
        BY <1>0, <3>1, <3>2, <4>1 DEF StageInv, PipeOK
    <3>4. Counts(direcSize, Whole[current])
      BY <1>0, <3>1 DEF Amounts
    <3>5. ASSUME NEW n, pipe'.data = <<n>>
          PROVE  Counts(n, Whole[current])
      <4>1. pipe'.data = <<direcSize>>
        BY <3>3, <3>5, NoMessage
      <4>2. n = direcSize
        BY <3>5, <4>1
      <4>3. QED
        BY <3>4, <4>2
    <3>6. \A n : pipe'.data = <<n>> => Counts(n, Whole[current])'
      BY <1>1, <1>2, <3>5 DEF Counts
    <3>7. QED
      BY <1>1, <1>6, <3>1, <3>6 DEF Amounts, Total, Nothing
  <2>3. CASE child' = "write" /\ WalkFolder
    <3>1. PICK free : free = limit - (used - 1)
      OBVIOUS
    <3>2. child = "walk" /\ direcSize' = FolderSize(current, free) /\ pipe' = pipe
      BY <2>3, <3>1 DEF WalkFolder, Gone
    <3>3. used \in OpenAtStart .. limit /\ limit \in Nat
      BY <1>0, <1>1 DEF Descriptors, Shape, Error, Nothing
    <3>4. free \in Nat /\ current \in Subdirs
      BY <1>0, <1>1, <3>1, <3>3 DEF OpenAtStart, Shape, WithChild
    <3>5. AllIsRead => Height <= free
      <4>1. ASSUME AllIsRead PROVE Height <= free
        <5>1. used = OpenAtStart + Passed + 1
          BY <1>0, <1>1, <4>1 DEF Descriptors
        <5>2. Height \in Nat /\ Passed \in Nat /\ OpenAtStart + Passed + Height <= limit
          BY <1>0, <4>1, RoomFor
        <5>3. QED
          BY <3>1, <3>3, <5>1, <5>2 DEF OpenAtStart
      <4>2. QED
        BY <4>1
    <3>6. Counts(FolderSize(current, free), Whole[current])
      <4>1. /\ FolderSize(current, free) \in Int
            /\ FolderSize(current, free) <= Whole[current]
            /\ unreadable = {} /\ Height <= free => FolderSize(current, free) = Whole[current]
        BY <3>4, FolderSizeRight
      <4>2. AllIsRead => unreadable = {}
        BY DEF AllIsRead
      <4>3. QED
        BY <3>5, <4>1, <4>2 DEF Counts
    <3>7. Counts(direcSize, Whole[current])'
      BY <1>1, <1>2, <3>2, <3>6 DEF Counts
    <3>8. pipe.data = <<>>
      BY <1>0, <1>1, <3>2 DEF StageInv, Stage
    <3>9. QED
      BY <1>1, <1>6, <3>2, <3>7, <3>8, NoMessage DEF Amounts, Total, Nothing
  <2>4. QED
    <3>1. child' # "write" \/ WalkFolder
      BY DEF Child, CloseReadEnd, WalkFolder, WriteSize, ExitChild, KillChild, Gone
    <3>2. QED
      BY <1>4, <2>1, <2>2, <2>3, <3>1
<1>8. QED
  BY <1>0, <1>3, <1>5, <1>7 DEF AccountInv

\* Every step keeps the account.
LEMMA AccountStep == AccountInv /\ [Next]_vars => AccountInv'
<1>1. ASSUME AccountInv, UNCHANGED vars
      PROVE  AccountInv'
  <2>1. UNCHANGED <<filesystem, left>>
    BY <1>1 DEF vars
  <2>2. /\ AllIsRead' <=> AllIsRead
        /\ Seen' = Seen /\ Passed' = Passed
    BY <2>1, PlaceSame
  <2>3. StageInv'
    BY <1>1, StageStep DEF AccountInv
  <2>4. Shape'
    BY <1>1 DEF AccountInv, vars, filesystem, Shape
  <2>5. Descriptors'
    BY <1>1, <2>2 DEF AccountInv, vars, filesystem, Descriptors
  <2>6. Amounts'
    BY <1>1, <2>2 DEF AccountInv, vars, filesystem, Amounts, Counts
  <2>7. QED
    BY <2>3, <2>4, <2>5, <2>6 DEF AccountInv
<1>2. QED
  BY <1>1, OpenAccounts, EntryAccounts, PipeAccounts, ForkAccounts, WaitAccounts, CloseAccounts,
     ReadAccounts, PrintAccounts, ChildAccounts
  DEF Next, Parent

\* For every tree, limit and failure the program keeps its types: it never has
\* more descriptors than the limit, and what goes through a pipe is a number.
THEOREM DiskUsageTyped == Spec => []TypeOK
<1>1. AccountInv => TypeOK
  <2> SUFFICES ASSUME AccountInv PROVE TypeOK
    OBVIOUS
  <2>1. pipe.data \in Seq(Int)
    <3>1. CASE pipe.data = <<>>
      BY <3>1
    <3>2. CASE pipe.data # <<>>
      <4>1. PICK n : pipe.data = <<n>>
        BY <3>2 DEF AccountInv, StageInv, PipeOK
      <4>2. n \in Int
        BY <4>1 DEF AccountInv, Amounts, Counts
      <4>3. QED
        BY <4>1, <4>2
    <3>3. QED
      BY <3>1, <3>2
  <2>2. used \in 0 .. limit \/ parent = "open" \/ output = Error
    BY DEF AccountInv, Shape, Descriptors, OpenAtStart
  <2>3. child \in {"none", "close", "walk", "write", "exit", "gone"}
    BY DEF AccountInv, StageInv, Stage
  <2>4. QED
    BY <2>1, <2>2, <2>3 DEF TypeOK, AccountInv, StageInv, PipeOK, Shape
<1>2. QED
  BY <1>1, AccountInit, AccountStep, PTL DEF Spec

\* A number that is printed is never more than the sum of all sizes below the
\* root, and is that sum when every directory can be read and there are
\* descriptors for the longest way down after the last child: no child that is
\* killed, fails or has no pipe is left out in silence.
THEOREM PrintedTotalIsRight == Spec => []TotalIsRight
<1>1. AccountInv => TotalIsRight
  <2> SUFFICES ASSUME AccountInv, output = Total
               PROVE  IF AllIsRead THEN size = TotalSize ELSE size <= TotalSize
    BY DEF TotalIsRight, AllIsRead
  <2>1. left = {} /\ Counts(size, Seen)
    BY DEF AccountInv, Shape, Amounts
  <2>2. Seen = TotalSize
    <3>1. Kids[Root] \ left = Kids[Root] /\ KidsOf(Root) = Kids[Root]
      BY <2>1, KidsAre, RootFacts
    <3>2. Whole[Root] = Bytes[Root] + SumFunctionOnSet(Whole, KidsOf(Root))
      BY WholeExists, RootFacts DEF IsWhole
    <3>3. Seen = Whole[Root]
      BY <3>1, <3>2, Zenon DEF Seen
    <3>4. QED
      BY <3>3, WholeOfRoot
  <2>3. QED
    BY <2>1, <2>2 DEF Counts
<1>2. QED
  BY <1>1, AccountInit, AccountStep, PTL DEF Spec
==============================================================================
