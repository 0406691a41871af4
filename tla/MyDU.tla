-------------------------------- MODULE MyDU --------------------------------
(***************************************************************************)
(* Disk usage of a directory (Part2/myDU.c): the parent goes through the   *)
(* entries of the root; for every subdirectory it makes a pipe and forks a *)
(* child, which walks the subdirectory and sends what it found.  A step is *)
(* a system call, with what is computed before the next one; a child may   *)
(* be killed at any moment.  stat follows links, so a link is an entry of  *)
(* the kind it leads to, and the branches for links are never taken.       *)
(***************************************************************************)
EXTENDS Integers, Sequences, FiniteSets, FiniteSetsExt, Functions

CONSTANTS Nodes,    \* the files and directories below and with Root
          Root,
          Dirs,     \* the directories of them
          Kids,     \* the entries of every directory
          Bytes,    \* st_size of every node
          Limits    \* how many descriptors a process may have

\* The directories are a tree: a link does not lead to a directory above it.
ASSUME MyDUAssumption ==
  /\ IsFiniteSet(Nodes)
  /\ Root \in Dirs /\ Dirs \subseteq Nodes
  /\ Kids \in [Dirs -> SUBSET (Nodes \ {Root})]
  /\ \A d, e \in Dirs : d # e => Kids[d] \cap Kids[e] = {}
  /\ \E depth \in [Nodes -> 0 .. Cardinality(Nodes)] :
       \A n \in Nodes \ {Root} : \E d \in Dirs : n \in Kids[d] /\ depth[n] = depth[d] + 1
  /\ Bytes \in [Nodes -> Nat]
  /\ Limits \subseteq Nat \ {4, 5}   \* the first pipe is made, or not even Root opened

VARIABLES missing,      \* the nodes for which stat fails
          unreadable,   \* the directories for which opendir fails
          limit,        \* RLIMIT_NOFILE
          parent,       \* what main is about to do
          left,         \* the entries readdir has not given yet
          current,      \* the subdirectory a child was forked for
          size,         \* the bytes found so far
          used,         \* the descriptors the parent has open
          pipe,         \* what fd leads to: its contents, who can write to it
          child,        \* what the child is about to do
          direcSize,    \* what the child found
          output        \* whether the parent printed size or an error

filesystem == <<missing, unreadable, limit>>
vars == <<filesystem, parent, left, current, size, used, pipe, child, direcSize, output>>

Nothing == "nothing"
Error == "Unable to execute"
Total == "size"

Subdirs == Kids[Root] \cap Dirs

\* 0, 1, 2 and the one of opendir(root).
OpenAtStart == 4

Init ==
  /\ missing \in SUBSET Nodes
  /\ unreadable \in SUBSET Dirs
  /\ limit \in Limits
  /\ parent = "open"
  /\ left = Kids[Root]
  /\ current = Root
  /\ size = 0
  /\ used = OpenAtStart
  /\ pipe = [data |-> <<>>, writers |-> {}]
  /\ child = "none"
  /\ direcSize = 0
  /\ output = Nothing
------------------------------------------------------------------------------
(* folderSize *)

CanOpen(d, free) == d \notin unreadable /\ free > 0

\* The nodes the walk of d calls stat for, with so many descriptors left.
Reached(d, descriptors) ==
  LET reached[free \in 0 .. descriptors] == [n \in Nodes |->
        {n} \cup IF n \in Dirs /\ CanOpen(n, free)
                 THEN UNION {reached[free - 1][m] : m \in Kids[n]} ELSE {}]
  IN  reached[descriptors][d]

\* A directory that cannot be opened counts as -1.
FolderSize(d, descriptors) ==
  LET total[free \in 0 .. descriptors] == [n \in Nodes |->
        IF n \notin Dirs THEN Bytes[n]
        ELSE IF ~CanOpen(n, free) THEN -1
        ELSE Bytes[n] + SumFunctionOnSet(total[free - 1], Kids[n])]
  IN  total[descriptors][d]
------------------------------------------------------------------------------
(* The parent: main *)

\* printError, and what the parent does with a result.
Fail == output' = Error /\ parent' = "done"

\* Mutant of OpenRoot: the result of opendir is not looked at.
OpenUnchecked ==
  /\ parent = "open"
  /\ parent' = "next" /\ size' = Bytes[Root]
  /\ UNCHANGED <<filesystem, left, current, used, pipe, child, direcSize, output>>

OpenRoot ==
  /\ parent = "open"
  /\ IF Root \in missing \cup unreadable \/ limit < OpenAtStart
     THEN Fail /\ UNCHANGED size
     ELSE parent' = "next" /\ size' = Bytes[Root] /\ UNCHANGED output
  /\ UNCHANGED <<filesystem, left, current, used, pipe, child, direcSize>>

\* readdir and stat, in the order readdir gives.
NextEntry ==
  /\ parent = "next"
  /\ \E e \in left :
       /\ left' = left \ {e}
       /\ current' = e
       /\ IF e \in missing THEN Fail /\ UNCHANGED size
          ELSE /\ UNCHANGED output
               /\ IF e \in Dirs THEN parent' = "pipe" /\ UNCHANGED size
                  ELSE parent' = "next" /\ size' = size + Bytes[e]
  /\ UNCHANGED <<filesystem, used, pipe, child, direcSize>>

\* The result is not looked at: without two free descriptors fd still has the
\* ones of the last pipe, whose write end is closed.
MakePipe ==
  /\ parent = "pipe"
  /\ parent' = "fork"
  /\ IF used + 2 <= limit
     THEN pipe' = [data |-> <<>>, writers |-> {"parent"}] /\ used' = used + 2
     ELSE UNCHANGED <<pipe, used>>
  /\ UNCHANGED <<filesystem, left, current, size, child, direcSize, output>>

\* The child has the descriptors of the parent.
Fork ==
  /\ parent = "fork"
  /\ \/ /\ child' = "close"
        /\ pipe' = [pipe EXCEPT !.writers = @ \cup {w \in {"child"} : "parent" \in @}]
        /\ parent' = "wait"
        /\ UNCHANGED output
     \/ Fail /\ UNCHANGED <<child, pipe>>
  /\ UNCHANGED <<filesystem, left, current, size, used, direcSize>>

\* Mutant of Wait: the parent goes on at once.
GoOn ==
  /\ parent = "wait"
  /\ parent' = "close"
  /\ child' = IF child = "gone" THEN "none" ELSE child
  /\ UNCHANGED <<filesystem, left, current, size, used, pipe, direcSize, output>>

Wait ==
  /\ parent = "wait"
  /\ child = "gone"
  /\ child' = "none"
  /\ parent' = "close"
  /\ UNCHANGED <<filesystem, left, current, size, used, pipe, direcSize, output>>

\* Mutant of CloseWriteEnd: the parent keeps its write end.
KeepWriteEnd ==
  /\ parent = "close"
  /\ parent' = "read"
  /\ UNCHANGED <<filesystem, left, current, size, used, pipe, child, direcSize, output>>

\* The read end stays open for good.
CloseWriteEnd ==
  /\ parent = "close"
  /\ parent' = "read"
  /\ used' = IF "parent" \in pipe.writers THEN used - 1 ELSE used
  /\ pipe' = [pipe EXCEPT !.writers = @ \ {"parent"}]
  /\ UNCHANGED <<filesystem, left, current, size, child, direcSize, output>>

\* Mutant of ReadPipe: a read that gets nothing counts as zero.
ReadAnyway ==
  /\ parent = "read"
  /\ IF pipe.data # <<>>
     THEN size' = size + Head(pipe.data) /\ pipe' = [pipe EXCEPT !.data = Tail(@)]
     ELSE pipe.writers = {} /\ UNCHANGED <<size, pipe>>
  /\ parent' = "next"
  /\ UNCHANGED <<filesystem, left, current, used, child, direcSize, output>>

\* The buffer of the child is read whole; an empty pipe blocks as long as anybody
\* can write to it, and ends the program after that.
ReadPipe ==
  /\ parent = "read"
  /\ IF pipe.data # <<>>
     THEN /\ size' = size + Head(pipe.data)
          /\ pipe' = [pipe EXCEPT !.data = Tail(@)]
          /\ parent' = "next"
          /\ UNCHANGED output
     ELSE pipe.writers = {} /\ Fail /\ UNCHANGED <<size, pipe>>
  /\ UNCHANGED <<filesystem, left, current, used, child, direcSize>>

PrintSize ==
  /\ parent = "next"
  /\ left = {}
  /\ output' = Total
  /\ parent' = "done"
  /\ UNCHANGED <<filesystem, left, current, size, used, pipe, child, direcSize>>
------------------------------------------------------------------------------
(* The child *)

\* Exit closes what the child has open.
Gone == child' = "gone" /\ pipe' = [pipe EXCEPT !.writers = @ \ {"child"}]

CloseReadEnd ==
  /\ child = "close"
  /\ child' = "walk"
  /\ UNCHANGED <<filesystem, parent, left, current, size, used, pipe, direcSize, output>>

\* The whole walk: a stat that fails ends the child.  It has the parent's
\* descriptors but for the read end of the pipe.
WalkFolder ==
  LET free == limit - (used - 1)
  IN  /\ child = "walk"
      /\ IF Reached(current, free) \cap missing # {} THEN Gone /\ UNCHANGED direcSize
         ELSE /\ direcSize' = FolderSize(current, free)
              /\ child' = "write"
              /\ UNCHANGED pipe
      /\ UNCHANGED <<filesystem, parent, left, current, size, used, output>>

\* 500 bytes go into an empty pipe at once; a closed descriptor takes none.
\* Either way the child exits.
WriteSize ==
  /\ child = "write"
  /\ child' = "exit"
  /\ pipe' = IF "child" \in pipe.writers
             THEN [pipe EXCEPT !.data = Append(@, direcSize)] ELSE pipe
  /\ UNCHANGED <<filesystem, parent, left, current, size, used, direcSize, output>>

ExitChild ==
  /\ child = "exit"
  /\ Gone
  /\ UNCHANGED <<filesystem, parent, left, current, size, used, direcSize, output>>

KillChild ==
  /\ child \in {"close", "walk", "write", "exit"}
  /\ Gone
  /\ UNCHANGED <<filesystem, parent, left, current, size, used, direcSize, output>>
------------------------------------------------------------------------------
Parent == \/ OpenRoot \/ NextEntry \/ MakePipe \/ Fork \/ Wait
          \/ CloseWriteEnd \/ ReadPipe \/ PrintSize

Child == CloseReadEnd \/ WalkFolder \/ WriteSize \/ ExitChild

Next == Parent \/ Child \/ KillChild

\* The host runs every process that can run; nobody has to kill one.
Fairness == WF_vars(Parent) /\ WF_vars(Child)

Spec == Init /\ [][Next]_vars /\ Fairness
------------------------------------------------------------------------------
TypeOK ==
  /\ parent \in {"open", "next", "pipe", "fork", "wait", "close", "read", "done"}
  /\ child \in {"none", "close", "walk", "write", "exit", "gone"}
  /\ left \subseteq Kids[Root]
  /\ current \in Nodes
  /\ size \in Int
  /\ used \in 0 .. limit \/ parent = "open" \/ output = Error
  /\ pipe.writers \subseteq {"parent", "child"}
  /\ pipe.data \in Seq(Int)
  /\ output \in {Nothing, Error, Total}

\* The longest chain of directories below a node, itself included.
Height ==
  LET height[n \in Nodes] ==
        IF n \notin Dirs THEN 0 ELSE 1 + Max({0} \cup {height[m] : m \in Kids[n]})
  IN  Max({0} \cup {height[d] : d \in Subdirs})

\* Every subdirectory leaves a read end open, and a walk needs one descriptor
\* for every level.
EnoughDescriptors == OpenAtStart + Cardinality(Subdirs) + Height <= limit

TotalSize == SumFunctionOnSet(Bytes, Nodes)

\* A number that is printed is the sum over all files and directories, whatever
\* children fail or are killed on the way: they are reported as an error and
\* not left out.  The exceptions are directories that opendir refuses, for
\* which -1 is added in silence, and it refuses all when descriptors run out.
TotalIsRight ==
  output = Total =>
    IF unreadable = {} /\ EnoughDescriptors THEN size = TotalSize ELSE size <= TotalSize

\* The parent does not end before its child, what one child sends is never left
\* in the pipe for the next, and the parent never waits for an answer nobody can
\* send any more.
ChildIsCollected ==
  /\ parent \in {"open", "next", "pipe", "fork", "done"} => child = "none"
  /\ parent \in {"next", "pipe"} => pipe = [data |-> <<>>, writers |-> {}]
  /\ parent = "read" => pipe.data # <<>> \/ pipe.writers = {}

\* The program ends, in every order of directories and with every failure of
\* stat, opendir, pipe and fork and every death of a child: the read never waits
\* for a writer that is gone, because the parent closes its own end before.
Terminates == <>(parent = "done" /\ output # Nothing)
==============================================================================
