----------------------------- MODULE ListLemmas -----------------------------
(***************************************************************************)
(* What the proofs about several modules need of lists (an element         *)
(* unlinked, a part replaced, a list of lists joined), of recursive        *)
(* functions (what the library's induction theorems say of an operator,    *)
(* said of a set; that a recursion over a number, or over a number and a   *)
(* place, has the function it asks for), of records that lie one behind    *)
(* the other in a ring and of sums over finite sets.                       *)
(***************************************************************************)
EXTENDS Integers, Sequences, SequencesExt, Functions, FiniteSets,
        SequenceTheorems, FiniteSetTheorems,
        WellFoundedInduction, TLAPS

\* A list without its element k.
LEMMA RemoveAtElements ==
  ASSUME NEW Elements, NEW s \in Seq(Elements), NEW k \in 1 .. Len(s)
  PROVE  /\ RemoveAt(s, k) \in Seq(Elements)
         /\ Len(RemoveAt(s, k)) = Len(s) - 1
         /\ \A i \in 1 .. Len(s) - 1 :
              RemoveAt(s, k)[i] = IF i < k THEN s[i] ELSE s[i + 1]
<1> DEFINE before == SubSeq(s, 1, k - 1)
           after  == SubSeq(s, k + 1, Len(s))
           rest   == RemoveAt(s, k)
<1>0. Len(s) \in Nat
  OBVIOUS
<1>1. /\ Len(s) \in Nat
      /\ DOMAIN s = 1 .. Len(s)
      /\ \A i \in 1 .. Len(s) : s[i] \in Elements
  OBVIOUS
<1>2. /\ before \in Seq(Elements)
      /\ Len(before) = k - 1
      /\ \A i \in 1 .. k - 1 : before[i] = s[i]
  <2>1. \A i \in 1 .. k - 1 : s[i] \in Elements /\ 1 + i - 1 = i
    BY <1>1
  <2>2. \A i \in 1 .. k - 1 - 1 + 1 : before[i] = s[1 + i - 1]
    BY <2>1, SubSeqProperties
  <2>3. before \in Seq(Elements) /\ Len(before) = IF 1 <= k - 1 THEN k - 1 - 1 + 1 ELSE 0
    BY <2>1, SubSeqProperties
  <2> HIDE DEF before
  <2>4. QED
    BY <2>1, <2>2, <2>3
<1>3. /\ after \in Seq(Elements)
      /\ Len(after) = Len(s) - k
      /\ \A i \in 1 .. Len(s) - k : after[i] = s[k + i]
  <2>1. /\ \A i \in k + 1 .. Len(s) : s[i] \in Elements
        /\ \A i \in 1 .. Len(s) - k : k + 1 + i - 1 = k + i
    BY <1>1
  <2>2. Len(s) - (k + 1) + 1 = Len(s) - k
    BY <1>1
  <2>3. \A i \in 1 .. Len(s) - k : after[i] = s[k + i]
    BY <1>1, <2>1, <2>2, SubSeqProperties
  <2>4. after \in Seq(Elements) /\ Len(after) = IF k + 1 <= Len(s) THEN Len(s) - k ELSE 0
    BY <1>1, <2>1, <2>2, SubSeqProperties
  <2> HIDE DEF before, after, rest
  <2>5. CASE k = Len(s)
    <3>1. Len(s) - k = 0 /\ ~(k + 1 <= Len(s))
      BY <1>1, <2>5
    <3>2. QED
      BY <2>3, <2>4, <3>1
  <2>6. CASE k # Len(s)
    <3>1. k + 1 <= Len(s)
      BY <1>0, <2>6
    <3>2. QED
      BY <2>3, <2>4, <3>1
  <2>7. QED
    BY <2>5, <2>6
<1>4. rest = before \o after
  BY DEF RemoveAt
<1> HIDE DEF before, after, rest
<1>5. /\ rest \in Seq(Elements)
      /\ Len(rest) = Len(s) - 1
      /\ DOMAIN rest = 1 .. Len(s) - 1
      /\ \A i \in 1 .. Len(s) - 1 : rest[i] = IF i < k THEN s[i] ELSE s[i + 1]
  <2>1. /\ rest \in Seq(Elements)
        /\ Len(rest) = Len(before) + Len(after)
        /\ \A i \in 1 .. Len(before) + Len(after) :
             rest[i] = IF i <= Len(before) THEN before[i] ELSE after[i - Len(before)]
    BY <1>2, <1>3, <1>4, ConcatProperties
  <2>2. Len(rest) = Len(s) - 1
    BY <1>1, <1>2, <1>3, <2>1
  <2>3. DOMAIN rest = 1 .. Len(s) - 1
    BY <2>1, <2>2
  <2>4. ASSUME NEW i \in 1 .. Len(s) - 1
        PROVE  rest[i] = IF i < k THEN s[i] ELSE s[i + 1]
    <3>1. CASE i < k
      <4>1. i \in 1 .. Len(before) + Len(after) /\ i <= Len(before) /\ i \in 1 .. k - 1
        BY <1>1, <1>2, <1>3, <3>1
      <4>2. QED
        BY <1>2, <2>1, <3>1, <4>1
    <3>2. CASE i >= k
      <4>1. /\ i \in 1 .. Len(before) + Len(after)
            /\ ~(i <= Len(before))
            /\ i - Len(before) \in 1 .. Len(s) - k
            /\ k + (i - Len(before)) = i + 1
        BY <1>1, <1>2, <1>3, <3>2
      <4>2. rest[i] = after[i - Len(before)]
        BY <2>1, <4>1
      <4>3. after[i - Len(before)] = s[i + 1]
        BY <1>3, <4>1
      <4>4. QED
        BY <3>2, <4>2, <4>3
    <3>3. QED
      BY <1>1, <3>1, <3>2
  <2>5. QED
    BY <2>1, <2>2, <2>3, <2>4
<1>6. QED
  BY <1>5 DEF rest
------------------------------------------------------------------------------
\* A set of naturals that has 0, and n + 1 with n, has them all.
LEMMA Induction ==
  ASSUME NEW S, 0 \in S, \A n \in Nat : n \in S => n + 1 \in S
  PROVE  Nat \subseteq S
<1>1. SUFFICES ASSUME Nat \ S # {} PROVE FALSE
  OBVIOUS
<1> DEFINE R == OpToRel(<, Nat)
<1>2. IsWellFoundedOn(R, Nat)
  BY NatLessThanWellFounded
<1>3. \A x, y \in Nat : <<y, x>> \in R <=> y < x
  BY DEF OpToRel
<1> HIDE DEF R
<1>4. PICK x \in Nat \ S : \A y \in Nat \ S : <<y, x>> \notin R
  <2>1. Nat \ S \subseteq Nat
    OBVIOUS
  <2>2. QED
    BY <1>1, <1>2, <2>1, WFMin
<1>5. x # 0
  BY <1>4
<1>6. x - 1 \in Nat /\ x - 1 < x /\ (x - 1) + 1 = x
  BY <1>5
<1>7. x - 1 \in S
  BY <1>3, <1>4, <1>6
<1>8. QED
  BY <1>4, <1>6, <1>7

\* f is what iterating step from base gives, up to m.
Iterates(f, m, base, step) ==
  f[0] = base /\ \A n \in 1 .. m : f[n] = step[<<n, f[n - 1]>>]

\* A function defined by recursion on 0 .. N exists.
LEMMA Recursion ==
  ASSUME NEW N \in Nat, NEW S, NEW base \in S, NEW step \in [(1 .. N) \X S -> S]
  PROVE  \E f \in [0 .. N -> S] : Iterates(f, N, base, step)
<1> DEFINE Good == {m \in Nat : m <= N => \E f \in [0 .. m -> S] : Iterates(f, m, base, step)}
<1>1. 0 \in Good
  <2> DEFINE f == [n \in 0 .. 0 |-> base]
  <2>1. f \in [0 .. 0 -> S] /\ Iterates(f, 0, base, step)
    BY DEF Iterates
  <2> HIDE DEF f
  <2>2. QED
    BY <2>1
<1>2. ASSUME NEW m \in Nat, m \in Good
      PROVE  m + 1 \in Good
  <2>1. SUFFICES ASSUME m + 1 <= N
                 PROVE  \E f \in [0 .. m + 1 -> S] : Iterates(f, m + 1, base, step)
    OBVIOUS
  <2>2. m <= N
    BY <2>1
  <2>3. PICK f \in [0 .. m -> S] : Iterates(f, m, base, step)
    BY <1>2, <2>2
  <2>4. step[<<m + 1, f[m]>>] \in S
    BY <2>1
  <2> DEFINE g == [n \in 0 .. m + 1 |-> IF n = m + 1 THEN step[<<m + 1, f[m]>>] ELSE f[n]]
  <2>5. /\ g \in [0 .. m + 1 -> S]
        /\ \A n \in 0 .. m : g[n] = f[n]
        /\ g[m + 1] = step[<<m + 1, f[m]>>]
    <3>1. \A n \in 0 .. m : n \in 0 .. m + 1 /\ n # m + 1
      OBVIOUS
    <3>2. \A n \in 0 .. m + 1 : n # m + 1 => n \in 0 .. m
      OBVIOUS
    <3>3. m + 1 \in 0 .. m + 1
      OBVIOUS
    <3>4. QED
      BY <2>4, <3>1, <3>2, <3>3
  <2> HIDE DEF g
  <2>6. ASSUME NEW n \in 1 .. m + 1
        PROVE  g[n] = step[<<n, g[n - 1]>>]
    <3>1. n - 1 \in 0 .. m
      OBVIOUS
    <3>2. CASE n = m + 1
      <4>1. n - 1 = m
        BY <3>2
      <4>2. QED
        BY <2>5, <3>1, <3>2, <4>1
    <3>3. CASE n # m + 1
      <4>1. n \in 1 .. m /\ n \in 0 .. m
        BY <3>3
      <4>2. f[n] = step[<<n, f[n - 1]>>]
        BY <2>3, <4>1 DEF Iterates
      <4>3. QED
        BY <2>5, <3>1, <4>1, <4>2
    <3>4. QED
      BY <3>2, <3>3
  <2>7. g[0] = base
    <3>1. 0 \in 0 .. m
      OBVIOUS
    <3>2. QED
      BY <2>3, <2>5, <3>1 DEF Iterates
  <2>8. Iterates(g, m + 1, base, step)
    BY <2>6, <2>7 DEF Iterates
  <2>9. QED
    BY <2>5, <2>8
<1>3. N \in Good
  <2> HIDE DEF Good
  <2>1. QED
    BY <1>1, <1>2, Induction
<1>4. QED
  BY <1>3

\* Among the positions of a list where something holds there is a first one.
LEMMA FirstPosition ==
  ASSUME NEW T, T \subseteq Nat, T # {}
  PROVE  \E k \in T : \A j \in Nat : j < k => j \notin T
<1>1. IsWellFoundedOn(OpToRel(<, Nat), Nat)
  BY NatLessThanWellFounded
<1>2. PICK k \in T : \A j \in T : <<j, k>> \notin OpToRel(<, Nat)
  BY <1>1, WFMin
<1>3. QED
  BY <1>2 DEF OpToRel
\* t scans cells for a number of steps: from a cell with n steps left it goes on
\* at next, with a step less, and step says what the rest means for the whole.
Scans(t, C, N, base, step, next) ==
  /\ \A c \in C : t[0][c] = base[c]
  /\ \A c \in C, n \in 1 .. N : t[n][c] = step[<<c, t[n - 1][next[c]]>>]

\* One step of such a scan, for all cells.
Level(C, R, N, step, next) ==
  [p \in (1 .. N) \X [C -> R] |-> [c \in C |-> step[<<c, p[2][next[c]]>>]]]

IsLevel(level, C, R, N, step, next) ==
  /\ level \in [(1 .. N) \X [C -> R] -> [C -> R]]
  /\ \A n \in 1 .. N, g \in [C -> R] : level[<<n, g>>] = [c \in C |-> step[<<c, g[next[c]]>>]]

LEMMA LevelType ==
  ASSUME NEW C, NEW R, NEW N \in Nat,
         NEW step \in [C \X R -> R], NEW next \in [C -> C]
  PROVE  IsLevel(Level(C, R, N, step, next), C, R, N, step, next)
<1> DEFINE S == [C -> R]
           level == Level(C, R, N, step, next)
<1>1. ASSUME NEW g \in S
      PROVE  [c \in C |-> step[<<c, g[next[c]]>>]] \in S
  <2>1. \A c \in C : <<c, g[next[c]]>> \in C \X R
    OBVIOUS
  <2>2. \A c \in C : step[<<c, g[next[c]]>>] \in R
    BY <2>1
  <2>3. QED
    BY <2>2
<1>2. level = [p \in (1 .. N) \X S |-> [c \in C |-> step[<<c, p[2][next[c]]>>]]]
  BY DEF Level
<1> HIDE DEF level, S
<1>3. \A p \in (1 .. N) \X S : p[2] \in S
  OBVIOUS
<1>4. level \in [(1 .. N) \X S -> S]
  BY <1>1, <1>2, <1>3
<1>5. \A n \in 1 .. N, g \in S : level[<<n, g>>] = [c \in C |-> step[<<c, g[next[c]]>>]]
  BY <1>2
<1>6. QED
  BY <1>4, <1>5 DEF level, S, IsLevel

\* A scan that is defined by recursion on the steps exists.
LEMMA ScanExists ==
  ASSUME NEW C, NEW R, NEW N \in Nat,
         NEW base \in [C -> R], NEW step \in [C \X R -> R], NEW next \in [C -> C]
  PROVE  \E t \in [0 .. N -> [C -> R]] : Scans(t, C, N, base, step, next)
<1> DEFINE S == [C -> R]
           level == Level(C, R, N, step, next)
<1>1. /\ level \in [(1 .. N) \X S -> S]
      /\ \A n \in 1 .. N, g \in S : level[<<n, g>>] = [c \in C |-> step[<<c, g[next[c]]>>]]
  <2>1. IsLevel(level, C, R, N, step, next)
    BY LevelType
  <2> HIDE DEF level
  <2>2. QED
    BY <2>1 DEF IsLevel
<1>2. base \in S
  OBVIOUS
<1> HIDE DEF level, S
<1>3. PICK t \in [0 .. N -> S] : Iterates(t, N, base, level)
  BY <1>1, <1>2, Recursion
<1>4. ASSUME NEW c \in C, NEW n \in 1 .. N
      PROVE  t[n][c] = step[<<c, t[n - 1][next[c]]>>]
  <2>1. n - 1 \in 0 .. N
    OBVIOUS
  <2>2. t[n] = level[<<n, t[n - 1]>>]
    BY <1>3 DEF Iterates
  <2>3. t[n] = [d \in C |-> step[<<d, t[n - 1][next[d]]>>]]
    BY <1>1, <1>3, <2>1, <2>2
  <2>4. QED
    BY <2>3
<1>5. Scans(t, C, N, base, step, next)
  BY <1>3, <1>4 DEF Scans, Iterates
<1>6. QED
  BY <1>3, <1>5 DEF S
------------------------------------------------------------------------------
\* A list whose elements after a and before b have been replaced by one.
Splice(s, a, x, b) == SubSeq(s, 1, a) \o <<x>> \o SubSeq(s, b, Len(s))

\* t has the elements of s up to a, then x, then those of s from b on.
IsSpliced(t, s, a, x, b) ==
  /\ Len(t) = a + 2 + Len(s) - b
  /\ \A i \in 1 .. a : t[i] = s[i]
  /\ t[a + 1] = x
  /\ \A i \in a + 2 .. a + 2 + Len(s) - b : t[i] = s[i + b - a - 2]

LEMMA SpliceElements ==
  ASSUME NEW Elements, NEW s \in Seq(Elements), NEW x \in Elements,
         NEW a \in 0 .. Len(s), NEW b \in a + 1 .. Len(s) + 1
  PROVE  /\ Splice(s, a, x, b) \in Seq(Elements)
         /\ IsSpliced(Splice(s, a, x, b), s, a, x, b)
<1> DEFINE t == Splice(s, a, x, b)
           before == SubSeq(s, 1, a)
           middle == <<x>>
           after  == SubSeq(s, b, Len(s))
           most   == before \o middle
<1>0. Len(s) \in Nat /\ \A i \in 1 .. Len(s) : s[i] \in Elements
  OBVIOUS
<1>1. /\ before \in Seq(Elements)
      /\ Len(before) = a
      /\ \A i \in 1 .. a : before[i] = s[i]
  <2>1. \A i \in 1 .. a : s[i] \in Elements /\ 1 + i - 1 = i
    BY <1>0
  <2>2. /\ before \in Seq(Elements)
        /\ Len(before) = IF 1 <= a THEN a - 1 + 1 ELSE 0
        /\ \A i \in 1 .. a - 1 + 1 : before[i] = s[1 + i - 1]
    BY <2>1, SubSeqProperties
  <2> HIDE DEF before
  <2>3. QED
    BY <2>1, <2>2
<1>2. middle \in Seq(Elements) /\ Len(middle) = 1 /\ middle[1] = x
  OBVIOUS
<1>3. /\ after \in Seq(Elements)
      /\ Len(after) = Len(s) + 1 - b
      /\ \A i \in 1 .. Len(s) + 1 - b : after[i] = s[b + i - 1]
  <2>1. \A i \in b .. Len(s) : s[i] \in Elements
    BY <1>0
  <2>2. /\ after \in Seq(Elements)
        /\ Len(after) = IF b <= Len(s) THEN Len(s) - b + 1 ELSE 0
        /\ \A i \in 1 .. Len(s) - b + 1 : after[i] = s[b + i - 1]
    BY <1>0, <2>1, SubSeqProperties
  <2> HIDE DEF after
  <2>3. QED
    BY <1>0, <2>2
<1> HIDE DEF before, middle, after
<1>4. /\ most \in Seq(Elements)
      /\ Len(most) = a + 1
      /\ \A i \in 1 .. a + 1 : most[i] = IF i <= a THEN before[i] ELSE middle[i - a]
  <2>1. /\ most \in Seq(Elements)
        /\ Len(most) = Len(before) + Len(middle)
        /\ \A i \in 1 .. Len(before) + Len(middle) :
             most[i] = IF i <= Len(before) THEN before[i] ELSE middle[i - Len(before)]
    BY <1>1, <1>2, ConcatProperties, Zenon
  <2> HIDE DEF most
  <2>2. QED
    BY <1>1, <1>2, <2>1
<1>5. t = most \o after
  BY DEF before, middle, after, Splice
<1> HIDE DEF most, t
<1>6. /\ t \in Seq(Elements)
      /\ Len(t) = Len(most) + Len(after)
      /\ \A i \in 1 .. Len(most) + Len(after) :
           t[i] = IF i <= Len(most) THEN most[i] ELSE after[i - Len(most)]
  BY <1>3, <1>4, <1>5, ConcatProperties, Zenon
<1>7. Len(t) = a + 2 + Len(s) - b
  <2>1. Len(t) = (a + 1) + (Len(s) + 1 - b)
    BY <1>3, <1>4, <1>6, Zenon
  <2>2. QED
    BY <1>0, <2>1
<1>8. ASSUME NEW i \in 1 .. a
      PROVE  t[i] = s[i]
  <2>1. i \in 1 .. Len(most) + Len(after) /\ i <= Len(most) /\ i \in 1 .. a + 1 /\ i <= a
    BY <1>0, <1>3, <1>4
  <2>2. QED
    BY <1>1, <1>4, <1>6, <2>1
<1>9. t[a + 1] = x
  <2>1. /\ a + 1 \in 1 .. Len(most) + Len(after)
        /\ a + 1 <= Len(most)
        /\ (a + 1) - a = 1 /\ ~(a + 1 <= a) /\ a + 1 \in 1 .. a + 1
    BY <1>0, <1>3, <1>4
  <2>2. t[a + 1] = most[a + 1]
    BY <1>6, <2>1, Zenon
  <2>3. most[a + 1] = middle[1]
    BY <1>4, <2>1
  <2>4. QED
    BY <1>2, <2>2, <2>3
<1>10. ASSUME NEW i \in a + 2 .. a + 2 + Len(s) - b
       PROVE  t[i] = s[i + b - a - 2]
  <2>1. Len(most) = a + 1 /\ Len(after) = Len(s) + 1 - b /\ i \in a + 2 .. a + 2 + Len(s) - b
    BY <1>3, <1>4, <1>7
  <2>2. /\ i \in 1 .. Len(most) + Len(after)
        /\ ~(i <= Len(most))
        /\ i - Len(most) \in 1 .. Len(s) + 1 - b
        /\ b + (i - Len(most)) - 1 = i + b - a - 2
    BY <1>0, <2>1
  <2>3. t[i] = after[i - Len(most)]
    BY <1>6, <2>2
  <2>4. QED
    BY <1>3, <2>2, <2>3
<1>11. QED
  BY <1>6, <1>7, <1>8, <1>9, <1>10 DEF t, IsSpliced

\* The elements of a list with a part replaced.
LEMMA SpliceRange ==
  ASSUME NEW Elements, NEW s \in Seq(Elements), NEW x \in Elements,
         NEW a \in 0 .. Len(s), NEW b \in a + 1 .. Len(s) + 1
  PROVE  Range(Splice(s, a, x, b)) =
           {s[i] : i \in 1 .. a} \cup {x} \cup {s[i] : i \in b .. Len(s)}
<1> DEFINE t == Splice(s, a, x, b)
           L == a + 2 + Len(s) - b
<1>1. /\ t \in Seq(Elements) /\ Len(t) = L
      /\ \A i \in 1 .. a : t[i] = s[i]
      /\ t[a + 1] = x
      /\ \A i \in a + 2 .. L : t[i] = s[i + b - a - 2]
  <2>1. t \in Seq(Elements) /\ IsSpliced(t, s, a, x, b)
    BY SpliceElements
  <2> HIDE DEF t
  <2>2. QED
    BY <2>1 DEF IsSpliced
<1> HIDE DEF t
<1>2. Range(t) = {t[i] : i \in 1 .. L}
  <2> HIDE DEF L
  <2>1. Range(t) = {t[i] : i \in 1 .. Len(t)}
    BY <1>1, RangeEquality
  <2>2. QED
    BY <1>1, <2>1
<1>3. Len(s) \in Nat
  OBVIOUS
<1>4. ASSUME NEW i \in 1 .. L
      PROVE  t[i] \in {s[j] : j \in 1 .. a} \cup {x} \cup {s[j] : j \in b .. Len(s)}
  <2>1. i \in 1 .. a \/ i = a + 1 \/ i \in a + 2 .. L
    BY <1>3
  <2>2. i \in a + 2 .. L => i + b - a - 2 \in b .. Len(s)
    BY <1>3
  <2> HIDE DEF L
  <2>3. QED
    BY <1>1, <2>1, <2>2
<1>5. ASSUME NEW j \in 1 .. a
      PROVE  s[j] \in Range(t)
  <2>1. j \in 1 .. L
    BY <1>3
  <2>2. QED
    BY <1>1, <1>2, <2>1
<1>6. x \in Range(t)
  <2>1. a + 1 \in 1 .. L
    BY <1>3
  <2>2. QED
    BY <1>1, <1>2, <2>1
<1>7. ASSUME NEW j \in b .. Len(s)
      PROVE  s[j] \in Range(t)
  <2>1. /\ j + a + 2 - b \in a + 2 .. L /\ j + a + 2 - b \in 1 .. L
        /\ (j + a + 2 - b) + b - a - 2 = j
    BY <1>3
  <2> HIDE DEF L
  <2>2. t[j + a + 2 - b] = s[j]
    BY <1>1, <2>1
  <2>3. QED
    BY <1>2, <2>1, <2>2
<1> HIDE DEF L
<1>8. QED
  BY <1>2, <1>4, <1>5, <1>6, <1>7 DEF t

\* A list of lists is joined from the front.
LEMMA FlattenIterates ==
  ASSUME NEW Elements, NEW lists \in Seq(Seq(Elements)), lists # <<>>
  PROVE  \E f \in [1 .. Len(lists) -> Seq(Elements)] :
           /\ f[1] = lists[1]
           /\ \A n \in 2 .. Len(lists) : f[n] = f[n - 1] \o lists[n]
           /\ FlattenSeq(lists) = f[Len(lists)]
<1> DEFINE N == Len(lists)
           Joined(f) == f = [i \in 1 .. N |-> IF i = 1 THEN lists[i] ELSE f[i - 1] \o lists[i]]
           step == [p \in (1 .. N) \X Seq(Elements) |-> p[2] \o lists[p[1]]]
           Good(f) == {n \in Nat : n + 1 <= N => f[n + 1] \in Seq(Elements)}
<1>1. N \in Nat \ {0} /\ DOMAIN lists = 1 .. N /\ \A i \in 1 .. N : lists[i] \in Seq(Elements)
  OBVIOUS
<1>2. <<>> \in Seq(Elements) /\ \A l \in Seq(Elements) : <<>> \o l = l
  OBVIOUS
<1>3. step \in [(1 .. N) \X Seq(Elements) -> Seq(Elements)]
  <2>1. \A p \in (1 .. N) \X Seq(Elements) : p[2] \o lists[p[1]] \in Seq(Elements)
    BY <1>1
  <2>2. QED
    BY <2>1
<1>4. \A i \in 1 .. N, l \in Seq(Elements) : step[<<i, l>>] = l \o lists[i]
  OBVIOUS
<1> HIDE DEF N, step
<1>5. PICK g \in [0 .. N -> Seq(Elements)] : Iterates(g, N, <<>>, step)
  BY <1>1, <1>2, <1>3, Recursion
<1>6. \A i \in 1 .. N : g[i] = g[i - 1] \o lists[i]
  <2>1. \A i \in 1 .. N : i - 1 \in 0 .. N
    BY <1>1
  <2>2. QED
    BY <1>4, <1>5, <2>1 DEF Iterates
<1>7. g[1] = lists[1]
  <2>1. 1 \in 1 .. N /\ 1 - 1 = 0
    BY <1>1
  <2>2. g[1] = <<>> \o lists[1]
    BY <1>5, <1>6, <2>1 DEF Iterates
  <2>3. QED
    BY <1>1, <1>2, <2>1, <2>2
<1>8. Joined([i \in 1 .. N |-> g[i]])
  <2>1. \A i \in 1 .. N : i # 1 => i - 1 \in 1 .. N
    BY <1>1
  <2>2. QED
    BY <1>6, <1>7, <2>1
<1> DEFINE flatten == CHOOSE f : Joined(f)
<1>9. Joined(flatten)
  <2> HIDE DEF Joined
  <2>1. QED
    BY <1>8
<1>10. FlattenSeq(lists) = flatten[N]
  BY <1>1 DEF FlattenSeq, N
<1> HIDE DEF flatten
<1>11. /\ flatten[1] = lists[1]
       /\ \A n \in 2 .. N : flatten[n] = flatten[n - 1] \o lists[n]
  <2>1. 1 \in 1 .. N /\ \A n \in 2 .. N : n \in 1 .. N /\ n # 1
    BY <1>1
  <2>2. QED
    BY <1>9, <2>1
<1>12. 0 \in Good(flatten)
  BY <1>1, <1>11
<1>13. ASSUME NEW n \in Nat, n \in Good(flatten)
       PROVE  n + 1 \in Good(flatten)
  <2>1. CASE (n + 1) + 1 <= N
    <3>1. n + 1 <= N /\ (n + 1) + 1 \in 2 .. N /\ (n + 1) + 1 \in 1 .. N /\ ((n + 1) + 1) - 1 = n + 1
      BY <1>1, <2>1
    <3>2. flatten[(n + 1) + 1] = flatten[n + 1] \o lists[(n + 1) + 1]
      BY <1>11, <3>1
    <3>3. flatten[n + 1] \in Seq(Elements) /\ lists[(n + 1) + 1] \in Seq(Elements)
      BY <1>1, <1>13, <3>1
    <3>4. flatten[(n + 1) + 1] \in Seq(Elements)
      BY <3>2, <3>3, ConcatProperties
    <3>5. QED
      BY <3>4
  <2>2. CASE ~((n + 1) + 1 <= N)
    BY <2>2
  <2>3. QED
    BY <2>1, <2>2
<1>14. Nat \subseteq Good(flatten)
  <2> HIDE DEF Good
  <2>1. QED
    BY <1>12, <1>13, Induction
<1>15. \A n \in 1 .. N : flatten[n] \in Seq(Elements)
  <2>1. \A n \in 1 .. N : n - 1 \in Nat /\ (n - 1) + 1 = n /\ n <= N
    BY <1>1
  <2>2. QED
    BY <1>14, <2>1
<1>16. flatten \in [1 .. N -> Seq(Elements)]
  BY <1>9, <1>15
<1>17. QED
  BY <1>10, <1>11, <1>16 DEF N

\* A list of lists that has been joined has the elements of all of them.
LEMMA FlattenRange ==
  ASSUME NEW Elements, NEW lists \in Seq(Seq(Elements)), lists # <<>>
  PROVE  Range(FlattenSeq(lists)) = UNION {Range(lists[i]) : i \in 1 .. Len(lists)}
<1> DEFINE N == Len(lists)
<1>1. N \in Nat \ {0} /\ \A i \in 1 .. N : lists[i] \in Seq(Elements)
  OBVIOUS
<1>2. PICK f \in [1 .. N -> Seq(Elements)] :
        /\ f[1] = lists[1]
        /\ \A n \in 2 .. N : f[n] = f[n - 1] \o lists[n]
        /\ FlattenSeq(lists) = f[N]
  BY FlattenIterates
<1> HIDE DEF N
<1> DEFINE Upto(n) == UNION {Range(lists[i]) : i \in 1 .. n}
           Joined == {n \in Nat : n + 1 <= N => Range(f[n + 1]) = Upto(n + 1)}
<1>3. 0 \in Joined
  BY <1>2
<1>4. ASSUME NEW n \in Nat, n \in Joined
      PROVE  n + 1 \in Joined
  <2>1. SUFFICES ASSUME (n + 1) + 1 <= N PROVE Range(f[(n + 1) + 1]) = Upto((n + 1) + 1)
    OBVIOUS
  <2> DEFINE m == n + 1
  <2>2. /\ m \in 1 .. N /\ m <= N /\ m + 1 \in 2 .. N /\ m + 1 \in 1 .. N /\ (m + 1) - 1 = m
        /\ 1 .. m + 1 = 1 .. m \cup {m + 1}
    <3> HIDE DEF Joined, Upto
    <3>1. QED
      BY <1>1, <2>1
  <2>3. Range(f[m]) = Upto(m)
    BY <1>4, <2>2
  <2> HIDE DEF Joined, m
  <2>4. f[m + 1] = f[m] \o lists[m + 1]
    BY <1>2, <2>2
  <2>5. Range(f[m + 1]) = Range(f[m]) \cup Range(lists[m + 1])
    BY <1>1, <2>2, <2>4, RangeConcatenation
  <2>6. Upto(m + 1) = Upto(m) \cup Range(lists[m + 1])
    BY <2>2
  <2> HIDE DEF Upto
  <2>7. QED
    BY <2>3, <2>5, <2>6 DEF m
<1>5. Nat \subseteq Joined
  <2> HIDE DEF Joined
  <2>1. QED
    BY <1>3, <1>4, Induction
<1>6. Range(f[N]) = Upto(N)
  <2>1. N - 1 \in Nat /\ (N - 1) + 1 = N /\ N <= N
    <3> HIDE DEF Joined, Upto
    <3>1. QED
      BY <1>1
  <2>2. N - 1 \in Joined
    BY <1>5, <2>1
  <2>3. QED
    BY <2>1, <2>2
<1>7. QED
  BY <1>2, <1>6 DEF N
------------------------------------------------------------------------------
(* Records in a ring of S words.  Positions are counted from an offset on and *)
(* not reduced, so the words of a record follow one another.                  *)

Around(k, S) == IF k < S THEN k ELSE k - S

LEMMA ModIsAround ==
  ASSUME NEW S \in Nat \ {0}, NEW k \in 0 .. 2 * S - 1
  PROVE  k % S = Around(k, S) /\ k % S \in 0 .. S - 1
<1>1. CASE k < S
  BY <1>1 DEF Around
<1>2. CASE k >= S
  <2>1. k - S \in 0 .. S - 1 /\ k = S + (k - S)
    BY <1>2
  <2>2. k % S = k - S
    BY <1>2
  <2>3. QED
    BY <1>2, <2>1, <2>2 DEF Around
<1>3. QED
  BY <1>1, <1>2

\* Going p on and then q is going p + q on.
LEMMA AroundTwice ==
  ASSUME NEW S \in Nat \ {0}, NEW from \in 0 .. S - 1, NEW p \in Nat, NEW q \in Nat, p + q <= S
  PROVE  (((from + p) % S) + q) % S = (from + (p + q)) % S
<1>1. from + p \in 0 .. 2 * S - 1 /\ from + (p + q) \in 0 .. 2 * S - 1
  OBVIOUS
<1>2. /\ (from + p) % S = Around(from + p, S)
      /\ (from + (p + q)) % S = Around(from + (p + q), S)
  BY <1>1, ModIsAround
<1> DEFINE at == Around(from + p, S)
<1>3. at \in 0 .. S - 1 /\ at + q \in 0 .. 2 * S - 1
  BY DEF Around
<1>4. (at + q) % S = Around(at + q, S)
  <2> HIDE DEF at
  <2>1. QED
    BY <1>3, ModIsAround
<1>5. Around(at + q, S) = Around(from + (p + q), S)
  BY DEF Around
<1>6. QED
  BY <1>2, <1>4, <1>5

\* The way from an offset to the one p further on.
LEMMA WayBack ==
  ASSUME NEW S \in Nat \ {0}, NEW from \in 0 .. S - 1, NEW p \in 0 .. S - 1, NEW u \in 0 .. S
  PROVE  (S + ((from + p) % S) - ((from + u) % S)) % S = Around(S + p - u, S)
<1>1. from + p \in 0 .. 2 * S - 1 /\ from + u \in 0 .. 2 * S - 1
  OBVIOUS
<1>2. (from + p) % S = Around(from + p, S) /\ (from + u) % S = Around(from + u, S)
  BY <1>1, ModIsAround
<1> DEFINE k == S + Around(from + p, S) - Around(from + u, S)
<1>3. k \in 0 .. 2 * S - 1
  BY DEF Around
<1>4. k % S = Around(k, S)
  <2> HIDE DEF k
  <2>1. QED
    BY <1>3, ModIsAround
<1>5. Around(k, S) = Around(S + p - u, S)
  BY DEF Around
<1>6. QED
  BY <1>2, <1>4, <1>5

\* The words of w lie in the ring from position at on.
Lies(S, ring, at, w) == \A j \in 1 .. Len(w) : ring[(at + (j - 1)) % S] = w[j]

\* The records lie one behind the other from an offset on, each between two cuts.
Laid(S, ring, from, recs, cut) ==
  /\ recs \in Seq(Seq(Nat))
  /\ cut \in [0 .. Len(recs) -> Nat]
  /\ cut[0] = 0
  /\ \A i \in 1 .. Len(recs) : /\ Len(recs[i]) >= 1
                              /\ cut[i] = cut[i - 1] + Len(recs[i])
                              /\ Lies(S, ring, from + cut[i - 1], recs[i])

LEMMA CutsGrow ==
  ASSUME NEW S, NEW ring, NEW from, NEW recs, NEW cut, Laid(S, ring, from, recs, cut)
  PROVE  /\ \A i, j \in 0 .. Len(recs) : i < j => cut[i] < cut[j]
         /\ Len(recs) <= cut[Len(recs)]
<1> DEFINE N == Len(recs)
           Above(i) == {n \in Nat : i + n <= N => cut[i] + n <= cut[i + n]}
<1>1. N \in Nat /\ cut \in [0 .. N -> Nat] /\ recs \in Seq(Seq(Nat)) /\ cut[0] = 0
  BY DEF Laid
<1>2. \A i \in 1 .. N : cut[i] = cut[i - 1] + Len(recs[i]) /\ Len(recs[i]) >= 1 /\ Len(recs[i]) \in Nat
  <2>1. \A i \in 1 .. N : recs[i] \in Seq(Nat)
    BY <1>1
  <2>2. \A i \in 1 .. N : Len(recs[i]) \in Nat
    BY <2>1
  <2>3. QED
    BY <2>2 DEF Laid
<1> HIDE DEF N
<1>3. ASSUME NEW i \in 0 .. N, NEW n \in Nat, i + n <= N
      PROVE  cut[i] + n <= cut[i + n]
  <2>1. 0 \in Above(i)
    BY <1>1
  <2>2. ASSUME NEW m \in Nat, m \in Above(i)
        PROVE  m + 1 \in Above(i)
    <3>1. SUFFICES ASSUME i + (m + 1) <= N PROVE cut[i] + (m + 1) <= cut[i + (m + 1)]
      OBVIOUS
    <3>2. i + m \in 0 .. N /\ i + (m + 1) \in 1 .. N /\ i + (m + 1) - 1 = i + m /\ i + (m + 1) \in 0 .. N
      BY <1>1, <3>1
    <3>3. cut[i] + m <= cut[i + m]
      BY <1>1, <2>2, <3>2
    <3>4. /\ cut[i + (m + 1)] = cut[i + m] + Len(recs[i + (m + 1)])
          /\ Len(recs[i + (m + 1)]) >= 1 /\ Len(recs[i + (m + 1)]) \in Nat
      BY <1>2, <3>2
    <3>5. cut[i] \in Nat /\ cut[i + m] \in Nat
      BY <1>1, <3>2
    <3>6. QED
      BY <3>3, <3>4, <3>5
  <2>3. Nat \subseteq Above(i)
    <3> HIDE DEF Above
    <3>1. QED
      BY <2>1, <2>2, Induction
  <2>4. QED
    BY <1>3, <2>3
<1>4. ASSUME NEW i \in 0 .. N, NEW j \in 0 .. N, i < j
      PROVE  cut[i] < cut[j]
  <2>1. j - i \in Nat /\ j - i >= 1 /\ i + (j - i) <= N /\ i + (j - i) = j
    BY <1>1, <1>4
  <2>2. cut[i] + (j - i) <= cut[j]
    BY <1>3, <2>1
  <2>3. cut[i] \in Nat /\ cut[j] \in Nat
    BY <1>1
  <2>4. QED
    BY <2>1, <2>2, <2>3
<1>5. N <= cut[N]
  <2>1. 0 \in 0 .. N /\ N \in Nat /\ 0 + N <= N /\ 0 + N = N
    BY <1>1
  <2>2. cut[0] + N <= cut[N]
    BY <1>3, <2>1
  <2>3. QED
    BY <1>1, <2>2
<1>6. QED
  BY <1>4, <1>5 DEF N

\* The cuts when one more record is laid behind the others, and when the first m
\* are taken away.
CutBehind(cut, k, n) == [i \in 0 .. k + 1 |-> IF i = k + 1 THEN cut[k] + n ELSE cut[i]]
CutOff(cut, k, m) == [i \in 0 .. k - m |-> cut[m + i] - cut[m]]

\* A ring as the words of w leave it, written from an offset on.
IsWritten(S, new, old, offset, w) ==
  new = [c \in 0 .. S - 1 |-> LET i == (S + c - offset) % S
                              IN  IF i < Len(w) THEN w[i + 1] ELSE old[c]]

LEMMA WriteLies ==
  ASSUME NEW S \in Nat \ {0}, NEW from \in 0 .. S - 1, NEW u \in Nat, NEW w \in Seq(Nat),
         u + Len(w) <= S, NEW old, NEW new, IsWritten(S, new, old, (from + u) % S, w)
  PROVE  /\ \A p \in 0 .. u - 1 : new[(from + p) % S] = old[(from + p) % S]
         /\ Lies(S, new, from + u, w)
<1>0. Len(w) \in Nat /\ u \in 0 .. S
  OBVIOUS
<1>1. ASSUME NEW p \in 0 .. S - 1
      PROVE  new[(from + p) % S] = LET i == Around(S + p - u, S)
                                   IN  IF i < Len(w) THEN w[i + 1] ELSE old[(from + p) % S]
  <2>1. from + p \in 0 .. 2 * S - 1
    OBVIOUS
  <2>2. (from + p) % S \in 0 .. S - 1
    BY <2>1, ModIsAround
  <2>3. (S + ((from + p) % S) - ((from + u) % S)) % S = Around(S + p - u, S)
    BY <1>0, WayBack
  <2>4. QED
    BY <2>2, <2>3 DEF IsWritten
<1>2. ASSUME NEW p \in 0 .. u - 1
      PROVE  new[(from + p) % S] = old[(from + p) % S]
  <2>1. p \in 0 .. S - 1 /\ ~(Around(S + p - u, S) < Len(w))
    BY <1>0 DEF Around
  <2>2. QED
    BY <1>1, <2>1
<1>3. ASSUME NEW j \in 1 .. Len(w)
      PROVE  new[(from + u + (j - 1)) % S] = w[j]
  <2>1. u + (j - 1) \in 0 .. S - 1
    BY <1>0
  <2>2. Around(S + (u + (j - 1)) - u, S) = j - 1 /\ j - 1 < Len(w) /\ (j - 1) + 1 = j
    BY <1>0 DEF Around
  <2>3. from + u + (j - 1) = from + (u + (j - 1))
    BY <1>0
  <2>4. QED
    BY <1>1, <2>1, <2>2, <2>3
<1>4. QED
  BY <1>2, <1>3 DEF Lies

\* A word of a record lies before the end of what it is a part of.
LEMMA WordBefore ==
  ASSUME NEW a \in Nat, NEW n \in Nat, NEW b \in Nat, NEW j \in 1 .. n, a + n <= b
  PROVE  a + (j - 1) \in 0 .. b - 1
OBVIOUS

LEMMA LaidBehind ==
  ASSUME NEW S \in Nat \ {0}, NEW from \in 0 .. S - 1, NEW old, NEW new, NEW recs, NEW cut,
         Laid(S, old, from, recs, cut),
         NEW w \in Seq(Nat), Len(w) >= 1, cut[Len(recs)] + Len(w) <= S,
         IsWritten(S, new, old, (from + cut[Len(recs)]) % S, w)
  PROVE  Laid(S, new, from, Append(recs, w), CutBehind(cut, Len(recs), Len(w)))
<1> DEFINE N == Len(recs)
           all == Append(recs, w)
           cuts == CutBehind(cut, N, Len(w))
<1>1. N \in Nat /\ cut \in [0 .. N -> Nat] /\ recs \in Seq(Seq(Nat)) /\ Len(w) \in Nat /\ cut[0] = 0
  BY DEF Laid
<1>2. /\ all \in Seq(Seq(Nat)) /\ Len(all) = N + 1
      /\ \A i \in 1 .. N : all[i] = recs[i]
      /\ all[N + 1] = w
  BY <1>1, AppendProperties
<1>3. \A i, j \in 0 .. N : i < j => cut[i] < cut[j]
  BY CutsGrow
<1>4. /\ \A p \in 0 .. cut[N] - 1 : new[(from + p) % S] = old[(from + p) % S]
      /\ Lies(S, new, from + cut[N], w)
  <2>1. N \in 0 .. N /\ cut[N] \in Nat
    BY <1>1
  <2>2. QED
    BY <2>1, WriteLies
<1> HIDE DEF N, all
<1>5. /\ cuts \in [0 .. N + 1 -> Nat]
      /\ \A i \in 0 .. N : cuts[i] = cut[i]
      /\ cuts[N + 1] = cut[N] + Len(w)
  <2>1. N \in 0 .. N /\ N + 1 \in 0 .. N + 1 /\ \A i \in 0 .. N : i \in 0 .. N + 1 /\ i # N + 1
    BY <1>1
  <2>2. \A i \in 0 .. N + 1 : i # N + 1 => i \in 0 .. N
    BY <1>1
  <2>3. QED
    BY <1>1, <2>1, <2>2 DEF CutBehind
<1> HIDE DEF cuts
<1>6. ASSUME NEW i \in 1 .. N + 1
      PROVE  /\ Len(all[i]) >= 1
             /\ cuts[i] = cuts[i - 1] + Len(all[i])
             /\ Lies(S, new, from + cuts[i - 1], all[i])
  <2>1. i - 1 \in 0 .. N /\ cuts[i - 1] = cut[i - 1]
    BY <1>1, <1>5
  <2>2. CASE i = N + 1
    <3>1. i - 1 = N
      BY <1>1, <2>2
    <3>2. QED
      BY <1>2, <1>4, <1>5, <2>1, <2>2, <3>1
  <2>3. CASE i # N + 1
    <3>1. i \in 1 .. N /\ i \in 0 .. N /\ N \in 0 .. N
      BY <1>1, <2>3
    <3>2. all[i] = recs[i] /\ cuts[i] = cut[i]
      BY <1>2, <1>5, <3>1
    <3>3. /\ Len(recs[i]) >= 1 /\ cut[i] = cut[i - 1] + Len(recs[i])
          /\ Lies(S, old, from + cut[i - 1], recs[i])
      BY <3>1 DEF Laid, N
    <3>4. Len(recs[i]) \in Nat /\ cut[i - 1] \in Nat /\ cut[i] \in Nat /\ cut[N] \in Nat
      <4>1. recs[i] \in Seq(Nat)
        BY <1>1, <3>1 DEF N
      <4>2. QED
        BY <1>1, <2>1, <3>1, <4>1
    <3>5. cut[i] <= cut[N]
      <4>1. i < N \/ i = N
        BY <1>1, <3>1
      <4>2. QED
        BY <1>3, <3>1, <3>4, <4>1
    <3>6. ASSUME NEW j \in 1 .. Len(recs[i])
          PROVE  new[(from + cut[i - 1] + (j - 1)) % S] = recs[i][j]
      <4>1. cut[i - 1] + (j - 1) \in 0 .. cut[N] - 1
        <5> DEFINE n == Len(recs[i])
        <5>1. n \in Nat /\ cut[i - 1] + n <= cut[N]
          BY <3>3, <3>4, <3>5
        <5>2. j \in 1 .. n
          OBVIOUS
        <5> HIDE DEF n
        <5>3. QED
          BY <3>4, <5>1, <5>2, WordBefore
      <4>2. from + cut[i - 1] + (j - 1) = from + (cut[i - 1] + (j - 1))
        BY <3>4
      <4>3. old[(from + cut[i - 1] + (j - 1)) % S] = recs[i][j]
        BY <3>3 DEF Lies
      <4>4. QED
        BY <1>4, <4>1, <4>2, <4>3
    <3>7. Lies(S, new, from + cut[i - 1], recs[i])
      BY <3>6 DEF Lies
    <3>8. QED
      BY <2>1, <3>2, <3>3, <3>7
  <2>4. QED
    BY <2>2, <2>3
<1>7. cuts[0] = 0
  BY <1>1, <1>5
<1>8. Laid(S, new, from, all, cuts)
  BY <1>2, <1>5, <1>6, <1>7 DEF Laid
<1>9. QED
  BY <1>8 DEF all, cuts, N

\* A list without its first m elements.
LEMMA RestOfList ==
  ASSUME NEW Elements, NEW s \in Seq(Elements), NEW m \in 0 .. Len(s)
  PROVE  /\ SubSeq(s, m + 1, Len(s)) \in Seq(Elements)
         /\ Len(SubSeq(s, m + 1, Len(s))) = Len(s) - m
         /\ \A i \in 1 .. Len(s) - m : SubSeq(s, m + 1, Len(s))[i] = s[m + i]
<1> DEFINE rest == SubSeq(s, m + 1, Len(s))
<1>0. Len(s) \in Nat /\ \A i \in 1 .. Len(s) : s[i] \in Elements
  OBVIOUS
<1>1. \A i \in m + 1 .. Len(s) : s[i] \in Elements
  BY <1>0
<1>2. /\ rest \in Seq(Elements)
      /\ Len(rest) = IF m + 1 <= Len(s) THEN Len(s) - (m + 1) + 1 ELSE 0
      /\ \A i \in 1 .. Len(s) - (m + 1) + 1 : rest[i] = s[m + 1 + i - 1]
  BY <1>0, <1>1, SubSeqProperties
<1> HIDE DEF rest
<1>3. Len(s) - (m + 1) + 1 = Len(s) - m /\ \A i \in 1 .. Len(s) - m : m + 1 + i - 1 = m + i
  BY <1>0
<1>4. Len(rest) = Len(s) - m
  BY <1>0, <1>2
<1>5. \A i \in 1 .. Len(s) - m : rest[i] = s[m + i]
  BY <1>2, <1>3
<1>6. rest \in Seq(Elements) /\ Len(rest) = Len(s) - m /\ \A i \in 1 .. Len(s) - m : rest[i] = s[m + i]
  BY <1>2, <1>4, <1>5
<1>7. QED
  BY <1>6 DEF rest

LEMMA LaidOff ==
  ASSUME NEW S \in Nat \ {0}, NEW from \in 0 .. S - 1, NEW ring, NEW recs, NEW cut,
         Laid(S, ring, from, recs, cut), cut[Len(recs)] <= S, NEW m \in 0 .. Len(recs)
  PROVE  /\ Laid(S, ring, (from + cut[m]) % S, SubSeq(recs, m + 1, Len(recs)),
                  CutOff(cut, Len(recs), m))
         /\ CutOff(cut, Len(recs), m)[Len(recs) - m] = cut[Len(recs)] - cut[m]
<1> DEFINE N == Len(recs)
           rest == SubSeq(recs, m + 1, N)
           cuts == CutOff(cut, N, m)
<1>1. N \in Nat /\ cut \in [0 .. N -> Nat] /\ recs \in Seq(Seq(Nat)) /\ m \in 0 .. N
  BY DEF Laid
<1>2. /\ rest \in Seq(Seq(Nat)) /\ Len(rest) = N - m
      /\ \A i \in 1 .. N - m : rest[i] = recs[m + i]
  BY <1>1, RestOfList
<1>3. \A i, j \in 0 .. N : i < j => cut[i] < cut[j]
  BY CutsGrow
<1> HIDE DEF N, rest
<1>4. /\ cuts \in [0 .. N - m -> Nat]
      /\ \A i \in 0 .. N - m : cuts[i] = cut[m + i] - cut[m]
  <2>1. \A i \in 0 .. N - m : m + i \in 0 .. N
    BY <1>1
  <2>2. ASSUME NEW i \in 0 .. N - m PROVE cut[m + i] - cut[m] \in Nat
    <3>1. m + i = m \/ m < m + i
      BY <1>1
    <3>2. cut[m] <= cut[m + i]
      BY <1>1, <1>3, <2>1, <3>1
    <3>3. QED
      BY <1>1, <2>1, <3>2
  <2>3. QED
    BY <2>2 DEF CutOff
<1> HIDE DEF cuts
<1>5. ASSUME NEW i \in 1 .. N - m
      PROVE  /\ Len(rest[i]) >= 1
             /\ cuts[i] = cuts[i - 1] + Len(rest[i])
             /\ Lies(S, ring, ((from + cut[m]) % S) + cuts[i - 1], rest[i])
  <2>1. /\ m + i \in 1 .. N /\ (m + i) - 1 = m + (i - 1) /\ m + (i - 1) \in 0 .. N /\ m \in 0 .. N
        /\ N \in 0 .. N /\ m + i \in 0 .. N
        /\ i - 1 \in 0 .. N - m /\ i \in 0 .. N - m
    BY <1>1
  <2>2. /\ Len(recs[m + i]) >= 1 /\ cut[m + i] = cut[m + (i - 1)] + Len(recs[m + i])
        /\ Lies(S, ring, from + cut[m + (i - 1)], recs[m + i])
    BY <2>1 DEF Laid, N
  <2>3. cuts[i] = cut[m + i] - cut[m] /\ cuts[i - 1] = cut[m + (i - 1)] - cut[m]
    BY <1>4, <2>1
  <2>4. Len(recs[m + i]) \in Nat
    <3>1. recs[m + i] \in Seq(Nat)
      BY <1>1, <2>1 DEF N
    <3>2. QED
      BY <3>1
  <2>5. cut[m] \in Nat /\ cut[m + i] \in Nat /\ cut[m + (i - 1)] \in Nat /\ cut[N] \in Nat
    <3>1. \A k \in 0 .. N : cut[k] \in Nat
      BY <1>1
    <3>2. QED
      BY <2>1, <3>1, Zenon
  <2>6. cut[m + i] <= cut[N] /\ cut[m] <= cut[m + (i - 1)]
    <3>1. (m + i < N \/ m + i = N) /\ (m < m + (i - 1) \/ m = m + (i - 1))
      BY <2>1
    <3>2. /\ cut[m + i] < cut[N] \/ cut[m + i] = cut[N]
          /\ cut[m] < cut[m + (i - 1)] \/ cut[m] = cut[m + (i - 1)]
      BY <1>3, <2>1, <3>1, Zenon
    <3>3. QED
      BY <2>5, <3>2
  <2>7. cut[N] <= S
    BY DEF N
  <2>8. ASSUME NEW j \in 1 .. Len(rest[i])
        PROVE  ring[(((from + cut[m]) % S) + cuts[i - 1] + (j - 1)) % S] = rest[i][j]
    <3>0. rest[i] = recs[m + i] /\ j \in 1 .. Len(recs[m + i]) /\ j \in Nat
      BY <1>2, <2>4
    <3> DEFINE q == cuts[i - 1] + (j - 1)
               p == cut[m]
               at == (from + cut[m]) % S
    <3>1. q \in Nat /\ p \in Nat /\ p + q <= S /\ p + q = cut[m + (i - 1)] + (j - 1)
      <4> DEFINE n == Len(recs[m + i])
                 a == cut[m + (i - 1)]
                 b == cut[N]
      <4>1. n \in Nat /\ a \in Nat /\ b \in Nat /\ a + n <= b /\ j \in 1 .. n
        BY <2>2, <2>4, <2>5, <2>6, <3>0
      <4>2. cuts[i - 1] = a - p /\ p <= a /\ p \in Nat /\ b <= S
        BY <2>3, <2>5, <2>6, <2>7
      <4> HIDE DEF n, a, b, p
      <4>3. a + (j - 1) \in 0 .. b - 1
        BY <4>1, WordBefore
      <4>4. q = a - p + (j - 1)
        BY <4>2
      <4> HIDE DEF q
      <4>5. q \in Nat /\ p + q <= S /\ p + q = a + (j - 1)
        BY <4>1, <4>2, <4>3, <4>4
      <4>6. QED
        BY <4>2, <4>5 DEF a
    <3>2. (((from + p) % S) + q) % S = (from + (p + q)) % S
      <4> HIDE DEF p, q
      <4>1. QED
        BY <3>1, AroundTwice
    <3>3. at \in Nat
      <4>1. p \in 0 .. S
        <5> HIDE DEF p, q
        <5>1. QED
          BY <3>1
      <4>2. from + p \in 0 .. 2 * S - 1
        <5> HIDE DEF p
        <5>1. QED
          BY <4>1
      <4>3. (from + p) % S \in 0 .. S - 1
        <5> HIDE DEF p
        <5>1. QED
          BY <4>2, ModIsAround
      <4>4. QED
        BY <4>3
    <3> HIDE DEF at
    <3>4. at + cuts[i - 1] + (j - 1) = at + q
      <4>1. \A c \in Int : at + c + (j - 1) = at + (c + (j - 1))
        BY <3>0, <3>3
      <4>2. cuts[i - 1] \in Int
        BY <2>3, <2>5
      <4>3. QED
        BY <4>1, <4>2, Zenon
    <3>5. from + (p + q) = from + cut[m + (i - 1)] + (j - 1)
      <4>1. \A c \in Int : from + (c + (j - 1)) = from + c + (j - 1)
        BY <3>0
      <4>2. cut[m + (i - 1)] \in Int
        BY <2>5
      <4> HIDE DEF p, q
      <4>3. QED
        BY <3>1, <4>1, <4>2, Zenon
    <3>6. (at + cuts[i - 1] + (j - 1)) % S = (from + cut[m + (i - 1)] + (j - 1)) % S
      BY <3>2, <3>4, <3>5 DEF at
    <3>7. ring[(from + cut[m + (i - 1)] + (j - 1)) % S] = recs[m + i][j]
      BY <2>2, <3>0 DEF Lies
    <3>8. QED
      BY <3>0, <3>6, <3>7 DEF at
  <2>9. Lies(S, ring, ((from + cut[m]) % S) + cuts[i - 1], rest[i])
    BY <2>8 DEF Lies
  <2>10. rest[i] = recs[m + i]
    BY <1>2
  <2>11. cuts[i] = cuts[i - 1] + Len(recs[m + i])
    <3> DEFINE a == cut[m + i]
               b == cut[m + (i - 1)]
               c == cut[m]
               n == Len(recs[m + i])
    <3>1. a \in Nat /\ b \in Nat /\ c \in Nat /\ n \in Nat /\ a = b + n
      BY <2>2, <2>4, <2>5, Zenon
    <3>2. cuts[i] = a - c /\ cuts[i - 1] = b - c
      BY <2>3, Zenon
    <3> HIDE DEF a, b, c, n
    <3>3. cuts[i] = cuts[i - 1] + n
      BY <3>1, <3>2
    <3>4. QED
      BY <3>3 DEF n
  <2>12. QED
    BY <2>2, <2>9, <2>10, <2>11
<1>6. cuts[0] = 0 /\ cuts[N - m] = cut[N] - cut[m]
  <2>1. 0 \in 0 .. N - m /\ N - m \in 0 .. N - m /\ m + (N - m) = N /\ m + 0 = m /\ cut[m] - cut[m] = 0
    BY <1>1
  <2>2. QED
    BY <1>4, <2>1
<1>7. Laid(S, ring, (from + cut[m]) % S, rest, cuts)
  BY <1>2, <1>4, <1>5, <1>6 DEF Laid
<1>8. QED
  BY <1>6, <1>7 DEF rest, cuts, N

\* Two places with less than a round between them are not the same.
LEMMA PlacesDiffer ==
  ASSUME NEW S \in Nat \ {0}, NEW from \in 0 .. S - 1, NEW p \in Nat, NEW q \in Nat, p < q, q < S
  PROVE  (from + p) % S # (from + q) % S
<1>1. from + p \in 0 .. 2 * S - 1 /\ from + q \in 0 .. 2 * S - 1
  OBVIOUS
<1>2. (from + p) % S = Around(from + p, S) /\ (from + q) % S = Around(from + q, S)
  BY <1>1, ModIsAround
<1>3. Around(from + p, S) # Around(from + q, S)
  BY DEF Around
<1>4. QED
  BY <1>2, <1>3

\* A reader at offset at finds the words of w one after the other, and the place
\* behind them is end.
IsFound(S, ring, at, w, end) ==
  /\ at \in 0 .. S - 1
  /\ \A j \in 1 .. Len(w) : ring[(at + (j - 1)) % S] = w[j]
  /\ ring[at] = w[1]
  /\ (at + Len(w)) % S = end

LEMMA WordsAreFound ==
  ASSUME NEW S \in Nat \ {0}, NEW ring, NEW from \in 0 .. S - 1, NEW a \in Nat,
         NEW w \in Seq(Nat), Len(w) >= 1, a + Len(w) <= S, Lies(S, ring, from + a, w)
  PROVE  IsFound(S, ring, (from + a) % S, w, (from + (a + Len(w))) % S)
<1> DEFINE at == (from + a) % S
<1>0. Len(w) \in Nat
  OBVIOUS
<1>1. at \in 0 .. S - 1
  <2>1. from + a \in 0 .. 2 * S - 1
    BY <1>0
  <2>2. QED
    BY <2>1, ModIsAround
<1>2. ASSUME NEW n \in Nat, n <= Len(w)
      PROVE  (at + n) % S = (from + (a + n)) % S
  <2>1. a + n <= S
    BY <1>0, <1>2
  <2>2. QED
    BY <2>1, AroundTwice
<1> HIDE DEF at
<1>3. ASSUME NEW j \in 1 .. Len(w)
      PROVE  ring[(at + (j - 1)) % S] = w[j]
  <2>1. j - 1 \in Nat /\ j - 1 <= Len(w) /\ from + (a + (j - 1)) = from + a + (j - 1)
    BY <1>0
  <2>2. (at + (j - 1)) % S = (from + a + (j - 1)) % S
    BY <1>2, <2>1
  <2>3. QED
    BY <2>2 DEF Lies
<1>4. ring[at] = w[1]
  <2>1. 1 \in 1 .. Len(w) /\ at + (1 - 1) = at /\ at \in Nat /\ at < S
    BY <1>0, <1>1
  <2>2. at % S = at
    BY <2>1
  <2>3. ring[(at + (1 - 1)) % S] = w[1]
    BY <1>3, <2>1
  <2>4. QED
    BY <2>1, <2>2, <2>3
<1>5. (at + Len(w)) % S = (from + (a + Len(w))) % S
  BY <1>0, <1>2
<1>6. IsFound(S, ring, at, w, (from + (a + Len(w))) % S)
  BY <1>1, <1>3, <1>4, <1>5 DEF IsFound
<1>7. QED
  BY <1>6 DEF at

LEMMA RecordIsFound ==
  ASSUME NEW S \in Nat \ {0}, NEW ring, NEW from \in 0 .. S - 1, NEW recs, NEW cut,
         Laid(S, ring, from, recs, cut), cut[Len(recs)] <= S, NEW i \in 0 .. Len(recs) - 1
  PROVE  /\ IsFound(S, ring, (from + cut[i]) % S, recs[i + 1], (from + cut[i + 1]) % S)
         /\ recs[i + 1] \in Seq(Nat) /\ Len(recs[i + 1]) >= 1
<1> DEFINE N == Len(recs)
           w == recs[i + 1]
           a == cut[i]
           u == cut[N]
<1>1. N \in Nat /\ cut \in [0 .. N -> Nat] /\ recs \in Seq(Seq(Nat))
  BY DEF Laid
<1>2. /\ i \in 0 .. N /\ i + 1 \in 1 .. N /\ i + 1 \in 0 .. N /\ (i + 1) - 1 = i
      /\ N \in 0 .. N
  BY <1>1
<1>3. w \in Seq(Nat)
  BY <1>1, <1>2
<1>4. Len(w) >= 1 /\ cut[i + 1] = a + Len(w) /\ Lies(S, ring, from + a, w)
  BY <1>2 DEF Laid
<1>5. cut[i + 1] <= u
  <2>1. i + 1 = N \/ i + 1 < N
    BY <1>1, <1>2
  <2>2. i + 1 < N => cut[i + 1] < cut[N]
    BY <1>2, CutsGrow
  <2>3. cut[i + 1] \in Nat /\ cut[N] \in Nat
    BY <1>1, <1>2
  <2>4. QED
    BY <2>1, <2>2, <2>3
<1>6. a \in Nat /\ u \in Nat /\ cut[i + 1] \in Nat /\ u <= S
  BY <1>1, <1>2
<1>7. a + Len(w) <= S
  <2> DEFINE b == cut[i + 1]
  <2>1. b \in Nat /\ b <= u /\ b = a + Len(w)
    BY <1>4, <1>5, <1>6
  <2> HIDE DEF b, u
  <2>2. b <= S
    BY <1>6, <2>1
  <2>3. QED
    BY <2>1, <2>2
<1> HIDE DEF w, a
<1>8. IsFound(S, ring, (from + a) % S, w, (from + (a + Len(w))) % S)
  BY <1>3, <1>4, <1>6, <1>7, WordsAreFound
<1>9. IsFound(S, ring, (from + a) % S, w, (from + cut[i + 1]) % S)
  BY <1>4, <1>8
<1>10. QED
  BY <1>3, <1>4, <1>9 DEF a, w
------------------------------------------------------------------------------
(* Sums over finite sets *)

\* What holds of the empty set, and of a set when it holds of the set without
\* any one of its elements, holds of all finite sets.
LEMMA SetInduction ==
  ASSUME NEW D, IsFiniteSet(D), NEW Good, {} \in Good,
         \A s \in SUBSET D : s # {} /\ (\A x \in s : s \ {x} \in Good) => s \in Good
  PROVE  SUBSET D \subseteq Good
<1> DEFINE OfSize == {n \in Nat : \A s \in SUBSET D : Cardinality(s) = n => s \in Good}
<1>1. \A s \in SUBSET D : IsFiniteSet(s) /\ Cardinality(s) \in Nat
  BY FS_Subset, FS_CardinalityType
<1>2. 0 \in OfSize
  BY <1>1, FS_EmptySet
<1>3. ASSUME NEW n \in Nat, n \in OfSize
      PROVE  n + 1 \in OfSize
  <2>1. SUFFICES ASSUME NEW s \in SUBSET D, Cardinality(s) = n + 1
                 PROVE  s \in Good
    OBVIOUS
  <2>2. s # {}
    BY <2>1, FS_EmptySet
  <2>3. ASSUME NEW x \in s
        PROVE  s \ {x} \in Good
    <3>1. Cardinality(s \ {x}) = Cardinality(s) - 1
      BY <1>1, FS_RemoveElement
    <3>2. s \ {x} \in SUBSET D /\ Cardinality(s \ {x}) = n
      BY <2>1, <3>1
    <3>3. QED
      BY <1>3, <3>2
  <2>4. QED
    BY <2>2, <2>3
<1>4. Nat \subseteq OfSize
  <2> HIDE DEF OfSize
  <2>1. QED
    BY <1>2, <1>3, Induction
<1>5. QED
  BY <1>1, <1>4

Chosen(s) == CHOOSE x \in s : TRUE

\* G is the sum of f over every subset of D.
IsSum(G, f, D) ==
  /\ G \in [SUBSET D -> Int]
  /\ G[{}] = 0
  /\ \A s \in SUBSET D : s # {} => G[s] = f[Chosen(s)] + G[s \ {Chosen(s)}]

LEMMA ChosenIs ==
  ASSUME NEW s, s # {}
  PROVE  Chosen(s) \in s
BY DEF Chosen

LEMMA SumExists ==
  ASSUME NEW D, IsFiniteSet(D), NEW f \in [D -> Int]
  PROVE  \E G : IsSum(G, f, D)
<1> DEFINE C == SUBSET D
           N == Cardinality(D)
           base == [s \in C |-> 0]
           step == [p \in C \X Int |-> IF p[1] = {} THEN 0 ELSE f[Chosen(p[1])] + p[2]]
           next == [s \in C |-> s \ {Chosen(s)}]
<1>1. N \in Nat
  BY FS_CardinalityType
<1>2. base \in [C -> Int] /\ next \in [C -> C]
  OBVIOUS
<1>3. step \in [C \X Int -> Int]
  <2>1. ASSUME NEW p \in C \X Int
        PROVE  (IF p[1] = {} THEN 0 ELSE f[Chosen(p[1])] + p[2]) \in Int
    <3>1. p[1] \in C /\ p[2] \in Int
      OBVIOUS
    <3>2. CASE p[1] # {}
      <4>1. Chosen(p[1]) \in D
        BY <3>1, <3>2, ChosenIs
      <4>2. QED
        BY <3>1, <4>1
    <3>3. QED
      BY <3>2
  <2>2. QED
    BY <2>1
<1>4. /\ \A s \in C : base[s] = 0 /\ next[s] = s \ {Chosen(s)}
      /\ \A s \in C, v \in Int : step[<<s, v>>] = IF s = {} THEN 0 ELSE f[Chosen(s)] + v
  OBVIOUS
<1> HIDE DEF base, step, next, N
<1>5. PICK t \in [0 .. N -> [C -> Int]] : Scans(t, C, N, base, step, next)
  BY <1>1, <1>2, <1>3, ScanExists
<1>6. \A s \in C : t[0][s] = 0
  BY <1>4, <1>5 DEF Scans
<1>7. ASSUME NEW m \in 1 .. N, NEW s \in C
      PROVE  t[m][s] = IF s = {} THEN 0 ELSE f[Chosen(s)] + t[m - 1][s \ {Chosen(s)}]
  <2>0. m - 1 \in 0 .. N
    BY <1>1
  <2>1. m - 1 \in 0 .. N /\ next[s] \in C /\ next[s] = s \ {Chosen(s)}
    BY <1>2, <1>4, <2>0
  <2>2. t[m - 1][next[s]] \in Int
    BY <2>1
  <2>3. t[m][s] = step[<<s, t[m - 1][next[s]]>>]
    BY <1>5 DEF Scans
  <2>4. QED
    BY <1>4, <2>1, <2>2, <2>3
<1> DEFINE Good == {s \in C : \A m, k \in Cardinality(s) .. N : t[m][s] = t[k][s]}
<1>8. \A s \in C : IsFiniteSet(s) /\ Cardinality(s) \in Nat
  BY FS_Subset, FS_CardinalityType
<1>9. \A m \in 0 .. N : t[m][{}] = 0
  <2>1. ASSUME NEW m \in 0 .. N
        PROVE  t[m][{}] = 0
    <3>1. CASE m = 0
      BY <1>6, <3>1
    <3>2. CASE m # 0
      <4>1. m \in 1 .. N /\ {} \in C
        BY <1>1, <3>2
      <4>2. QED
        BY <1>7, <4>1
    <3>3. QED
      BY <3>1, <3>2
  <2>2. QED
    BY <2>1
<1>10. {} \in Good
  BY <1>9, FS_EmptySet
<1>11. ASSUME NEW s \in C, s # {}
       PROVE  /\ Chosen(s) \in s
              /\ s \ {Chosen(s)} \in C
              /\ Cardinality(s \ {Chosen(s)}) = Cardinality(s) - 1
              /\ Cardinality(s) >= 1
  <2>1. Chosen(s) \in s
    BY <1>11, ChosenIs
  <2>2. Cardinality(s \ {Chosen(s)}) = Cardinality(s) - 1
    BY <1>8, <2>1, FS_RemoveElement
  <2>3. Cardinality(s) # 0
    BY <1>8, <1>11, FS_EmptySet
  <2>4. QED
    BY <1>8, <2>1, <2>2, <2>3
<1>12. ASSUME NEW s \in C, s # {}, \A x \in s : s \ {x} \in Good
       PROVE  s \in Good
  <2> DEFINE c == Chosen(s)
  <2>1. c \in s /\ s \ {c} \in Good /\ Cardinality(s \ {c}) = Cardinality(s) - 1 /\ Cardinality(s) >= 1
    BY <1>11, <1>12
  <2> HIDE DEF c
  <2>2. ASSUME NEW m \in Cardinality(s) .. N, NEW k \in Cardinality(s) .. N
        PROVE  t[m][s] = t[k][s]
    <3>1. m \in 1 .. N /\ k \in 1 .. N
          /\ m - 1 \in Cardinality(s) - 1 .. N /\ k - 1 \in Cardinality(s) - 1 .. N
      BY <1>8, <1>1, <2>1
    <3>2. t[m - 1][s \ {c}] = t[k - 1][s \ {c}]
      BY <2>1, <3>1
    <3>3. t[m][s] = f[c] + t[m - 1][s \ {c}] /\ t[k][s] = f[c] + t[k - 1][s \ {c}]
      BY <1>7, <1>12, <3>1 DEF c
    <3>4. QED
      BY <3>2, <3>3
  <2>3. QED
    BY <2>2
<1>13. C \subseteq Good
  <2> HIDE DEF Good
  <2>1. QED
    BY <1>10, <1>12, SetInduction
<1> DEFINE G == t[N]
<1>14. N \in 0 .. N
  BY <1>1
<1>15. G \in [C -> Int] /\ G[{}] = 0
  BY <1>9, <1>14
<1>16. ASSUME NEW s \in C, s # {}
       PROVE  G[s] = f[Chosen(s)] + G[s \ {Chosen(s)}]
  <2> DEFINE r == s \ {Chosen(s)}
  <2>1. r \in C /\ Cardinality(r) = Cardinality(s) - 1 /\ Cardinality(s) >= 1 /\ Cardinality(s) <= N
    BY <1>11, <1>16, FS_Subset DEF N
  <2>2. N \in 1 .. N /\ N - 1 \in Cardinality(r) .. N /\ N \in Cardinality(r) .. N
    BY <1>1, <1>8, <2>1
  <2>3. t[N - 1][r] = t[N][r]
    BY <1>13, <2>1, <2>2
  <2>4. t[N][s] = f[Chosen(s)] + t[N - 1][r]
    BY <1>7, <1>16, <2>2
  <2>5. QED
    BY <2>3, <2>4
<1>17. QED
  BY <1>15, <1>16 DEF IsSum

\* That function is what SumFunctionOnSet computes.
LEMMA SumIs ==
  ASSUME NEW D, IsFiniteSet(D), NEW f, NEW G, IsSum(G, f, D), NEW S \in SUBSET D
  PROVE  SumFunctionOnSet(f, S) = G[S]
<1> DEFINE Solves(iter) ==
             iter = [s \in SUBSET S |-> IF s = {} THEN 0
                                        ELSE LET x == CHOOSE x \in s : TRUE
                                             IN  f[x] + iter[s \ {x}]]
           iter == CHOOSE iter : Solves(iter)
<1>1. SumFunctionOnSet(f, S) = iter[S]
  BY DEF SumFunctionOnSet, FoldFunctionOnSet, MapThenFoldSet
<1>2. \E g : Solves(g)
  <2> DEFINE g == [s \in SUBSET S |-> G[s]]
  <2>1. \A s \in SUBSET S : s \in SUBSET D /\ (s # {} => s \ {Chosen(s)} \in SUBSET S)
    OBVIOUS
  <2>2. \A s \in SUBSET S :
          G[s] = IF s = {} THEN 0 ELSE f[Chosen(s)] + g[s \ {Chosen(s)}]
    BY <2>1 DEF IsSum
  <2>3. g = [s \in SUBSET S |-> IF s = {} THEN 0 ELSE f[Chosen(s)] + g[s \ {Chosen(s)}]]
    BY <2>2
  <2>4. Solves(g)
    BY <2>3, Zenon DEF Chosen
  <2>5. QED
    BY <2>4
<1>3. Solves(iter)
  <2> HIDE DEF Solves
  <2>1. QED
    BY <1>2, Zenon
<1>4. \A s \in SUBSET S : iter[s] = IF s = {} THEN 0 ELSE f[Chosen(s)] + iter[s \ {Chosen(s)}]
  <2>1. iter = [s \in SUBSET S |-> IF s = {} THEN 0 ELSE f[Chosen(s)] + iter[s \ {Chosen(s)}]]
    BY <1>3, Zenon DEF Chosen
  <2> HIDE DEF iter
  <2>2. QED
    BY <2>1, Zenon
<1> HIDE DEF iter, Solves
<1> DEFINE Good == {s \in SUBSET S : iter[s] = G[s]}
<1>5. {} \in Good
  BY <1>4 DEF IsSum
<1>6. ASSUME NEW s \in SUBSET S, s # {}, \A x \in s : s \ {x} \in Good
      PROVE  s \in Good
  <2>1. iter[s \ {Chosen(s)}] = G[s \ {Chosen(s)}]
    BY <1>6, ChosenIs
  <2>2. G[s] = f[Chosen(s)] + G[s \ {Chosen(s)}]
    BY <1>6 DEF IsSum
  <2>3. iter[s] = f[Chosen(s)] + iter[s \ {Chosen(s)}]
    BY <1>4, <1>6
  <2>4. QED
    BY <2>1, <2>2, <2>3
<1>7. IsFiniteSet(S)
  BY FS_Subset
<1>8. S \in Good
  <2>1. SUBSET S \subseteq Good
    <3> HIDE DEF Good
    <3>1. QED
      BY <1>5, <1>6, <1>7, SetInduction
  <2>2. QED
    BY <2>1
<1>9. QED
  BY <1>1, <1>8

\* Any element may be the first to be added.
LEMMA SumExchange ==
  ASSUME NEW D, IsFiniteSet(D), NEW f \in [D -> Int], NEW G, IsSum(G, f, D),
         NEW S \in SUBSET D, NEW x \in S
  PROVE  G[S] = f[x] + G[S \ {x}]
<1> DEFINE Good == {s \in SUBSET D : \A y \in s : G[s] = f[y] + G[s \ {y}]}
<1>1. {} \in Good
  OBVIOUS
<1>2. ASSUME NEW s \in SUBSET D, s # {}, \A y \in s : s \ {y} \in Good
      PROVE  s \in Good
  <2> DEFINE c == Chosen(s)
  <2>1. c \in s /\ G[s] = f[c] + G[s \ {c}]
    BY <1>2, ChosenIs DEF IsSum
  <2> HIDE DEF c
  <2>2. ASSUME NEW y \in s, y # c
        PROVE  G[s] = f[y] + G[s \ {y}]
    <3> DEFINE r == (s \ {c}) \ {y}
    <3>1. r = (s \ {y}) \ {c} /\ r \in SUBSET D /\ y \in s \ {c} /\ c \in s \ {y}
      BY <2>1, <2>2
    <3>2. G[s \ {c}] = f[y] + G[r]
      BY <1>2, <2>1, <3>1
    <3>3. G[s \ {y}] = f[c] + G[(s \ {y}) \ {c}]
      BY <1>2, <2>1, <2>2, <3>1
    <3>4. G[s \ {y}] = f[c] + G[r]
      BY <3>1, <3>3
    <3> HIDE DEF r
    <3>5. f[y] \in Int /\ f[c] \in Int /\ G[r] \in Int
      BY <2>1, <3>1 DEF IsSum
    <3>6. QED
      BY <2>1, <3>2, <3>4, <3>5
  <2>3. QED
    BY <2>1, <2>2
<1>3. SUBSET D \subseteq Good
  <2> HIDE DEF Good
  <2>1. QED
    BY <1>1, <1>2, SetInduction
<1>4. QED
  BY <1>3

\* What the rest of the proofs use of sums.
LEMMA SumRules ==
  ASSUME NEW D, IsFiniteSet(D), NEW f \in [D -> Int]
  PROVE  /\ \A S \in SUBSET D : SumFunctionOnSet(f, S) \in Int
         /\ SumFunctionOnSet(f, {}) = 0
         /\ \A S \in SUBSET D, x \in D : x \in S => SumFunctionOnSet(f, S) = f[x] + SumFunctionOnSet(f, S \ {x})
<1>1. PICK G : IsSum(G, f, D)
  BY SumExists
<1>2. \A S \in SUBSET D : SumFunctionOnSet(f, S) = G[S]
  BY <1>1, SumIs
<1>3. \A S \in SUBSET D, x \in D : x \in S => G[S] = f[x] + G[S \ {x}]
  BY <1>1, SumExchange
<1>4. \A S \in SUBSET D, x \in D : x \in S => SumFunctionOnSet(f, S \ {x}) = G[S \ {x}]
  <2>1. \A S \in SUBSET D, x \in D : S \ {x} \in SUBSET D
    OBVIOUS
  <2>2. QED
    BY <1>2, <2>1
<1>5. SumFunctionOnSet(f, {}) = 0 /\ \A S \in SUBSET D : G[S] \in Int
  <2>1. {} \in SUBSET D
    OBVIOUS
  <2>2. QED
    BY <1>1, <1>2, <2>1 DEF IsSum
<1>6. QED
  BY <1>2, <1>3, <1>4, <1>5

\* A sum of less is less.
LEMMA SumCompare ==
  ASSUME NEW D, IsFiniteSet(D), NEW f \in [D -> Int], NEW g \in [D -> Int], NEW S \in SUBSET D,
         \A x \in S : f[x] <= g[x]
  PROVE  SumFunctionOnSet(f, S) <= SumFunctionOnSet(g, S)
<1> DEFINE Good == {s \in SUBSET S : SumFunctionOnSet(f, s) <= SumFunctionOnSet(g, s)}
<1>1. {} \in Good
  BY SumRules
<1>2. ASSUME NEW s \in SUBSET S, s # {}, \A x \in s : s \ {x} \in Good
      PROVE  s \in Good
  <2>1. PICK x : x \in s
    BY <1>2
  <2>2. /\ SumFunctionOnSet(f, s) = f[x] + SumFunctionOnSet(f, s \ {x})
        /\ SumFunctionOnSet(g, s) = g[x] + SumFunctionOnSet(g, s \ {x})
    BY <2>1, SumRules
  <2>3. /\ SumFunctionOnSet(f, s \ {x}) \in Int /\ SumFunctionOnSet(g, s \ {x}) \in Int
        /\ f[x] \in Int /\ g[x] \in Int
    BY <2>1, SumRules
  <2>4. f[x] <= g[x] /\ SumFunctionOnSet(f, s \ {x}) <= SumFunctionOnSet(g, s \ {x})
    BY <1>2, <2>1
  <2>5. SumFunctionOnSet(f, s) <= SumFunctionOnSet(g, s)
    BY <2>2, <2>3, <2>4
  <2>6. QED
    BY <2>5
<1>3. IsFiniteSet(S)
  BY FS_Subset
<1>4. SUBSET S \subseteq Good
  <2> HIDE DEF Good
  <2>1. QED
    BY <1>1, <1>2, <1>3, SetInduction
<1>5. QED
  BY <1>4

\* Sums of the same are the same.
LEMMA SumSame ==
  ASSUME NEW D, IsFiniteSet(D), NEW f \in [D -> Int], NEW g \in [D -> Int], NEW S \in SUBSET D,
         \A x \in S : f[x] = g[x]
  PROVE  SumFunctionOnSet(f, S) = SumFunctionOnSet(g, S)
<1>1. \A x \in S : f[x] \in Int /\ g[x] \in Int
  OBVIOUS
<1>2. \A x \in S : f[x] <= g[x] /\ g[x] <= f[x]
  BY <1>1
<1>3. SumFunctionOnSet(f, S) <= SumFunctionOnSet(g, S) /\ SumFunctionOnSet(g, S) <= SumFunctionOnSet(f, S)
  BY <1>2, SumCompare
<1>4. SumFunctionOnSet(f, S) \in Int /\ SumFunctionOnSet(g, S) \in Int
  BY SumRules
<1>5. QED
  BY <1>3, <1>4

\* The sum of sums.
LEMMA SumPlus ==
  ASSUME NEW D, IsFiniteSet(D), NEW f \in [D -> Int], NEW g \in [D -> Int], NEW h \in [D -> Int],
         \A x \in D : h[x] = f[x] + g[x]
  PROVE  SumFunctionOnSet(h, D) = SumFunctionOnSet(f, D) + SumFunctionOnSet(g, D)
<1> DEFINE Good == {s \in SUBSET D : SumFunctionOnSet(h, s) = SumFunctionOnSet(f, s) + SumFunctionOnSet(g, s)}
<1>1. {} \in Good
  BY SumRules
<1>2. ASSUME NEW s \in SUBSET D, s # {}, \A x \in s : s \ {x} \in Good
      PROVE  s \in Good
  <2>1. PICK x : x \in s
    BY <1>2
  <2>2. /\ SumFunctionOnSet(f, s) = f[x] + SumFunctionOnSet(f, s \ {x})
        /\ SumFunctionOnSet(g, s) = g[x] + SumFunctionOnSet(g, s \ {x})
        /\ SumFunctionOnSet(h, s) = h[x] + SumFunctionOnSet(h, s \ {x})
    BY <2>1, SumRules
  <2>3. /\ SumFunctionOnSet(f, s \ {x}) \in Int /\ SumFunctionOnSet(g, s \ {x}) \in Int
        /\ f[x] \in Int /\ g[x] \in Int
    BY <2>1, SumRules
  <2>4. h[x] = f[x] + g[x] /\ SumFunctionOnSet(h, s \ {x}) = SumFunctionOnSet(f, s \ {x}) + SumFunctionOnSet(g, s \ {x})
    BY <1>2, <2>1
  <2>5. SumFunctionOnSet(h, s) = SumFunctionOnSet(f, s) + SumFunctionOnSet(g, s)
    BY <2>2, <2>3, <2>4
  <2>6. QED
    BY <2>5
<1>3. SUBSET D \subseteq Good
  <2> HIDE DEF Good
  <2>1. QED
    BY <1>1, <1>2, SetInduction
<1>4. QED
  BY <1>3

\* Sets that have nothing in common are added one after the other.
LEMMA SumUnion ==
  ASSUME NEW D, IsFiniteSet(D), NEW f \in [D -> Int], NEW A \in SUBSET D, NEW B \in SUBSET D,
         A \cap B = {}
  PROVE  SumFunctionOnSet(f, A \cup B) = SumFunctionOnSet(f, A) + SumFunctionOnSet(f, B)
<1> DEFINE Good == {s \in SUBSET A : SumFunctionOnSet(f, s \cup B) = SumFunctionOnSet(f, s) + SumFunctionOnSet(f, B)}
<1>1. {} \in Good
  <2>1. {} \cup B = B
    OBVIOUS
  <2>2. QED
    BY <2>1, SumRules
<1>2. ASSUME NEW s \in SUBSET A, s # {}, \A x \in s : s \ {x} \in Good
      PROVE  s \in Good
  <2>1. PICK x : x \in s
    BY <1>2
  <2>2. (s \cup B) \ {x} = (s \ {x}) \cup B /\ x \in D /\ x \in s \cup B
    BY <2>1
  <2>3. s \in SUBSET D /\ s \cup B \in SUBSET D /\ s \ {x} \in SUBSET D
    OBVIOUS
  <2>4. /\ SumFunctionOnSet(f, s) = f[x] + SumFunctionOnSet(f, s \ {x})
        /\ SumFunctionOnSet(f, s \cup B) = f[x] + SumFunctionOnSet(f, (s \cup B) \ {x})
    <3>1. \A S \in SUBSET D, y \in D : y \in S => SumFunctionOnSet(f, S) = f[y] + SumFunctionOnSet(f, S \ {y})
      BY SumRules
    <3>2. PICK t : t = s \cup B
      OBVIOUS
    <3>3. t \in SUBSET D /\ x \in t /\ x \in s /\ s \in SUBSET D /\ x \in D
      BY <2>1, <2>2, <2>3, <3>2
    <3>4. SumFunctionOnSet(f, t) = f[x] + SumFunctionOnSet(f, t \ {x})
      BY <3>1, <3>3
    <3>5. SumFunctionOnSet(f, s) = f[x] + SumFunctionOnSet(f, s \ {x})
      BY <3>1, <3>3
    <3>6. QED
      BY <3>2, <3>4, <3>5, Zenon
  <2>5. SumFunctionOnSet(f, s \ {x}) \in Int /\ SumFunctionOnSet(f, B) \in Int /\ f[x] \in Int
    BY <2>1, <2>3, SumRules
  <2>6. SumFunctionOnSet(f, (s \cup B) \ {x}) = SumFunctionOnSet(f, s \ {x}) + SumFunctionOnSet(f, B)
    BY <1>2, <2>1, <2>2
  <2>7. SumFunctionOnSet(f, s \cup B) = SumFunctionOnSet(f, s) + SumFunctionOnSet(f, B)
    BY <2>4, <2>5, <2>6
  <2>8. QED
    BY <2>7
<1>3. IsFiniteSet(A)
  BY FS_Subset
<1>4. SUBSET A \subseteq Good
  <2> HIDE DEF Good
  <2>1. QED
    BY <1>1, <1>2, <1>3, SetInduction
<1>5. QED
  BY <1>4
\* A sum of naturals is a natural.
LEMMA SumNat ==
  ASSUME NEW D, IsFiniteSet(D), NEW f \in [D -> Nat], NEW S \in SUBSET D
  PROVE  SumFunctionOnSet(f, S) \in Nat
<1> DEFINE zero == [x \in D |-> 0]
<1>1. f \in [D -> Int] /\ zero \in [D -> Int] /\ \A x \in S : zero[x] <= f[x]
  OBVIOUS
<1>2. \A x \in D : zero[x] = 0
  OBVIOUS
<1> HIDE DEF zero
<1>3. SumFunctionOnSet(zero, S) <= SumFunctionOnSet(f, S) /\ SumFunctionOnSet(f, S) \in Int /\ SumFunctionOnSet(zero, S) \in Int
  BY <1>1, SumCompare, SumRules
<1> DEFINE Good == {s \in SUBSET D : SumFunctionOnSet(zero, s) = 0}
<1>4. {} \in Good
  BY <1>1, SumRules
<1>5. ASSUME NEW s \in SUBSET D, s # {}, \A x \in s : s \ {x} \in Good
      PROVE  s \in Good
  <2>1. PICK x \in D : x \in s
    BY <1>5
  <2>2. SumFunctionOnSet(zero, s) = zero[x] + SumFunctionOnSet(zero, s \ {x})
    BY <1>1, <2>1, SumRules
  <2>3. QED
    BY <1>2, <1>5, <2>1, <2>2
<1>6. SUBSET D \subseteq Good
  <2> HIDE DEF Good
  <2>1. QED
    BY <1>4, <1>5, SetInduction
<1>7. SumFunctionOnSet(zero, S) = 0
  BY <1>6
<1>8. QED
  BY <1>3, <1>7
=============================================================================
