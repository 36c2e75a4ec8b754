------------------------------ MODULE FA4Lemmas ------------------------------
(***************************************************************************)
(* Facts that the proofs of the other modules cite: of sets of offsets,    *)
(* that there is a least and a greatest and what they count, which the     *)
(* places that FA4's scans look for come down to; of recursions over the   *)
(* numbers, that there is a function that they define; of lines of a file, *)
(* where they end and how they are counted; and of a find as it is folded  *)
(* and, with -i, squeezed, and what the compare reports of it.             *)
(***************************************************************************)
EXTENDS FA4Lines, FiniteSets, FiniteSetTheorems, SequenceTheorems, WellFoundedInduction, TLAPS

(* A set of natural numbers that has an element has a least one: the       *)
(* scans for an end of line of GO_TO_END_LINE have a first offset to stop  *)
(* at.                                                                     *)
LEMMA Least ==
  ASSUME NEW S \in SUBSET Nat, S # {}
  PROVE  \E m \in S : \A s \in S : m <= s
<1> DEFINE T == {0..s : s \in S}
           R == StrictSubsetOrdering(Nat)
<1>1. \A s \in S : 0..s \in FiniteSubsetsOf(Nat)
  <2> TAKE s \in S
  <2>1. IsFiniteSet(0..s)
    BY FS_Interval
  <2> QED
    BY <2>1 DEF FiniteSubsetsOf
<1>2. T \subseteq FiniteSubsetsOf(Nat) /\ T # {}
  BY <1>1
<1>3. IsWellFoundedOn(R, FiniteSubsetsOf(Nat))
  BY FS_StrictSubsetOrderingWellFounded
<1>4. PICK x \in T : \A y \in T : ~(<<y, x>> \in R)
  <2> HIDE DEF R, T
  <2> QED
    BY <1>2, <1>3, WFMin
<1>5. PICK m \in S : x = 0..m
  BY <1>4
<1>6. ASSUME NEW s \in S, ~(m <= s)
      PROVE  FALSE
  <2>1. 0..s \subseteq 0..m /\ 0..s # 0..m /\ 0..s \in SUBSET Nat /\ 0..m \in SUBSET Nat
    <3>1. m \in 0..m /\ m \notin 0..s
      BY <1>6
    <3> QED
      BY <1>6, <3>1
  <2>2. <<0..s, 0..m>> \in R
    BY <2>1 DEF StrictSubsetOrdering
  <2> QED
    BY <2>2, <1>4, <1>5
<1> QED
  BY <1>6

(* A set of offsets below a bound that has an element has a greatest one:  *)
(* there is a last LF among the offsets passed over.                       *)
LEMMA Greatest ==
  ASSUME NEW S \in SUBSET Nat, NEW n \in Nat, \A s \in S : s <= n, S # {}
  PROVE  \E m \in S : \A s \in S : s <= m
<1> DEFINE T == {n - s : s \in S}
<1>1. T \in SUBSET Nat /\ T # {}
  <2>1. \A s \in S : n - s \in Nat
    OBVIOUS
  <2> QED
    BY <2>1
<1>2. PICK d \in T : \A t \in T : d <= t
  <2> HIDE DEF T
  <2> QED
    BY <1>1, Least
<1>3. PICK m \in S : d = n - m
  BY <1>2
<1>4. \A s \in S : s <= m
  BY <1>2, <1>3
<1> QED
  BY <1>4

(* The values of a sequence of lengths have a greatest.                    *)
LEMMA GreatestOf ==
  ASSUME NEW n \in Nat \ {0}, NEW g \in [1..n -> Nat]
  PROVE  \E k \in 1..n : \A j \in 1..n : g[j] <= g[k]
<1> DEFINE Bounds(m, l) == \A j \in 1..m : g[j] <= l
           Bounded(m) == \E l \in Nat : Bounds(m, l)
           Rest == {m \in 1..n : ~Bounded(m)}
<1>1. Bounds(0, 0)
  OBVIOUS
<1>2. ASSUME NEW m \in 1..n, NEW l \in Nat, Bounds(m - 1, l)
      PROVE  Bounds(m, l + g[m])
  <2>1. g[m] \in Nat /\ \A j \in 1..m : j = m \/ j \in 1..(m - 1)
    OBVIOUS
  <2> SUFFICES ASSUME NEW j \in 1..m PROVE g[j] <= l + g[m]
    OBVIOUS
  <2>2. CASE j = m
    BY <2>1, <2>2
  <2>3. CASE j \in 1..(m - 1)
    <3>1. g[j] <= l /\ g[j] \in Nat
      BY <1>2, <2>3
    <3> QED
      BY <2>1, <3>1
  <2> QED
    BY <2>1, <2>2, <2>3
<1>3. \A m \in 1..n : g[m] \in Nat
  OBVIOUS
<1> HIDE DEF Bounds
<1>4. Bounded(0)
  BY <1>1
<1>5. ASSUME NEW m \in 1..n, Bounded(m - 1) PROVE Bounded(m)
  <2>1. PICK l \in Nat : Bounds(m - 1, l)
    BY <1>5
  <2>2. l + g[m] \in Nat
    BY <1>3
  <2> QED
    BY <1>2, <2>1, <2>2
<1> HIDE DEF Bounded
<1>6. ASSUME Rest # {} PROVE FALSE
  <2>1. PICK m \in Rest : \A s \in Rest : m <= s
    <3>1. Rest \in SUBSET Nat
      OBVIOUS
    <3> HIDE DEF Rest
    <3> QED
      BY <1>6, <3>1, Least
  <2>2. m \in 1..n /\ ~Bounded(m)
    OBVIOUS
  <2>3. m - 1 = 0 \/ (m - 1 \in 1..n /\ ~(m <= m - 1))
    BY <2>2
  <2>4. Bounded(m - 1)
    BY <1>4, <2>1, <2>3
  <2> QED
    BY <1>5, <2>2, <2>4
<1>7. Bounded(n)
  <2>1. n \in 1..n
    OBVIOUS
  <2> QED
    BY <1>6, <2>1
<1>8. PICK l \in Nat : Bounds(n, l)
  BY <1>7 DEF Bounded
<1> DEFINE S == {g[j] : j \in 1..n}
<1>9. S \in SUBSET Nat /\ S # {} /\ \A s \in S : s <= l
  <2>1. 1 \in 1..n
    OBVIOUS
  <2> QED
    BY <1>8, <2>1 DEF Bounds
<1>10. PICK top \in S : \A s \in S : s <= top
  <2> HIDE DEF S
  <2> QED
    BY <1>9, Greatest
<1> QED
  BY <1>10

(* A recursion over 1..k defines a function, whatever the step.            *)
Steps(f, base, step, k) ==
  f[0] = base /\ \A i \in 1..k : f[i] = step[<<f[i - 1], i>>]

LEMMA StepsExist ==
  ASSUME NEW k \in Nat, NEW T, NEW base \in T, NEW step \in [T \X (1..k) -> T]
  PROVE  \E f \in [0..k -> T] : Steps(f, base, step, k)
<1> DEFINE Without == {j \in 0..k : ~ \E f \in [0..j -> T] : Steps(f, base, step, j)}
<1>1. SUFFICES ASSUME Without # {} PROVE FALSE
  OBVIOUS
<1>2. PICK j \in Without : \A i \in Without : j <= i
  <2>1. Without \in SUBSET Nat
    OBVIOUS
  <2> HIDE DEF Without
  <2> QED
    BY <1>1, <2>1, Least
<1>3. CASE j = 0
  <2> DEFINE g == [i \in 0..0 |-> base]
  <2>1. g \in [0..0 -> T] /\ g[0] = base
    OBVIOUS
  <2>2. Steps(g, base, step, 0)
    BY <2>1 DEF Steps
  <2> QED
    BY <1>2, <1>3, <2>1, <2>2
<1>4. CASE j # 0
  <2>1. j - 1 \in 0..k /\ j - 1 \notin Without /\ j \in 1..k
    BY <1>2, <1>4
  <2>2. PICK f \in [0..(j - 1) -> T] : Steps(f, base, step, j - 1)
    BY <2>1
  <2> DEFINE g == [i \in 0..j |-> IF i = j THEN step[<<f[j - 1], j>>] ELSE f[i]]
  <2>3. \A i \in 0..(j - 1) : g[i] = f[i] /\ f[i] \in T
    BY <2>1
  <2>4. g[j] = step[<<f[j - 1], j>>] /\ g[j] \in T
    <3>1. f[j - 1] \in T /\ j \in 0..j
      BY <2>1
    <3> QED
      BY <2>1, <3>1
  <2>5. \A i \in 0..j : i = j \/ i \in 0..(j - 1)
    BY <2>1
  <2>6. g \in [0..j -> T]
    <3>1. \A i \in 0..j : g[i] \in T
      BY <2>3, <2>4, <2>5
    <3> QED
      BY <3>1
  <2> HIDE DEF g
  <2>7. ASSUME NEW i \in 1..j PROVE g[i] = step[<<g[i - 1], i>>]
    <3>1. i - 1 \in 0..(j - 1) /\ (i = j \/ i \in 1..(j - 1)) /\ i \in 0..j
      BY <2>1
    <3>2. g[i - 1] = f[i - 1]
      BY <2>3, <3>1
    <3>3. CASE i = j
      BY <2>4, <3>2, <3>3
    <3>4. CASE i \in 1..(j - 1)
      <4>1. f[i] = step[<<f[i - 1], i>>]
        BY <2>2, <3>4 DEF Steps
      <4>2. g[i] = f[i]
        BY <2>3, <3>4
      <4> QED
        BY <3>2, <4>1, <4>2
    <3> QED
      BY <3>1, <3>3, <3>4
  <2>8. g[0] = base
    <3>1. 0 \in 0..(j - 1)
      BY <2>1
    <3> QED
      BY <2>2, <2>3, <3>1 DEF Steps
  <2>9. Steps(g, base, step, j)
    BY <2>7, <2>8 DEF Steps
  <2> QED
    BY <1>2, <2>6, <2>9
<1> QED
  BY <1>3, <1>4

(* A recursion that goes from an argument to those of a smaller measure.   *)
Recursion(f, S, step) == \A x \in S : f[x] = step[<<f, x>>]

Descends(S, T, m, step) ==
  \A g, h \in [S -> T], x \in S :
    (\A y \in S : m[y] < m[x] => g[y] = h[y]) => step[<<g, x>>] = step[<<h, x>>]

LEMMA RecursionExists ==
  ASSUME NEW k \in Nat, NEW S, NEW T, T # {}, NEW m \in [S -> 0..k],
         NEW step \in [[S -> T] \X S -> T], Descends(S, T, m, step)
  PROVE  \E f \in [S -> T] : Recursion(f, S, step)
<1> DEFINE FT == [S -> T]
           Turn(g) == [x \in S |-> step[<<g, x>>]]
<1>1. PICK base \in FT : TRUE
  <2>1. PICK t \in T : TRUE
    OBVIOUS
  <2>2. [x \in S |-> t] \in FT
    BY <2>1
  <2> QED
    BY <2>2
<1>2. \A g \in FT : Turn(g) \in FT
  OBVIOUS
<1> DEFINE turns == [p \in FT \X (1..(k + 1)) |-> Turn(p[1])]
<1>3. turns \in [FT \X (1..(k + 1)) -> FT]
  BY <1>2
<1>4. PICK F \in [0..(k + 1) -> FT] : Steps(F, base, turns, k + 1)
  <2> HIDE DEF FT, turns
  <2>1. k + 1 \in Nat
    OBVIOUS
  <2> QED
    BY <1>1, <1>3, <2>1, StepsExist
<1>5. \A i \in 1..(k + 1) : F[i] = Turn(F[i - 1]) /\ F[i] \in FT /\ F[i - 1] \in FT
  <2> TAKE i \in 1..(k + 1)
  <2>1. i \in 0..(k + 1) /\ i - 1 \in 0..(k + 1)
    OBVIOUS
  <2>2. F[i] \in FT /\ F[i - 1] \in FT
    BY <2>1
  <2>3. F[i] = turns[<<F[i - 1], i>>]
    BY <1>4 DEF Steps
  <2>4. <<F[i - 1], i>> \in FT \X (1..(k + 1))
    BY <2>2
  <2> HIDE DEF FT
  <2>5. turns[<<F[i - 1], i>>] = Turn(F[i - 1])
    BY <2>4
  <2> QED
    BY <2>2, <2>3, <2>5
<1> HIDE DEF turns
<1> DEFINE Settled(i) == \A x \in S : m[x] < i => F[i + 1][x] = F[i][x]
           Rest == {i \in 1..k : ~Settled(i)}
<1>6. ASSUME NEW i \in 1..k, \A j \in 1..k : j < i => Settled(j) PROVE Settled(i)
  <2> SUFFICES ASSUME NEW x \in S, m[x] < i PROVE F[i + 1][x] = F[i][x]
    OBVIOUS
  <2>1. i \in 1..(k + 1) /\ i + 1 \in 1..(k + 1) /\ (i + 1) - 1 = i
    OBVIOUS
  <2>2. F[i + 1] = Turn(F[i]) /\ F[i] = Turn(F[i - 1]) /\ F[i] \in FT /\ F[i - 1] \in FT
    BY <1>5, <2>1
  <2>3. F[i + 1][x] = step[<<F[i], x>>] /\ F[i][x] = step[<<F[i - 1], x>>]
    BY <2>2
  <2>4. ASSUME NEW y \in S, m[y] < m[x] PROVE F[i][y] = F[i - 1][y]
    <3>1. m[x] \in 0..k /\ m[y] \in 0..k
      OBVIOUS
    <3>2. i - 1 \in 1..k /\ i - 1 < i /\ m[y] < i - 1 /\ (i - 1) + 1 = i
      BY <2>4, <3>1
    <3>3. Settled(i - 1)
      BY <1>6, <3>2
    <3> QED
      BY <3>2, <3>3
  <2> QED
    BY <2>2, <2>3, <2>4 DEF Descends
<1>7. \A i \in 1..k : Settled(i)
  <2> SUFFICES ASSUME Rest # {} PROVE FALSE
    OBVIOUS
  <2>1. PICK i \in Rest : \A s \in Rest : i <= s
    <3>1. Rest \in SUBSET Nat
      OBVIOUS
    <3> HIDE DEF Rest
    <3> QED
      BY <3>1, Least
  <2>2. i \in 1..k /\ ~Settled(i)
    OBVIOUS
  <2> HIDE DEF Settled
  <2>3. \A j \in 1..k : j < i => Settled(j)
    BY <2>1, <2>2
  <2> QED
    BY <1>6, <2>2, <2>3
<1>8. ASSUME NEW x \in S PROVE F[k + 1][x] = step[<<F[k + 1], x>>]
  <2>1. k + 1 \in 1..(k + 1) /\ (k + 1) - 1 = k
    OBVIOUS
  <2>2. F[k + 1] = Turn(F[k]) /\ F[k + 1] \in FT /\ F[k] \in FT
    BY <1>5, <2>1
  <2>3. F[k + 1][x] = step[<<F[k], x>>]
    BY <2>2
  <2>4. ASSUME NEW y \in S, m[y] < m[x] PROVE F[k][y] = F[k + 1][y]
    <3>1. m[x] \in 0..k /\ m[y] \in 0..k
      OBVIOUS
    <3>2. k \in 1..k /\ m[y] < k
      BY <2>4, <3>1
    <3>3. Settled(k)
      BY <1>7, <3>2
    <3> QED
      BY <3>2, <3>3
  <2> QED
    BY <2>2, <2>3, <2>4 DEF Descends
<1>9. F[k + 1] \in FT
  BY <1>5
<1> QED
  BY <1>8, <1>9 DEF Recursion

(* A set of offsets is finite, its count a natural number, and the count   *)
(* grows by one with a new element: IncLine at a new LF.                   *)
LEMMA CountGrows ==
  ASSUME NEW S \in SUBSET Nat, NEW n \in Nat, \A s \in S : s <= n
  PROVE  /\ IsFiniteSet(S)
         /\ Cardinality(S) \in Nat
         /\ \A e : e \notin S => Cardinality(S \cup {e}) = Cardinality(S) + 1
<1>1. IsFiniteSet(S)
  BY FS_BoundedSetOfNaturals
<1>2. Cardinality(S) \in Nat
  BY <1>1, FS_CardinalityType
<1>3. ASSUME NEW e, e \notin S
      PROVE  Cardinality(S \cup {e}) = Cardinality(S) + 1
  BY <1>1, <1>3, FS_AddElement
<1> QED
  BY <1>1, <1>2, <1>3

(* A function that takes no value twice takes as many as it has arguments. *)
LEMMA AsManyValues ==
  ASSUME NEW S, IsFiniteSet(S), NEW f \in [S -> Nat],
         \A i, j \in S : f[i] = f[j] => i = j
  PROVE  Cardinality(S) = Cardinality({f[i] : i \in S})
<1> DEFINE T == {f[i] : i \in S}
<1>1. f \in Bijection(S, T)
  BY DEF Bijection, Injection, Surjection, IsInjective
<1>2. ExistsBijection(S, T)
  BY <1>1 DEF ExistsBijection
<1> HIDE DEF T
<1>3. Cardinality(T) = Cardinality(S)
  BY <1>2, FS_Bijection
<1> QED
  BY <1>3 DEF T

-----------------------------------------------------------------------------
(* The offsets that the scans look for exist.                              *)

(* GO_TO_END_LINE stops at the first CR or LF, or at the end of the file.  *)
LEMMA EndOfLineIs ==
  ASSUME NEW f \in Seq(Byte), NEW i \in 0..Len(f)
  PROVE  /\ EndOfLine(f, i) \in i..Len(f)
         /\ EndOfLine(f, i) = Len(f) \/ IsBreak(f[EndOfLine(f, i) + 1])
         /\ \A j \in i..(EndOfLine(f, i) - 1) : ~IsBreak(f[j + 1])
<1> DEFINE Stop == {e \in i..Len(f) : e = Len(f) \/ IsBreak(f[e + 1])}
<1>1. Stop \in SUBSET Nat /\ Len(f) \in Stop
  OBVIOUS
<1>2. PICK m \in Stop : \A s \in Stop : m <= s
  <2> HIDE DEF Stop
  <2> QED
    BY <1>1, Least
<1>3. ASSUME NEW j \in i..(m - 1), IsBreak(f[j + 1])
      PROVE  FALSE
  <2>1. j \in Stop
    BY <1>1, <1>2, <1>3
  <2> QED
    BY <1>2, <1>3, <2>1
<1> QED
  BY <1>2, <1>3 DEF EndOfLine

(* The loop after a line that a regular expression was tried on stops at   *)
(* the first byte that is neither CR nor LF, or at the end of the file.    *)
LEMMA SkipBreaksIs ==
  ASSUME NEW f \in Seq(Byte), NEW i \in 0..Len(f)
  PROVE  /\ SkipBreaks(f, i) \in i..Len(f)
         /\ SkipBreaks(f, i) = Len(f) \/ ~IsBreak(f[SkipBreaks(f, i) + 1])
         /\ \A j \in i..(SkipBreaks(f, i) - 1) : IsBreak(f[j + 1])
<1> DEFINE Stop == {e \in i..Len(f) : e = Len(f) \/ ~IsBreak(f[e + 1])}
<1>1. Stop \in SUBSET Nat /\ Len(f) \in Stop
  OBVIOUS
<1>2. PICK m \in Stop : \A s \in Stop : m <= s
  <2> HIDE DEF Stop
  <2> QED
    BY <1>1, Least
<1>3. ASSUME NEW j \in i..(m - 1), ~IsBreak(f[j + 1])
      PROVE  FALSE
  <2>1. j \in Stop
    BY <1>1, <1>2, <1>3
  <2> QED
    BY <1>2, <1>3, <2>1
<1> QED
  BY <1>2, <1>3 DEF SkipBreaks

(* The offset of the last LF is one of those passed over.                  *)
LEMMA TopIs ==
  ASSUME NEW S \in SUBSET Nat, NEW b \in Nat, \A s \in S : s <= b, S # {}
  PROVE  Top(S) \in S /\ \A s \in S : s <= Top(S)
BY Greatest DEF Top

(* Every offset stands in a stretch between ends of line, which starts at  *)
(* the file's start or behind the last CR or LF before the offset.         *)
LEMMA SegStartIs ==
  ASSUME NEW f \in Seq(Byte), NEW o \in 0..Len(f)
  PROVE  /\ SegStart(f, o) \in 0..o
         /\ SegStart(f, o) = 0 \/ IsBreak(f[SegStart(f, o)])
         /\ \A j \in SegStart(f, o)..(o - 1) : ~IsBreak(f[j + 1])
<1> DEFINE Begin == {b \in 0..o : b = 0 \/ IsBreak(f[b])}
<1>1. Begin \in SUBSET Nat /\ 0 \in Begin /\ o \in Nat /\ \A s \in Begin : s <= o
  OBVIOUS
<1>2. PICK m \in Begin : \A s \in Begin : s <= m
  <2> HIDE DEF Begin
  <2> QED
    BY <1>1, Greatest
<1>3. ASSUME NEW j \in m..(o - 1), IsBreak(f[j + 1])
      PROVE  FALSE
  <2>1. j + 1 \in Begin
    BY <1>1, <1>2, <1>3
  <2> QED
    BY <1>1, <1>2, <1>3, <2>1
<1> QED
  BY <1>2, <1>3 DEF SegStart

(* There is but one such start.                                            *)
LEMMA SegStartUnique ==
  ASSUME NEW f \in Seq(Byte), NEW o \in 0..Len(f), NEW b \in 0..o,
         b = 0 \/ IsBreak(f[b]), \A j \in b..(o - 1) : ~IsBreak(f[j + 1])
  PROVE  SegStart(f, o) = b
<1> DEFINE s == SegStart(f, o)
<1>1. /\ s \in 0..o
      /\ s = 0 \/ IsBreak(f[s])
      /\ \A j \in s..(o - 1) : ~IsBreak(f[j + 1])
  BY SegStartIs
<1> HIDE DEF s
<1>2. ASSUME b < s PROVE FALSE
  <2>1. s - 1 \in b..(o - 1) /\ (s - 1) + 1 = s /\ s # 0
    BY <1>1, <1>2
  <2> QED
    BY <1>1, <2>1
<1>3. ASSUME s < b PROVE FALSE
  <2>1. b - 1 \in s..(o - 1) /\ (b - 1) + 1 = b /\ b # 0
    BY <1>1, <1>3
  <2> QED
    BY <1>1, <2>1
<1>4. s = b
  BY <1>1, <1>2, <1>3
<1> QED
  BY <1>4 DEF s

(* Two offsets with no end of line between them stand in one stretch.      *)
LEMMA SegTogether ==
  ASSUME NEW f \in Seq(Byte), NEW o \in Nat, NEW p \in Nat, o <= p, p <= Len(f),
         \A j \in o..(p - 1) : ~IsBreak(f[j + 1])
  PROVE  SegStart(f, p) = SegStart(f, o)
<1> DEFINE s == SegStart(f, o)
<1>1. /\ s \in 0..o
      /\ s = 0 \/ IsBreak(f[s])
      /\ \A j \in s..(o - 1) : ~IsBreak(f[j + 1])
  BY SegStartIs
<1> HIDE DEF s
<1>2. \A j \in s..(p - 1) : ~IsBreak(f[j + 1])
  <2> TAKE j \in s..(p - 1)
  <2>1. j \in s..(o - 1) \/ j \in o..(p - 1)
    BY <1>1
  <2> QED
    BY <1>1, <2>1
<1>3. s \in 0..p /\ p \in 0..Len(f)
  BY <1>1
<1>4. SegStart(f, p) = s
  BY <1>1, <1>2, <1>3, SegStartUnique
<1> QED
  BY <1>4 DEF s

(* Two offsets with an end of line between them stand in stretches of      *)
(* which the second starts later.                                          *)
LEMMA SegApart ==
  ASSUME NEW f \in Seq(Byte), NEW o \in Nat, NEW p \in Nat, p <= Len(f),
         NEW j \in o..(p - 1), IsBreak(f[j + 1])
  PROVE  SegStart(f, o) < SegStart(f, p)
<1>1. o \in 0..Len(f) /\ p \in 0..Len(f)
  OBVIOUS
<1>2. SegStart(f, o) \in 0..o
  BY <1>1, SegStartIs
<1>3. /\ SegStart(f, p) \in 0..p
      /\ \A i \in SegStart(f, p)..(p - 1) : ~IsBreak(f[i + 1])
  BY <1>1, SegStartIs
<1>4. j \notin SegStart(f, p)..(p - 1)
  BY <1>3
<1> QED
  BY <1>2, <1>3, <1>4

(* The stretches start in the order of the offsets in them.                *)
LEMMA SegsInOrder ==
  ASSUME NEW f \in Seq(Byte), NEW o \in Nat, NEW p \in Nat, o <= p, p <= Len(f)
  PROVE  SegStart(f, o) <= SegStart(f, p)
<1>1. CASE \A j \in o..(p - 1) : ~IsBreak(f[j + 1])
  <2>1. SegStart(f, p) = SegStart(f, o) /\ SegStart(f, o) \in 0..o
    BY <1>1, SegTogether, SegStartIs
  <2> QED
    BY <2>1
<1>2. CASE \E j \in o..(p - 1) : IsBreak(f[j + 1])
  <2>1. SegStart(f, o) < SegStart(f, p)
    BY <1>2, SegApart
  <2>2. SegStart(f, o) \in 0..o /\ SegStart(f, p) \in 0..p
    BY SegStartIs
  <2> QED
    BY <2>1, <2>2
<1> QED
  BY <1>1, <1>2

(* GO_TO_END_LINE, from a byte at d that ends no line, stays in the line:  *)
(* what it goes over is of the stretch that d is of.                       *)
LEMMA RestOfLine ==
  ASSUME NEW f \in Seq(Byte), NEW d \in Nat, d < Len(f), ~IsBreak(f[d + 1]),
         NEW o \in Nat, d <= o, o <= EndOfLine(f, d + 1), o < Len(f), ~IsBreak(f[o + 1])
  PROVE  /\ SegStart(f, o) = SegStart(f, d)
         /\ o # d => o # 0 /\ ~IsBreak(f[o])
<1> DEFINE e == EndOfLine(f, d + 1)
<1>1. /\ e \in (d + 1)..Len(f)
      /\ e = Len(f) \/ IsBreak(f[e + 1])
      /\ \A j \in (d + 1)..(e - 1) : ~IsBreak(f[j + 1])
  <2>1. d + 1 \in 0..Len(f)
    OBVIOUS
  <2> QED
    BY <2>1, EndOfLineIs
<1>2. o <= e
  OBVIOUS
<1> HIDE DEF e
<1>3. o < e
  BY <1>1, <1>2
<1>4. \A j \in d..(o - 1) : ~IsBreak(f[j + 1])
  <2> TAKE j \in d..(o - 1)
  <2>1. j = d \/ j \in (d + 1)..(e - 1)
    BY <1>1, <1>3
  <2> QED
    BY <1>1, <2>1
<1>5. SegStart(f, o) = SegStart(f, d)
  BY <1>4, SegTogether
<1>6. ASSUME o # d
      PROVE  o # 0 /\ ~IsBreak(f[o])
  <2>1. o - 1 \in d..(o - 1) /\ (o - 1) + 1 = o /\ o # 0
    BY <1>6
  <2> QED
    BY <1>4, <2>1
<1> QED
  BY <1>5, <1>6

(* Only an LF reads as an LF when the 8th bit is not stripped.             *)
LEMMA ReadsLF ==
  ASSUME NEW o, ~o.parity, NEW c \in Byte
  PROVE  GetChr(o, c) = LF <=> c = LF
BY DEF GetChr, Mask, ToUpper, LF, Byte

(* An end of line reads as one, whatever is stripped or folded.            *)
LEMMA ReadsBreak ==
  ASSUME NEW o, NEW c, IsBreak(c)
  PROVE  IsBreak(GetChr(o, c))
<1>1. ToUpper(c) = c
  BY DEF IsBreak, ToUpper, CR, LF
<1>2. c % 128 = c
  <2>1. c = 13 \/ c = 10
    BY DEF IsBreak, CR, LF
  <2>2. 13 % 128 = 13 /\ 10 % 128 = 10
    OBVIOUS
  <2> QED
    BY <2>1, <2>2
<1>3. GetChr(o, c) = c
  BY <1>1, <1>2 DEF GetChr, Mask
<1> QED
  BY <1>3

-----------------------------------------------------------------------------
(* A find as Move2Find leaves it is as long as it was, and has a first     *)
(* byte that is no end of line.                                            *)
LEMMA Folded ==
  ASSUME NEW o, NEW t \in Seq(Byte \ {0, LF, CR}) \ {<<>>}
  PROVE  /\ Len(Move2Find(o, t)) = Len(t)
         /\ Len(Move2Find(o, t)) \in Nat \ {0}
         /\ ~IsBreak(Move2Find(o, t)[1])
<1>1. 1 \in DOMAIN t /\ t[1] \in Byte \ {0, LF, CR} /\ DOMAIN t = 1..Len(t) /\ Len(t) \in Nat \ {0}
  OBVIOUS
<1>2. CASE o.case
  BY <1>1, <1>2 DEF Move2Find, IsBreak
<1>3. CASE ~o.case
  <2> DEFINE u == [k \in DOMAIN t |-> ToUpper(t[k])]
  <2>0. \A c \in Byte \ {0, LF, CR} : ToUpper(c) \in Int /\ ~IsBreak(ToUpper(c))
    BY DEF IsBreak, ToUpper, Byte, LF, CR
  <2>1. u \in Seq(Int)
    <3>1. \A k \in 1..Len(t) : t[k] \in Byte \ {0, LF, CR}
      OBVIOUS
    <3> QED
      BY <1>1, <2>0, <3>1
  <2>2. Len(u) = Len(t)
    BY <1>1, <2>1
  <2>3. ~IsBreak(u[1])
    <3>1. u[1] = ToUpper(t[1])
      BY <1>1
    <3> QED
      BY <1>1, <2>0, <3>1
  <2> QED
    BY <1>1, <1>3, <2>2, <2>3 DEF Move2Find
<1> QED
  BY <1>2, <1>3

-----------------------------------------------------------------------------
(* The compare.                                                            *)

(* A byte of the find as Move2Find leaves it, and one of the file.         *)
LEMMA BytesCompared ==
  ASSUME NEW o \in CompOptions, NEW c \in Byte, NEW t \in Byte,
         NEW u, u = IF o.case THEN t ELSE ToUpper(t)
  PROVE  /\ GetChr(o, c) = u => CompChr(o, c) = CompChr(o, t)
         /\ Signed(u) = CompChr(o, c) => CompChr(o, c) = CompChr(o, t)
         /\ t < 128 /\ CompChr(o, c) = CompChr(o, t) =>
              /\ Signed(u) = CompChr(o, c)
              /\ (o.parity => o.case) => GetChr(o, c) = u
<1>1. o.case \in BOOLEAN /\ o.parity \in BOOLEAN
  BY DEF CompOptions
<1>2. c \in 0..255 /\ t \in 0..255
  BY DEF Byte
<1>3. /\ c % 128 = (IF c < 128 THEN c ELSE c - 128)
      /\ t % 128 = (IF t < 128 THEN t ELSE t - 128)
  BY <1>2
<1>4. \A x \in 0..255 : /\ ToUpper(x) \in 0..255 /\ ToUpper(ToUpper(x)) = ToUpper(x)
                        /\ ToUpper(x) < 128 <=> x < 128
                        /\ x >= 128 => ToUpper(x) = x
  BY DEF ToUpper
<1>5. CASE o.case
  BY <1>2, <1>3, <1>5 DEF GetChr, CompChr, Mask, Signed
<1>6. CASE ~o.case
  <2> DEFINE C == ToUpper(c)
             T == ToUpper(t)
  <2>1. /\ C \in 0..255 /\ T \in 0..255
        /\ C < 128 <=> c < 128
        /\ T < 128 <=> t < 128
    BY <1>2, <1>4
  <2>2. C % 128 = (IF c < 128 THEN C ELSE c - 128) /\ ToUpper(T) = T
    <3>1. c >= 128 => C = c
      BY <1>2, <1>4
    <3>2. ToUpper(T) = T
      BY <1>2, <1>4
    <3> HIDE DEF C, T
    <3>3. C % 128 = (IF c < 128 THEN C ELSE c - 128)
      BY <1>2, <2>1, <3>1
    <3> QED
      BY <3>2, <3>3
  <2>3. /\ GetChr(o, c) = IF o.parity THEN C % 128 ELSE C
        /\ CompChr(o, c) = IF o.parity THEN ToUpper(c % 128) ELSE C
        /\ CompChr(o, t) = IF o.parity THEN ToUpper(t % 128) ELSE T
    BY <1>6 DEF GetChr, CompChr, Mask
  <2>4. c % 128 \in 0..127 /\ t % 128 \in 0..127
    BY <1>2, <1>3
  <2>5. ToUpper(c % 128) \in 0..127 /\ ToUpper(t % 128) \in 0..127
    BY <2>4 DEF ToUpper
  <2>6. t < 128 => ToUpper(t % 128) = T
    BY <1>3
  <2>7. c < 128 => ToUpper(c % 128) = C
    BY <1>3
  <2>8. c >= 128 /\ c % 128 = T => ToUpper(c % 128) = c % 128
    BY <2>2
  <2> HIDE DEF C, T
  <2>9. u = T
    BY <1>6 DEF T
  <2>10. Signed(u) = IF T < 128 THEN T ELSE T - 256
    BY <2>1, <2>9 DEF Signed
  <2>11. GetChr(o, c) = T => CompChr(o, c) = CompChr(o, t)
    <3>1. CASE ~o.parity
      BY <2>3, <3>1
    <3>2. CASE o.parity /\ c < 128
      BY <2>1, <2>2, <2>3, <2>6, <2>7, <3>2
    <3>3. CASE o.parity /\ c >= 128
      BY <1>2, <1>3, <2>1, <2>2, <2>3, <2>6, <2>8, <3>3
    <3> QED
      BY <1>2, <3>1, <3>2, <3>3
  <2>12. T < 128 /\ T = CompChr(o, c) => CompChr(o, c) = CompChr(o, t)
    BY <2>1, <2>3, <2>6
  <2>13. CompChr(o, c) >= 0
    BY <2>1, <2>3, <2>5
  <2>14. t < 128 => CompChr(o, t) = T /\ T < 128
    BY <2>1, <2>3, <2>6
  <2> QED
    BY <1>6, <2>1, <2>3, <2>9, <2>10, <2>11, <2>12, <2>13, <2>14
<1> QED
  BY <1>5, <1>6

(* A find is its length of bytes, and so is what Move2Find makes of it.    *)
LEMMA FoldedBytes ==
  ASSUME NEW o \in CompOptions, NEW t \in Seq(Byte \ {0}) \ {<<>>}
  PROVE  /\ Len(t) \in Nat \ {0} /\ DOMAIN t = 1..Len(t)
         /\ Len(Move2Find(o, t)) = Len(t)
         /\ \A k \in 1..Len(t) : /\ t[k] \in Byte
                                 /\ Move2Find(o, t)[k] = IF o.case THEN t[k] ELSE ToUpper(t[k])
<1>1. Len(t) \in Nat \ {0} /\ DOMAIN t = 1..Len(t) /\ \A k \in 1..Len(t) : t[k] \in Byte
  OBVIOUS
<1>2. CASE o.case
  BY <1>1, <1>2 DEF Move2Find
<1>3. CASE ~o.case
  <2> DEFINE u == [k \in DOMAIN t |-> ToUpper(t[k])]
  <2>1. \A c \in Byte : ToUpper(c) \in Int
    BY DEF ToUpper, Byte
  <2>2. u \in Seq(Int)
    BY <1>1, <2>1
  <2>3. Len(u) = Len(t)
    BY <1>1, <2>2
  <2> QED
    BY <1>1, <1>3, <2>3 DEF Move2Find
<1> QED
  BY <1>2, <1>3

ComparesPlain(o, f, at, max, t) ==
  /\ ~(Len(t) >= max - at)
  /\ \A k \in 1..(Len(t) - 1) : Signed(t[k + 1]) = CompChr(o, f[at + k + 1])
  /\ o.whole => /\ at > 0 => Delimits(o, f[at])
                /\ at + Len(t) < max => Delimits(o, f[at + Len(t) + 1])

(* What FullComp is without -i, for a find of several bytes and of one.    *)
LEMMA PlainCompare ==
  ASSUME NEW o, ~o.spacey, NEW f, NEW at, NEW max, NEW t
  PROVE  /\ Len(t) # 1 => (FullComp(o, f, at, max, t) <=> ComparesPlain(o, f, at, max, t))
         /\ Len(t) = 1 /\ ~o.whole => FullComp(o, f, at, max, t)
<1>1. CASE Len(t) = 1
  BY <1>1 DEF FullComp
<1>2. CASE Len(t) # 1 /\ Len(t) >= max - at
  BY <1>2 DEF FullComp, ComparesPlain
<1>3. CASE Len(t) # 1 /\ ~(Len(t) >= max - at)
  <2> DEFINE r == PlainComp(o, f, at, t)
  <2>1. FullComp(o, f, at, max, t) <=>
          /\ r.suc
          /\ o.whole => /\ at > 0 => Delimits(o, f[at])
                        /\ at + r.i < max => Delimits(o, f[at + r.i + 1])
    BY <1>3 DEF FullComp
  <2>2. /\ r.i = Len(t)
        /\ r.suc <=> \A k \in 1..(Len(t) - 1) : Signed(t[k + 1]) = CompChr(o, f[at + k + 1])
    BY DEF PlainComp
  <2> HIDE DEF r
  <2> QED
    BY <1>3, <2>1, <2>2 DEF ComparesPlain
<1> QED
  BY <1>1, <1>2, <1>3

(* Without -i, whatever the mix of -c, -p, -w and -w2, a find that the     *)
(* compare reports stands in the file, byte for byte as the switches fold  *)
(* them, and with -w stands alone; of one byte with -w this is not so.     *)
THEOREM FoundStands ==
  ASSUME NEW o \in CompOptions, ~o.spacey, NEW f \in Seq(Byte),
         NEW t \in Seq(Byte \ {0}) \ {<<>>}, NEW at \in 0..(Len(f) - 1),
         Len(t) >= 2 \/ ~o.whole,
         FoundAt(o, f, at, Len(f), Move2Find(o, t))
  PROVE  FindStands(o, f, at, t) /\ FindAlone(o, f, at, t)
<1> DEFINE F == Move2Find(o, t)
<1>1. /\ Len(t) \in Nat \ {0} /\ DOMAIN t = 1..Len(t) /\ Len(F) = Len(t)
      /\ \A k \in 1..Len(t) : /\ t[k] \in Byte
                              /\ F[k] = IF o.case THEN t[k] ELSE ToUpper(t[k])
  BY FoldedBytes
<1> HIDE DEF F
<1>2. /\ Len(f) \in Nat /\ at \in Nat /\ at < Len(f)
      /\ \A i \in 1..Len(f) : f[i] \in Byte
  OBVIOUS
<1>3. GetChr(o, f[at + 1]) = F[1] /\ FullComp(o, f, at, Len(f), F)
  BY DEF FoundAt, F
<1>4. Len(F) # 1 => /\ Len(F) < Len(f) - at
                    /\ \A k \in 1..(Len(F) - 1) :
                         Signed(F[k + 1]) = CompChr(o, f[at + k + 1])
  <2>1. Len(F) # 1 => ComparesPlain(o, f, at, Len(f), F)
    BY <1>3, PlainCompare
  <2> QED
    BY <1>1, <1>2, <2>1 DEF ComparesPlain
<1>5. at + Len(t) <= Len(f)
  BY <1>1, <1>2, <1>4
<1>6. ASSUME NEW k \in 1..Len(t) PROVE CompChr(o, f[at + k]) = CompChr(o, t[k])
  <2>1. f[at + k] \in Byte /\ t[k] \in Byte
    BY <1>1, <1>2, <1>5
  <2>2. CASE k = 1
    BY <1>1, <1>3, <2>1, <2>2, BytesCompared
  <2>3. CASE k # 1
    <3>1. k - 1 \in 1..(Len(F) - 1) /\ Len(F) # 1 /\ (k - 1) + 1 = k /\ at + (k - 1) + 1 = at + k
      BY <1>1, <1>2, <2>3
    <3>2. Signed(F[(k - 1) + 1]) = CompChr(o, f[at + (k - 1) + 1])
      BY <1>4, <3>1
    <3>3. Signed(F[k]) = CompChr(o, f[at + k])
      BY <3>1, <3>2
    <3> QED
      BY <1>1, <2>1, <3>3, BytesCompared
  <2> QED
    BY <2>2, <2>3
<1>7. FindAlone(o, f, at, t)
  <2>1. Len(F) # 1 => ComparesPlain(o, f, at, Len(f), F)
    BY <1>3, PlainCompare
  <2>2. ASSUME o.whole PROVE Len(F) # 1 /\ Len(F) = Len(t)
    BY <1>1, <2>2
  <2>3. ASSUME o.whole
        PROVE  /\ at > 0 => Delimits(o, f[at])
               /\ at + Len(t) < Len(f) => Delimits(o, f[at + Len(t) + 1])
    BY <2>1, <2>2, <2>3 DEF ComparesPlain
  <2> QED
    BY <2>3 DEF FindAlone
<1> QED
  BY <1>1, <1>5, <1>6, <1>7 DEF FindStands

(* And without -i a find of two or more 7-bit bytes that stands there, and *)
(* alone when -w asks for that, before the last byte of the file, is       *)
(* reported, unless -p is given without -c.                                *)
THEOREM StandsFound ==
  ASSUME NEW o \in CompOptions, ~o.spacey, o.parity => o.case, NEW f \in Seq(Byte),
         NEW t \in Seq(Byte \ {0}) \ {<<>>}, NEW at \in 0..(Len(f) - 1),
         Len(t) >= 2, Len(t) < Len(f) - at, \A k \in DOMAIN t : t[k] < 128,
         FindStands(o, f, at, t), FindAlone(o, f, at, t)
  PROVE  FoundAt(o, f, at, Len(f), Move2Find(o, t))
<1> DEFINE F == Move2Find(o, t)
<1>1. /\ Len(t) \in Nat \ {0} /\ DOMAIN t = 1..Len(t) /\ Len(F) = Len(t)
      /\ \A k \in 1..Len(t) : /\ t[k] \in Byte
                              /\ F[k] = IF o.case THEN t[k] ELSE ToUpper(t[k])
  BY FoldedBytes
<1> HIDE DEF F
<1>2. /\ Len(f) \in Nat /\ at \in Nat /\ at < Len(f)
      /\ \A i \in 1..Len(f) : f[i] \in Byte
  OBVIOUS
<1>3. ASSUME NEW k \in 1..Len(t)
      PROVE  GetChr(o, f[at + k]) = F[k] /\ Signed(F[k]) = CompChr(o, f[at + k])
  <2>1. f[at + k] \in Byte /\ t[k] \in Byte /\ t[k] < 128
    <3>1. at + k \in 1..Len(f)
      BY <1>1, <1>2
    <3> QED
      BY <1>1, <1>2, <3>1
  <2>2. CompChr(o, f[at + k]) = CompChr(o, t[k])
    BY <1>1 DEF FindStands
  <2> QED
    BY <1>1, <2>1, <2>2, BytesCompared
<1>4. GetChr(o, f[at + 1]) = F[1]
  BY <1>1, <1>3
<1>5. ASSUME NEW k \in 1..(Len(F) - 1)
      PROVE  Signed(F[k + 1]) = CompChr(o, f[at + k + 1])
  <2>1. k + 1 \in 1..Len(t) /\ at + (k + 1) = at + k + 1
    BY <1>1, <1>2
  <2> QED
    BY <1>3, <2>1
<1>6. FullComp(o, f, at, Len(f), F)
  <2>1. ComparesPlain(o, f, at, Len(f), F)
    BY <1>1, <1>2, <1>5 DEF FindAlone, ComparesPlain
  <2>2. Len(F) # 1
    BY <1>1
  <2> QED
    BY <2>1, <2>2, PlainCompare
<1> QED
  BY <1>4, <1>6 DEF FoundAt, F

-----------------------------------------------------------------------------
(* The compare with -i.                                                    *)

(* How -i reads a string grows with each byte of it.                       *)
SqueezedBy(o, s, out) ==
  /\ out[0] = <<>>
  /\ \A n \in 1..Len(s) :
       out[n] = IF ~Spacey(s[n]) THEN Append(out[n - 1], CompChr(o, s[n]))
                ELSE IF n > 1 /\ Spacey(s[n - 1]) THEN out[n - 1]
                ELSE Append(out[n - 1], SPACE)

LEMMA SqueezeIs ==
  ASSUME NEW o \in CompOptions, NEW s \in Seq(Byte)
  PROVE  \E out \in [0..Len(s) -> Seq(Int)] :
           SqueezedBy(o, s, out) /\ Squeeze(o, s) = out[Len(s)]
<1> DEFINE Body(out) ==
             [n \in 0..Len(s) |->
                IF n = 0 THEN <<>>
                ELSE IF ~Spacey(s[n]) THEN Append(out[n - 1], CompChr(o, s[n]))
                ELSE IF n > 1 /\ Spacey(s[n - 1]) THEN out[n - 1]
                ELSE Append(out[n - 1], SPACE)]
           the == CHOOSE out : out = Body(out)
           Grown(u, n) == IF ~Spacey(s[n]) THEN Append(u, CompChr(o, s[n]))
                          ELSE IF n > 1 /\ Spacey(s[n - 1]) THEN u
                          ELSE Append(u, SPACE)
           step == [p \in Seq(Int) \X (1..Len(s)) |-> Grown(p[1], p[2])]
<1>1. Squeeze(o, s) = the[Len(s)]
  BY DEF Squeeze
<1>2. ASSUME NEW c \in Byte PROVE CompChr(o, c) \in Int
  <2>1. o.case \in BOOLEAN /\ o.parity \in BOOLEAN
    BY DEF CompOptions
  <2>2. c \in Int /\ c % 128 \in Int
    BY DEF Byte
  <2>3. \A d \in Int : ToUpper(d) \in Int
    BY DEF ToUpper
  <2>4. Mask(o, c) \in Int
    BY <2>1, <2>2 DEF Mask
  <2> QED
    BY <2>1, <2>3, <2>4 DEF CompChr
<1>3. step \in [Seq(Int) \X (1..Len(s)) -> Seq(Int)]
  <2>1. ASSUME NEW u \in Seq(Int), NEW n \in 1..Len(s) PROVE Grown(u, n) \in Seq(Int)
    <3>1. CompChr(o, s[n]) \in Int /\ SPACE \in Int
      <4>1. s[n] \in Byte
        OBVIOUS
      <4> QED
        BY <1>2, <4>1 DEF SPACE
    <3> QED
      BY <3>1
  <2> HIDE DEF Grown
  <2> QED
    BY <2>1
<1>4. PICK out \in [0..Len(s) -> Seq(Int)] : Steps(out, <<>>, step, Len(s))
  <2>1. Len(s) \in Nat /\ <<>> \in Seq(Int)
    OBVIOUS
  <2> HIDE DEF step
  <2> QED
    BY <1>3, <2>1, StepsExist
<1>5. out[0] = <<>> /\ \A n \in 1..Len(s) : out[n] = Grown(out[n - 1], n)
  <2>1. ASSUME NEW n \in 1..Len(s) PROVE out[n] = Grown(out[n - 1], n)
    <3>1. n - 1 \in 0..Len(s)
      OBVIOUS
    <3>2. <<out[n - 1], n>> \in Seq(Int) \X (1..Len(s))
      BY <3>1
    <3>3. out[n] = step[<<out[n - 1], n>>]
      BY <1>4 DEF Steps
    <3> HIDE DEF Grown
    <3> QED
      BY <3>2, <3>3
  <2> QED
    BY <1>4, <2>1 DEF Steps
<1>6. out = Body(out)
  <2>1. \A n \in 0..Len(s) : n = 0 \/ n \in 1..Len(s)
    OBVIOUS
  <2>2. \A n \in 0..Len(s) : out[n] = Body(out)[n]
    BY <1>5, <2>1
  <2> HIDE DEF Body
  <2>3. DOMAIN Body(out) = 0..Len(s) /\ Body(out) = [n \in 0..Len(s) |-> Body(out)[n]]
    BY DEF Body
  <2> QED
    BY <2>2, <2>3
<1>7. the = Body(the)
  <2> HIDE DEF Body
  <2> QED
    BY <1>6
<1>8. the[0] = <<>> /\ \A n \in 1..Len(s) : the[n] = Grown(the[n - 1], n)
  <2> HIDE DEF the
  <2>1. Len(s) \in Nat
    OBVIOUS
  <2>2. \A n \in 0..Len(s) : the[n] = Body(the)[n]
    BY <1>7
  <2> QED
    BY <2>1, <2>2
<1> HIDE DEF the, Grown
<1> DEFINE Off == {n \in 0..Len(s) : the[n] # out[n]}
<1>9. Off = {}
  <2> SUFFICES ASSUME Off # {} PROVE FALSE
    OBVIOUS
  <2>1. PICK n \in Off : \A j \in Off : n <= j
    <3>1. Off \in SUBSET Nat
      OBVIOUS
    <3> HIDE DEF Off
    <3> QED
      BY <3>1, Least
  <2>2. n \in 1..Len(s) /\ n - 1 \in 0..Len(s) /\ ~(n <= n - 1)
    BY <1>5, <1>8
  <2>3. the[n - 1] = out[n - 1]
    BY <2>1, <2>2
  <2> QED
    BY <1>5, <1>8, <2>1, <2>2, <2>3
<1>10. Squeeze(o, s) = out[Len(s)]
  <2>1. Len(s) \in 0..Len(s)
    OBVIOUS
  <2> QED
    BY <1>1, <1>9, <2>1
<1>11. SqueezedBy(o, s, out)
  BY <1>5 DEF SqueezedBy, Grown
<1> QED
  BY <1>10, <1>11

LEMMA SqueezeGrows ==
  ASSUME NEW o \in CompOptions, NEW s \in Seq(Byte), NEW a \in 1..Len(s), NEW e \in a..Len(s)
  PROVE  LET prev == Squeeze(o, SubSeq(s, a, e - 1))
         IN  Squeeze(o, SubSeq(s, a, e)) =
               IF ~Spacey(s[e]) THEN Append(prev, CompChr(o, s[e]))
               ELSE IF e > a /\ Spacey(s[e - 1]) THEN prev
               ELSE Append(prev, SPACE)
<1> DEFINE x == SubSeq(s, a, e)
           y == SubSeq(s, a, e - 1)
<1>1. /\ x \in Seq(Byte) /\ Len(x) = e - a + 1 /\ \A n \in 1..(e - a + 1) : x[n] = s[a + n - 1]
      /\ y \in Seq(Byte) /\ Len(y) = e - a /\ \A n \in 1..(e - a) : y[n] = s[a + n - 1]
  <2>1. /\ a \in Int /\ e \in Int /\ e - 1 \in Int
        /\ \A i \in a..e : s[i] \in Byte
        /\ \A i \in a..(e - 1) : s[i] \in Byte
    OBVIOUS
  <2>2. a <= e /\ (e - 1) - a + 1 = e - a /\ (IF a <= e - 1 THEN (e - 1) - a + 1 ELSE 0) = e - a
    OBVIOUS
  <2> QED
    BY <2>1, <2>2, SubSeqProperties
<1> HIDE DEF x, y
<1>2. PICK u \in [0..Len(x) -> Seq(Int)] : SqueezedBy(o, x, u) /\ Squeeze(o, x) = u[Len(x)]
  BY <1>1, SqueezeIs
<1>3. PICK v \in [0..Len(y) -> Seq(Int)] : SqueezedBy(o, y, v) /\ Squeeze(o, y) = v[Len(y)]
  BY <1>1, SqueezeIs
<1> DEFINE Off == {n \in 0..Len(y) : u[n] # v[n]}
<1>4. Off = {}
  <2> SUFFICES ASSUME Off # {} PROVE FALSE
    OBVIOUS
  <2>1. PICK n \in Off : \A j \in Off : n <= j
    <3>1. Off \in SUBSET Nat
      OBVIOUS
    <3> HIDE DEF Off
    <3> QED
      BY <3>1, Least
  <2>2. n # 0
    BY <1>2, <1>3, <2>1 DEF SqueezedBy
  <2>3. n \in 1..Len(y) /\ n \in 1..Len(x) /\ n - 1 \in 0..Len(y) /\ ~(n <= n - 1)
    BY <1>1, <2>2
  <2>4. u[n - 1] = v[n - 1]
    BY <2>1, <2>3
  <2>5. x[n] = y[n] /\ (n > 1 => x[n - 1] = y[n - 1])
    BY <1>1, <2>3
  <2> QED
    BY <1>2, <1>3, <2>1, <2>3, <2>4, <2>5 DEF SqueezedBy
<1>5. Len(x) \in 1..Len(x) /\ Len(x) - 1 = Len(y) /\ Len(y) \in 0..Len(y) /\ (Len(x) > 1 <=> e > a)
  <2>1. a \in Int /\ e \in Int /\ a <= e /\ Len(x) = e - a + 1 /\ Len(y) = e - a
    BY <1>1
  <2> QED
    BY ONLY <2>1
<1>6. u[Len(x) - 1] = Squeeze(o, y)
  BY <1>3, <1>4, <1>5
<1>7. x[Len(x)] = s[e] /\ (e > a => x[Len(x) - 1] = s[e - 1])
  BY <1>1
<1>8. Squeeze(o, x) = IF ~Spacey(s[e]) THEN Append(Squeeze(o, y), CompChr(o, s[e]))
                      ELSE IF e > a /\ Spacey(s[e - 1]) THEN Squeeze(o, y)
                      ELSE Append(Squeeze(o, y), SPACE)
  BY <1>2, <1>5, <1>6, <1>7 DEF SqueezedBy
<1> QED
  BY <1>8 DEF x, y

(* A run of white space that goes on adds nothing.                         *)
LEMMA SqueezeRun ==
  ASSUME NEW o \in CompOptions, NEW s \in Seq(Byte), NEW a \in 1..Len(s),
         NEW b \in a..Len(s), NEW e \in b..Len(s), \A k \in b..e : Spacey(s[k])
  PROVE  Squeeze(o, SubSeq(s, a, e)) = Squeeze(o, SubSeq(s, a, b))
<1> DEFINE Off == {k \in b..e : Squeeze(o, SubSeq(s, a, k)) # Squeeze(o, SubSeq(s, a, b))}
<1> SUFFICES ASSUME Off # {} PROVE FALSE
  <2>1. e \in b..e
    OBVIOUS
  <2> QED
    BY <2>1
<1>1. PICK k \in Off : \A j \in Off : k <= j
  <2>1. Off \in SUBSET Nat
    OBVIOUS
  <2> HIDE DEF Off
  <2> QED
    BY <2>1, Least
<1>2. k \in (b + 1)..e
  BY <1>1
<1>3. k - 1 \in b..e /\ k \in a..Len(s) /\ k > a /\ ~(k <= k - 1) /\ k \in b..e
  BY <1>2
<1>4. Squeeze(o, SubSeq(s, a, k)) = Squeeze(o, SubSeq(s, a, k - 1))
  BY <1>3, SqueezeGrows
<1>5. k - 1 \notin Off
  BY <1>1, <1>3
<1> QED
  BY <1>1, <1>3, <1>4, <1>5

(* Where the runs of white space end, in the find and in the file.         *)
LEMMA SkipFindSpacesIs ==
  ASSUME NEW F, Len(F) \in Nat, NEW l \in 0..(Len(F) - 1), Spacey(F[l + 1])
  PROVE  LET k == SkipFindSpaces(F, l)
         IN  /\ k \in (l + 1)..Len(F)
             /\ k < Len(F) => ~Spacey(F[k + 1])
             /\ \A j \in (l + 1)..k : Spacey(F[j])
<1> DEFINE Stop == {k \in l..Len(F) : k = Len(F) \/ ~Spacey(F[k + 1])}
           Is(k) == /\ k = Len(F) \/ ~Spacey(F[k + 1])
                    /\ \A j \in l..(k - 1) : Spacey(F[j + 1])
           k == SkipFindSpaces(F, l)
<1>1. PICK e \in Stop : \A j \in Stop : e <= j
  <2>1. Stop \in SUBSET Nat /\ Len(F) \in Stop
    OBVIOUS
  <2> HIDE DEF Stop
  <2> QED
    BY <2>1, Least
<1>2. e \in l..Len(F) /\ Is(e)
  <2>1. \A j \in l..(e - 1) : j \in l..Len(F) /\ ~(e <= j)
    BY <1>1
  <2> QED
    BY <1>1, <2>1
<1>3. k \in l..Len(F) /\ Is(k)
  <2> HIDE DEF Is
  <2>1. k = CHOOSE j \in l..Len(F) : Is(j)
    BY DEF SkipFindSpaces, Is
  <2> HIDE DEF k
  <2> QED
    BY <1>2, <2>1
<1> HIDE DEF k
<1>4. k # l
  BY <1>3
<1>5. ASSUME NEW j \in (l + 1)..k PROVE Spacey(F[j])
  <2>1. j - 1 \in l..(k - 1) /\ (j - 1) + 1 = j
    BY <1>3
  <2> QED
    BY <1>3, <2>1
<1>6. k \in (l + 1)..Len(F) /\ (k < Len(F) => ~Spacey(F[k + 1]))
  BY <1>3, <1>4
<1> QED
  BY <1>5, <1>6 DEF k

LEMMA SkipFileSpacesIs ==
  ASSUME NEW f, NEW rem \in Nat, NEW b \in 0..rem
  PROVE  LET k == SkipFileSpaces(f, b, rem)
         IN  /\ k \in b..rem
             /\ k = rem \/ ~Spacey(f[k + 1]) \/ f[k + 1] = 0
             /\ \A j \in (b + 1)..k : Spacey(f[j])
<1> DEFINE Stop == {k \in b..rem : k = rem \/ ~Spacey(f[k + 1]) \/ f[k + 1] = 0}
           Is(k) == /\ k = rem \/ ~Spacey(f[k + 1]) \/ f[k + 1] = 0
                    /\ \A j \in b..(k - 1) : Spacey(f[j + 1]) /\ f[j + 1] # 0
           k == SkipFileSpaces(f, b, rem)
<1>1. PICK e \in Stop : \A j \in Stop : e <= j
  <2>1. Stop \in SUBSET Nat /\ rem \in Stop
    OBVIOUS
  <2> HIDE DEF Stop
  <2> QED
    BY <2>1, Least
<1>2. e \in b..rem /\ Is(e)
  <2>1. \A j \in b..(e - 1) : j \in b..rem /\ ~(e <= j)
    BY <1>1
  <2> QED
    BY <1>1, <2>1
<1>3. k \in b..rem /\ Is(k)
  <2> HIDE DEF Is
  <2>1. k = CHOOSE j \in b..rem : Is(j)
    BY DEF SkipFileSpaces, Is
  <2> HIDE DEF k
  <2> QED
    BY <1>2, <2>1
<1> HIDE DEF k
<1>4. ASSUME NEW j \in (b + 1)..k PROVE Spacey(f[j])
  <2>1. j - 1 \in b..(k - 1) /\ (j - 1) + 1 = j
    BY <1>3
  <2> QED
    BY <1>3, <2>1
<1> QED
  BY <1>3, <1>4 DEF k

(* One turn of the loop of -i.                                             *)
SpaceyTurn(o, f, rem, F, g, l, b) ==
  IF l = Len(F) \/ b >= rem THEN [suc |-> l = Len(F), i |-> b]
  ELSE IF ~Spacey(F[l + 1])
       THEN IF Signed(F[l + 1]) = CompChr(o, f[b + 1]) THEN g[l + 1][b + 1]
            ELSE [suc |-> FALSE, i |-> b]
       ELSE IF ~Spacey(f[b + 1]) THEN [suc |-> FALSE, i |-> b]
            ELSE LET k == SkipFindSpaces(F, l)
                 IN  IF k = Len(F) THEN [suc |-> TRUE, i |-> b]
                     ELSE g[k][SkipFileSpaces(f, b, rem)]

SpaceyResult == [suc : BOOLEAN, i : Nat]

(* One turn of it goes on behind a byte of the find.                       *)
LEMMA SpaceyTurnGoes ==
  ASSUME NEW o, NEW f, NEW rem \in Nat, NEW F, Len(F) \in Nat \ {0},
         NEW g \in [0..Len(F) -> [Nat -> SpaceyResult]],
         NEW h \in [0..Len(F) -> [Nat -> SpaceyResult]],
         NEW l \in 0..Len(F), NEW b \in Nat,
         \A k \in (l + 1)..Len(F) : g[k] = h[k]
  PROVE  /\ SpaceyTurn(o, f, rem, F, g, l, b) \in SpaceyResult
         /\ SpaceyTurn(o, f, rem, F, g, l, b) = SpaceyTurn(o, f, rem, F, h, l, b)
<1> DEFINE k == SkipFindSpaces(F, l)
           c == SkipFileSpaces(f, b, rem)
<1>0. \A j \in 0..Len(F), d \in Nat : g[j][d] \in SpaceyResult
  OBVIOUS
<1>1. \A d \in BOOLEAN, j \in Nat : [suc |-> d, i |-> j] \in SpaceyResult
  BY DEF SpaceyResult
<1>2. CASE l = Len(F) \/ b >= rem
  <2>1. /\ SpaceyTurn(o, f, rem, F, g, l, b) = [suc |-> l = Len(F), i |-> b]
        /\ SpaceyTurn(o, f, rem, F, h, l, b) = [suc |-> l = Len(F), i |-> b]
    BY <1>2 DEF SpaceyTurn
  <2>2. (l = Len(F)) \in BOOLEAN
    OBVIOUS
  <2> QED
    BY <1>1, <2>1, <2>2
<1>3. CASE ~(l = Len(F) \/ b >= rem) /\ ~Spacey(F[l + 1])
  <2>1. l + 1 \in (l + 1)..Len(F) /\ l + 1 \in 0..Len(F) /\ b + 1 \in Nat
    BY <1>3
  <2>2. g[l + 1][b + 1] \in SpaceyResult /\ g[l + 1] = h[l + 1]
    BY <1>0, <2>1
  <2>3. CASE Signed(F[l + 1]) = CompChr(o, f[b + 1])
    BY <1>3, <2>2, <2>3 DEF SpaceyTurn
  <2>4. CASE ~(Signed(F[l + 1]) = CompChr(o, f[b + 1]))
    BY <1>1, <1>3, <2>4 DEF SpaceyTurn
  <2> QED
    BY <2>3, <2>4
<1>4. CASE ~(l = Len(F) \/ b >= rem) /\ Spacey(F[l + 1]) /\ ~Spacey(f[b + 1])
  BY <1>1, <1>4 DEF SpaceyTurn
<1>5. CASE ~(l = Len(F) \/ b >= rem) /\ Spacey(F[l + 1]) /\ Spacey(f[b + 1])
  <2>1. /\ SpaceyTurn(o, f, rem, F, g, l, b) =
             IF k = Len(F) THEN [suc |-> TRUE, i |-> b] ELSE g[k][c]
        /\ SpaceyTurn(o, f, rem, F, h, l, b) =
             IF k = Len(F) THEN [suc |-> TRUE, i |-> b] ELSE h[k][c]
    BY <1>5 DEF SpaceyTurn
  <2>2. k \in (l + 1)..Len(F)
    <3>1. l \in 0..(Len(F) - 1) /\ Len(F) \in Nat
      BY <1>5
    <3> QED
      BY <1>5, <3>1, SkipFindSpacesIs
  <2>3. c \in Nat
    <3>1. b \in 0..rem
      BY <1>5
    <3>2. c \in b..rem
      BY <3>1, SkipFileSpacesIs
    <3> QED
      BY <3>1, <3>2
  <2> HIDE DEF k, c
  <2>4. k \in 0..Len(F)
    BY <2>2
  <2>5. g[k][c] \in SpaceyResult /\ g[k] = h[k]
    BY <1>0, <2>2, <2>3, <2>4
  <2>6. CASE k = Len(F)
    BY <1>1, <2>1, <2>6
  <2>7. CASE k # Len(F)
    BY <2>1, <2>5, <2>7
  <2> QED
    BY <2>6, <2>7
<1> QED
  BY <1>2, <1>3, <1>4, <1>5

(* The loop is the recursion of its turns.                                 *)
LEMMA SpaceyCompIs ==
  ASSUME NEW o, NEW f, NEW off \in Nat, NEW rem \in Nat, NEW F, Len(F) \in Nat \ {0}
  PROVE  \E comp :
           /\ SpaceyComp(o, f, off, rem, F) = comp[1][off + 1]
           /\ \A l \in 0..Len(F), b \in Nat :
                comp[l][b] = SpaceyTurn(o, f, rem, F, comp, l, b)
<1> DEFINE S == 0..Len(F)
           T == [Nat -> SpaceyResult]
           FT == [S -> T]
           Row(g, l) == [b \in Nat |-> SpaceyTurn(o, f, rem, F, g, l, b)]
           Turned(g) == [l \in 0..Len(F) |-> Row(g, l)]
           the == CHOOSE g : g = Turned(g)
           m == [l \in S |-> Len(F) - l]
           step == [p \in FT \X S |-> Row(p[1], p[2])]
<1>1. SpaceyComp(o, f, off, rem, F) = the[1][off + 1]
  BY DEF SpaceyComp, SpaceyTurn
<1>2. m \in [S -> 0..Len(F)]
  <2>1. \A l \in S : Len(F) - l \in 0..Len(F)
    OBVIOUS
  <2> QED
    BY <2>1
<1>3. ASSUME NEW g \in FT, NEW l \in S PROVE Row(g, l) \in T
  <2>1. ASSUME NEW b \in Nat PROVE SpaceyTurn(o, f, rem, F, g, l, b) \in SpaceyResult
    BY SpaceyTurnGoes
  <2> QED
    BY <2>1
<1>4. step \in [FT \X S -> T]
  <2> HIDE DEF Row
  <2> QED
    BY <1>3
<1>5. \A g \in FT, l \in S : step[<<g, l>>] = Row(g, l)
  <2> HIDE DEF Row, FT, S
  <2> QED
    OBVIOUS
<1> HIDE DEF step
<1>6. Descends(S, T, m, step)
  <2> SUFFICES ASSUME NEW g \in FT, NEW h \in FT, NEW l \in S,
                      \A k \in S : m[k] < m[l] => g[k] = h[k]
               PROVE  step[<<g, l>>] = step[<<h, l>>]
    BY DEF Descends
  <2>1. \A k \in (l + 1)..Len(F) : g[k] = h[k]
    <3> TAKE k \in (l + 1)..Len(F)
    <3>1. k \in S /\ m[k] = Len(F) - k /\ m[l] = Len(F) - l /\ Len(F) - k < Len(F) - l
      OBVIOUS
    <3> HIDE DEF m
    <3> QED
      BY <3>1
  <2>2. ASSUME NEW b \in Nat
        PROVE  SpaceyTurn(o, f, rem, F, g, l, b) = SpaceyTurn(o, f, rem, F, h, l, b)
    BY <2>1, SpaceyTurnGoes
  <2>3. Row(g, l) = Row(h, l)
    BY <2>2
  <2> HIDE DEF Row
  <2> QED
    BY <1>5, <2>3
<1>7. PICK comp \in FT : Recursion(comp, S, step)
  <2>1. T # {}
    <3>1. [suc |-> TRUE, i |-> 0] \in SpaceyResult
      BY DEF SpaceyResult
    <3>2. [b \in Nat |-> [suc |-> TRUE, i |-> 0]] \in T
      BY <3>1
    <3> QED
      BY <3>2
  <2>2. Len(F) \in Nat
    OBVIOUS
  <2> HIDE DEF m, step, S, T
  <2> QED
    BY <1>2, <1>4, <1>6, <2>1, <2>2, RecursionExists
<1>8. comp = Turned(comp)
  <2>1. ASSUME NEW l \in S PROVE comp[l] = Row(comp, l)
    <3>1. comp[l] = step[<<comp, l>>]
      BY <1>7 DEF Recursion
    <3> HIDE DEF Row
    <3> QED
      BY <1>5, <3>1
  <2> HIDE DEF Row
  <2> QED
    BY <2>1
<1>9. the = Turned(the)
  <2> HIDE DEF Turned
  <2> QED
    BY <1>8
<1> HIDE DEF the
<1>10. ASSUME NEW l \in 0..Len(F), NEW b \in Nat
       PROVE  the[l][b] = SpaceyTurn(o, f, rem, F, the, l, b)
  <2>1. the[l] = Row(the, l)
    <3> HIDE DEF Row
    <3> QED
      BY <1>9
  <2> QED
    BY <2>1
<1> QED
  BY <1>1, <1>10

(* A byte of the find as Move2Find leaves it and one of the file, to -i:   *)
(* as long as -p strips no 8th bit of the file's, they are both white      *)
(* space or both letters, and the same when they are found the same.       *)
LEMMA SpaceyBytes ==
  ASSUME NEW o \in CompOptions, NEW c \in Byte, NEW t \in Byte, o.parity => c < 128,
         NEW u, u = IF o.case THEN t ELSE ToUpper(t)
  PROVE  /\ Spacey(u) <=> Spacey(t)
         /\ GetChr(o, c) = u => (Spacey(c) <=> Spacey(t))
         /\ ~Spacey(u) /\ Signed(u) = CompChr(o, c) => ~Spacey(c)
         /\ c = 0 /\ Signed(u) = CompChr(o, c) => Spacey(u)
<1>1. o.case \in BOOLEAN /\ o.parity \in BOOLEAN
  BY DEF CompOptions
<1>2. c \in 0..255 /\ t \in 0..255
  BY DEF Byte
<1>3. /\ c < 128 => c % 128 = c
      /\ Mask(o, c) = c
      /\ Mask(o, ToUpper(c)) = ToUpper(c)
  <2>1. c < 128 => c % 128 = c
    BY <1>2
  <2>2. ToUpper(c) \in 0..255 /\ (c < 128 => ToUpper(c) < 128)
    BY <1>2 DEF ToUpper
  <2>3. ToUpper(c) < 128 => ToUpper(c) % 128 = ToUpper(c)
    BY <2>2
  <2> QED
    BY <1>1, <2>1, <2>2, <2>3 DEF Mask
<1>4. GetChr(o, c) = (IF o.case THEN c ELSE ToUpper(c)) /\ CompChr(o, c) = GetChr(o, c)
  BY <1>1, <1>3 DEF GetChr, CompChr
<1>5. \A x \in 0..255 : Spacey(ToUpper(x)) <=> Spacey(x)
  BY DEF Spacey, Signed, ToUpper, SPACE
<1>6. \A x \in 0..255 : Signed(x) = IF x >= 128 THEN x - 256 ELSE x
  BY DEF Signed
<1>7. CompChr(o, c) \in 0..255 /\ u \in 0..255
  BY <1>1, <1>2, <1>4 DEF ToUpper
<1>8. Spacey(u) <=> Spacey(t)
  BY <1>1, <1>2, <1>5
<1>9. GetChr(o, c) = u => (Spacey(c) <=> Spacey(t))
  BY <1>1, <1>2, <1>4, <1>5
<1>10. ASSUME ~Spacey(u), Signed(u) = CompChr(o, c) PROVE ~Spacey(c)
  <2>1. Signed(u) >= 0 /\ u = CompChr(o, c)
    BY <1>6, <1>7, <1>10
  <2>2. Spacey(CompChr(o, c)) <=> Spacey(c)
    BY <1>1, <1>2, <1>4, <1>5
  <2> QED
    BY <1>10, <2>1, <2>2
<1>11. ASSUME c = 0, Signed(u) = CompChr(o, c) PROVE Spacey(u)
  <2>1. Signed(u) = 0
    BY <1>1, <1>4, <1>11 DEF ToUpper
  <2> QED
    BY <2>1 DEF Spacey, SPACE
<1> QED
  BY <1>8, <1>9, <1>10, <1>11

(* The find up to l reads, to -i, as the file does from at on up to b.     *)
ReadsAlike(o, f, at, t, l, b) ==
  /\ l \in 1..Len(t) /\ b \in (at + 1)..Len(f)
  /\ Squeeze(o, SubSeq(f, at + 1, b)) = Squeeze(o, SubSeq(t, 1, l))
  /\ Spacey(t[l]) <=> Spacey(f[b])

LEMMA ReadsAlikeNext ==
  ASSUME NEW o \in CompOptions, NEW f \in Seq(Byte), NEW at \in 0..(Len(f) - 1),
         NEW t \in Seq(Byte), NEW l, NEW b, ReadsAlike(o, f, at, t, l, b),
         l < Len(t), b < Len(f),
         \/ Spacey(t[l + 1]) /\ Spacey(f[b + 1])
         \/ /\ ~Spacey(t[l + 1]) /\ ~Spacey(f[b + 1])
            /\ CompChr(o, f[b + 1]) = CompChr(o, t[l + 1])
  PROVE  ReadsAlike(o, f, at, t, l + 1, b + 1)
<1>1. /\ Len(t) \in Nat /\ Len(f) \in Nat
      /\ l \in Int /\ b \in Int /\ at \in Int
      /\ at >= 0 /\ b >= at + 1 /\ l >= 1
  BY DEF ReadsAlike
<1>2. /\ l + 1 \in 1..Len(t) /\ l + 1 > 1 /\ (l + 1) - 1 = l
      /\ b + 1 \in (at + 1)..Len(f) /\ b + 1 > at + 1 /\ (b + 1) - 1 = b
      /\ at + 1 \in 1..Len(f) /\ 1 \in 1..Len(t)
  BY ONLY <1>1, l < Len(t), b < Len(f)
<1>3. Squeeze(o, SubSeq(f, at + 1, b + 1)) =
        IF ~Spacey(f[b + 1]) THEN Append(Squeeze(o, SubSeq(f, at + 1, b)), CompChr(o, f[b + 1]))
        ELSE IF Spacey(f[b]) THEN Squeeze(o, SubSeq(f, at + 1, b))
        ELSE Append(Squeeze(o, SubSeq(f, at + 1, b)), SPACE)
  BY <1>2, SqueezeGrows
<1>4. Squeeze(o, SubSeq(t, 1, l + 1)) =
        IF ~Spacey(t[l + 1]) THEN Append(Squeeze(o, SubSeq(t, 1, l)), CompChr(o, t[l + 1]))
        ELSE IF Spacey(t[l]) THEN Squeeze(o, SubSeq(t, 1, l))
        ELSE Append(Squeeze(o, SubSeq(t, 1, l)), SPACE)
  <2>1. l + 1 \in 1..Len(t)
    BY <1>2
  <2> QED
    BY <1>2, <2>1, SqueezeGrows
<1> QED
  BY <1>2, <1>3, <1>4 DEF ReadsAlike

(* The first bytes.                                                        *)
LEMMA ReadsAlikeFirst ==
  ASSUME NEW o \in CompOptions, NEW f \in Seq(Byte), NEW at \in 0..(Len(f) - 1),
         NEW t \in Seq(Byte), t # <<>>,
         \/ Spacey(t[1]) /\ Spacey(f[at + 1])
         \/ /\ ~Spacey(t[1]) /\ ~Spacey(f[at + 1])
            /\ CompChr(o, f[at + 1]) = CompChr(o, t[1])
  PROVE  ReadsAlike(o, f, at, t, 1, at + 1)
<1>1. /\ 1 \in 1..Len(t) /\ at + 1 \in 1..Len(f) /\ at + 1 \in (at + 1)..Len(f)
      /\ (at + 1) - 1 = at /\ ~(at + 1 > at + 1) /\ ~(1 > 1) /\ 1 - 1 = 0
  OBVIOUS
<1>2. SubSeq(f, at + 1, at) = <<>> /\ SubSeq(t, 1, 0) = <<>>
  <2>1. at < at + 1 /\ at \in Int /\ at + 1 \in Int
    OBVIOUS
  <2> QED
    BY <2>1, SubSeqEmpty
<1>3. Squeeze(o, SubSeq(f, at + 1, at + 1)) =
        IF ~Spacey(f[at + 1]) THEN Append(Squeeze(o, <<>>), CompChr(o, f[at + 1]))
        ELSE Append(Squeeze(o, <<>>), SPACE)
  <2> DEFINE a == at + 1
  <2>1. a \in 1..Len(f) /\ a \in a..Len(f) /\ a - 1 = at
    BY <1>1
  <2> HIDE DEF a
  <2>2. Squeeze(o, SubSeq(f, a, a)) =
          LET prev == Squeeze(o, SubSeq(f, a, a - 1))
          IN  IF ~Spacey(f[a]) THEN Append(prev, CompChr(o, f[a]))
              ELSE IF a > a /\ Spacey(f[a - 1]) THEN prev
              ELSE Append(prev, SPACE)
    BY <2>1, SqueezeGrows
  <2>3. ~(a > a) /\ SubSeq(f, a, a - 1) = <<>>
    BY <1>2, <2>1 DEF a
  <2>4. Squeeze(o, SubSeq(f, a, a)) =
          IF ~Spacey(f[a]) THEN Append(Squeeze(o, <<>>), CompChr(o, f[a]))
          ELSE Append(Squeeze(o, <<>>), SPACE)
    BY <2>2, <2>3
  <2> QED
    BY <2>4 DEF a
<1>4. Squeeze(o, SubSeq(t, 1, 1)) =
        IF ~Spacey(t[1]) THEN Append(Squeeze(o, <<>>), CompChr(o, t[1]))
        ELSE Append(Squeeze(o, <<>>), SPACE)
  <2>1. Squeeze(o, SubSeq(t, 1, 1)) =
          LET prev == Squeeze(o, SubSeq(t, 1, 1 - 1))
          IN  IF ~Spacey(t[1]) THEN Append(prev, CompChr(o, t[1]))
              ELSE IF 1 > 1 /\ Spacey(t[1 - 1]) THEN prev
              ELSE Append(prev, SPACE)
    BY <1>1, SqueezeGrows
  <2> QED
    BY <1>1, <1>2, <2>1
<1> QED
  BY <1>1, <1>3, <1>4 DEF ReadsAlike

(* Runs of white space on both sides.                                      *)
LEMMA ReadsAlikeRuns ==
  ASSUME NEW o \in CompOptions, NEW f \in Seq(Byte), NEW at \in 0..(Len(f) - 1),
         NEW t \in Seq(Byte), NEW l, NEW b, ReadsAlike(o, f, at, t, l, b),
         NEW k \in l..Len(t), NEW e \in b..Len(f),
         \A j \in l..k : Spacey(t[j]), \A j \in b..e : Spacey(f[j])
  PROVE  ReadsAlike(o, f, at, t, k, e)
<1>1. /\ l \in 1..Len(t) /\ b \in (at + 1)..Len(f) /\ at + 1 \in 1..Len(f) /\ 1 \in 1..Len(t)
      /\ b \in 1..Len(f)
  BY DEF ReadsAlike
<1>2. Squeeze(o, SubSeq(t, 1, k)) = Squeeze(o, SubSeq(t, 1, l))
  BY <1>1, SqueezeRun
<1>3. Squeeze(o, SubSeq(f, at + 1, e)) = Squeeze(o, SubSeq(f, at + 1, b))
  BY <1>1, SqueezeRun
<1>4. k \in 1..Len(t) /\ e \in (at + 1)..Len(f) /\ Spacey(t[k]) /\ Spacey(f[e])
  BY <1>1
<1> QED
  BY <1>2, <1>3, <1>4 DEF ReadsAlike

(* With -i a find that the compare reports stands there up to the length   *)
(* of the runs of white space, unless -p makes a letter of a byte that -i  *)
(* takes for white space.                                                  *)
THEOREM FoundStandsSpacey ==
  ASSUME NEW o \in CompOptions, o.spacey, NEW f \in Seq(Byte), o.parity => SevenBit(f),
         NEW t \in Seq(Byte \ {0}) \ {<<>>}, NEW at \in 0..(Len(f) - 1),
         FoundAt(o, f, at, Len(f), Move2Find(o, t))
  PROVE  StandsSpacey(o, f, at, t)
<1> DEFINE F == Move2Find(o, t)
           rem == Len(f) - at
           n == Len(t)
<1>1. /\ n \in Nat \ {0} /\ Len(F) = n /\ t \in Seq(Byte) /\ t # <<>>
      /\ \A k \in 1..n : /\ t[k] \in Byte /\ t[k] # 0
                         /\ F[k] = IF o.case THEN t[k] ELSE ToUpper(t[k])
  <2>1. \A k \in 1..Len(t) : t[k] \in Byte \ {0}
    OBVIOUS
  <2> QED
    BY <2>1, FoldedBytes
<1>2. /\ Len(f) \in Nat /\ at \in Nat /\ at < Len(f) /\ rem \in Nat /\ rem <= Len(f)
      /\ \A i \in 1..Len(f) : f[i] \in Byte /\ (o.parity => f[i] < 128)
  BY DEF SevenBit
<1>3. GetChr(o, f[at + 1]) = F[1] /\ FullComp(o, f, at, Len(f), F)
  BY DEF FoundAt
<1> HIDE DEF F
<1>4. ASSUME NEW e \in (at + 1)..Len(f), ReadsAlike(o, f, at, t, n, e)
      PROVE  StandsSpacey(o, f, at, t)
  <2>1. SubSeq(t, 1, n) = t
    OBVIOUS
  <2> QED
    BY <1>4, <2>1 DEF ReadsAlike, StandsSpacey
<1>5. ReadsAlike(o, f, at, t, 1, at + 1)
  <2>1. 1 \in 1..n /\ at + 1 \in 1..Len(f)
    BY <1>1, <1>2
  <2>2. /\ Spacey(f[at + 1]) <=> Spacey(t[1])
        /\ CompChr(o, f[at + 1]) = CompChr(o, t[1])
    BY <1>1, <1>2, <1>3, <2>1, SpaceyBytes, BytesCompared
  <2> QED
    BY <1>1, <2>2, ReadsAlikeFirst
<1>6. CASE n = 1
  <2>1. at + 1 \in (at + 1)..Len(f)
    BY <1>2
  <2> QED
    BY <1>4, <1>5, <1>6, <2>1
<1>7. CASE n # 1
  <2>1. SpaceyComp(o, f, at, rem, F).suc
    <3>1. CASE Len(F) >= Len(f) - at
      BY <1>1, <1>3, <1>7, <3>1 DEF FullComp
    <3>2. CASE ~(Len(F) >= Len(f) - at)
      BY <1>1, <1>3, <1>7, <3>2 DEF FullComp
    <3> QED
      BY <3>1, <3>2
  <2>2. PICK comp : /\ SpaceyComp(o, f, at, rem, F) = comp[1][at + 1]
                    /\ \A l \in 0..n, b \in Nat :
                         comp[l][b] = SpaceyTurn(o, f, rem, F, comp, l, b)
    <3> HIDE DEF rem
    <3>1. Len(F) \in Nat \ {0} /\ at \in Nat /\ rem \in Nat
      BY <1>1, <1>2
    <3>2. \E comp : /\ SpaceyComp(o, f, at, rem, F) = comp[1][at + 1]
                    /\ \A l \in 0..Len(F), b \in Nat :
                         comp[l][b] = SpaceyTurn(o, f, rem, F, comp, l, b)
      BY <3>1, SpaceyCompIs
    <3> QED
      BY <1>1, <3>2
  <2> DEFINE Reads(l, b) == ReadsAlike(o, f, at, t, l, b) /\ comp[l][b].suc
             Left == {d \in 0..n : \E b \in Nat : Reads(n - d, b)}
  <2>3. ASSUME NEW l \in 1..n, NEW b \in Nat, Reads(l, b),
               \A k \in (l + 1)..n, c \in Nat : ~Reads(k, c)
        PROVE  StandsSpacey(o, f, at, t)
    <3>1. /\ b \in (at + 1)..Len(f)
          /\ comp[l][b] = SpaceyTurn(o, f, rem, F, comp, l, b)
      <4>1. l \in 0..n
        OBVIOUS
      <4> QED
        BY <2>2, <2>3, <4>1 DEF ReadsAlike
    <3>2. CASE l = n
      BY <1>4, <2>3, <3>1, <3>2
    <3>3. CASE l # n /\ b >= rem
      <4>1. comp[l][b] = [suc |-> FALSE, i |-> b]
        BY <1>1, <3>1, <3>3 DEF SpaceyTurn
      <4> QED
        BY <2>3, <4>1
    <3>4. CASE l # n /\ ~(b >= rem)
      <4>1. /\ l + 1 \in 1..n /\ l + 1 \in (l + 1)..n /\ l < n /\ b + 1 \in 1..Len(f)
            /\ b < Len(f) /\ b + 1 \in Nat /\ b + 1 \in (at + 1)..Len(f)
            /\ b \in 0..rem /\ l \in 0..(n - 1) /\ b < rem
        BY <1>1, <1>2, <3>1, <3>4
      <4>2. /\ Spacey(F[l + 1]) <=> Spacey(t[l + 1])
            /\ ~Spacey(F[l + 1]) /\ Signed(F[l + 1]) = CompChr(o, f[b + 1]) =>
                 /\ ~Spacey(f[b + 1])
                 /\ CompChr(o, f[b + 1]) = CompChr(o, t[l + 1])
        BY <1>1, <1>2, <4>1, SpaceyBytes, BytesCompared
      <4>3. CASE ~Spacey(F[l + 1])
        <5>1. comp[l][b] = IF Signed(F[l + 1]) = CompChr(o, f[b + 1]) THEN comp[l + 1][b + 1]
                           ELSE [suc |-> FALSE, i |-> b]
          BY <1>1, <3>1, <3>4, <4>3 DEF SpaceyTurn
        <5>2. Signed(F[l + 1]) = CompChr(o, f[b + 1]) /\ comp[l + 1][b + 1].suc
          BY <2>3, <5>1
        <5>3. ReadsAlike(o, f, at, t, l + 1, b + 1)
          BY <1>1, <2>3, <4>1, <4>2, <4>3, <5>2, ReadsAlikeNext
        <5> QED
          BY <2>3, <4>1, <5>2, <5>3
      <4>4. CASE Spacey(F[l + 1]) /\ ~Spacey(f[b + 1])
        <5>1. comp[l][b] = [suc |-> FALSE, i |-> b]
          BY <1>1, <3>1, <3>4, <4>4 DEF SpaceyTurn
        <5> QED
          BY <2>3, <5>1
      <4>5. CASE Spacey(F[l + 1]) /\ Spacey(f[b + 1])
        <5> DEFINE k == SkipFindSpaces(F, l)
                   c == SkipFileSpaces(f, b, rem)
        <5>1. comp[l][b] = IF k = n THEN [suc |-> TRUE, i |-> b] ELSE comp[k][c]
          BY <1>1, <3>1, <3>4, <4>5 DEF SpaceyTurn
        <5>2. /\ k \in (l + 1)..n
              /\ k < n => ~Spacey(F[k + 1])
              /\ \A j \in (l + 1)..k : Spacey(F[j])
          BY <1>1, <4>1, <4>5, SkipFindSpacesIs
        <5>3. /\ c \in b..rem
              /\ c = rem \/ ~Spacey(f[c + 1]) \/ f[c + 1] = 0
              /\ \A j \in (b + 1)..c : Spacey(f[j])
          BY <1>2, <4>1, SkipFileSpacesIs
        <5> HIDE DEF k, c
        <5>4. ReadsAlike(o, f, at, t, l + 1, b + 1)
          BY <1>1, <2>3, <4>1, <4>2, <4>5, ReadsAlikeNext
        <5>5. \A j \in (l + 1)..k : Spacey(t[j])
          <6> TAKE j \in (l + 1)..k
          <6>1. j \in 1..n /\ t[j] \in Byte /\ Spacey(F[j]) /\ at + 1 \in 1..Len(f)
            BY <1>1, <1>2, <5>2
          <6>2. f[at + 1] \in Byte /\ (o.parity => f[at + 1] < 128)
            BY <1>2, <6>1
          <6> QED
            BY <1>1, <6>1, <6>2, SpaceyBytes
        <5>6. CASE k = n
          <6>1. k \in (l + 1)..Len(t) /\ b + 1 \in (b + 1)..Len(f) /\ \A j \in (b + 1)..(b + 1) : Spacey(f[j])
            BY <1>1, <4>1, <4>5, <5>2
          <6>2. ReadsAlike(o, f, at, t, k, b + 1)
            BY <1>1, <5>4, <5>5, <6>1, ReadsAlikeRuns
          <6> QED
            BY <1>4, <4>1, <5>6, <6>2
        <5>7. CASE k # n /\ c = b
          <6>1. f[b + 1] = 0 /\ k + 1 \in 1..n /\ k \in 0..n
            BY <4>1, <4>5, <5>2, <5>3, <5>7
          <6>2. comp[k][b] = SpaceyTurn(o, f, rem, F, comp, k, b)
            BY <2>2, <6>1
          <6>3. ~Spacey(F[k + 1])
            BY <5>2, <5>7
          <6>4. Signed(F[k + 1]) # CompChr(o, f[b + 1])
            BY <1>1, <1>2, <4>1, <6>1, <6>3, SpaceyBytes
          <6>5. comp[k][b] = [suc |-> FALSE, i |-> b]
            BY <1>1, <3>4, <5>7, <6>2, <6>3, <6>4 DEF SpaceyTurn
          <6> QED
            BY <2>3, <5>1, <5>7, <6>5
        <5>8. CASE k # n /\ c # b
          <6>1. /\ k \in (l + 1)..Len(t) /\ c \in (b + 1)..Len(f) /\ c \in Nat
            BY <1>1, <1>2, <4>1, <5>2, <5>3, <5>8
          <6>2. ReadsAlike(o, f, at, t, k, c)
            BY <1>1, <5>3, <5>4, <5>5, <6>1, ReadsAlikeRuns
          <6>3. comp[k][c].suc
            BY <2>3, <5>1, <5>8
          <6> QED
            BY <2>3, <5>2, <6>1, <6>2, <6>3
        <5> QED
          BY <5>6, <5>7, <5>8
      <4> QED
        BY <4>3, <4>4, <4>5
    <3> QED
      BY <3>2, <3>3, <3>4
  <2>4. n - 1 \in Left
    <3>1. at + 1 \in Nat /\ n - (n - 1) = 1 /\ n - 1 \in 0..n
      BY <1>1, <1>2
    <3>2. Reads(1, at + 1)
      BY <1>5, <2>1, <2>2
    <3> QED
      BY <3>1, <3>2
  <2>5. PICK d \in Left : \A j \in Left : d <= j
    <3>1. Left \in SUBSET Nat
      OBVIOUS
    <3> HIDE DEF Left
    <3> QED
      BY <2>4, <3>1, Least
  <2>6. PICK b \in Nat : Reads(n - d, b)
    BY <2>5
  <2>7. n - d \in 1..n /\ d \in 0..n
    BY <2>6 DEF ReadsAlike
  <2>8. \A k \in ((n - d) + 1)..n, c \in Nat : ~Reads(k, c)
    <3> HIDE DEF Reads
    <3> SUFFICES ASSUME NEW k \in ((n - d) + 1)..n, NEW c \in Nat, Reads(k, c)
                 PROVE  FALSE
      OBVIOUS
    <3>1. n - k \in 0..n /\ n - (n - k) = k /\ ~(d <= n - k)
      <4>1. n \in Nat /\ d \in 0..n /\ k \in ((n - d) + 1)..n
        BY <1>1, <2>7
      <4> HIDE DEF n
      <4> QED
        BY ONLY <4>1
    <3>2. n - k \in Left
      BY <3>1
    <3> QED
      BY <2>5, <3>1, <3>2
  <2> QED
    BY <2>3, <2>6, <2>7, <2>8
<1> QED
  BY <1>6, <1>7

-----------------------------------------------------------------------------
(* The count of lines.                                                     *)

(* IncLine keeps as many entries as there were, the newest first.          *)
LEMMA IncLineType ==
  ASSUME NEW at \in Nat, NEW offs \in [0..MXLPS -> Nat]
  PROVE  IncLine(at, offs) \in [0..MXLPS -> Nat] /\ IncLine(at, offs)[0] = at
BY DEF IncLine, MXLPS

(* The LFs behind the scan are a finite set of offsets.                    *)
LEMMA LFsAreFinite ==
  ASSUME NEW f \in Seq(Byte), NEW o \in Nat
  PROVE  /\ LFsBefore(f, o) \in SUBSET Nat
         /\ \A i \in LFsBefore(f, o) : i < o
         /\ Cardinality(LFsBefore(f, o)) \in Nat
         /\ \A e : e \notin LFsBefore(f, o) =>
              Cardinality(LFsBefore(f, o) \cup {e})
                = Cardinality(LFsBefore(f, o)) + 1
<1>1. LFsBefore(f, o) \in SUBSET Nat /\ \A i \in LFsBefore(f, o) : i < o
  BY DEF LFsBefore
<1>2. \A i \in LFsBefore(f, o) : i <= o
  BY <1>1
<1> QED
  <2> HIDE DEF LFsBefore
  <2> QED
    BY <1>1, <1>2, CountGrows

(* The count and the last line offset are right at offset o.               *)
CountedAt(f, o, lines, last) ==
  /\ lines = Cardinality(LFsBefore(f, o))
  /\ last \in LFsBefore(f, o) \/ last = 0
  /\ \A i \in LFsBefore(f, o) : i <= last

(* They stay right when the scan goes on from o past the byte at e, if     *)
(* there is no LF between, and that byte is counted when it is an LF.      *)
LEMMA CountStep ==
  ASSUME NEW f \in Seq(Byte), NEW o \in Nat, NEW e \in o..Len(f),
         \A j \in o..(e - 1) : f[j + 1] # LF,
         NEW lines \in Nat, NEW last \in Nat, CountedAt(f, o, lines, last)
  PROVE  /\ e < Len(f) /\ f[e + 1] = LF => CountedAt(f, e + 1, lines + 1, e)
         /\ ~(e < Len(f) /\ f[e + 1] = LF) => CountedAt(f, e + 1, lines, last)
<1>1. CASE e < Len(f) /\ f[e + 1] = LF
  <2>1. LFsBefore(f, e + 1) = LFsBefore(f, o) \cup {e}
    BY <1>1 DEF LFsBefore
  <2>2. e \notin LFsBefore(f, o)
    BY DEF LFsBefore
  <2>3. Cardinality(LFsBefore(f, e + 1)) = lines + 1
    BY <2>1, <2>2, LFsAreFinite DEF CountedAt
  <2>4. \A i \in LFsBefore(f, e + 1) : i <= e
    BY DEF LFsBefore
  <2> QED
    BY <1>1, <2>1, <2>3, <2>4 DEF CountedAt
<1>2. CASE ~(e < Len(f) /\ f[e + 1] = LF)
  <2>1. LFsBefore(f, e + 1) = LFsBefore(f, o)
    BY <1>2 DEF LFsBefore
  <2> QED
    BY <1>2, <2>1 DEF CountedAt
<1> QED
  BY <1>1, <1>2

(* Nothing is behind the start of a file.                                  *)
LEMMA StartCounted ==
  ASSUME NEW f \in Seq(Byte)
  PROVE  CountedAt(f, 0, 0, 0)
<1>1. LFsBefore(f, 0) = {}
  BY DEF LFsBefore
<1> QED
  BY <1>1, FS_EmptySet DEF CountedAt

(* In a file without lone CRs, the text taken from the last LF before an   *)
(* offset, up to the next end of line, holds that offset.                  *)
LEMMA LineHolds ==
  ASSUME NEW f \in Seq(Byte), NEW o \in 0..(Len(f) - 1), ~IsBreak(f[o + 1]),
         NoLoneCR(f), NEW lines, NEW last \in Nat, CountedAt(f, o, lines, last)
  PROVE  o \in ShownText(f, last)
<1> DEFINE b == SkipBreaks(f, last)
           e == EndOfLine(f, b)
<1>1. last \in 0..o /\ Len(f) \in Nat
  BY DEF CountedAt, LFsBefore
<1>2. ASSUME NEW j \in (last + 1)..(o - 1), IsBreak(f[j + 1])
      PROVE  FALSE
  <2>1. j \in Nat /\ j < o /\ j + 1 \in DOMAIN f /\ j + 2 \in DOMAIN f
    BY <1>1
  <2>2. f[j + 1] # LF
    BY <1>1, <2>1 DEF CountedAt, LFsBefore
  <2>3. f[j + 1] = CR
    BY <1>2, <2>2 DEF IsBreak
  <2>4. f[j + 2] = LF
    BY <2>1, <2>3 DEF NoLoneCR
  <2>5. CASE j + 1 = o
    BY <2>4, <2>5 DEF IsBreak
  <2>6. CASE j + 1 < o
    BY <1>1, <2>1, <2>4, <2>6 DEF CountedAt, LFsBefore
  <2> QED
    BY <2>1, <2>5, <2>6
<1>3. /\ b \in last..Len(f)
      /\ b = Len(f) \/ ~IsBreak(f[b + 1])
      /\ \A j \in last..(b - 1) : IsBreak(f[j + 1])
  BY <1>1, SkipBreaksIs
<1> HIDE DEF b
<1>4. b <= o
  BY <1>1, <1>3
<1>5. /\ e \in b..Len(f)
      /\ e = Len(f) \/ IsBreak(f[e + 1])
  BY <1>1, <1>3, EndOfLineIs
<1> HIDE DEF e
<1>6. o < e
  <2> SUFFICES ASSUME e <= o PROVE FALSE
    BY <1>1, <1>3, <1>5
  <2>1. e < o /\ IsBreak(f[e + 1])
    BY <1>1, <1>3, <1>5
  <2>2. e = last
    BY <1>1, <1>2, <1>3, <1>5, <2>1
  <2> QED
    BY <1>1, <1>3, <1>5, <2>1, <2>2
<1> QED
  BY <1>1, <1>3, <1>4, <1>5, <1>6 DEF ShownText, b, e
=============================================================================
