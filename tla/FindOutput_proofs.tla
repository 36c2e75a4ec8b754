-------------------------- MODULE FindOutput_proofs --------------------------
(***************************************************************************)
(* Proofs about FindOutput, for any number of finds, files, hits, types    *)
(* and mix of switches: the types, that the lines come out in order and    *)
(* under the name of their file, that the finds are counted, and that of   *)
(* each file just what was asked for is shown, with typed finds or none.   *)
(* Lines are printed as they are found (one find), kept to the end of the  *)
(* file (several) or held back with their names (-F:1); the invariants say *)
(* what is printed, kept and noted of the file in hand in each case.       *)
(***************************************************************************)
EXTENDS FindOutput, FA4Lemmas, SequenceTheorems

(* What is printed of m files.                                             *)
Entries(m) == [file : 1..m, find : 0..FindCount, line : Nat]

(* No entry of a later file, nor of a smaller line, before one.            *)
Before(e, f) == e.file < f.file \/ (e.file = f.file /\ e.line <= f.line)
Ordered(s) == \A i, j \in DOMAIN s : i < j => Before(s[i], s[j])

-----------------------------------------------------------------------------
(* Sequences of entries.                                                   *)

LEMMA AppendEntry ==
  ASSUME NEW S, NEW s \in Seq(S), NEW e \in S
  PROVE  /\ s \o <<e>> \in Seq(S) /\ Len(s) \in Nat /\ Len(s \o <<e>>) = Len(s) + 1
         /\ DOMAIN (s \o <<e>>) = 1..(Len(s) + 1)
         /\ (s \o <<e>>)[Len(s) + 1] = e
         /\ \A i \in 1..Len(s) : (s \o <<e>>)[i] = s[i]
OBVIOUS

(* An entry of s followed by b is one of s or one of b.                    *)
LEMMA ConcatIs ==
  ASSUME NEW S, NEW s \in Seq(S), NEW b \in Seq(S)
  PROVE  /\ s \o b \in Seq(S) /\ Len(s) \in Nat /\ Len(b) \in Nat
         /\ DOMAIN (s \o b) = 1..(Len(s) + Len(b))
         /\ DOMAIN s = 1..Len(s) /\ DOMAIN b = 1..Len(b)
         /\ \A i \in 1..Len(s) : (s \o b)[i] = s[i]
         /\ \A i \in (Len(s) + 1)..(Len(s) + Len(b)) :
              i - Len(s) \in 1..Len(b) /\ (s \o b)[i] = b[i - Len(s)]
OBVIOUS

(* What stands earlier in a sequence in order is before; and in one file   *)
(* that is a line that is not greater.                                     *)
LEMMA OrderedAt ==
  ASSUME NEW s, Ordered(s), NEW i \in DOMAIN s, NEW j \in DOMAIN s, i < j
  PROVE  Before(s[i], s[j])
BY DEF Ordered

LEMMA BeforeInFile ==
  ASSUME NEW e, NEW f, Before(e, f), e.file = f.file, e.file \in Nat
  PROVE  e.line <= f.line
BY DEF Before

(* Two sequences in order, the second behind the first, are in order.      *)
LEMMA OrderedConcat ==
  ASSUME NEW S, NEW s \in Seq(S), NEW b \in Seq(S), Ordered(s), Ordered(b),
         \A i \in DOMAIN s, j \in DOMAIN b : Before(s[i], b[j])
  PROVE  Ordered(s \o b)
<1> DEFINE c == s \o b
<1>1. /\ Len(s) \in Nat /\ Len(b) \in Nat /\ DOMAIN c = 1..(Len(s) + Len(b))
      /\ DOMAIN s = 1..Len(s) /\ DOMAIN b = 1..Len(b)
      /\ \A i \in 1..Len(s) : c[i] = s[i]
      /\ \A i \in (Len(s) + 1)..(Len(s) + Len(b)) :
           i - Len(s) \in 1..Len(b) /\ c[i] = b[i - Len(s)]
  BY ConcatIs
<1> HIDE DEF c
<1>2. ASSUME NEW i \in DOMAIN c, NEW j \in DOMAIN c, i < j
      PROVE  Before(c[i], c[j])
  <2>1. CASE j <= Len(s)
    <3>1. i \in DOMAIN s /\ j \in DOMAIN s /\ c[i] = s[i] /\ c[j] = s[j]
      BY <1>1, <1>2, <2>1
    <3> QED
      BY <1>2, <3>1, OrderedAt
  <2>2. CASE i <= Len(s) /\ Len(s) < j
    <3>1. i \in DOMAIN s /\ c[i] = s[i]
      BY <1>1, <1>2, <2>2
    <3>2. j - Len(s) \in DOMAIN b /\ c[j] = b[j - Len(s)]
      BY <1>1, <1>2, <2>2
    <3> QED
      BY <3>1, <3>2
  <2>3. CASE Len(s) < i
    <3>1. i - Len(s) \in DOMAIN b /\ j - Len(s) \in DOMAIN b /\ i - Len(s) < j - Len(s)
      BY <1>1, <1>2, <2>3
    <3>2. c[i] = b[i - Len(s)] /\ c[j] = b[j - Len(s)]
      BY <1>1, <1>2, <2>3
    <3> QED
      BY <3>1, <3>2, OrderedAt
  <2> QED
    BY <1>1, <2>1, <2>2, <2>3
<1>3. Ordered(c)
  BY <1>2 DEF Ordered
<1> QED
  BY <1>3 DEF c

(* The entry e put into s at k.                                            *)
Inserted(r, s, k, e) ==
  /\ Len(r) = Len(s) + 1
  /\ \A i \in 1..(Len(s) + 1) :
       r[i] = IF i < k THEN s[i] ELSE IF i = k THEN e ELSE s[i - 1]

LEMMA InsertAtIs ==
  ASSUME NEW S, NEW s \in Seq(S), NEW k \in 1..(Len(s) + 1), NEW e \in S
  PROVE  /\ InsertAt(s, k, e) \in Seq(S)
         /\ Inserted(InsertAt(s, k, e), s, k, e)
<1> DEFINE a == SubSeq(s, 1, k - 1)
           b == SubSeq(s, k, Len(s))
           c == a \o <<e>>
<1>1. k \in Nat \ {0} /\ Len(s) \in Nat /\ k <= Len(s) + 1 /\ \A i \in 1..Len(s) : s[i] \in S
  OBVIOUS
<1>2. a \in Seq(S) /\ Len(a) = k - 1 /\ \A i \in 1..(k - 1) : a[i] = s[i]
  <2>1. \A i \in 1..(k - 1) : s[i] \in S
    BY <1>1
  <2>2. /\ a \in Seq(S) /\ Len(a) = (IF 1 <= k - 1 THEN (k - 1) - 1 + 1 ELSE 0)
        /\ \A i \in 1..((k - 1) - 1 + 1) : a[i] = s[1 + i - 1]
    BY <1>1, <2>1, SubSeqProperties
  <2> HIDE DEF a
  <2> QED
    BY <1>1, <2>2
<1>3. /\ b \in Seq(S) /\ Len(b) = Len(s) + 1 - k
      /\ \A i \in 1..(Len(s) + 1 - k) : b[i] = s[k + i - 1]
  <2>1. \A i \in k..Len(s) : s[i] \in S
    BY <1>1
  <2>2. /\ b \in Seq(S)
        /\ Len(b) = (IF k <= Len(s) THEN Len(s) - k + 1 ELSE 0)
        /\ \A i \in 1..(Len(s) - k + 1) : b[i] = s[k + i - 1]
    BY <1>1, <2>1, SubSeqProperties
  <2> HIDE DEF b
  <2> QED
    BY <1>1, <2>2
<1>4. InsertAt(s, k, e) = c \o b
  BY DEF InsertAt
<1>5. /\ c \in Seq(S) /\ Len(c) = k /\ c[k] = e /\ \A i \in 1..(k - 1) : c[i] = s[i]
  <2> HIDE DEF a
  <2>1. Len(a) + 1 = k
    BY <1>1, <1>2
  <2> QED
    BY <1>1, <1>2, <2>1, AppendEntry
<1> HIDE DEF a, b, c
<1>6. /\ c \o b \in Seq(S) /\ Len(c \o b) = Len(c) + Len(b)
      /\ \A i \in 1..(Len(c) + Len(b)) :
           (c \o b)[i] = IF i <= Len(c) THEN c[i] ELSE b[i - Len(c)]
  BY <1>3, <1>5, ConcatProperties
<1>7. Len(c \o b) = Len(s) + 1
  BY <1>1, <1>3, <1>5, <1>6
<1>8. ASSUME NEW i \in 1..(Len(s) + 1)
      PROVE  (c \o b)[i] = IF i < k THEN s[i] ELSE IF i = k THEN e ELSE s[i - 1]
  <2>1. (c \o b)[i] = IF i <= k THEN c[i] ELSE b[i - k]
    BY <1>1, <1>3, <1>5, <1>6
  <2>2. CASE i <= k
    BY <1>1, <1>5, <2>1, <2>2
  <2>3. CASE k < i
    <3>1. i - k \in 1..(Len(s) + 1 - k) /\ k + (i - k) - 1 = i - 1
      BY <1>1, <2>3
    <3> QED
      BY <1>1, <1>3, <2>1, <2>3, <3>1
  <2>4. i <= k \/ k < i
    BY <1>1
  <2> QED
    BY <2>2, <2>3, <2>4
<1>9. Inserted(c \o b, s, k, e)
  BY <1>7, <1>8 DEF Inserted
<1> QED
  BY <1>4, <1>6, <1>9

(* The indexes up to each of which all are in A are the first so many.     *)
LEMMA Prefix ==
  ASSUME NEW n0 \in Nat, NEW A \in SUBSET (1..n0)
  PROVE  \E m \in 0..n0 : /\ {i \in 1..n0 : 1..i \subseteq A} = 1..m
                          /\ 1..m \subseteq A
                          /\ m < n0 => m + 1 \notin A
<1> DEFINE Stop == {i \in 0..n0 : i = n0 \/ i + 1 \notin A}
<1>1. Stop \in SUBSET Nat /\ n0 \in Stop
  OBVIOUS
<1>2. PICK m \in Stop : \A i \in Stop : m <= i
  <2> HIDE DEF Stop
  <2> QED
    BY <1>1, Least
<1>3. m \in 0..n0 /\ m \in Nat /\ (m < n0 => m + 1 \notin A)
  OBVIOUS
<1>4. ASSUME NEW i \in 1..m, i \notin A PROVE FALSE
  <2>1. i - 1 \in Stop /\ i - 1 < m
    BY <1>3, <1>4
  <2> QED
    BY <1>2, <1>3, <2>1
<1>5. {i \in 1..n0 : 1..i \subseteq A} = 1..m
  <2>1. ASSUME NEW i \in 1..n0, 1..i \subseteq A PROVE i \in 1..m
    <3>1. ~(m < i)
      <4> SUFFICES ASSUME m < i PROVE FALSE
        OBVIOUS
      <4>1. m + 1 \in 1..i /\ m < n0
        BY <1>3
      <4> QED
        BY <1>3, <2>1, <4>1
    <3> QED
      BY <1>3, <3>1
  <2>2. ASSUME NEW i \in 1..m PROVE i \in 1..n0 /\ 1..i \subseteq A
    BY <1>3, <1>4
  <2> QED
    BY <2>1, <2>2
<1> QED
  BY <1>3, <1>4, <1>5

(* A number put in its place leaves the others in order.                   *)
Rises(x, n0) == \A i, j \in 1..n0 : i < j => x[i] <= x[j]
PutIn(x, y, n0, m, v) ==
  /\ \A i \in 1..m : x[i] <= v /\ y[i] = x[i]
  /\ y[m + 1] = v
  /\ m < n0 => v <= x[m + 1]
  /\ \A i \in (m + 2)..(n0 + 1) : y[i] = x[i - 1]

LEMMA InPlace ==
  ASSUME NEW n0 \in Nat, NEW m \in 0..n0, NEW v \in Nat,
         NEW x \in [1..n0 -> Nat], NEW y, Rises(x, n0), PutIn(x, y, n0, m, v)
  PROVE  Rises(y, n0 + 1)
<1> USE DEF PutIn, Rises
<1> SUFFICES ASSUME NEW i \in 1..(n0 + 1), NEW j \in 1..(n0 + 1), i < j
             PROVE  y[i] <= y[j]
  OBVIOUS
<1>1. ASSUME NEW k \in (m + 1)..n0 PROVE v <= x[k]
  <2>1. m + 1 \in 1..n0 /\ k \in 1..n0 /\ (k = m + 1 \/ m + 1 < k) /\ m < n0
    OBVIOUS
  <2>2. x[m + 1] <= x[k] /\ x[m + 1] \in Nat /\ x[k] \in Nat
    BY <2>1
  <2> QED
    BY <2>1, <2>2
<1>2. CASE j \in 1..m
  <2>1. i \in 1..m /\ i \in 1..n0 /\ j \in 1..n0
    BY <1>2
  <2> QED
    BY <1>2, <2>1
<1>3. CASE j = m + 1
  <2>1. i \in 1..m
    BY <1>3
  <2> QED
    BY <1>3, <2>1
<1>4. CASE j \in (m + 2)..(n0 + 1)
  <2>1. j - 1 \in (m + 1)..n0 /\ j - 1 \in 1..n0 /\ y[j] = x[j - 1]
    BY <1>4
  <2>2. CASE i \in 1..m
    <3>1. i \in 1..n0 /\ i < j - 1 /\ y[i] = x[i]
      BY <1>4, <2>2
    <3> QED
      BY <2>1, <3>1
  <2>3. CASE i = m + 1
    BY <1>1, <2>1, <2>3
  <2>4. CASE i \in (m + 2)..(n0 + 1)
    <3>1. i - 1 \in 1..n0 /\ i - 1 < j - 1 /\ y[i] = x[i - 1]
      BY <2>4
    <3> QED
      BY <2>1, <3>1
  <2> QED
    BY <2>2, <2>3, <2>4
<1> QED
  BY <1>2, <1>3, <1>4

(* The lines kept of one file stay in order: OutALine puts a line behind   *)
(* those that are not greater.                                             *)
LEMMA InsertLineOrders ==
  ASSUME NEW S \in SUBSET [file : Nat, find : Nat, line : Nat],
         NEW s \in Seq(S), NEW l \in S, Ordered(s),
         \A i \in DOMAIN s : s[i].file = l.file
  PROVE  /\ InsertLine(s, l) \in Seq(S) /\ Ordered(InsertLine(s, l))
         /\ \A i \in DOMAIN InsertLine(s, l) : InsertLine(s, l)[i].file = l.file
<1> DEFINE A == {i \in 1..Len(s) : s[i].line <= l.line}
           before == {i \in DOMAIN s : \A j \in 1..i : s[j].line <= l.line}
           r == InsertLine(s, l)
           x == [i \in 1..Len(s) |-> s[i].line]
           y == [i \in 1..(Len(s) + 1) |-> r[i].line]
<1>1. Len(s) \in Nat /\ DOMAIN s = 1..Len(s) /\ A \in SUBSET (1..Len(s))
  OBVIOUS
<1>2. before = {i \in 1..Len(s) : 1..i \subseteq A}
  <2>1. \A i \in 1..Len(s) : 1..i \subseteq 1..Len(s)
    BY <1>1
  <2> QED
    BY <1>1, <2>1
<1>3. PICK m \in 0..Len(s) : before = 1..m /\ 1..m \subseteq A /\ (m < Len(s) => m + 1 \notin A)
  <2> HIDE DEF A, before
  <2> QED
    BY <1>1, <1>2, Prefix
<1>4. Cardinality(1..m) = m
  <2>1. m \in Nat
    BY <1>1
  <2>2. Cardinality(1..m) = IF 1 > m THEN 0 ELSE m - 1 + 1
    BY <2>1, FS_Interval
  <2> QED
    BY <2>1, <2>2
<1>5. r = InsertAt(s, m + 1, l)
  <2>1. r = InsertAt(s, Cardinality(before) + 1, l)
    BY DEF InsertLine
  <2> HIDE DEF r, before
  <2> QED
    BY <1>3, <1>4, <2>1
<1>6. /\ r \in Seq(S) /\ Len(r) = Len(s) + 1
      /\ \A i \in 1..m : r[i] = s[i]
      /\ r[m + 1] = l
      /\ \A i \in (m + 2)..(Len(s) + 1) : r[i] = s[i - 1]
  <2> HIDE DEF r, A, before, x, y
  <2>1. PICK k \in 1..(Len(s) + 1) : k = m + 1
    BY <1>1
  <2>2. r = InsertAt(s, k, l)
    BY <1>5, <2>1
  <2>3. InsertAt(s, k, l) \in Seq(S) /\ Inserted(InsertAt(s, k, l), s, k, l)
    BY InsertAtIs
  <2>4. r \in Seq(S) /\ Inserted(r, s, k, l)
    BY <2>2, <2>3
  <2> QED
    BY <1>1, <2>1, <2>4 DEF Inserted
<1>7. /\ \A i \in 1..Len(s) : s[i].line \in Nat /\ s[i].file = l.file
      /\ l.line \in Nat /\ l.file \in Nat
  <2>1. \A e \in S : e.line \in Nat /\ e.file \in Nat
    OBVIOUS
  <2>2. \A i \in 1..Len(s) : s[i] \in S
    OBVIOUS
  <2> QED
    BY <1>1, <2>1, <2>2
<1>8. DOMAIN r = 1..(Len(s) + 1) /\ \A i \in 1..(Len(s) + 1) : r[i].line \in Nat
  <2> HIDE DEF r
  <2>1. \A i \in 1..(Len(s) + 1) : r[i] \in S
    BY <1>6
  <2> QED
    BY <1>6, <2>1
<1>9. m \in 0..Len(s) /\ (\A i \in 1..m : i \in 1..Len(s) /\ s[i].line <= l.line)
      /\ (m < Len(s) => m + 1 \in 1..Len(s) /\ l.line <= s[m + 1].line)
  <2>1. m < Len(s) => m + 1 \in 1..Len(s)
    BY <1>1
  <2>2. m < Len(s) => l.line <= s[m + 1].line
    BY <1>3, <1>7, <2>1
  <2> QED
    BY <1>3, <2>1, <2>2
<1> HIDE DEF A, before, r
<1>10. ASSUME NEW i \in 1..Len(s), NEW j \in 1..Len(s), i < j
       PROVE  s[i].line <= s[j].line
  <2>1. i \in DOMAIN s /\ j \in DOMAIN s
    BY <1>1
  <2>2. Before(s[i], s[j])
    BY <1>10, <2>1, OrderedAt
  <2>3. s[i].file = s[j].file /\ s[i].file \in Nat
    BY <1>7
  <2> QED
    BY <2>2, <2>3, BeforeInFile
<1>11. /\ x \in [1..Len(s) -> Nat] /\ y \in [1..(Len(s) + 1) -> Nat]
       /\ \A i, j \in 1..Len(s) : i < j => x[i] <= x[j]
       /\ \A i \in 1..m : x[i] <= l.line
  <2>1. x \in [1..Len(s) -> Nat]
    BY <1>7
  <2>2. y \in [1..(Len(s) + 1) -> Nat]
    BY <1>8
  <2>3. \A i, j \in 1..Len(s) : i < j => x[i] <= x[j]
    BY <1>10
  <2>4. \A i \in 1..m : x[i] <= l.line
    BY <1>9
  <2> QED
    BY <2>1, <2>2, <2>3, <2>4
<1>12. \A i \in 1..m : y[i] = x[i]
  BY <1>1, <1>6, <1>9
<1>13. y[m + 1] = l.line
  BY <1>1, <1>6
<1>14. m < Len(s) => l.line <= x[m + 1]
  BY <1>9
<1>15. \A i \in (m + 2)..(Len(s) + 1) : y[i] = x[i - 1]
  BY <1>1, <1>6
<1>16. \A i, j \in 1..(Len(s) + 1) : i < j => y[i] <= y[j]
  <2> HIDE DEF x, y
  <2>1. PutIn(x, y, Len(s), m, l.line)
    BY <1>11, <1>12, <1>13, <1>14, <1>15 DEF PutIn
  <2>2. Rises(x, Len(s))
    BY <1>11 DEF Rises
  <2>3. Rises(y, Len(s) + 1)
    BY <1>1, <1>7, <1>11, <2>1, <2>2, InPlace
  <2> QED
    BY <2>3 DEF Rises
<1>17. ASSUME NEW i \in 1..(Len(s) + 1) PROVE r[i].file = l.file
  <2>1. i \in 1..m \/ i = m + 1 \/ i \in (m + 2)..(Len(s) + 1)
    BY <1>1
  <2>2. CASE i \in 1..m
    BY <1>6, <1>7, <1>9, <2>2
  <2>3. CASE i \in (m + 2)..(Len(s) + 1)
    <3>1. i - 1 \in 1..Len(s)
      BY <1>1, <2>3
    <3> QED
      BY <1>6, <1>7, <2>3, <3>1
  <2> QED
    BY <1>6, <2>1, <2>2, <2>3
<1>18. ASSUME NEW i \in DOMAIN r, NEW j \in DOMAIN r, i < j PROVE Before(r[i], r[j])
  BY <1>8, <1>16, <1>17, <1>18 DEF Before
<1>19. Ordered(r)
  BY <1>18 DEF Ordered
<1> QED
  BY <1>6, <1>8, <1>17, <1>19 DEF r

-----------------------------------------------------------------------------
(* The lines that ShowFLines leaves for the output.                        *)

(* The entries of p are among the first k of s, in their order.            *)
FromFirst(p, s, k) ==
  /\ \A a \in DOMAIN p : \E u \in 1..k : p[a] = s[u]
  /\ \A a, b \in DOMAIN p : a < b =>
       \E u, v \in 1..k : u < v /\ p[a] = s[u] /\ p[b] = s[v]

(* The recursion of Picked, line by line.                                  *)
OneOf(s, t, i) == IF t[i] = 0 THEN <<s[i]>> ELSE <<>>
Picking(f, S, s, t) ==
  /\ Picked(s, t) = f[Len(s)] /\ f[0] = <<>>
  /\ \A i \in 0..Len(s) : f[i] \in Seq(S)
  /\ \A i \in 1..Len(s) : f[i] = f[i - 1] \o OneOf(s, t, i)

LEMMA PickedSteps ==
  ASSUME NEW S, NEW s \in Seq(S), NEW t
  PROVE  \E f : Picking(f, S, s, t)
<1> DEFINE step == [x \in Seq(S) \X (1..Len(s)) |-> x[1] \o OneOf(s, t, x[2])]
           f == CHOOSE g : g = [i \in 0..Len(s) |->
                                  IF i = 0 THEN <<>> ELSE g[i - 1] \o OneOf(s, t, i)]
<1>1. Picked(s, t) = f[Len(s)]
  BY DEF Picked, OneOf
<1>2. Len(s) \in Nat /\ \A i \in 1..Len(s) : OneOf(s, t, i) \in Seq(S)
  BY DEF OneOf
<1>3. step \in [Seq(S) \X (1..Len(s)) -> Seq(S)]
  BY <1>2
<1>4. \A p \in Seq(S), i \in 1..Len(s) : step[<<p, i>>] = p \o OneOf(s, t, i)
  OBVIOUS
<1> HIDE DEF step
<1>5. PICK g \in [0..Len(s) -> Seq(S)] : Steps(g, <<>>, step, Len(s))
  <2>1. <<>> \in Seq(S)
    OBVIOUS
  <2> QED
    BY <1>2, <1>3, <2>1, StepsExist
<1>6. \A i \in 1..Len(s) : g[i] = g[i - 1] \o OneOf(s, t, i)
  <2> SUFFICES ASSUME NEW i \in 1..Len(s) PROVE g[i] = g[i - 1] \o OneOf(s, t, i)
    OBVIOUS
  <2>1. i - 1 \in 0..Len(s)
    BY <1>2
  <2>2. g[i - 1] \in Seq(S)
    BY <2>1
  <2> QED
    BY <1>4, <1>5, <2>2 DEF Steps
<1>7. g = [i \in 0..Len(s) |-> IF i = 0 THEN <<>> ELSE g[i - 1] \o OneOf(s, t, i)]
  <2>1. \A i \in 0..Len(s) : i # 0 => i \in 1..Len(s)
    BY <1>2
  <2>2. \A i \in 0..Len(s) : g[i] = IF i = 0 THEN <<>> ELSE g[i - 1] \o OneOf(s, t, i)
    BY <1>5, <1>6, <2>1 DEF Steps
  <2> QED
    BY <2>2
<1>8. f = [i \in 0..Len(s) |-> IF i = 0 THEN <<>> ELSE f[i - 1] \o OneOf(s, t, i)]
  <2>1. \E h : h = [i \in 0..Len(s) |-> IF i = 0 THEN <<>> ELSE h[i - 1] \o OneOf(s, t, i)]
    BY <1>7
  <2> QED
    BY <2>1, Zenon
<1> HIDE DEF f
<1>9. f[0] = <<>> /\ \A i \in 1..Len(s) : f[i] = f[i - 1] \o OneOf(s, t, i)
  <2>1. \A i \in 1..Len(s) : i # 0 /\ i \in 0..Len(s)
    BY <1>2
  <2>2. 0 \in 0..Len(s)
    BY <1>2
  <2> QED
    BY <1>8, <2>1, <2>2
<1>10. \A i \in 0..Len(s) : f[i] \in Seq(S)
  <2> DEFINE Bad == {i \in 0..Len(s) : f[i] \notin Seq(S)}
  <2>1. SUFFICES ASSUME Bad # {} PROVE FALSE
    OBVIOUS
  <2>2. PICK j \in Bad : \A i \in Bad : j <= i
    <3>1. Bad \in SUBSET Nat
      OBVIOUS
    <3> HIDE DEF Bad
    <3> QED
      BY <2>1, <3>1, Least
  <2>3. j # 0
    <3>1. <<>> \in Seq(S)
      OBVIOUS
    <3> QED
      BY <1>9, <3>1
  <2>4. j \in 1..Len(s) /\ j - 1 \in 0..Len(s) /\ j - 1 \notin Bad
    BY <1>2, <2>2, <2>3
  <2>5. f[j - 1] \in Seq(S) /\ OneOf(s, t, j) \in Seq(S)
    BY <1>2, <2>4
  <2>6. f[j] = f[j - 1] \o OneOf(s, t, j)
    BY <1>9, <2>4
  <2>7. f[j] \in Seq(S)
    BY <2>5, <2>6
  <2> QED
    BY <2>7
<1>11. Picking(f, S, s, t)
  BY <1>1, <1>9, <1>10 DEF Picking
<1> QED
  BY <1>11

LEMMA PickedIs ==
  ASSUME NEW S, NEW s \in Seq(S), NEW t
  PROVE  Picked(s, t) \in Seq(S) /\ FromFirst(Picked(s, t), s, Len(s))
<1>0. PICK f : Picking(f, S, s, t)
  BY PickedSteps
<1>1. /\ Picked(s, t) = f[Len(s)] /\ f[0] = <<>>
      /\ \A i \in 1..Len(s) : f[i] = f[i - 1] \o OneOf(s, t, i)
  BY <1>0 DEF Picking
<1>2. Len(s) \in Nat
  OBVIOUS
<1> DEFINE Good(i) == f[i] \in Seq(S) /\ FromFirst(f[i], s, i)
           Bad == {i \in 0..Len(s) : ~Good(i)}
<1>6. SUFFICES ASSUME Bad # {} PROVE FALSE
  <2>1. Len(s) \in 0..Len(s)
    BY <1>2
  <2> QED
    BY <1>1, <1>6, <2>1
<1>7. PICK j \in Bad : \A i \in Bad : j <= i
  <2>1. Bad \in SUBSET Nat
    OBVIOUS
  <2> HIDE DEF Bad
  <2> QED
    BY <1>6, <2>1, Least
<1>8. CASE j = 0
  <2>1. f[0] = <<>>
    BY <1>1
  <2>2. Good(0)
    BY <2>1 DEF FromFirst
  <2> QED
    BY <1>8, <2>2
<1>9. CASE j # 0
  <2>1. j \in 1..Len(s) /\ j - 1 \in 0..Len(s) /\ j - 1 \notin Bad
    BY <1>2, <1>7, <1>9
  <2>2. Good(j - 1)
    BY <2>1
  <2>3. f[j] = f[j - 1] \o (IF t[j] = 0 THEN <<s[j]>> ELSE <<>>)
    BY <1>1, <2>1 DEF OneOf
  <2> DEFINE p == f[j - 1]
  <2>4. p \in Seq(S) /\ FromFirst(p, s, j - 1)
    BY <2>2
  <2> HIDE DEF p
  <2>5. FromFirst(p, s, j)
    <3>1. \A u \in 1..(j - 1) : u \in 1..j
      BY <1>2, <2>1
    <3>2. ASSUME NEW a \in DOMAIN p PROVE \E u \in 1..j : p[a] = s[u]
      BY <2>4, <3>1 DEF FromFirst
    <3>3. ASSUME NEW a \in DOMAIN p, NEW b \in DOMAIN p, a < b
          PROVE  \E u, v \in 1..j : u < v /\ p[a] = s[u] /\ p[b] = s[v]
      <4>1. PICK u \in 1..(j - 1), v \in 1..(j - 1) : u < v /\ p[a] = s[u] /\ p[b] = s[v]
        BY <2>4, <3>3 DEF FromFirst
      <4> QED
        BY <3>1, <4>1
    <3> QED
      BY <3>2, <3>3 DEF FromFirst
  <2>6. CASE t[j] # 0
    <3>1. f[j] = p
      BY <2>3, <2>4, <2>6 DEF p
    <3> QED
      BY <2>4, <2>5, <3>1
  <2>7. CASE t[j] = 0
    <3>1. f[j] = p \o <<s[j]>> /\ s[j] \in S
      BY <2>1, <2>3, <2>7 DEF p
    <3>2. /\ f[j] \in Seq(S) /\ Len(p) \in Nat /\ DOMAIN f[j] = 1..(Len(p) + 1)
          /\ f[j][Len(p) + 1] = s[j]
          /\ \A i \in 1..Len(p) : f[j][i] = p[i]
          /\ DOMAIN p = 1..Len(p)
      BY <2>4, <3>1, AppendEntry
    <3>3. ASSUME NEW a \in DOMAIN f[j] PROVE \E u \in 1..j : f[j][a] = s[u]
      <4>1. a = Len(p) + 1 \/ a \in DOMAIN p
        BY <3>2
      <4> QED
        BY <2>1, <2>5, <3>2, <4>1 DEF FromFirst
    <3>4. ASSUME NEW a \in DOMAIN f[j], NEW b \in DOMAIN f[j], a < b
          PROVE  \E u, v \in 1..j : u < v /\ f[j][a] = s[u] /\ f[j][b] = s[v]
      <4>1. a \in DOMAIN p /\ (b \in DOMAIN p \/ b = Len(p) + 1)
        BY <3>2, <3>4
      <4>2. CASE b \in DOMAIN p
        <5>1. PICK u \in 1..j, v \in 1..j : u < v /\ p[a] = s[u] /\ p[b] = s[v]
          BY <2>5, <3>4, <4>1, <4>2 DEF FromFirst
        <5>2. f[j][a] = p[a] /\ f[j][b] = p[b]
          BY <3>2, <4>1, <4>2
        <5> QED
          BY <5>1, <5>2
      <4>3. CASE b = Len(p) + 1
        <5>1. PICK u \in 1..(j - 1) : p[a] = s[u]
          BY <2>4, <4>1 DEF FromFirst
        <5>2. u \in 1..j /\ j \in 1..j /\ u < j
          BY <1>2, <2>1
        <5> QED
          BY <3>2, <4>1, <4>3, <5>1, <5>2
      <4> QED
        BY <4>1, <4>2, <4>3
    <3>5. FromFirst(f[j], s, j)
      BY <3>3, <3>4 DEF FromFirst
    <3> QED
      BY <3>2, <3>5
  <2> QED
    BY <2>6, <2>7
<1> QED
  BY <1>8, <1>9

-----------------------------------------------------------------------------
(* Types.                                                                  *)

(* Of the hits that remain one comes before all others.                    *)
LEMMA FirstHit ==
  ASSUME NEW T \in SUBSET (FindNum \X Nat), T # {}
  PROVE  \E h \in T : \A g \in T \ {h} : Earlier(h, g)
<1> DEFINE F == {h[1] : h \in T}
<1>1. F \in SUBSET Nat /\ F # {}
  BY DEF FindNum
<1>2. PICK a \in F : \A b \in F : a <= b
  <2> HIDE DEF F
  <2> QED
    BY <1>1, Least
<1> DEFINE L == {h[2] : h \in {g \in T : g[1] = a}}
<1>3. L \in SUBSET Nat /\ L # {}
  BY <1>2
<1>4. PICK l \in L : \A k \in L : l <= k
  <2> HIDE DEF L
  <2> QED
    BY <1>3, Least
<1>5. PICK h \in T : h[1] = a /\ h[2] = l
  BY <1>4
<1>6. ASSUME NEW g \in T, g # h PROVE Earlier(h, g)
  <2>1. /\ h = <<h[1], h[2]>> /\ g = <<g[1], g[2]>>
        /\ h[1] \in Nat /\ h[2] \in Nat /\ g[1] \in Nat /\ g[2] \in Nat
    BY DEF FindNum
  <2>2. a <= g[1] /\ (g[1] = a => l <= g[2])
    BY <1>2, <1>4, <1>6
  <2> QED
    BY <1>5, <1>6, <2>1, <2>2 DEF Earlier
<1> QED
  BY <1>6

(* What is printed of m files is also of more files.                       *)
LEMMA EntriesGrow ==
  ASSUME NEW m \in Nat, NEW s \in Seq(Entries(m))
  PROVE  s \in Seq(Entries(m + 1))
<1>1. \A e \in Entries(m) : e \in Entries(m + 1)
  BY DEF Entries
<1>2. \A i \in 1..Len(s) : s[i] \in Entries(m + 1)
  BY <1>1
<1> QED
  BY <1>2

Typed ==
  /\ hits \in HitLists /\ types \in TypeLists /\ sw \in Switches
  /\ isregex \in RegexLists
  /\ n \in 0..Len(hits) /\ pc \in {"open", "scan", "done"}
  /\ todo \subseteq (IF n = 0 THEN {} ELSE hits[n])
  /\ gfDoneFile \in BOOLEAN /\ g_ioHold \in BOOLEAN
  /\ g_sLines \in Seq(Entries(n))
  /\ g_sOutList \in Seq(Entries(n))
  /\ out \in Seq(Entries(n))
  /\ g_dwFndFlg \subseteq FindNum
  /\ g_dwFinds \in Nat /\ gdwFinds \in Nat /\ gdwFindsOut \in Nat
  /\ g_dwFoundInFiles \in Nat /\ g_dwMaxFnds \in Nat

(* What the inputs are.                                                    *)
LEMMA InputTypes ==
  ASSUME Typed
  PROVE  /\ Len(hits) \in Nat /\ n \in Nat /\ DOMAIN hits = 1..Len(hits)
         /\ \A m \in 1..Len(hits) : hits[m] \in SUBSET (FindNum \X Nat)
         /\ sw.allIn1 \in BOOLEAN /\ sw.noFile \in BOOLEAN
         /\ sw.lines \in BOOLEAN /\ sw.skip \in BOOLEAN
         /\ FindCount \in Nat \ {0}
<1>1. sw \in Switch /\ hits \in Seq(SUBSET (FindNum \X Nat))
  BY HitsAssumption, SwitchesAssumption DEF Typed
<1>2. Len(hits) \in Nat /\ n \in Nat
  BY <1>1 DEF Typed
<1> QED
  BY <1>1, <1>2, CountAssumption DEF Switch

(* The hit in hand, and the entries made of it.                            *)
LEMMA ThisHitIs ==
  ASSUME Typed, todo # {}
  PROVE  /\ n \in 1..Len(hits) /\ todo \in SUBSET (FindNum \X Nat)
         /\ ThisHit \in todo /\ ThisHit[1] \in FindNum /\ ThisHit[2] \in Nat
         /\ \A g \in todo \ {ThisHit} : Earlier(ThisHit, g)
         /\ Name(n) \in Entries(n) /\ Item(n, ThisHit) \in Entries(n)
<1>1. n \in 1..Len(hits) /\ todo \in SUBSET (FindNum \X Nat)
  BY InputTypes DEF Typed
<1>2. \E h \in todo : \A g \in todo \ {h} : Earlier(h, g)
  BY <1>1, FirstHit
<1>3. ThisHit \in todo /\ \A g \in todo \ {ThisHit} : Earlier(ThisHit, g)
  BY <1>2 DEF ThisHit
<1> HIDE DEF ThisHit
<1>4. ThisHit[1] \in FindNum /\ ThisHit[2] \in Nat
  BY <1>1, <1>3
<1>5. n \in 1..n /\ n \in Nat
  BY <1>1, InputTypes
<1>6. Name(n) \in Entries(n)
  BY <1>5, CountAssumption DEF Name, Entries
<1>7. Item(n, ThisHit) \in Entries(n)
  BY <1>4, <1>5 DEF Item, Entries, FindNum
<1> QED
  BY <1>1, <1>3, <1>4, <1>6, <1>7

(* Entries are records of numbers.                                         *)
LEMMA EntryIs ==
  ASSUME NEW m \in Nat
  PROVE  /\ Entries(m) \in SUBSET [file : Nat, find : Nat, line : Nat]
         /\ \A e \in Entries(m) : e.file \in 1..m /\ e.line \in Nat
<1>1. FindCount \in Nat
  BY CountAssumption
<1> QED
  BY <1>1 DEF Entries

(* Where the line in hand is put in.                                       *)
LEMMA InsertLineAt ==
  ASSUME NEW S, NEW s \in Seq(S), NEW l \in S
  PROVE  \E k \in 1..(Len(s) + 1) : InsertLine(s, l) = InsertAt(s, k, l)
<1> DEFINE before == {i \in DOMAIN s : \A j \in 1..i : s[j].line <= l.line}
<1>1. Len(s) \in Nat /\ before \in SUBSET (1..Len(s))
  OBVIOUS
<1>2. Cardinality(before) \in 0..Len(s)
  <2> HIDE DEF before
  <2>1. IsFiniteSet(1..Len(s)) /\ Cardinality(1..Len(s)) = Len(s)
    <3>0. Len(s) \in Int /\ 1 \in Int
      BY <1>1
    <3>1. Cardinality(1..Len(s)) = IF 1 > Len(s) THEN 0 ELSE Len(s) - 1 + 1
      BY <3>0, FS_Interval
    <3>2. IsFiniteSet(1..Len(s))
      BY <3>0, FS_Interval
    <3> QED
      BY <1>1, <3>1, <3>2
  <2>2. IsFiniteSet(before) /\ Cardinality(before) <= Len(s)
    BY <1>1, <2>1, FS_Subset
  <2> QED
    BY <1>1, <2>2, FS_CardinalityType
<1>3. Cardinality(before) + 1 \in 1..(Len(s) + 1)
  BY <1>1, <1>2
<1>4. InsertLine(s, l) = InsertAt(s, Cardinality(before) + 1, l)
  BY DEF InsertLine
<1> HIDE DEF before
<1> QED
  BY <1>3, <1>4

(* The lines kept, with the one in hand put in, are entries.               *)
LEMMA InsertLineType ==
  ASSUME NEW S, NEW s \in Seq(S), NEW l \in S
  PROVE  InsertLine(s, l) \in Seq(S)
<1>1. PICK k \in 1..(Len(s) + 1) : InsertLine(s, l) = InsertAt(s, k, l)
  BY InsertLineAt
<1> QED
  BY <1>1, InsertAtIs

(* What is printed and held back of the hit in hand.                       *)
LEMMA ShownTypes ==
  ASSUME Typed, HitShown
  PROVE  /\ g_ioHold' \in BOOLEAN /\ gfDoneFile' \in BOOLEAN
         /\ g_dwFoundInFiles' \in Nat
         /\ g_sLines' \in Seq(Entries(n)) /\ g_sOutList' \in Seq(Entries(n))
         /\ out' \in Seq(Entries(n))
<1>1. /\ Name(n) \in Entries(n) /\ Item(n, ThisHit) \in Entries(n)
      /\ g_sLines \in Seq(Entries(n)) /\ g_sOutList \in Seq(Entries(n))
      /\ out \in Seq(Entries(n)) /\ gfDoneFile \in BOOLEAN /\ g_ioHold \in BOOLEAN
      /\ g_dwFoundInFiles \in Nat
      /\ sw.allIn1 \in BOOLEAN /\ sw.noFile \in BOOLEAN
  BY ThisHitIs, InputTypes DEF HitShown, Hit, Typed
<1>2. g_ioHold' \in BOOLEAN
  BY <1>1 DEF HitShown, Holds, Several
<1>3. gfDoneFile' \in BOOLEAN /\ g_dwFoundInFiles' \in Nat
  <2>1. \/ gfDoneFile' = gfDoneFile /\ g_dwFoundInFiles' = g_dwFoundInFiles
        \/ gfDoneFile' = ~sw.noFile /\ g_dwFoundInFiles' = g_dwFoundInFiles + 1
    BY Zenon DEF HitShown, DoOutFileName
  <2>2. (~sw.noFile) \in BOOLEAN
    OBVIOUS
  <2>3. gfDoneFile' \in BOOLEAN
    BY <1>1, <2>1, <2>2, Zenon
  <2>4. g_dwFoundInFiles' \in Nat
    BY <1>1, <2>1
  <2> QED
    BY <2>3, <2>4
<1>4. g_sOutList' \in Seq(Entries(n))
  <2>1. Append(g_sOutList, Name(n)) \in Seq(Entries(n))
    BY <1>1
  <2> QED
    BY <1>1, <2>1 DEF HitShown, DoOutFileName
<1>5. g_sLines' \in Seq(Entries(n))
  BY <1>1, InsertLineType DEF HitShown
<1>6. out' \in Seq(Entries(n))
  <2>1. <<>> \in Seq(Entries(n)) /\ <<Name(n)>> \in Seq(Entries(n))
        /\ <<Item(n, ThisHit)>> \in Seq(Entries(n))
    BY <1>1
  <2>2. NamePrinted \in Seq(Entries(n))
    BY <2>1 DEF NamePrinted
  <2>3. (IF sw.lines /\ ~Several THEN <<Item(n, ThisHit)>> ELSE <<>>) \in Seq(Entries(n))
    BY <2>1
  <2>4. (out \o NamePrinted) \in Seq(Entries(n))
    BY <1>1, <2>2
  <2>5. out' = (out \o NamePrinted)
                 \o (IF sw.lines /\ ~Several THEN <<Item(n, ThisHit)>> ELSE <<>>)
    BY DEF HitShown
  <2> QED
    BY <2>3, <2>4, <2>5
<1> QED
  BY <1>2, <1>3, <1>4, <1>5, <1>6

(* What is released at the end of a file.                                  *)
LEMMA HeldTypes ==
  ASSUME Typed
  PROVE  /\ LinesOut \in Seq(Entries(n))
         /\ Held \in Seq(Entries(n))
         /\ out \o LinesOut \in Seq(Entries(n))
         /\ out \o Held \in Seq(Entries(n))
<1>1. LinesOut \in Seq(Entries(n))
  BY PickedIs DEF LinesOut, Typed
<1> HIDE DEF LinesOut
<1>2. Held \in Seq(Entries(n))
  BY <1>1 DEF Held, Typed
<1> QED
  BY <1>1, <1>2 DEF Typed

LEMMA TypeStep ==
  ASSUME Typed, [Next]_vars
  PROVE  Typed'
<1>1. Len(hits) \in Nat /\ n \in Nat /\ hits \in HitLists
  BY InputTypes DEF Typed
<1>2. CASE OpenFile
  <2>1. /\ g_sLines \in Seq(Entries(n + 1)) /\ g_sOutList \in Seq(Entries(n + 1))
        /\ out \in Seq(Entries(n + 1))
    BY <1>1, EntriesGrow DEF Typed
  <2>2. n' \in 0..Len(hits') /\ n' # 0 /\ todo' = hits'[n'] /\ n' = n + 1
    BY <1>1, <1>2 DEF OpenFile, inputs
  <2>3. g_sLines' = g_sLines /\ g_sOutList' = g_sOutList /\ out' = out
    BY <1>2 DEF OpenFile
  <2>4. /\ g_sLines' \in Seq(Entries(n')) /\ g_sOutList' \in Seq(Entries(n'))
        /\ out' \in Seq(Entries(n'))
    BY <2>1, <2>2, <2>3
  <2> QED
    BY <1>2, <2>2, <2>4 DEF OpenFile, Typed, inputs
<1>3. CASE HitInhibited
  <2>1. ThisHit \in todo /\ ThisHit[1] \in FindNum
    BY <1>3, ThisHitIs DEF HitInhibited, Hit
  <2> QED
    BY <1>3, <2>1 DEF HitInhibited, Hit, Typed, inputs
<1>4. CASE HitShown
  <2>1. ThisHit \in todo /\ ThisHit[1] \in FindNum
    BY <1>4, ThisHitIs DEF HitShown, Hit
  <2>2. /\ g_ioHold' \in BOOLEAN /\ gfDoneFile' \in BOOLEAN
        /\ g_dwFoundInFiles' \in Nat /\ n' = n
        /\ g_sLines' \in Seq(Entries(n')) /\ g_sOutList' \in Seq(Entries(n'))
        /\ out' \in Seq(Entries(n'))
    BY <1>4, ShownTypes DEF HitShown, Hit
  <2>3. /\ UNCHANGED <<inputs, n, pc, gdwFindsOut, g_dwMaxFnds>>
        /\ todo' \subseteq todo /\ g_dwFndFlg' \subseteq FindNum
        /\ g_dwFinds' \in Nat /\ gdwFinds' \in Nat
    BY <1>4, <2>1 DEF HitShown, Hit, Typed
  <2> QED
    BY <2>2, <2>3 DEF Typed, inputs
<1>5. CASE EndFile
  <2>1. pc' \in {"open", "done"} /\ Frame
    BY <1>5 DEF EndFile, EndPrints, EndReleases, EndRejected, EndScan
  <2>2. /\ g_sLines' = <<>> /\ g_sOutList' = <<>>
        /\ out' \in {out, out \o LinesOut, out \o Held}
        /\ g_dwMaxFnds' \in {g_dwMaxFnds, g_dwMaxFnds + 1}
    BY <1>5 DEF EndFile, EndPrints, EndReleases, EndRejected
  <2>3. out' \in Seq(Entries(n))
    <3>1. \A s \in {out, out \o LinesOut, out \o Held} : s \in Seq(Entries(n))
      BY HeldTypes DEF Typed
    <3> QED
      BY <2>2, <3>1
  <2>6. g_dwMaxFnds' \in Nat
    BY <2>2 DEF Typed
  <2>4. n' = n /\ UNCHANGED <<inputs, n, todo, gfDoneFile, g_ioHold, g_dwFndFlg,
                     g_dwFinds, gdwFinds, gdwFindsOut, g_dwFoundInFiles>>
    BY <2>1 DEF Frame
  <2>5. /\ g_sLines' \in Seq(Entries(n')) /\ g_sOutList' \in Seq(Entries(n'))
        /\ out' \in Seq(Entries(n'))
    BY <2>2, <2>3, <2>4
  <2> QED
    BY <2>1, <2>4, <2>5, <2>6 DEF Typed, inputs
<1>6. CASE UNCHANGED vars
  BY <1>6 DEF Typed, vars, inputs, counts
<1> QED
  BY <1>2, <1>3, <1>4, <1>5, <1>6 DEF Next

LEMMA TypeInit ==
  ASSUME Init
  PROVE  Typed
<1>1. hits \in Seq(SUBSET (FindNum \X Nat))
  BY HitsAssumption DEF Init
<1>2. Len(hits) \in Nat
  BY <1>1
<1>3. <<>> \in Seq(Entries(n))
  OBVIOUS
<1>4. /\ g_sLines \in Seq(Entries(n)) /\ g_sOutList \in Seq(Entries(n))
      /\ out \in Seq(Entries(n))
  BY <1>3 DEF Init
<1>5. n \in 0..Len(hits)
  BY <1>2 DEF Init
<1> QED
  BY <1>4, <1>5 DEF Init, Typed

(* Whatever the finds, files, hits and switches, the state is as           *)
(* declared: every entry printed or kept is of a file that was opened and  *)
(* of a find that was asked for.                                           *)
THEOREM TypeCorrect == Spec => []TypeOK
<1>1. Init => Typed
  BY TypeInit
<1>2. Typed /\ [Next]_vars => Typed'
  BY TypeStep
<1>3. Typed => TypeOK
  <2> SUFFICES ASSUME Typed PROVE TypeOK
    OBVIOUS
  <2>1. ASSUME NEW s \in Seq(Entries(n))
        PROVE  \A i \in DOMAIN s : s[i] \in [file : 1..n, find : 0..FindCount, line : Nat]
    <3>1. \A i \in DOMAIN s : s[i] \in Entries(n)
      OBVIOUS
    <3> QED
      BY <3>1 DEF Entries
  <2>2. \A s \in {g_sLines, g_sOutList, out} :
          \A i \in DOMAIN s : s[i] \in [file : 1..n, find : 0..FindCount, line : Nat]
    BY <2>1 DEF Typed
  <2> QED
    BY <2>2 DEF Typed, TypeOK
<1> QED
  BY <1>1, <1>2, <1>3, PTL DEF Spec

-----------------------------------------------------------------------------
(* The order of the lines.                                                 *)

(* Entries of the file m put behind s, none before a greater line of it.   *)
LEMMA PutBehind ==
  ASSUME NEW m \in Nat, NEW s \in Seq(Entries(m)), NEW b \in Seq(Entries(m)),
         Ordered(s), Ordered(b), \A j \in DOMAIN b : b[j].file = m,
         \A i \in DOMAIN s : s[i].file = m => \A j \in DOMAIN b : s[i].line <= b[j].line
  PROVE  Ordered(s \o b)
<1>1. ASSUME NEW i \in DOMAIN s, NEW j \in DOMAIN b PROVE Before(s[i], b[j])
  <2>1. s[i] \in Entries(m)
    OBVIOUS
  <2>2. s[i].file \in 1..m
    BY <2>1, EntryIs
  <2>3. s[i].file < m \/ s[i].file = m
    BY <2>2
  <2> QED
    BY <2>3 DEF Before
<1> QED
  BY <1>1, OrderedConcat

(* One entry alone, and none, are in order.                                *)
LEMMA OneOrdered ==
  ASSUME NEW S, NEW e \in S
  PROVE  /\ Ordered(<<e>>) /\ <<e>> \in Seq(S) /\ DOMAIN <<e>> = {1} /\ <<e>>[1] = e
         /\ Ordered(<<>>) /\ <<>> \in Seq(S) /\ DOMAIN <<>> = {}
<1>1. <<e>> \in Seq(S) /\ DOMAIN <<e>> = {1} /\ <<e>>[1] = e
      /\ <<>> \in Seq(S) /\ DOMAIN <<>> = {}
  OBVIOUS
<1>2. Ordered(<<e>>)
  BY <1>1 DEF Ordered
<1>3. Ordered(<<>>)
  BY <1>1 DEF Ordered
<1> QED
  BY <1>1, <1>2, <1>3

(* What is picked from lines of one file in order is in order.             *)
LEMMA PickedOrdered ==
  ASSUME NEW m \in Nat, NEW s \in Seq(Entries(m)), NEW p, FromFirst(p, s, Len(s)),
         Ordered(s), \A i \in DOMAIN s : s[i].file = m
  PROVE  Ordered(p) /\ \A a \in DOMAIN p : p[a].file = m
<1>1. DOMAIN s = 1..Len(s)
  OBVIOUS
<1>2. ASSUME NEW a \in DOMAIN p PROVE p[a].file = m
  <2>1. PICK u \in 1..Len(s) : p[a] = s[u]
    BY DEF FromFirst
  <2> QED
    BY <1>1, <2>1
<1>3. ASSUME NEW a \in DOMAIN p, NEW b \in DOMAIN p, a < b PROVE Before(p[a], p[b])
  <2>1. PICK u \in 1..Len(s), v \in 1..Len(s) : u < v /\ p[a] = s[u] /\ p[b] = s[v]
    BY <1>3 DEF FromFirst
  <2>2. Before(s[u], s[v])
    BY <1>1, <2>1 DEF Ordered
  <2> QED
    BY <2>1, <2>2
<1> QED
  BY <1>2, <1>3 DEF Ordered

(* What is kept of the file in hand: lines with several finds only, and    *)
(* its name, which is no line.                                             *)
Kept ==
  /\ Ordered(g_sLines) /\ \A i \in DOMAIN g_sLines : g_sLines[i].file = n
  /\ ~Several => g_sLines = <<>>
  /\ \A i \in DOMAIN g_sOutList : g_sOutList[i] = Name(n)
  /\ g_ioHold => Several
  /\ pc # "scan" => g_sLines = <<>> /\ g_sOutList = <<>>

(* What is printed of the file m while it is searched: with several finds  *)
(* its name only, with one find lines that no hit in T comes before; none  *)
(* of it unless named says that the name is printed or never will be.      *)
Printed(o, m, T, named) ==
  \A i \in DOMAIN o : o[i].file = m =>
    /\ named
    /\ Several => o[i].line = 0
    /\ ~Several => \A h \in T : o[i].line <= h[2]

InOrder ==
  /\ Ordered(out) /\ Kept
  /\ pc = "scan" => Printed(out, n, todo, gfDoneFile \/ sw.noFile)

(* With several finds, what is printed of the file in hand is its name,    *)
(* and only when nothing of it had been printed.                           *)
LEMMA NameInOrder ==
  ASSUME NEW m \in Nat \ {0}, NEW o \in Seq(Entries(m)), NEW T,
         NEW named \in BOOLEAN, Ordered(o), Printed(o, m, T, named),
         NEW b \in {<<>>, <<Name(m)>>}, b # <<>> => ~named,
         \A h \in T : h[2] \in Nat
  PROVE  /\ o \o b \in Seq(Entries(m)) /\ Ordered(o \o b)
         /\ Printed(o \o b, m, T, TRUE)
<1>1. Name(m) \in Entries(m) /\ Name(m).file = m /\ Name(m).line = 0
  <2>1. m \in 1..m
    OBVIOUS
  <2> QED
    BY <2>1, CountAssumption DEF Name, Entries
<1>2. CASE b = <<>>
  <2>1. o \o b = o
    BY <1>2
  <2> QED
    BY <2>1 DEF Printed
<1>3. CASE b = <<Name(m)>>
  <2>1. b \in Seq(Entries(m)) /\ Ordered(b) /\ DOMAIN b = {1} /\ b[1] = Name(m)
    BY <1>1, <1>3, OneOrdered
  <2>2. b # <<>>
    BY <2>1, OneOrdered
  <2>3. \A i \in DOMAIN o : o[i].file # m
    BY <2>2 DEF Printed
  <2>4. Ordered(o \o b)
    BY <1>1, <2>1, <2>3, PutBehind
  <2>5. /\ o \o b \in Seq(Entries(m)) /\ DOMAIN (o \o b) = 1..(Len(o) + 1)
        /\ (o \o b)[Len(o) + 1] = Name(m) /\ Len(o) \in Nat
        /\ \A i \in 1..Len(o) : (o \o b)[i] = o[i] /\ i \in DOMAIN o
    BY <1>1, <1>3, AppendEntry
  <2>6. ASSUME NEW i \in DOMAIN (o \o b), (o \o b)[i].file = m
        PROVE  (o \o b)[i].line = 0
    <3>1. i \in 1..Len(o) \/ i = Len(o) + 1
      BY <2>5
    <3>2. i \notin 1..Len(o)
      BY <2>3, <2>5, <2>6
    <3> QED
      BY <1>1, <2>5, <3>1, <3>2
  <2>7. Printed(o \o b, m, T, TRUE)
    BY <2>6 DEF Printed
  <2> QED
    BY <2>4, <2>5, <2>7
<1> QED
  BY <1>2, <1>3

(* With one find its line is printed at once, the last one so far.         *)
LEMMA LineInOrder ==
  ASSUME NEW m \in Nat \ {0}, NEW o \in Seq(Entries(m)), NEW T, NEW U,
         Ordered(o), Printed(o, m, T, TRUE), NEW h \in T, U \subseteq T,
         NEW e \in Entries(m), e.file = m, e.line = h[2], ~Several,
         \A g \in U : h[2] <= g[2],
         NEW b \in {<<>>, <<e>>}
  PROVE  /\ o \o b \in Seq(Entries(m)) /\ Ordered(o \o b)
         /\ Printed(o \o b, m, U, TRUE)
<1>1. CASE b = <<>>
  <2>1. o \o b = o
    BY <1>1
  <2> QED
    BY <2>1 DEF Printed
<1>2. CASE b = <<e>>
  <2>1. b \in Seq(Entries(m)) /\ Ordered(b) /\ DOMAIN b = {1} /\ b[1] = e
    BY <1>2, OneOrdered
  <2>2. \A i \in DOMAIN o : o[i].file = m => \A j \in DOMAIN b : o[i].line <= b[j].line
    BY <2>1 DEF Printed
  <2>3. Ordered(o \o b)
    BY <2>1, <2>2, PutBehind
  <2>4. /\ o \o b \in Seq(Entries(m)) /\ DOMAIN (o \o b) = 1..(Len(o) + 1)
        /\ (o \o b)[Len(o) + 1] = e /\ Len(o) \in Nat
        /\ \A i \in 1..Len(o) : (o \o b)[i] = o[i] /\ i \in DOMAIN o
    BY <1>2, AppendEntry
  <2>5. ASSUME NEW i \in DOMAIN (o \o b), (o \o b)[i].file = m, NEW g \in U
        PROVE  (o \o b)[i].line <= g[2]
    <3>1. i \in 1..Len(o) \/ i = Len(o) + 1
      BY <2>4
    <3>2. CASE i \in 1..Len(o)
      <4>1. g \in T /\ (o \o b)[i] = o[i] /\ i \in DOMAIN o
        BY <2>4, <3>2
      <4> QED
        BY <2>5, <4>1 DEF Printed
    <3>3. CASE i = Len(o) + 1
      BY <2>4, <3>3
    <3> QED
      BY <3>1, <3>2, <3>3
  <2>6. Printed(o \o b, m, U, TRUE)
    BY <2>5 DEF Printed
  <2> QED
    BY <2>3, <2>4, <2>6
<1> QED
  BY <1>1, <1>2

(* ShowLine keeps and prints in order.                                     *)
LEMMA HitInOrder ==
  ASSUME Typed, Typed', InOrder, HitShown
  PROVE  InOrder'
<1>1. /\ pc = "scan" /\ pc' = "scan" /\ n' = n /\ sw' = sw /\ todo # {}
      /\ todo' = todo \ {ThisHit}
  BY DEF HitShown, Hit, inputs
<1>2. /\ n \in Nat \ {0} /\ todo \in SUBSET (FindNum \X Nat)
      /\ ThisHit \in todo /\ ThisHit[2] \in Nat /\ ThisHit[1] \in FindNum
      /\ \A g \in todo \ {ThisHit} : Earlier(ThisHit, g)
      /\ Name(n) \in Entries(n) /\ Item(n, ThisHit) \in Entries(n)
  BY <1>1, ThisHitIs, InputTypes
<1> DEFINE e == Item(n, ThisHit)
           b == IF sw.lines /\ ~Several THEN <<e>> ELSE <<>>
<1>3. e.file = n /\ e.line = ThisHit[2]
  BY DEF Item
<1>4. /\ out \in Seq(Entries(n)) /\ g_sLines \in Seq(Entries(n))
      /\ gfDoneFile \in BOOLEAN /\ sw.noFile \in BOOLEAN
      /\ Ordered(out) /\ Printed(out, n, todo, gfDoneFile \/ sw.noFile)
  BY <1>1, InputTypes DEF Typed, InOrder
<1>5. gfDoneFile' \/ sw.noFile
  BY DEF HitShown, DoOutFileName
<1>6. /\ (out \o NamePrinted) \in Seq(Entries(n)) /\ Ordered(out \o NamePrinted)
      /\ Printed(out \o NamePrinted, n, todo, TRUE)
  <2>1. NamePrinted \in {<<>>, <<Name(n)>>} /\ (gfDoneFile \/ sw.noFile) \in BOOLEAN
        /\ (NamePrinted # <<>> => ~(gfDoneFile \/ sw.noFile))
    BY DEF NamePrinted
  <2>2. \A h \in todo : h[2] \in Nat
    BY <1>2
  <2> HIDE DEF NamePrinted
  <2> QED
    BY <1>2, <1>4, <2>1, <2>2, NameInOrder
<1>7. out' = (out \o NamePrinted) \o b
  BY DEF HitShown
<1>8. Ordered(out') /\ Printed(out', n, todo', TRUE)
  <2>1. CASE Several
    <3>1. b = <<>> /\ out' = out \o NamePrinted
      BY <1>6, <1>7, <2>1
    <3>2. Printed(out \o NamePrinted, n, todo', TRUE)
      BY <1>6, <2>1 DEF Printed
    <3> QED
      BY <1>6, <3>1, <3>2
  <2>2. CASE ~Several
    <3>1. \A g \in todo' : ThisHit[2] <= g[2]
      <4> SUFFICES ASSUME NEW g \in todo' PROVE ThisHit[2] <= g[2]
        OBVIOUS
      <4>1. Earlier(ThisHit, g) /\ g \in FindNum \X Nat
        BY <1>1, <1>2
      <4>2. g[1] = ThisHit[1] /\ g[2] \in Nat
        BY <1>2, <2>2, <4>1, CountAssumption DEF Several, FindNum
      <4> HIDE DEF ThisHit
      <4> QED
        BY <1>2, <4>1, <4>2 DEF Earlier, FindNum
    <3>2. b \in {<<>>, <<e>>}
      OBVIOUS
    <3>3. todo' \subseteq todo
      BY <1>1
    <3>4. Ordered((out \o NamePrinted) \o b) /\ Printed((out \o NamePrinted) \o b, n, todo', TRUE)
      <4> DEFINE o == out \o NamePrinted
      <4> HIDE DEF o, e, b, NamePrinted, ThisHit
      <4>1. /\ o \in Seq(Entries(n)) /\ Ordered(o) /\ Printed(o, n, todo, TRUE)
            /\ e \in Entries(n)
        BY <1>2, <1>6 DEF o, e
      <4>2. Ordered(o \o b) /\ Printed(o \o b, n, todo', TRUE)
        BY <1>2, <1>3, <2>2, <3>1, <3>2, <3>3, <4>1, LineInOrder
      <4> QED
        BY <4>2 DEF o
    <3> QED
      BY <1>7, <3>4
  <2> QED
    BY <2>1, <2>2
<1>9. Kept'
  <2>1. /\ Ordered(g_sLines) /\ (\A i \in DOMAIN g_sLines : g_sLines[i].file = n)
        /\ (~Several => g_sLines = <<>>) /\ (g_ioHold => Several)
        /\ \A i \in DOMAIN g_sOutList : g_sOutList[i] = Name(n)
    BY DEF InOrder, Kept
  <2>2. Ordered(g_sLines') /\ \A i \in DOMAIN g_sLines' : g_sLines'[i].file = n
    <3>1. g_sLines' = g_sLines \/ g_sLines' = InsertLine(g_sLines, e)
      BY DEF HitShown
    <3>2. Entries(n) \in SUBSET [file : Nat, find : Nat, line : Nat]
      BY <1>2, EntryIs
    <3> HIDE DEF e
    <3>3. e \in Entries(n)
      BY <1>2 DEF e
    <3>4. /\ Ordered(InsertLine(g_sLines, e))
          /\ \A i \in DOMAIN InsertLine(g_sLines, e) : InsertLine(g_sLines, e)[i].file = n
      BY <1>3, <1>4, <2>1, <3>2, <3>3, InsertLineOrders
    <3> QED
      BY <2>1, <3>1, <3>4
  <2>3. ~Several => g_sLines' = <<>>
    BY <2>1 DEF HitShown
  <2>4. \A i \in DOMAIN g_sOutList' : g_sOutList'[i] = Name(n)
    <3>1. g_sOutList' = g_sOutList \/ g_sOutList' = Append(g_sOutList, Name(n))
      BY DEF HitShown, DoOutFileName
    <3>2. CASE g_sOutList' = Append(g_sOutList, Name(n))
      <4>1. g_sOutList \in Seq(Entries(n))
        BY DEF Typed
      <4> DEFINE nm == Name(n)
      <4> HIDE DEF nm
      <4>2. \A i \in 1..(Len(g_sOutList) + 1) :
              Append(g_sOutList, nm)[i] = IF i = Len(g_sOutList) + 1 THEN nm ELSE g_sOutList[i]
        BY <4>1
      <4>3. /\ DOMAIN Append(g_sOutList, nm) = 1..(Len(g_sOutList) + 1)
            /\ DOMAIN g_sOutList = 1..Len(g_sOutList) /\ Len(g_sOutList) \in Nat
        BY <4>1
      <4>4. \A i \in DOMAIN g_sOutList : g_sOutList[i] = nm
        BY <2>1 DEF nm
      <4>5. \A i \in DOMAIN Append(g_sOutList, nm) : Append(g_sOutList, nm)[i] = nm
        BY <4>2, <4>3, <4>4
      <4> QED
        BY <3>2, <4>5 DEF nm
    <3> QED
      BY <2>1, <3>1, <3>2
  <2>5. g_ioHold' => Several
    BY <2>1 DEF HitShown, Holds
  <2>6. Several' = Several
    BY DEF Several
  <2> QED
    BY <1>1, <2>2, <2>3, <2>4, <2>5, <2>6 DEF Kept, Name
<1>10. Printed(out', n', todo', gfDoneFile' \/ sw'.noFile)
  BY <1>1, <1>5, <1>8 DEF Printed
<1>11. Printed(out, n, todo, gfDoneFile \/ sw.noFile)'
  BY <1>10 DEF Printed, Several
<1> QED
  BY <1>8, <1>9, <1>11 DEF InOrder, Ordered

(* At the end of a file the lines kept, behind the name held back, come    *)
(* behind what is printed.                                                 *)
LEMMA EndInOrder ==
  ASSUME Typed, InOrder, EndFile
  PROVE  InOrder'
<1>1. /\ pc = "scan" /\ pc' \in {"open", "done"} /\ n' = n /\ g_ioHold' = g_ioHold
      /\ g_sLines' = <<>> /\ g_sOutList' = <<>>
  BY DEF EndFile, EndPrints, EndReleases, EndRejected, EndScan, Frame
<1>2. /\ n \in Nat /\ Ordered(out) /\ out \in Seq(Entries(n))
      /\ g_sLines \in Seq(Entries(n)) /\ g_sOutList \in Seq(Entries(n))
      /\ LinesOut \in Seq(Entries(n)) /\ Held \in Seq(Entries(n))
      /\ Printed(out, n, todo, gfDoneFile \/ sw.noFile)
      /\ Ordered(g_sLines) /\ (\A i \in DOMAIN g_sLines : g_sLines[i].file = n)
      /\ (~Several => g_sLines = <<>>) /\ (g_ioHold => Several)
      /\ \A i \in DOMAIN g_sOutList : g_sOutList[i] = Name(n)
  BY <1>1, InputTypes, HeldTypes DEF InOrder, Kept, Typed
<1>3. FromFirst(LinesOut, g_sLines, Len(g_sLines))
  BY <1>2, PickedIs DEF LinesOut
<1> DEFINE lines == LinesOut
<1> HIDE DEF lines
<1>4. Ordered(lines) /\ \A a \in DOMAIN lines : lines[a].file = n
  BY <1>2, <1>3, PickedOrdered DEF lines
<1>5. lines \in Seq(Entries(n)) /\ \A a \in DOMAIN lines : lines[a].line \in Nat
  <2>1. lines \in Seq(Entries(n))
    BY <1>2 DEF lines
  <2>2. \A a \in DOMAIN lines : lines[a] \in Entries(n)
    BY <2>1
  <2> QED
    BY <1>2, <2>1, <2>2, EntryIs
<1>6. ~Several => DOMAIN lines = {}
  <2> SUFFICES ASSUME ~Several, NEW a \in DOMAIN lines PROVE FALSE
    OBVIOUS
  <2>1. Len(g_sLines) = 0
    BY <1>2
  <2> QED
    BY <1>3, <2>1 DEF FromFirst, lines
<1>7. Several => \A i \in DOMAIN out : out[i].file = n => out[i].line = 0
  BY <1>2 DEF Printed
<1>8. Ordered(out \o lines)
  <2>1. \A i \in DOMAIN out : out[i].file = n =>
          \A j \in DOMAIN lines : out[i].line <= lines[j].line
    BY <1>5, <1>6, <1>7
  <2> QED
    BY <1>2, <1>4, <1>5, <2>1, PutBehind
<1>9. /\ Ordered(g_sOutList \o lines)
      /\ \A i \in DOMAIN (g_sOutList \o lines) : (g_sOutList \o lines)[i].file = n
  <2>1. Name(n).file = n /\ Name(n).line = 0
    BY DEF Name
  <2>2. \A i \in DOMAIN g_sOutList : g_sOutList[i].file = n /\ g_sOutList[i].line = 0
    BY <1>2, <2>1
  <2>3. Ordered(g_sOutList)
    BY <2>2 DEF Ordered, Before
  <2>4. Ordered(g_sOutList \o lines)
    <3>1. \A i \in DOMAIN g_sOutList : g_sOutList[i].file = n =>
            \A j \in DOMAIN lines : g_sOutList[i].line <= lines[j].line
      BY <1>5, <2>2
    <3> QED
      BY <1>2, <1>4, <1>5, <2>3, <3>1, PutBehind
  <2>5. \A i \in DOMAIN (g_sOutList \o lines) : (g_sOutList \o lines)[i].file = n
    <3> DEFINE c == g_sOutList \o lines
    <3>1. /\ Len(g_sOutList) \in Nat /\ Len(lines) \in Nat
          /\ DOMAIN c = 1..(Len(g_sOutList) + Len(lines))
          /\ DOMAIN g_sOutList = 1..Len(g_sOutList) /\ DOMAIN lines = 1..Len(lines)
          /\ \A i \in 1..Len(g_sOutList) : c[i] = g_sOutList[i]
          /\ \A i \in (Len(g_sOutList) + 1)..(Len(g_sOutList) + Len(lines)) :
               i - Len(g_sOutList) \in 1..Len(lines) /\ c[i] = lines[i - Len(g_sOutList)]
      BY <1>2, <1>5, ConcatIs
    <3> HIDE DEF c
    <3>2. ASSUME NEW i \in DOMAIN c PROVE c[i].file = n
      <4>1. CASE i \in 1..Len(g_sOutList)
        BY <2>2, <3>1, <4>1
      <4>2. CASE i \in (Len(g_sOutList) + 1)..(Len(g_sOutList) + Len(lines))
        BY <1>4, <3>1, <4>2
      <4> QED
        BY <3>1, <4>1, <4>2
    <3> QED
      BY <3>2 DEF c
  <2> QED
    BY <2>4, <2>5
<1>10. g_ioHold => Ordered(out \o Held)
  <2> SUFFICES ASSUME g_ioHold PROVE Ordered(out \o Held)
    OBVIOUS
  <2>1. Held = g_sOutList \o lines
    BY DEF Held, lines
  <2> DEFINE held == Held
  <2> HIDE DEF held
  <2>2. /\ held \in Seq(Entries(n)) /\ Ordered(held)
        /\ \A i \in DOMAIN held : held[i].file = n
    BY <1>2, <1>9, <2>1, Zenon DEF held
  <2>3. \A i \in DOMAIN held : held[i].line \in Nat
    <3>1. \A i \in DOMAIN held : held[i] \in Entries(n)
      BY <2>2
    <3> QED
      BY <1>2, <3>1, EntryIs
  <2>4. \A i \in DOMAIN out : out[i].file = n =>
          \A j \in DOMAIN held : out[i].line <= held[j].line
    BY <1>2, <1>7, <2>3
  <2>5. Ordered(out \o held)
    BY <1>2, <2>2, <2>4, PutBehind
  <2> QED
    BY <2>5 DEF held
<1>11. Ordered(out')
  <2>1. out' = out \/ out' = out \o LinesOut \/ (g_ioHold /\ out' = out \o Held)
    BY DEF EndFile, EndPrints, EndReleases, EndRejected
  <2> QED
    BY <1>2, <1>8, <1>10, <2>1 DEF lines
<1>12. Kept'
  <2>1. Several' = Several /\ DOMAIN <<>> = {}
    BY DEF Several
  <2>2. g_ioHold' => Several'
    BY <1>1, <1>2, <2>1
  <2> QED
    BY <1>1, <2>1, <2>2 DEF Kept, Ordered
<1> QED
  BY <1>1, <1>11, <1>12 DEF InOrder, Ordered

(* Nothing is printed of a file before it is opened.                       *)
LEMMA NoneOfNext ==
  ASSUME NEW m \in Nat, NEW o \in Seq(Entries(m))
  PROVE  \A i \in DOMAIN o : o[i].file # m + 1
<1> SUFFICES ASSUME NEW i \in DOMAIN o PROVE o[i].file # m + 1
  OBVIOUS
<1>1. o[i] \in Entries(m)
  OBVIOUS
<1>2. o[i].file \in 1..m
  BY <1>1, EntryIs
<1> QED
  BY <1>2

(* A new file is behind all that is printed.                               *)
LEMMA OpenInOrder ==
  ASSUME Typed, InOrder, OpenFile
  PROVE  InOrder'
<1>1. /\ pc = "open" /\ n' = n + 1 /\ n \in Nat /\ out' = out
      /\ g_sLines' = g_sLines /\ g_sOutList' = g_sOutList /\ g_ioHold' = g_ioHold
      /\ out \in Seq(Entries(n))
  BY InputTypes DEF OpenFile, Typed
<1>2. g_sLines = <<>> /\ g_sOutList = <<>> /\ (g_ioHold => Several) /\ Ordered(out)
  BY <1>1 DEF InOrder, Kept
<1>3. \A i \in DOMAIN out : out[i].file # n + 1
  BY <1>1, NoneOfNext
<1>4. Printed(out, n, todo, gfDoneFile \/ sw.noFile)'
  BY <1>1, <1>3 DEF Printed
<1>5. Kept'
  <2>1. DOMAIN <<>> = {} /\ Several' = Several
    BY DEF Several
  <2> QED
    BY <1>1, <1>2, <2>1 DEF Kept, Ordered
<1> QED
  BY <1>1, <1>2, <1>4, <1>5 DEF InOrder, Ordered

LEMMA OrderStep ==
  ASSUME Typed, InOrder, [Next]_vars
  PROVE  InOrder'
<1>1. Typed'
  BY TypeStep
<1>2. CASE HitInhibited
  <2>1. /\ UNCHANGED <<n, pc, gfDoneFile, g_ioHold, g_sLines, g_sOutList, out>>
        /\ sw' = sw /\ todo' \subseteq todo
    BY <1>2 DEF HitInhibited, Hit, inputs
  <2>2. Kept' /\ Ordered(out)'
    BY <2>1 DEF InOrder, Kept, Ordered, Name, Several, Before
  <2>3. pc = "scan" => Printed(out, n, todo, gfDoneFile \/ sw.noFile)'
    BY <2>1 DEF InOrder, Printed, Several
  <2> QED
    BY <2>1, <2>2, <2>3 DEF InOrder
<1>3. CASE UNCHANGED vars
  BY <1>3 DEF InOrder, Kept, Ordered, Printed, Name, Several, Before, vars, inputs
<1> QED
  BY <1>1, <1>2, <1>3, OpenInOrder, HitInOrder, EndInOrder DEF Next

(* Whatever the finds, files, hits and switches, lines are printed in the  *)
(* order of the files and of their lines, though each find is searched for *)
(* after the other, and lines are kept, picked and held back between.      *)
THEOREM OutputInOrder == Spec => []LinesInOrder
<1>1. Init => Typed /\ InOrder
  <2> SUFFICES ASSUME Init PROVE Typed /\ InOrder
    OBVIOUS
  <2>1. DOMAIN <<>> = {}
    OBVIOUS
  <2>2. Ordered(out) /\ Kept
    BY <2>1 DEF Init, Kept, Ordered
  <2> QED
    BY <2>2, TypeInit DEF Init, InOrder
<1>2. Typed /\ InOrder /\ [Next]_vars => (Typed /\ InOrder)'
  BY TypeStep, OrderStep
<1>3. InOrder => LinesInOrder
  BY DEF InOrder, LinesInOrder, Ordered, Before
<1> QED
  BY <1>1, <1>2, <1>3, PTL DEF Spec

-----------------------------------------------------------------------------
(* The names.                                                              *)

(* The lines of the file m, and whether its name is in o.                  *)
Lines(m) == [file : {m}, find : FindNum, line : Nat]
HasName(o, m) == \E i \in DOMAIN o : o[i] = Name(m)

(* No name is in o twice, and none when they are switched off; a line      *)
(* stands behind the name of its file.                                     *)
Headed(o, noFile) ==
  \A i \in DOMAIN o :
    /\ o[i].find = 0 => ~noFile /\ \A j \in DOMAIN o \ {i} : o[j] # o[i]
    /\ o[i].find # 0 => noFile \/ \E j \in 1..(i - 1) : o[j] = Name(o[i].file)

LEMMA LinesAre ==
  ASSUME NEW m \in Nat \ {0}
  PROVE  /\ Lines(m) \subseteq Entries(m)
         /\ \A e \in Lines(m) : e.file = m /\ e.find # 0
         /\ Name(m) \in Entries(m) /\ Name(m).file = m /\ Name(m).find = 0
<1>1. FindCount \in Nat /\ FindNum = 1..FindCount
  BY CountAssumption DEF FindNum
<1> QED
  BY <1>1 DEF Lines, Entries, Name

(* The name of a file put behind what is printed of others.                *)
LEMMA HeadName ==
  ASSUME NEW m \in Nat \ {0}, NEW o \in Seq(Entries(m)), NEW noFile, Headed(o, noFile),
         ~noFile, \A i \in DOMAIN o : o[i].file # m
  PROVE  /\ o \o <<Name(m)>> \in Seq(Entries(m))
         /\ Headed(o \o <<Name(m)>>, noFile) /\ HasName(o \o <<Name(m)>>, m)
<1> DEFINE c == o \o <<Name(m)>>
<1>1. Name(m) \in Entries(m) /\ Name(m).file = m /\ Name(m).find = 0
  BY LinesAre
<1>2. /\ c \in Seq(Entries(m)) /\ DOMAIN c = 1..(Len(o) + 1) /\ Len(o) \in Nat
      /\ c[Len(o) + 1] = Name(m) /\ DOMAIN o = 1..Len(o)
      /\ \A i \in 1..Len(o) : c[i] = o[i]
  BY <1>1, AppendEntry
<1> HIDE DEF c
<1>3. ASSUME NEW i \in DOMAIN c, c[i].find = 0, NEW j \in DOMAIN c \ {i}
      PROVE  c[j] # c[i]
  <2>1. CASE i \in DOMAIN o /\ j \in DOMAIN o
    BY <1>2, <1>3, <2>1 DEF Headed
  <2>2. CASE i \in DOMAIN o /\ j = Len(o) + 1
    BY <1>1, <1>2, <2>2
  <2>3. CASE i = Len(o) + 1 /\ j \in DOMAIN o
    BY <1>1, <1>2, <2>3
  <2> QED
    BY <1>2, <2>1, <2>2, <2>3
<1>4. ASSUME NEW i \in DOMAIN c, c[i].find # 0
      PROVE  \E j \in 1..(i - 1) : c[j] = Name(c[i].file)
  <2>1. i \in DOMAIN o /\ c[i] = o[i]
    BY <1>1, <1>2, <1>4
  <2>2. PICK j \in 1..(i - 1) : o[j] = Name(o[i].file)
    BY <1>4, <2>1 DEF Headed
  <2>3. j \in 1..Len(o)
    BY <1>2, <2>1
  <2> QED
    BY <1>2, <2>1, <2>2, <2>3
<1>5. Headed(c, noFile)
  BY <1>3, <1>4 DEF Headed
<1>6. HasName(c, m)
  <2>1. Len(o) + 1 \in DOMAIN c
    BY <1>2
  <2> QED
    BY <1>2, <2>1 DEF HasName
<1> QED
  BY <1>2, <1>5, <1>6 DEF c

(* Lines of a file put behind its name, or when names are switched off.    *)
LEMMA HeadLines ==
  ASSUME NEW m \in Nat \ {0}, NEW o \in Seq(Entries(m)), NEW noFile, Headed(o, noFile),
         NEW b \in Seq(Lines(m)), b # <<>> => noFile \/ HasName(o, m)
  PROVE  /\ Headed(o \o b, noFile)
         /\ HasName(o, m) => HasName(o \o b, m)
<1> DEFINE c == o \o b
<1>1. b \in Seq(Entries(m))
  <2>1. \A e \in Lines(m) : e \in Entries(m)
    BY LinesAre
  <2>2. \A i \in 1..Len(b) : b[i] \in Entries(m)
    BY <2>1
  <2> QED
    BY <2>2
<1>2. /\ Len(o) \in Nat /\ Len(b) \in Nat /\ DOMAIN c = 1..(Len(o) + Len(b))
      /\ DOMAIN o = 1..Len(o) /\ DOMAIN b = 1..Len(b)
      /\ \A i \in 1..Len(o) : c[i] = o[i]
      /\ \A i \in (Len(o) + 1)..(Len(o) + Len(b)) :
           i - Len(o) \in 1..Len(b) /\ c[i] = b[i - Len(o)]
  BY <1>1, ConcatIs
<1>3. \A i \in DOMAIN b : b[i].file = m /\ b[i].find # 0
  <2>1. \A i \in DOMAIN b : b[i] \in Lines(m)
    OBVIOUS
  <2> QED
    BY <2>1, LinesAre
<1>4. DOMAIN b # {} => b # <<>>
  OBVIOUS
<1> HIDE DEF c
<1>5. \A i \in DOMAIN c : c[i].find = 0 => i \in DOMAIN o
  BY <1>2, <1>3
<1>6. ASSUME NEW i \in DOMAIN c, c[i].find = 0
      PROVE  ~noFile /\ \A j \in DOMAIN c \ {i} : c[j] # c[i]
  <2>1. i \in DOMAIN o /\ c[i] = o[i]
    BY <1>2, <1>5, <1>6
  <2>2. ~noFile /\ \A j \in DOMAIN o \ {i} : o[j] # o[i]
    BY <1>6, <2>1 DEF Headed
  <2>3. ASSUME NEW j \in DOMAIN c \ {i}, c[j] = c[i] PROVE FALSE
    <3>1. j \in DOMAIN o /\ c[j] = o[j]
      BY <1>2, <1>5, <1>6, <2>3
    <3> QED
      BY <2>1, <2>2, <2>3, <3>1
  <2> QED
    BY <2>2, <2>3
<1>7. ASSUME NEW i \in DOMAIN c, c[i].find # 0, ~noFile
      PROVE  \E j \in 1..(i - 1) : c[j] = Name(c[i].file)
  <2>1. CASE i \in DOMAIN o
    <3>1. PICK j \in 1..(i - 1) : o[j] = Name(o[i].file)
      BY <1>2, <1>7, <2>1 DEF Headed
    <3>2. j \in 1..Len(o)
      BY <1>2, <2>1
    <3> QED
      BY <1>2, <2>1, <3>1, <3>2
  <2>2. CASE i \notin DOMAIN o
    <3>1. i \in (Len(o) + 1)..(Len(o) + Len(b))
      BY <1>2, <2>2
    <3>2. c[i].file = m /\ DOMAIN b # {}
      BY <1>2, <1>3, <3>1
    <3>3. PICK j \in DOMAIN o : o[j] = Name(m)
      BY <1>4, <1>7, <3>2 DEF HasName
    <3>4. j \in 1..(i - 1) /\ c[j] = o[j]
      BY <1>2, <3>1
    <3> QED
      BY <3>2, <3>3, <3>4
  <2> QED
    BY <2>1, <2>2
<1>8. Headed(c, noFile)
  BY <1>6, <1>7 DEF Headed
<1>9. HasName(o, m) => HasName(c, m)
  <2> SUFFICES ASSUME NEW j \in DOMAIN o, o[j] = Name(m) PROVE HasName(c, m)
    BY DEF HasName
  <2>1. j \in DOMAIN c /\ c[j] = o[j]
    BY <1>2
  <2> QED
    BY <2>1 DEF HasName
<1> QED
  BY <1>8, <1>9 DEF c

(* Under -F:1 with several finds all of a file is held back until it ends. *)
HoldsBack == sw.allIn1 /\ Several

Heading ==
  /\ Headed(out, sw.noFile)
  /\ pc = "scan" => n # 0
  /\ gfDoneFile => ~sw.noFile
  /\ g_ioHold => HoldsBack
  /\ g_sLines \in Seq(Lines(n))
  /\ g_sLines # <<>> => (gfDoneFile \/ sw.noFile) /\ (HoldsBack => g_ioHold)
  /\ pc = "scan" /\ HoldsBack =>
       /\ \A i \in DOMAIN out : out[i].file # n
       /\ g_sOutList = IF gfDoneFile THEN <<Name(n)>> ELSE <<>>
  /\ pc = "scan" /\ ~HoldsBack /\ gfDoneFile => HasName(out, n)

(* ShowLine puts the name before the first line of the file.               *)
LEMMA HitHeaded ==
  ASSUME Typed, InOrder, Heading, HitShown
  PROVE  Heading'
<1>1. /\ pc = "scan" /\ pc' = "scan" /\ n' = n /\ sw' = sw /\ todo # {}
      /\ HoldsBack' = HoldsBack
  BY DEF HitShown, Hit, inputs, HoldsBack, Several
<1>2. n \in Nat \ {0} /\ ThisHit[1] \in FindNum /\ ThisHit[2] \in Nat
  BY <1>1, ThisHitIs, InputTypes
<1> DEFINE e == Item(n, ThisHit)
           b == IF sw.lines /\ ~Several THEN <<e>> ELSE <<>>
<1>3. e \in Lines(n)
  <2> HIDE DEF ThisHit
  <2> QED
    BY <1>2 DEF Item, Lines
<1> HIDE DEF e
<1>4. /\ out \in Seq(Entries(n)) /\ Headed(out, sw.noFile) /\ g_sLines \in Seq(Lines(n))
      /\ (gfDoneFile => ~sw.noFile) /\ (g_ioHold => HoldsBack)
  BY DEF Typed, Heading
<1>5. Holds = HoldsBack
  BY <1>4, Zenon DEF Holds, HoldsBack
<1>6. (gfDoneFile' => ~sw.noFile) /\ (gfDoneFile' \/ sw.noFile)
  BY <1>4 DEF HitShown, DoOutFileName
<1>7. g_ioHold' = HoldsBack
  BY <1>5 DEF HitShown
<1>8. g_sLines' \in Seq(Lines(n))
  BY <1>3, <1>4, InsertLineType DEF HitShown, e
<1>9. out' = (out \o NamePrinted) \o b
  BY DEF HitShown, e
<1>10. CASE HoldsBack
  <2>1. out' = out
    <3>1. NamePrinted = <<>> /\ b = <<>>
      BY <1>5, <1>10 DEF NamePrinted, HoldsBack
    <3> QED
      BY <1>4, <1>9, <3>1
  <2>2. /\ \A i \in DOMAIN out : out[i].file # n
        /\ g_sOutList = IF gfDoneFile THEN <<Name(n)>> ELSE <<>>
    BY <1>1, <1>10 DEF Heading
  <2>3. g_sOutList' = IF gfDoneFile' THEN <<Name(n)>> ELSE <<>>
    <3>1. CASE gfDoneFile
      BY <2>2, <3>1 DEF HitShown, DoOutFileName
    <3>2. CASE ~gfDoneFile /\ sw.noFile
      BY <2>2, <3>2 DEF HitShown, DoOutFileName
    <3>3. CASE ~gfDoneFile /\ ~sw.noFile
      <4>1. Append(<<>>, Name(n)) = <<Name(n)>>
        OBVIOUS
      <4> QED
        BY <1>5, <1>10, <2>2, <3>3, <4>1 DEF HitShown, DoOutFileName
    <3> QED
      BY <3>1, <3>2, <3>3
  <2> QED
    BY <1>1, <1>4, <1>6, <1>7, <1>8, <1>10, <2>1, <2>2, <2>3 DEF Heading, Name, Lines, FindNum
<1>11. CASE ~HoldsBack
  <2> DEFINE o == out \o NamePrinted
  <2>1. /\ o \in Seq(Entries(n)) /\ Headed(o, sw.noFile)
        /\ ~sw.noFile => HasName(o, n)
    <3>1. CASE gfDoneFile \/ sw.noFile
      <4>1. o = out
        BY <1>4, <3>1 DEF NamePrinted
      <4>2. ~sw.noFile => HasName(out, n)
        BY <1>1, <1>11, <3>1 DEF Heading
      <4> QED
        BY <1>4, <4>1, <4>2
    <3>2. CASE ~gfDoneFile /\ ~sw.noFile
      <4>1. o = out \o <<Name(n)>>
        BY <1>5, <1>11, <3>2 DEF NamePrinted
      <4>2. \A i \in DOMAIN out : out[i].file # n
        BY <1>1, <3>2 DEF InOrder, Printed
      <4> QED
        BY <1>2, <1>4, <3>2, <4>1, <4>2, HeadName
    <3> QED
      BY <3>1, <3>2
  <2>2. b \in Seq(Lines(n))
    BY <1>3
  <2> HIDE DEF o, b
  <2>3. Headed(o \o b, sw.noFile) /\ (HasName(o, n) => HasName(o \o b, n))
    <3>1. b # <<>> => sw.noFile \/ HasName(o, n)
      BY <2>1
    <3> QED
      BY <1>2, <2>1, <2>2, <3>1, HeadLines
  <2>4. Headed(out', sw.noFile) /\ (~sw.noFile => HasName(out', n))
    BY <1>9, <2>1, <2>3 DEF o, b
  <2> QED
    BY <1>1, <1>4, <1>6, <1>7, <1>8, <1>11, <2>4
    DEF Heading, HasName, Name, Lines, FindNum
<1> QED
  BY <1>10, <1>11

(* The lines kept come out behind the name, printed or held back.          *)
LEMMA EndHeaded ==
  ASSUME Typed, InOrder, Heading, EndFile
  PROVE  Heading'
<1>1. /\ pc = "scan" /\ pc' \in {"open", "done"} /\ n' = n /\ sw' = sw
      /\ g_ioHold' = g_ioHold /\ gfDoneFile' = gfDoneFile
      /\ g_sLines' = <<>> /\ HoldsBack' = HoldsBack
  BY DEF EndFile, EndPrints, EndReleases, EndRejected, EndScan, Frame, inputs,
         HoldsBack, Several
<1>2. /\ out \in Seq(Entries(n)) /\ Headed(out, sw.noFile) /\ g_sLines \in Seq(Lines(n))
      /\ (gfDoneFile => ~sw.noFile) /\ (g_ioHold => HoldsBack)
      /\ (g_sLines # <<>> => (gfDoneFile \/ sw.noFile) /\ (HoldsBack => g_ioHold))
  BY DEF Typed, Heading
<1>3. n \in Nat \ {0}
  BY <1>1, InputTypes DEF Heading
<1> DEFINE b == LinesOut
<1> HIDE DEF b
<1>4. b \in Seq(Lines(n)) /\ (b # <<>> => g_sLines # <<>>)
  <2>1. b \in Seq(Lines(n)) /\ FromFirst(b, g_sLines, Len(g_sLines))
    BY <1>2, PickedIs DEF b, LinesOut
  <2>2. ASSUME g_sLines = <<>> PROVE b = <<>>
    <3>1. Len(g_sLines) = 0
      BY <2>2
    <3>2. DOMAIN b = {}
      BY <2>1, <3>1 DEF FromFirst
    <3> QED
      BY <2>1, <3>2
  <2> QED
    BY <2>1, <2>2
<1>5. Headed(out', sw.noFile)
  <2>1. CASE EndPrints
    <3>1. out' = out \o b /\ ~g_ioHold
      BY <2>1 DEF EndPrints, b
    <3>2. b # <<>> => sw.noFile \/ HasName(out, n)
      BY <1>1, <1>2, <1>4, <3>1 DEF Heading
    <3>3. Headed(out \o b, sw.noFile)
      BY <1>2, <1>3, <1>4, <3>2, HeadLines
    <3> QED
      BY <3>1, <3>3
  <2>2. CASE EndReleases
    <3>1. out' = out \o (g_sOutList \o b) /\ HoldsBack
      BY <1>2, <2>2 DEF EndReleases, Held, b
    <3>2. /\ \A i \in DOMAIN out : out[i].file # n
          /\ g_sOutList = IF gfDoneFile THEN <<Name(n)>> ELSE <<>>
      BY <1>1, <3>1 DEF Heading
    <3> DEFINE o == out \o g_sOutList
    <3>3. /\ o \in Seq(Entries(n)) /\ Headed(o, sw.noFile)
          /\ gfDoneFile => HasName(o, n)
      <4>1. CASE gfDoneFile
        <5>1. o = out \o <<Name(n)>>
          BY <3>2, <4>1
        <5> QED
          BY <1>2, <1>3, <3>2, <4>1, <5>1, HeadName
      <4>2. CASE ~gfDoneFile
        <5>1. o = out
          BY <1>2, <3>2, <4>2
        <5> QED
          BY <1>2, <4>2, <5>1
      <4> QED
        BY <4>1, <4>2
    <3> HIDE DEF o
    <3>4. b # <<>> => sw.noFile \/ HasName(o, n)
      BY <1>2, <1>4, <3>3
    <3>5. Headed(o \o b, sw.noFile)
      BY <1>3, <1>4, <3>3, <3>4, HeadLines
    <3>6. out' = o \o b
      <4>1. b \in Seq(Entries(n)) /\ g_sOutList \in Seq(Entries(n))
        BY HeldTypes DEF b, Typed
      <4>2. out \o (g_sOutList \o b) = (out \o g_sOutList) \o b
        BY <1>2, <4>1, ConcatAssociative
      <4> QED
        BY <3>1, <4>2 DEF o
    <3> QED
      BY <3>5, <3>6
  <2>3. CASE EndRejected
    BY <1>2, <2>3 DEF EndRejected
  <2> QED
    BY <2>1, <2>2, <2>3 DEF EndFile
<1>6. g_sLines' \in Seq(Lines(n'))
  BY <1>1
<1> QED
  BY <1>1, <1>2, <1>5, <1>6 DEF Heading

LEMMA HeadingStep ==
  ASSUME Typed, InOrder, Heading, [Next]_vars
  PROVE  Heading'
<1>1. CASE OpenFile
  <2>1. /\ pc = "open" /\ n' = n + 1 /\ n \in Nat /\ out' = out /\ sw' = sw
        /\ g_sLines' = g_sLines /\ g_sOutList' = g_sOutList /\ g_ioHold' = g_ioHold
        /\ gfDoneFile' = FALSE /\ out \in Seq(Entries(n)) /\ HoldsBack' = HoldsBack
    BY <1>1, InputTypes DEF OpenFile, Typed, inputs, HoldsBack, Several
  <2>2. g_sLines = <<>> /\ g_sOutList = <<>>
    BY <2>1 DEF InOrder, Kept
  <2>3. \A i \in DOMAIN out : out[i].file # n'
    BY <2>1, NoneOfNext
  <2>4. g_sLines' \in Seq(Lines(n'))
    BY <2>1, <2>2
  <2>5. n' # 0
    BY <2>1
  <2> QED
    BY <2>1, <2>2, <2>3, <2>4, <2>5 DEF Heading
<1>2. CASE HitInhibited
  BY <1>2 DEF HitInhibited, Hit, inputs, Heading, HoldsBack, Several, HasName, Name,
              Lines, Headed
<1>3. CASE UNCHANGED vars
  BY <1>3 DEF vars, inputs, Heading, HoldsBack, Several, HasName, Name, Lines, Headed
<1> QED
  BY <1>1, <1>2, <1>3, HitHeaded, EndHeaded DEF Next

(* In order, a line behind the name of its file has only lines of that     *)
(* file between.                                                           *)
LEMMA HeadedIs ==
  ASSUME Typed, Ordered(out), Headed(out, sw.noFile)
  PROVE  NamesHeadLines
<1>1. out \in Seq(Entries(n)) /\ n \in Nat
  BY InputTypes DEF Typed
<1>2. DOMAIN out = 1..Len(out) /\ Len(out) \in Nat
  BY <1>1
<1>3. \A i \in DOMAIN out : out[i].file \in Nat
  <2>1. \A i \in DOMAIN out : out[i] \in Entries(n)
    BY <1>1
  <2>2. \A f \in 1..n : f \in Nat
    BY <1>1
  <2> QED
    BY <1>1, <2>1, <2>2, EntryIs
<1>4. ASSUME NEW i \in DOMAIN out, out[i].find # 0, ~sw.noFile
      PROVE  \E j \in 1..(i - 1) :
               out[j] = Name(out[i].file) /\ \A l \in j..i : out[l].file = out[i].file
  <2>1. PICK j \in 1..(i - 1) : out[j] = Name(out[i].file)
    BY <1>4 DEF Headed
  <2>2. out[j].file = out[i].file
    BY <2>1 DEF Name
  <2>3. ASSUME NEW l \in j..i PROVE out[l].file = out[i].file
    <3>1. j \in DOMAIN out /\ l \in DOMAIN out /\ (l = j \/ j < l) /\ (l = i \/ l < i)
      BY <1>2
    <3>2. out[j].file <= out[l].file /\ out[l].file <= out[i].file
      <4>1. l = j \/ Before(out[j], out[l])
        BY <3>1 DEF Ordered
      <4>2. l = i \/ Before(out[l], out[i])
        BY <3>1 DEF Ordered
      <4> QED
        BY <1>3, <3>1, <4>1, <4>2 DEF Before
    <3> QED
      BY <1>3, <2>2, <3>1, <3>2
  <2> QED
    BY <2>1, <2>3
<1> QED
  BY <1>4 DEF NamesHeadLines, Headed

(* Whatever the finds, files, hits and switches, each line is printed      *)
(* under the name of its file, and no name is printed twice, whether lines *)
(* are printed at once, kept to the end of the file, or held back with the *)
(* name for -F:1.                                                          *)
THEOREM LinesUnderNames == Spec => []NamesHeadLines
<1>1. Init => Typed /\ InOrder /\ Heading
  <2> SUFFICES ASSUME Init PROVE Typed /\ InOrder /\ Heading
    OBVIOUS
  <2>1. DOMAIN <<>> = {} /\ <<>> \in Seq(Lines(n))
    OBVIOUS
  <2>2. Ordered(out) /\ Kept
    BY <2>1 DEF Init, Kept, Ordered
  <2>3. Heading
    BY <2>1 DEF Init, Heading, Headed
  <2> QED
    BY <2>2, <2>3, TypeInit DEF Init, InOrder
<1>2. Typed /\ InOrder /\ Heading /\ [Next]_vars => (Typed /\ InOrder /\ Heading)'
  BY TypeStep, OrderStep, HeadingStep
<1>3. Typed /\ InOrder /\ Heading => NamesHeadLines
  BY HeadedIs DEF InOrder, Heading
<1> QED
  BY <1>1, <1>2, <1>3, PTL DEF Spec
-----------------------------------------------------------------------------
(* How many finds.                                                         *)

(* The pairs of a file and a find of it, not inhibited, that were met.     *)
Seen == (UNION {{m} \X Free(m) : m \in 1..n}) \ ({n} \X todo)

(* The hits of a pattern, inhibited or not, that were met.                 *)
Matched ==
  IF n = 0 \/ sw.skip THEN {} ELSE {h \in hits[1] : isregex[h[1]] /\ (n = 1 => h \notin todo)}

Counting ==
  /\ pc = "done" => n = Len(hits)
  /\ pc # "scan" => todo = {}
  /\ IsFiniteSet(Seen) /\ IsFiniteSet(Matched)
  /\ gdwFinds + Cardinality(Matched) = gdwFindsOut + Cardinality(Seen)

(* What was met, pair by pair.                                             *)
LEMMA SeenIs ==
  ASSUME NEW p
  PROVE  p \in Seen <=> \E m \in 1..n : \E h \in Free(m) : p = <<m, h>> /\ (m = n => h \notin todo)
BY DEF Seen

(* A hit that is inhibited adds nothing, any other adds itself.            *)
LEMMA HitSeen ==
  ASSUME Typed, Hit
  PROVE  Seen' = IF IsInhibited THEN Seen ELSE Seen \cup {<<n, ThisHit>>}
<1>1. /\ n' = n /\ hits' = hits /\ todo' = todo \ {ThisHit} /\ ThisHit \in todo
      /\ n \in 1..n /\ todo \subseteq hits[n]
  <2>1. todo # {}
    BY DEF Hit
  <2>2. n \in 1..Len(hits) /\ ThisHit \in todo
    BY <2>1, ThisHitIs
  <2> QED
    BY <2>2, InputTypes DEF Hit, inputs, Typed
<1> DEFINE t == ThisHit
<1>2. t \in Free(n) <=> ~IsInhibited
  BY <1>1 DEF Free, IsInhibited
<1> HIDE DEF t
<1>3. /\ n' = n /\ \A m : Free(m)' = Free(m)
      /\ todo' = todo \ {t} /\ t \in todo
  BY <1>1 DEF Free, t
<1>4. ASSUME NEW p
      PROVE  p \in Seen' <=> p \in Seen \/ (p = <<n, t>> /\ ~IsInhibited)
  <2>1. p \in Seen' <=> \E m \in 1..n : \E h \in Free(m) : p = <<m, h>> /\ (m = n => h \notin todo \ {t})
    BY <1>3 DEF Seen
  <2> QED
    BY <1>1, <1>2, <1>3, <2>1, SeenIs
<1> QED
  BY <1>4 DEF t

(* A hit that a pattern has matched adds itself to those and is not        *)
(* counted; any other is.                                                  *)
LEMMA HitMatched ==
  ASSUME Typed, Hit, IsFiniteSet(Matched)
  PROVE  /\ IsFiniteSet(Matched') /\ Cardinality(Matched) \in Nat
         /\ gdwFinds' + Cardinality(Matched') = gdwFinds + Cardinality(Matched) + 1
<1>1. /\ n' = n /\ hits' = hits /\ todo' = todo \ {ThisHit} /\ ThisHit \in todo
      /\ isregex' = isregex /\ sw' = sw /\ n \in 1..Len(hits) /\ todo \subseteq hits[n]
      /\ gdwFinds' = IF DoRegex(ThisHit[1]) THEN gdwFinds ELSE gdwFinds + 1
  <2>1. todo # {}
    BY DEF Hit
  <2>2. n \in 1..Len(hits) /\ ThisHit \in todo
    BY <2>1, ThisHitIs
  <2> QED
    BY <2>2, InputTypes DEF Hit, inputs, Typed
<1> DEFINE t == ThisHit
<1> HIDE DEF t
<1>2. /\ n' = n /\ hits' = hits /\ todo' = todo \ {t} /\ t \in todo
      /\ isregex' = isregex /\ sw' = sw /\ n \in Nat \ {0} /\ todo \subseteq hits[n]
      /\ gdwFinds' = IF DoRegex(t[1]) THEN gdwFinds ELSE gdwFinds + 1
  BY <1>1, InputTypes DEF t
<1>3. gdwFinds \in Nat
  BY DEF Typed
<1>4. Cardinality(Matched) \in Nat
  BY FS_CardinalityType
<1>5. CASE DoRegex(t[1])
  <2>1. n = 1 /\ ~sw.skip /\ isregex[t[1]] /\ t \in hits[1]
    BY <1>2, <1>5 DEF DoRegex
  <2>2. Matched' = Matched \cup {t} /\ t \notin Matched
    BY <1>2, <2>1 DEF Matched
  <2>3. IsFiniteSet(Matched') /\ Cardinality(Matched') = Cardinality(Matched) + 1
    BY <2>2, FS_AddElement
  <2> QED
    BY <1>2, <1>3, <1>4, <1>5, <2>3
<1>6. CASE ~DoRegex(t[1])
  <2>1. Matched' = Matched
    <3>1. CASE n = 1 /\ ~sw.skip
      <4>1. ~isregex[t[1]]
        BY <1>6, <3>1 DEF DoRegex
      <4> QED
        BY <1>2, <3>1, <4>1 DEF Matched
    <3>2. CASE ~(n = 1 /\ ~sw.skip)
      BY <1>2, <3>2 DEF Matched
    <3> QED
      BY <3>1, <3>2
  <2> QED
    BY <1>2, <1>3, <1>4, <1>6, <2>1
<1> QED
  BY <1>5, <1>6

LEMMA CountingStep ==
  ASSUME Typed, Counting, [Next]_vars
  PROVE  Counting'
<1>1. n \in Nat /\ Len(hits) \in Nat /\ gdwFinds \in Nat /\ gdwFindsOut \in Nat
  BY InputTypes DEF Typed
<1>7. /\ Cardinality(Seen) \in Nat /\ IsFiniteSet(Seen) /\ IsFiniteSet(Matched)
      /\ gdwFinds + Cardinality(Matched) = gdwFindsOut + Cardinality(Seen)
      /\ Cardinality(Matched) \in Nat
  BY FS_CardinalityType DEF Counting
<1>2. CASE OpenFile
  <2>1. /\ n' = n + 1 /\ hits' = hits /\ todo' = hits[n + 1] /\ pc' = "scan" /\ todo = {}
        /\ gdwFinds' = gdwFinds /\ gdwFindsOut' = gdwFindsOut
        /\ isregex' = isregex /\ sw' = sw
    BY <1>2 DEF OpenFile, Counting, inputs
  <2>2. Seen' = Seen
    <3>1. ASSUME NEW p PROVE p \in Seen' <=> p \in Seen
      <4>1. p \in Seen' <=> \E m \in 1..(n + 1) : \E h \in Free(m) :
                              p = <<m, h>> /\ (m = n + 1 => h \notin hits[n + 1])
        <5>1. \A m : Free(m)' = Free(m)
          BY <2>1 DEF Free
        <5> QED
          BY <2>1, <5>1 DEF Seen
      <4>2. \A h \in Free(n + 1) : h \in hits[n + 1]
        BY DEF Free
      <4>3. 1..(n + 1) = 1..n \cup {n + 1} /\ n + 1 \notin 1..n
        BY <1>1
      <4> QED
        BY <2>1, <4>1, <4>2, <4>3, SeenIs
    <3> QED
      BY <3>1
  <2>3. Matched' = Matched
    <3>1. CASE n = 0
      BY <2>1, <3>1 DEF Matched
    <3>2. CASE n # 0
      <4>1. n + 1 # 0 /\ n + 1 # 1
        BY <1>1, <3>2
      <4> QED
        BY <2>1, <3>2, <4>1 DEF Matched
    <3> QED
      BY <3>1, <3>2
  <2> QED
    BY <1>7, <2>1, <2>2, <2>3 DEF Counting
<1>3. CASE HitInhibited
  <2>1. Hit /\ IsInhibited /\ gdwFindsOut' = gdwFindsOut + 1
    BY <1>3 DEF HitInhibited
  <2>2. Seen' = Seen /\ pc = "scan" /\ pc' = pc /\ gdwFinds' \in Nat
    BY <1>1, <2>1, HitSeen DEF Hit
  <2>3. /\ IsFiniteSet(Matched') /\ Cardinality(Matched') \in Nat
        /\ gdwFinds' + Cardinality(Matched') = gdwFinds + Cardinality(Matched) + 1
    BY <1>7, <2>1, HitMatched, FS_CardinalityType
  <2>4. Cardinality(Seen') = Cardinality(Seen)
    BY <2>2
  <2>5. gdwFinds' + Cardinality(Matched') = gdwFindsOut' + Cardinality(Seen')
    BY <1>1, <1>7, <2>1, <2>3, <2>4
  <2> QED
    BY <1>7, <2>2, <2>3, <2>5 DEF Counting
<1>4. CASE HitShown
  <2>1. Hit /\ ~IsInhibited /\ gdwFindsOut' = gdwFindsOut
    BY <1>4 DEF HitShown
  <2>2. /\ Seen' = Seen \cup {<<n, ThisHit>>} /\ gdwFinds' \in Nat
        /\ pc = "scan" /\ pc' = pc /\ todo # {}
    BY <1>1, <2>1, HitSeen DEF Hit
  <2>3. <<n, ThisHit>> \notin Seen
    <3>1. ThisHit \in todo
      BY <2>2, ThisHitIs
    <3> HIDE DEF ThisHit
    <3> QED
      BY <3>1 DEF Seen
  <2>4. IsFiniteSet(Seen') /\ Cardinality(Seen') = Cardinality(Seen) + 1
    <3> HIDE DEF Seen, ThisHit
    <3> QED
      BY <1>7, <2>2, <2>3, FS_AddElement
  <2>5. /\ IsFiniteSet(Matched') /\ Cardinality(Matched') \in Nat
        /\ gdwFinds' + Cardinality(Matched') = gdwFinds + Cardinality(Matched) + 1
    BY <1>7, <2>1, HitMatched, FS_CardinalityType
  <2>6. gdwFinds' + Cardinality(Matched') = gdwFindsOut' + Cardinality(Seen')
    BY <1>1, <1>7, <2>1, <2>4, <2>5
  <2> QED
    BY <2>2, <2>4, <2>5, <2>6 DEF Counting
<1>5. CASE EndFile
  <2>1. /\ pc = "scan" /\ pc' = (IF n < Len(hits) THEN "open" ELSE "done") /\ todo = {}
        /\ UNCHANGED <<inputs, n, todo, gdwFinds, gdwFindsOut>>
    BY <1>5 DEF EndFile, EndPrints, EndReleases, EndRejected, EndScan, Frame
  <2>2. Seen' = Seen /\ Matched' = Matched
    BY <2>1 DEF Seen, Matched, Free, inputs
  <2>3. pc' = "done" => n = Len(hits)
    BY <1>1, <2>1 DEF Typed
  <2> QED
    BY <2>1, <2>2, <2>3 DEF Counting, inputs
<1>6. CASE UNCHANGED vars
  BY <1>6 DEF Counting, Seen, Matched, Free, vars, inputs, counts
<1> QED
  BY <1>2, <1>3, <1>4, <1>5, <1>6 DEF Next

(* For any hits of any finds, texts or patterns, in any number of files:   *)
(* when all is searched the exit code is the number of the finds that are  *)
(* not inhibited, typed, kept back or shown, less the lines that a pattern *)
(* has matched; without patterns, just the number of the finds.            *)
THEOREM ExitRight == Spec => []ExitTellsFinds
<1>1. Init => Typed /\ Counting
  <2> SUFFICES ASSUME Init PROVE Counting
    BY TypeInit
  <2>1. Seen = {} /\ Matched = {} /\ gdwFinds = 0 /\ gdwFindsOut = 0
    BY DEF Init, Seen, Matched
  <2> QED
    BY <2>1, FS_EmptySet DEF Init, Counting
<1>2. Typed /\ Counting /\ [Next]_vars => (Typed /\ Counting)'
  BY TypeStep, CountingStep
<1>3. Typed /\ Counting => ExitTellsFinds
  <2> SUFFICES ASSUME Typed, Counting, pc = "done" PROVE ExitTellsFinds
    BY DEF ExitTellsFinds
  <2>1. n = Len(hits) /\ todo = {} /\ DOMAIN hits = 1..Len(hits)
    BY InputTypes DEF Counting
  <2>2. Seen = UNION {{m} \X Free(m) : m \in DOMAIN hits}
    BY <2>1 DEF Seen
  <2>3. Matched = MatchedHits
    <3>1. hits = <<>> <=> n = 0
      BY <2>1, InputTypes, HitsAssumption DEF Typed
    <3> QED
      BY <2>1, <3>1 DEF Matched, MatchedHits
  <2>4. \A a, b, c, d \in Nat : a + b = c + d => a - c = d - b
    OBVIOUS
  <2>5. /\ gdwFinds \in Nat /\ gdwFindsOut \in Nat
        /\ Cardinality(Seen) \in Nat /\ Cardinality(Matched) \in Nat
        /\ gdwFinds + Cardinality(Matched) = gdwFindsOut + Cardinality(Seen)
    BY FS_CardinalityType DEF Counting, Typed
  <2>6. gdwFinds - gdwFindsOut = Cardinality(Seen) - Cardinality(Matched)
    BY <2>4, <2>5
  <2> QED
    BY <2>2, <2>3, <2>6, Zenon DEF ExitTellsFinds
<1> QED
  BY <1>1, <1>2, <1>3, PTL DEF Spec
-----------------------------------------------------------------------------
(* Which lines ShowFLines leaves.                                          *)

HasEntry(o, e) == \E i \in DOMAIN o : o[i] = e

LEMMA ConcatHas ==
  ASSUME NEW S, NEW s \in Seq(S), NEW b \in Seq(S), NEW e
  PROVE  HasEntry(s \o b, e) <=> HasEntry(s, e) \/ HasEntry(b, e)
<1> DEFINE c == s \o b
<1>1. /\ Len(s) \in Nat /\ Len(b) \in Nat /\ DOMAIN c = 1..(Len(s) + Len(b))
      /\ DOMAIN s = 1..Len(s) /\ DOMAIN b = 1..Len(b)
      /\ \A i \in 1..Len(s) : c[i] = s[i]
      /\ \A i \in (Len(s) + 1)..(Len(s) + Len(b)) :
           i - Len(s) \in 1..Len(b) /\ c[i] = b[i - Len(s)]
  BY ConcatIs
<1> HIDE DEF c
<1>2. ASSUME NEW i \in DOMAIN c, c[i] = e PROVE HasEntry(s, e) \/ HasEntry(b, e)
  <2>1. i \in 1..Len(s) \/ i \in (Len(s) + 1)..(Len(s) + Len(b))
    BY <1>1
  <2> QED
    BY <1>1, <1>2, <2>1 DEF HasEntry
<1>3. ASSUME NEW i \in DOMAIN s, s[i] = e PROVE HasEntry(c, e)
  <2>1. i \in DOMAIN c /\ c[i] = s[i]
    BY <1>1
  <2> QED
    BY <1>3, <2>1 DEF HasEntry
<1>4. ASSUME NEW i \in DOMAIN b, b[i] = e PROVE HasEntry(c, e)
  <2> DEFINE j == i + Len(s)
  <2>1. j \in (Len(s) + 1)..(Len(s) + Len(b)) /\ j \in DOMAIN c /\ j - Len(s) = i
    BY <1>1
  <2>2. c[j] = b[i]
    BY <1>1, <2>1
  <2> QED
    BY <1>4, <2>1, <2>2 DEF HasEntry
<1>5. HasEntry(c, e) <=> HasEntry(s, e) \/ HasEntry(b, e)
  BY <1>2, <1>3, <1>4 DEF HasEntry
<1> QED
  BY <1>5 DEF c

(* One entry has itself, none has nothing.                                 *)
LEMMA OneHas ==
  ASSUME NEW e, NEW f
  PROVE  (HasEntry(<<e>>, f) <=> f = e) /\ ~HasEntry(<<>>, f)
BY DEF HasEntry

(* What is picked are the entries of which nothing is left.                *)
LEMMA PickedHas ==
  ASSUME NEW S, NEW s \in Seq(S), NEW t, NEW e
  PROVE  HasEntry(Picked(s, t), e) <=> \E u \in 1..Len(s) : t[u] = 0 /\ s[u] = e
<1>1. PICK f : Picking(f, S, s, t)
  BY PickedSteps
<1>2. Len(s) \in Nat /\ DOMAIN s = 1..Len(s)
  OBVIOUS
<1> DEFINE Good(i) == HasEntry(f[i], e) <=> \E u \in 1..i : t[u] = 0 /\ s[u] = e
           Bad == {i \in 0..Len(s) : ~Good(i)}
<1>3. SUFFICES ASSUME Bad # {} PROVE FALSE
  <2>1. Len(s) \in 0..Len(s)
    BY <1>2
  <2> QED
    BY <1>1, <1>3, <2>1 DEF Picking
<1>4. PICK j \in Bad : \A i \in Bad : j <= i
  <2>1. Bad \in SUBSET Nat
    OBVIOUS
  <2> HIDE DEF Bad
  <2> QED
    BY <1>3, <2>1, Least
<1>5. CASE j = 0
  <2>1. f[0] = <<>> /\ ~HasEntry(<<>>, e) /\ 1..0 = {}
    <3>1. f[0] = <<>>
      BY <1>1 DEF Picking
    <3>2. ~HasEntry(<<>>, e) /\ 1..0 = {}
      BY DEF HasEntry
    <3> QED
      BY <3>1, <3>2
  <2>2. Good(0)
    BY <2>1
  <2> QED
    BY <1>4, <1>5, <2>2
<1>6. CASE j # 0
  <2>1. j \in 1..Len(s) /\ j - 1 \in 0..Len(s) /\ j - 1 \notin Bad
    BY <1>2, <1>4, <1>6
  <2>2. Good(j - 1)
    BY <2>1
  <2>3. f[j] = f[j - 1] \o OneOf(s, t, j) /\ f[j - 1] \in Seq(S)
    BY <1>1, <2>1 DEF Picking
  <2>4. OneOf(s, t, j) \in Seq(S) /\ (HasEntry(OneOf(s, t, j), e) <=> t[j] = 0 /\ s[j] = e)
    BY <1>2, <2>1, OneHas DEF OneOf
  <2>5. HasEntry(f[j], e) <=> HasEntry(f[j - 1], e) \/ (t[j] = 0 /\ s[j] = e)
    BY <2>3, <2>4, ConcatHas
  <2>6. \A u \in 1..j : u = j \/ u \in 1..(j - 1)
    BY <1>2, <2>1
  <2>7. \A u \in 1..(j - 1) : u \in 1..j
    BY <1>2, <2>1
  <2>8. j \in 1..j
    BY <1>2, <2>1
  <2>9. Good(j)
    BY <2>2, <2>5, <2>6, <2>7, <2>8
  <2> QED
    BY <1>4, <2>9
<1> QED
  BY <1>5, <1>6

(* One turn of ShowFLines, on the types t that are left.                   *)
Turn(s, t, i) ==
  IF t[i] = 1 /\ Partners(s, t, i) # {}
  THEN [j \in DOMAIN s |->
          IF j = i \/ (j \in Partners(s, t, i) /\ s[j].line # s[i].line) THEN 0 ELSE t[j]]
  ELSE IF t[i] = 2 /\ SameLine(s, t, i) # {} THEN [t EXCEPT ![i] = 0]
  ELSE t

Given(s) == [j \in DOMAIN s |-> types[s[j].find]]

Turning(f, s) ==
  /\ ShowFLinesTypes(s) = f[Len(s)] /\ f[0] = Given(s)
  /\ \A i \in 0..Len(s) : f[i] \in [DOMAIN s -> 0..2]
  /\ \A i \in 1..Len(s) : f[i] = Turn(s, f[i - 1], i)

LEMMA TurnIs ==
  ASSUME NEW s, NEW t \in [DOMAIN s -> 0..2], NEW i \in DOMAIN s
  PROVE  /\ Turn(s, t, i) \in [DOMAIN s -> 0..2]
         /\ \A j \in DOMAIN s : Turn(s, t, i)[j] \in {0, t[j]}
BY DEF Turn

LEMMA TurnsExist ==
  ASSUME NEW S, NEW s \in Seq(S), Given(s) \in [DOMAIN s -> 0..2]
  PROVE  \E f : Turning(f, s)
<1> DEFINE T == [DOMAIN s -> 0..2]
           step == [x \in T \X (1..Len(s)) |-> Turn(s, x[1], x[2])]
           f == CHOOSE g : g = [i \in 0..Len(s) |->
                                  IF i = 0 THEN Given(s) ELSE Turn(s, g[i - 1], i)]
<1>1. ShowFLinesTypes(s) = f[Len(s)]
  BY DEF ShowFLinesTypes, Turn, Given
<1>2. Len(s) \in Nat /\ DOMAIN s = 1..Len(s)
  OBVIOUS
<1>3. step \in [T \X (1..Len(s)) -> T]
  <2>1. \A t \in T, i \in 1..Len(s) : Turn(s, t, i) \in T
    BY <1>2, TurnIs
  <2> QED
    BY <2>1
<1>4. \A t \in T, i \in 1..Len(s) : step[<<t, i>>] = Turn(s, t, i)
  OBVIOUS
<1> HIDE DEF step
<1>5. PICK g \in [0..Len(s) -> T] : Steps(g, Given(s), step, Len(s))
  <2> HIDE DEF T
  <2>1. Given(s) \in T
    BY DEF T
  <2> QED
    BY <1>2, <1>3, <2>1, StepsExist
<1>6. \A i \in 1..Len(s) : g[i] = Turn(s, g[i - 1], i)
  <2> SUFFICES ASSUME NEW i \in 1..Len(s) PROVE g[i] = Turn(s, g[i - 1], i)
    OBVIOUS
  <2>1. i - 1 \in 0..Len(s)
    BY <1>2
  <2>2. g[i - 1] \in T
    BY <2>1
  <2> HIDE DEF T
  <2> QED
    BY <1>4, <1>5, <2>2 DEF Steps
<1>7. g = [i \in 0..Len(s) |-> IF i = 0 THEN Given(s) ELSE Turn(s, g[i - 1], i)]
  <2>1. \A i \in 0..Len(s) : i # 0 => i \in 1..Len(s)
    BY <1>2
  <2>2. \A i \in 0..Len(s) : g[i] = IF i = 0 THEN Given(s) ELSE Turn(s, g[i - 1], i)
    BY <1>5, <1>6, <2>1 DEF Steps
  <2> QED
    BY <2>2
<1>8. f = [i \in 0..Len(s) |-> IF i = 0 THEN Given(s) ELSE Turn(s, f[i - 1], i)]
  <2>1. \E h : h = [i \in 0..Len(s) |-> IF i = 0 THEN Given(s) ELSE Turn(s, h[i - 1], i)]
    BY <1>7
  <2> QED
    BY <2>1, Zenon
<1> HIDE DEF f
<1>9. f[0] = Given(s) /\ \A i \in 1..Len(s) : f[i] = Turn(s, f[i - 1], i)
  <2>1. \A i \in 1..Len(s) : i # 0 /\ i \in 0..Len(s)
    BY <1>2
  <2>2. 0 \in 0..Len(s)
    BY <1>2
  <2> QED
    BY <1>8, <2>1, <2>2
<1>10. \A i \in 0..Len(s) : f[i] \in T
  <2> DEFINE Bad == {i \in 0..Len(s) : f[i] \notin T}
  <2>1. SUFFICES ASSUME Bad # {} PROVE FALSE
    OBVIOUS
  <2>2. PICK j \in Bad : \A i \in Bad : j <= i
    <3>1. Bad \in SUBSET Nat
      OBVIOUS
    <3> HIDE DEF Bad
    <3> QED
      BY <2>1, <3>1, Least
  <2>3. j # 0
    BY <1>9, <2>2
  <2>4. j \in 1..Len(s) /\ j - 1 \in 0..Len(s) /\ j - 1 \notin Bad
    BY <1>2, <2>2, <2>3
  <2>5. f[j] = Turn(s, f[j - 1], j) /\ f[j - 1] \in T
    BY <1>9, <2>4
  <2>6. f[j] \in T
    <3> DEFINE t == f[j - 1]
    <3>1. t \in [DOMAIN s -> 0..2] /\ j \in DOMAIN s
      BY <1>2, <2>4, <2>5
    <3> HIDE DEF t
    <3>2. Turn(s, t, j) \in [DOMAIN s -> 0..2]
      BY <3>1, TurnIs
    <3> QED
      BY <2>5, <3>2 DEF t
  <2> QED
    BY <2>6
<1>11. Turning(f, s)
  BY <1>1, <1>9, <1>10 DEF Turning
<1> QED
  BY <1>11
(* What a type is it stays until it is taken.                              *)
LEMMA TypesStay ==
  ASSUME NEW S, NEW s \in Seq(S), NEW f, Turning(f, s), NEW i \in 0..Len(s),
         NEW j \in DOMAIN s
  PROVE  \A k \in 0..i : f[i][j] \in {0, f[k][j]}
<1>1. Len(s) \in Nat
  OBVIOUS
<1> DEFINE Good(m) == \A k \in 0..m : f[m][j] \in {0, f[k][j]}
           Bad == {m \in 0..Len(s) : ~Good(m)}
<1>2. SUFFICES ASSUME Bad # {} PROVE FALSE
  OBVIOUS
<1>3. PICK m \in Bad : \A k \in Bad : m <= k
  <2>1. Bad \in SUBSET Nat
    OBVIOUS
  <2> HIDE DEF Bad
  <2> QED
    BY <1>2, <2>1, Least
<1>4. CASE m = 0
  <2>1. \A k \in 0..0 : k = 0
    OBVIOUS
  <2> QED
    BY <1>3, <1>4, <2>1
<1>5. CASE m # 0
  <2>1. m \in 1..Len(s) /\ m - 1 \in 0..Len(s) /\ m - 1 \notin Bad
    BY <1>1, <1>3, <1>5
  <2>2. \A k \in 0..(m - 1) : f[m - 1][j] \in {0, f[k][j]}
    BY <2>1
  <2> DEFINE t == f[m - 1]
  <2>3. t \in [DOMAIN s -> 0..2] /\ f[m] = Turn(s, t, m) /\ m \in DOMAIN s
    BY <2>1 DEF Turning
  <2>4. f[m][j] \in {0, t[j]}
    <3> HIDE DEF t
    <3> QED
      BY <2>3, TurnIs
  <2>5. \A k \in 0..m : k = m \/ k \in 0..(m - 1)
    BY <1>1, <2>1
  <2>6. Good(m)
    BY <2>2, <2>4, <2>5
  <2> QED
    BY <1>3, <2>6
<1> QED
  BY <1>4, <1>5

(* A type that is taken is taken in a turn.                                *)
LEMMA TakenInTurn ==
  ASSUME NEW S, NEW s \in Seq(S), NEW f, Turning(f, s), NEW j \in DOMAIN s,
         Given(s)[j] # 0, f[Len(s)][j] = 0
  PROVE  \E i \in 1..Len(s) : f[i - 1][j] # 0 /\ f[i][j] = 0
<1>1. Len(s) \in Nat
  OBVIOUS
<1> DEFINE Gone == {i \in 0..Len(s) : f[i][j] = 0}
<1>2. Gone \in SUBSET Nat /\ Len(s) \in Gone
  BY <1>1
<1>3. PICK i \in Gone : \A k \in Gone : i <= k
  <2> HIDE DEF Gone
  <2> QED
    BY <1>2, Least
<1>4. i # 0
  BY <1>3 DEF Turning
<1>5. i \in 1..Len(s) /\ i - 1 \in 0..Len(s) /\ i - 1 \notin Gone
  BY <1>1, <1>3, <1>4
<1> QED
  BY <1>3, <1>5

(* Lines of two finds, of the same type k.                                 *)
Company(s, k, u, v) ==
  /\ u \in DOMAIN s /\ v \in DOMAIN s
  /\ Given(s)[u] = k /\ Given(s)[v] = k /\ s[u].find # s[v].find

(* Without types every line is left.  With the type 1 alone a line of it   *)
(* is left when there are two finds of it, with the type 2 alone one of    *)
(* each line that has two finds of it, and of no other.                    *)
LEMMA LeftByTurns ==
  ASSUME NEW S, NEW s \in Seq(S), Given(s) \in [DOMAIN s -> 0..2], NEW z,
         z = ShowFLinesTypes(s)
  PROVE  /\ \A j \in DOMAIN s : Given(s)[j] = 0 => z[j] = 0
         /\ (\A j \in DOMAIN s : Given(s)[j] # 2) =>
              ((\E j \in DOMAIN s : Given(s)[j] = 1 /\ z[j] = 0) <=>
               \E u, v \in DOMAIN s : Company(s, 1, u, v))
         /\ (\A j \in DOMAIN s : Given(s)[j] # 1) =>
              /\ \A u \in DOMAIN s : Given(s)[u] = 2 /\ z[u] = 0 =>
                   \E v \in DOMAIN s : Company(s, 2, u, v) /\ s[v].line = s[u].line
              /\ \A u, v \in DOMAIN s : Company(s, 2, u, v) /\ s[v].line = s[u].line =>
                   z[u] = 0 \/ z[v] = 0
<1>1. PICK f : Turning(f, s)
  BY TurnsExist
<1>2. /\ Len(s) \in Nat /\ DOMAIN s = 1..Len(s) /\ z = f[Len(s)] /\ f[0] = Given(s)
      /\ \A i \in 0..Len(s) : f[i] \in [DOMAIN s -> 0..2]
      /\ \A i \in 1..Len(s) : f[i] = Turn(s, f[i - 1], i)
  BY <1>1 DEF Turning
<1> DEFINE g == Given(s)
<1> HIDE DEF g
<1>3. \A i \in 0..Len(s), j \in DOMAIN s : f[i][j] \in {0, g[j]}
  <2> SUFFICES ASSUME NEW i \in 0..Len(s), NEW j \in DOMAIN s
               PROVE  f[i][j] \in {0, g[j]}
    OBVIOUS
  <2>1. 0 \in 0..i
    BY <1>2
  <2> QED
    BY <1>1, <1>2, <2>1, TypesStay DEF g
<1>4. \A i \in 0..Len(s), j \in DOMAIN s : z[j] # 0 => f[i][j] = g[j]
  <2> SUFFICES ASSUME NEW i \in 0..Len(s), NEW j \in DOMAIN s, z[j] # 0
               PROVE  f[i][j] = g[j]
    OBVIOUS
  <2>1. Len(s) \in 0..Len(s) /\ i \in 0..Len(s)
    BY <1>2
  <2>2. z[j] = f[i][j]
    BY <1>1, <1>2, <2>1, TypesStay
  <2> QED
    BY <1>3, <2>2
<1>5. ASSUME NEW j \in DOMAIN s, g[j] # 0, z[j] = 0
      PROVE  \E i \in 1..Len(s) : f[i - 1][j] # 0 /\ f[i][j] = 0
  BY <1>1, <1>2, <1>5, TakenInTurn DEF g
(* What takes a type.                                                      *)
<1>6. ASSUME NEW i \in 1..Len(s), NEW j \in DOMAIN s, f[i - 1][j] # 0, f[i][j] = 0
      PROVE  \/ /\ g[i] = 1 /\ g[j] # 0 /\ \E v \in DOMAIN s : g[v] # 0 /\ s[v].find # s[i].find
             \/ /\ g[i] = 2 /\ j = i
                /\ \E v \in DOMAIN s : g[v] = 2 /\ s[v].find # s[i].find /\ s[v].line = s[i].line
  <2> DEFINE t == f[i - 1]
  <2>1. i - 1 \in 0..Len(s) /\ i \in DOMAIN s
    BY <1>2
  <2>2. t \in [DOMAIN s -> 0..2] /\ f[i] = Turn(s, t, i) /\ \A v \in DOMAIN s : t[v] \in {0, g[v]}
    BY <1>2, <1>3, <2>1
  <2> HIDE DEF t
  <2>3. t[j] # 0 /\ g[j] # 0 /\ Turn(s, t, i)[j] = 0
    BY <1>6, <2>2 DEF t
  <2>4. CASE t[i] = 1 /\ Partners(s, t, i) # {}
    BY <2>1, <2>2, <2>3, <2>4 DEF Partners
  <2>5. CASE ~(t[i] = 1 /\ Partners(s, t, i) # {}) /\ t[i] = 2 /\ SameLine(s, t, i) # {}
    <3>1. Turn(s, t, i) = [t EXCEPT ![i] = 0]
      BY <2>5 DEF Turn
    <3>2. j = i
      BY <2>2, <2>3, <3>1
    <3>3. PICK v \in DOMAIN s : t[v] = 2 /\ s[v].find # s[i].find /\ s[v].line = s[i].line
      BY <2>5 DEF SameLine, Partners
    <3>4. g[v] = 2 /\ g[i] = 2
      BY <2>1, <2>2, <2>5, <3>3
    <3> QED
      BY <3>2, <3>3, <3>4
  <2>6. CASE ~(t[i] = 1 /\ Partners(s, t, i) # {}) /\ ~(t[i] = 2 /\ SameLine(s, t, i) # {})
    <3>1. Turn(s, t, i) = t
      BY <2>6 DEF Turn
    <3> QED
      BY <2>3, <3>1
  <2> QED
    BY <2>4, <2>5, <2>6
<1>7. ASSUME NEW j \in DOMAIN s, g[j] = 0 PROVE z[j] = 0
  <2>1. Len(s) \in 0..Len(s)
    BY <1>2
  <2> QED
    BY <1>2, <1>3, <1>7, <2>1
<1>8. ASSUME \A j \in DOMAIN s : g[j] # 2
      PROVE  (\E j \in DOMAIN s : g[j] = 1 /\ z[j] = 0) <=>
             \E u, v \in DOMAIN s : Company(s, 1, u, v)
  <2>1. ASSUME NEW j \in DOMAIN s, g[j] = 1, z[j] = 0
        PROVE  \E u, v \in DOMAIN s : Company(s, 1, u, v)
    <3>1. PICK i \in 1..Len(s) : f[i - 1][j] # 0 /\ f[i][j] = 0
      BY <1>5, <2>1
    <3>2. i \in DOMAIN s
      BY <1>2
    <3>3. g[i] = 1 /\ \E v \in DOMAIN s : g[v] # 0 /\ s[v].find # s[i].find
      BY <1>6, <1>8, <3>1, <3>2
    <3>4. \A v \in DOMAIN s : g[v] \in {0, 1}
      <4>1. \A v \in DOMAIN s : g[v] \in 0..2
        BY <1>2 DEF g
      <4> QED
        BY <1>8, <4>1
    <3>5. PICK v \in DOMAIN s : g[v] = 1 /\ s[v].find # s[i].find
      BY <3>3, <3>4
    <3> QED
      BY <3>2, <3>3, <3>5 DEF Company, g
  <2>2. ASSUME NEW u \in DOMAIN s, NEW v \in DOMAIN s, Company(s, 1, u, v), z[u] # 0, z[v] # 0
        PROVE  FALSE
    <3> DEFINE t == f[u - 1]
    <3>1. u \in 1..Len(s) /\ u - 1 \in 0..Len(s)
      BY <1>2
    <3>2. f[u] = Turn(s, t, u) /\ t[u] = 1 /\ t[v] = 1 /\ f[u][u] = 1
      <4>1. g[u] = 1 /\ g[v] = 1
        BY <2>2 DEF Company, g
      <4>2. t[u] = g[u] /\ t[v] = g[v]
        BY <1>4, <2>2, <3>1
      <4>3. f[u][u] = g[u]
        BY <1>2, <1>4, <2>2, <3>1
      <4> QED
        BY <1>2, <3>1, <4>1, <4>2, <4>3
    <3> HIDE DEF t
    <3>3. v \in Partners(s, t, u)
      BY <2>2, <3>2 DEF Company, Partners
    <3>4. Turn(s, t, u)[u] = 0
      BY <3>2, <3>3 DEF Turn
    <3> QED
      BY <3>2, <3>4
  <2>3. \A u, v \in DOMAIN s : Company(s, 1, u, v) => g[u] = 1 /\ g[v] = 1
    BY DEF Company, g
  <2> QED
    BY <2>1, <2>2, <2>3
<1>9. ASSUME \A j \in DOMAIN s : g[j] # 1, NEW u \in DOMAIN s, g[u] = 2, z[u] = 0
      PROVE  \E v \in DOMAIN s : Company(s, 2, u, v) /\ s[v].line = s[u].line
  <2>1. PICK i \in 1..Len(s) : f[i - 1][u] # 0 /\ f[i][u] = 0
    BY <1>5, <1>9
  <2>2. i \in DOMAIN s
    BY <1>2
  <2>3. /\ g[i] = 2 /\ u = i
        /\ \E v \in DOMAIN s : g[v] = 2 /\ s[v].find # s[i].find /\ s[v].line = s[i].line
    BY <1>6, <1>9, <2>1, <2>2
  <2> QED
    BY <2>3 DEF Company, g
<1>10. ASSUME NEW u \in DOMAIN s, NEW v \in DOMAIN s, Company(s, 2, u, v),
              s[v].line = s[u].line, z[u] # 0, z[v] # 0
       PROVE  FALSE
  <2> DEFINE t == f[u - 1]
  <2>1. u \in 1..Len(s) /\ u - 1 \in 0..Len(s)
    BY <1>2
  <2>2. f[u] = Turn(s, t, u) /\ t[u] = 2 /\ t[v] = 2 /\ f[u][u] = 2 /\ t \in [DOMAIN s -> 0..2]
    <3>1. g[u] = 2 /\ g[v] = 2
      BY <1>10 DEF Company, g
    <3>2. t[u] = g[u] /\ t[v] = g[v]
      BY <1>4, <1>10, <2>1
    <3>3. f[u][u] = g[u]
      BY <1>2, <1>4, <1>10, <2>1
    <3> QED
      BY <1>2, <2>1, <3>1, <3>2, <3>3
  <2> HIDE DEF t
  <2>3. v \in SameLine(s, t, u)
    BY <1>10, <2>2 DEF Company, SameLine, Partners
  <2>4. Turn(s, t, u)[u] = 0
    BY <2>2, <2>3 DEF Turn
  <2> QED
    BY <2>2, <2>4
<1> QED
  BY <1>7, <1>8, <1>9, <1>10 DEF g
-----------------------------------------------------------------------------
(* Lines as pairs of a find and a line, and how often they are printed.    *)

LinesOf(o, m) == {h \in FindNum \X Nat : HasEntry(o, Item(m, h))}
Once(o) == \A i, j \in DOMAIN o : o[i] = o[j] /\ o[i].find # 0 => i = j

(* An entry for a line tells its file and hit.                             *)
LEMMA ItemIs ==
  ASSUME NEW m \in Nat, NEW h \in FindNum \X Nat
  PROVE  /\ Item(m, h).file = m /\ Item(m, h).find # 0
         /\ Item(m, h) \in Lines(m)
         /\ \A k : Item(m, h) # Name(k)
         /\ \A k \in Nat, g \in FindNum \X Nat : Item(m, h) = Item(k, g) => m = k /\ h = g
<1>1. h = <<h[1], h[2]>> /\ h[1] \in FindNum /\ h[2] \in Nat /\ h[1] # 0
  BY DEF FindNum
<1>2. \A g \in FindNum \X Nat : g = <<g[1], g[2]>>
  OBVIOUS
<1>3. /\ Item(m, h).file = m /\ Item(m, h).find = h[1] /\ Item(m, h).line = h[2]
      /\ \A k : Name(k).find = 0
      /\ \A k, g : Item(k, g).file = k /\ Item(k, g).find = g[1] /\ Item(k, g).line = g[2]
  BY DEF Item, Name
<1>4. Item(m, h) \in Lines(m)
  BY <1>1 DEF Item, Lines
<1>5. ASSUME NEW k \in Nat, NEW g \in FindNum \X Nat, Item(m, h) = Item(k, g)
      PROVE  m = k /\ h = g
  <2>1. m = k /\ h[1] = g[1] /\ h[2] = g[2]
    BY <1>3, <1>5
  <2> QED
    BY <1>1, <1>2, <2>1
<1> QED
  BY <1>1, <1>3, <1>4, <1>5

(* A line among the entries is that of a find and a line.                  *)
LEMMA LineIs ==
  ASSUME NEW m \in Nat, NEW e \in Entries(m), e.find # 0
  PROVE  <<e.find, e.line>> \in FindNum \X Nat /\ e = Item(e.file, <<e.find, e.line>>)
         /\ e.file \in 1..m
BY CountAssumption DEF Entries, Item, FindNum

LEMMA OnceConcat ==
  ASSUME NEW S, NEW s \in Seq(S), NEW b \in Seq(S), Once(s), Once(b),
         \A e : HasEntry(s, e) /\ HasEntry(b, e) => e.find = 0
  PROVE  Once(s \o b)
<1> DEFINE c == s \o b
<1>1. /\ Len(s) \in Nat /\ Len(b) \in Nat /\ DOMAIN c = 1..(Len(s) + Len(b))
      /\ DOMAIN s = 1..Len(s) /\ DOMAIN b = 1..Len(b)
      /\ \A i \in 1..Len(s) : c[i] = s[i]
      /\ \A i \in (Len(s) + 1)..(Len(s) + Len(b)) :
           i - Len(s) \in 1..Len(b) /\ c[i] = b[i - Len(s)]
  BY ConcatIs
<1> HIDE DEF c
<1>2. ASSUME NEW i \in DOMAIN c, NEW j \in DOMAIN c, c[i] = c[j], c[i].find # 0, i < j
      PROVE  FALSE
  <2>1. CASE j <= Len(s)
    <3>1. i \in DOMAIN s /\ j \in DOMAIN s /\ c[i] = s[i] /\ c[j] = s[j] /\ i # j
      BY <1>1, <1>2, <2>1
    <3> QED
      BY <1>2, <3>1 DEF Once
  <2>2. CASE i <= Len(s) /\ Len(s) < j
    <3>1. i \in DOMAIN s /\ c[i] = s[i]
      BY <1>1, <1>2, <2>2
    <3>2. j - Len(s) \in DOMAIN b /\ c[j] = b[j - Len(s)]
      BY <1>1, <1>2, <2>2
    <3>3. HasEntry(s, c[i]) /\ HasEntry(b, c[i])
      BY <1>2, <3>1, <3>2 DEF HasEntry
    <3> QED
      BY <1>2, <3>3
  <2>3. CASE Len(s) < i
    <3>1. i - Len(s) \in DOMAIN b /\ j - Len(s) \in DOMAIN b /\ i - Len(s) # j - Len(s)
      BY <1>1, <1>2, <2>3
    <3>2. c[i] = b[i - Len(s)] /\ c[j] = b[j - Len(s)]
      BY <1>1, <1>2, <2>3
    <3> QED
      BY <1>2, <3>1, <3>2 DEF Once
  <2> QED
    BY <1>1, <2>1, <2>2, <2>3
<1>3. ASSUME NEW i \in DOMAIN c, NEW j \in DOMAIN c, c[i] = c[j], c[i].find # 0
      PROVE  i = j
  <2>1. i < j \/ j < i \/ i = j
    BY <1>1
  <2> QED
    BY <1>2, <1>3, <2>1
<1>4. Once(c)
  BY <1>3 DEF Once
<1> QED
  BY <1>4 DEF c

(* OutALine keeps one line more, and each once.                            *)
LEMMA InsertLineHas ==
  ASSUME NEW S, NEW s \in Seq(S), NEW l \in S
  PROVE  /\ \A e : HasEntry(InsertLine(s, l), e) <=> HasEntry(s, e) \/ e = l
         /\ Once(s) /\ ~HasEntry(s, l) => Once(InsertLine(s, l))
<1>1. PICK k \in 1..(Len(s) + 1) : InsertLine(s, l) = InsertAt(s, k, l)
  BY InsertLineAt
<1> DEFINE r == InsertLine(s, l)
<1>2. r \in Seq(S) /\ Inserted(r, s, k, l)
  BY <1>1, InsertAtIs
<1> HIDE DEF r
<1>3. /\ Len(s) \in Nat /\ DOMAIN s = 1..Len(s) /\ DOMAIN r = 1..(Len(s) + 1)
      /\ \A i \in 1..(Len(s) + 1) :
           r[i] = IF i < k THEN s[i] ELSE IF i = k THEN l ELSE s[i - 1]
  BY <1>2 DEF Inserted
<1> DEFINE at == [i \in 1..(Len(s) + 1) |-> IF i < k THEN i ELSE i - 1]
<1>4. \A i \in DOMAIN r : i # k => at[i] \in DOMAIN s /\ r[i] = s[at[i]]
  BY <1>3
<1>5. \A i, j \in DOMAIN r : i # k /\ j # k /\ at[i] = at[j] => i = j
  BY <1>3
<1>6. \A u \in DOMAIN s : \E i \in DOMAIN r : i # k /\ at[i] = u
  <2> SUFFICES ASSUME NEW u \in DOMAIN s PROVE \E i \in DOMAIN r : i # k /\ at[i] = u
    OBVIOUS
  <2>1. CASE u < k
    <3>1. u \in DOMAIN r /\ at[u] = u /\ u # k
      BY <1>3, <2>1
    <3> HIDE DEF at
    <3> QED
      BY <3>1
  <2>2. CASE k <= u
    <3>1. u + 1 \in DOMAIN r /\ at[u + 1] = u /\ u + 1 # k
      BY <1>3, <2>2
    <3> HIDE DEF at
    <3> QED
      BY <3>1
  <2> QED
    BY <1>3, <2>1, <2>2
<1>7. k \in DOMAIN r /\ r[k] = l
  BY <1>3
<1> HIDE DEF at
<1>8. ASSUME NEW e PROVE HasEntry(r, e) <=> HasEntry(s, e) \/ e = l
  <2>1. ASSUME NEW i \in DOMAIN r, r[i] = e PROVE HasEntry(s, e) \/ e = l
    BY <1>4, <1>7, <2>1 DEF HasEntry
  <2>2. ASSUME NEW u \in DOMAIN s, s[u] = e PROVE HasEntry(r, e)
    <3>1. PICK i \in DOMAIN r : i # k /\ at[i] = u
      BY <1>6
    <3> QED
      BY <1>4, <2>2, <3>1 DEF HasEntry
  <2> QED
    BY <1>7, <2>1, <2>2 DEF HasEntry
<1>9. ASSUME Once(s), ~HasEntry(s, l), NEW i \in DOMAIN r, NEW j \in DOMAIN r,
             r[i] = r[j], r[i].find # 0
      PROVE  i = j
  <2>1. CASE i # k /\ j # k
    <3>1. at[i] = at[j]
      BY <1>4, <1>9, <2>1 DEF Once
    <3> QED
      BY <1>5, <2>1, <3>1
  <2>2. CASE i # k /\ j = k
    BY <1>4, <1>7, <1>9, <2>2 DEF HasEntry
  <2>3. CASE i = k /\ j # k
    BY <1>4, <1>7, <1>9, <2>3 DEF HasEntry
  <2> QED
    BY <2>1, <2>2, <2>3
<1>10. Once(s) /\ ~HasEntry(s, l) => Once(r)
  BY <1>9 DEF Once
<1> QED
  BY <1>8, <1>10 DEF r

(* What is picked is there once when all is.                               *)
LEMMA PickedOnce ==
  ASSUME NEW s, NEW p, FromFirst(p, s, Len(s)), DOMAIN s = 1..Len(s), Len(s) \in Nat,
         DOMAIN p \subseteq Nat, Once(s)
  PROVE  Once(p)
<1>1. ASSUME NEW i \in DOMAIN p, NEW j \in DOMAIN p, p[i] = p[j], p[i].find # 0, i < j
      PROVE  FALSE
  <2>1. PICK u \in 1..Len(s), v \in 1..Len(s) : u < v /\ p[i] = s[u] /\ p[j] = s[v]
    BY <1>1 DEF FromFirst
  <2>2. u # v
    BY <2>1
  <2> QED
    BY <1>1, <2>1, <2>2 DEF Once
<1>2. ASSUME NEW i \in DOMAIN p, NEW j \in DOMAIN p, p[i] = p[j], p[i].find # 0
      PROVE  i = j
  <2>1. i < j \/ j < i \/ i = j
    OBVIOUS
  <2> QED
    BY <1>1, <1>2, <2>1
<1> QED
  BY <1>2 DEF Once

(* More than one is two that differ.                                       *)
LEMMA MoreThanOne ==
  ASSUME NEW T, IsFiniteSet(T)
  PROVE  Cardinality(T) > 1 <=> \E a, b \in T : a # b
<1>1. ASSUME NEW a \in T, NEW b \in T, a # b PROVE Cardinality(T) > 1
  <2>1. IsFiniteSet({a}) /\ Cardinality({a}) = 1
    BY FS_Singleton
  <2>2. IsFiniteSet({a} \cup {b}) /\ Cardinality({a} \cup {b}) = 2
    <3> DEFINE S == {a}
    <3>1. b \notin S
      BY <1>1
    <3>2. IsFiniteSet(S) /\ Cardinality(S) = 1
      BY <2>1
    <3> HIDE DEF S
    <3>3. IsFiniteSet(S \cup {b}) /\ Cardinality(S \cup {b}) = 2
      BY <3>1, <3>2, FS_AddElement
    <3> QED
      BY <3>3 DEF S
  <2>3. {a} \cup {b} \in SUBSET T
    OBVIOUS
  <2>4. Cardinality({a} \cup {b}) <= Cardinality(T)
    BY <2>3, FS_Subset
  <2>5. Cardinality(T) \in Nat
    BY FS_CardinalityType
  <2> QED
    BY <2>2, <2>4, <2>5
<1>2. ASSUME \A a, b \in T : a = b PROVE ~(Cardinality(T) > 1)
  <2>1. CASE T = {}
    BY <2>1, FS_EmptySet
  <2>2. CASE T # {}
    <3>1. PICK a \in T : T = {a}
      BY <1>2, <2>2
    <3>2. Cardinality({a}) = 1
      BY FS_Singleton
    <3> QED
      BY <3>1, <3>2
  <2> QED
    BY <2>1, <2>2
<1> QED
  BY <1>1, <1>2
-----------------------------------------------------------------------------
(* What is shown of each file.                                             *)

(* The hits of the file in hand that were handed to the output.            *)
Taken == Free(n) \ todo

(* What the search of the file in hand has noted and kept, and printed of  *)
(* its lines.                                                              *)
Noting ==
  /\ sw.skip \/ g_dwFndFlg = {h[1] : h \in hits[n] \ todo}
  /\ hits[n] # todo => g_dwFinds > 0
  /\ gfDoneFile <=> ~sw.noFile /\ Taken # {}
  /\ HoldsBack /\ Taken # {} => g_ioHold

KeepsLines ==
  /\ Once(g_sLines)
  /\ LinesOf(g_sLines, n) = IF sw.lines /\ Several THEN Taken ELSE {}

PrintsLines == LinesOf(out, n) = IF sw.lines /\ ~Several THEN Taken ELSE {}

(* What a file that was left may show: S are its lines, named says whether *)
(* its name is printed.                                                    *)
Typing(m, S) ==
  /\ (\A k \in FindNum : types[k] = 0) => S = Free(m)
  /\ Several /\ (\A k \in FindNum : types[k] # 2) =>
       ((\E h \in S : types[h[1]] = 1) <=> Cardinality(TypedIn(m)) > 1)
  /\ Several /\ (\A k \in FindNum : types[k] # 1) =>
      {h[2] : h \in {g \in S : types[g[1]] = 2}} =
      {h[2] : h \in {g \in Free(m) : types[g[1]] = 2 /\
                        \E f \in Free(m) : types[f[1]] = 2 /\ f[1] # g[1] /\ f[2] = g[2]}}

FileRight(m, S, named) ==
  (sw.skip => ~sw.allIn1) =>
    /\ IF sw.lines /\ Passes(m) THEN Typing(m, S) ELSE S = {}
    /\ named <=> (~sw.noFile /\ Free(m) # {} /\ Passes(m))

ShownRight ==
  /\ Once(out)
  /\ \A m \in Left : FileRight(m, LinesOf(out, m), HasName(out, m))
  /\ pc = "scan" => Noting /\ KeepsLines /\ PrintsLines

(* Of the files the steps change nothing.                                  *)
LEMMA SameFiles ==
  ASSUME UNCHANGED inputs
  PROVE  /\ \A m : Free(m)' = Free(m) /\ (Passes(m)' <=> Passes(m))
         /\ \A m, S, named : FileRight(m, S, named)' <=> FileRight(m, S, named)
<1>1. hits' = hits /\ types' = types /\ sw' = sw
  BY DEF inputs
<1>2. \A m : Free(m)' = Free(m)
  BY <1>1 DEF Free
<1>3. \A m : Passes(m)' <=> Passes(m)
  BY <1>1 DEF Passes, FindsIn, Several
<1>4. \A m : TypedIn(m)' = TypedIn(m)
  BY <1>1, <1>2 DEF TypedIn
<1>5. ASSUME NEW m, NEW S PROVE Typing(m, S)' <=> Typing(m, S)
  <2>1. Free(m)' = Free(m) /\ TypedIn(m)' = TypedIn(m) /\ types' = types
    BY <1>1, <1>2, <1>4
  <2> QED
    BY <2>1 DEF Typing, Several
<1> QED
  BY <1>1, <1>2, <1>3, <1>5 DEF FileRight

(* Nor of the lines that are printed of files that were left, when only    *)
(* entries of the file in hand are added.                                  *)
LEMMA OthersStay ==
  ASSUME UNCHANGED inputs, ShownRight, NEW m \in Left, m # n, m \in Nat,
         \A e : e.file # n => (HasEntry(out', e) <=> HasEntry(out, e))
  PROVE  FileRight(m, LinesOf(out', m), HasName(out', m))
<1>1. \A h : Item(m, h).file = m /\ Name(m).file = m
  BY DEF Item, Name
<1>2. LinesOf(out', m) = LinesOf(out, m)
  BY <1>1 DEF LinesOf
<1>3. HasName(out', m) <=> HasName(out, m)
  <2>1. HasEntry(out', Name(m)) <=> HasEntry(out, Name(m))
    BY <1>1
  <2> QED
    BY <2>1 DEF HasEntry, HasName
<1>4. FileRight(m, LinesOf(out, m), HasName(out, m))
  BY DEF ShownRight
<1> QED
  BY <1>2, <1>3, <1>4 DEF FileRight
(* The hit in hand and what it adds to those taken.                        *)
LEMMA HitTaken ==
  ASSUME Typed, Hit
  PROVE  /\ n \in Nat \ {0} /\ n' = n /\ UNCHANGED inputs /\ pc = "scan" /\ pc' = "scan"
         /\ ThisHit \in FindNum \X Nat /\ ThisHit \in hits[n] /\ ThisHit \in todo
         /\ Taken' = IF IsInhibited THEN Taken ELSE Taken \cup {ThisHit}
         /\ ThisHit \notin Taken
         /\ hits'[n'] \ todo' = (hits[n] \ todo) \cup {ThisHit} /\ hits'[n'] # todo'
         /\ Left' = Left /\ \A m \in Left : m \in Nat /\ m # n
<1>1. /\ n' = n /\ hits' = hits /\ todo' = todo \ {ThisHit} /\ ThisHit \in todo
      /\ n \in Nat \ {0} /\ todo \subseteq hits[n] /\ UNCHANGED inputs
      /\ pc = "scan" /\ pc' = "scan" /\ ThisHit \in FindNum \X Nat
  <2>1. todo # {}
    BY DEF Hit
  <2>2. n \in 1..Len(hits) /\ ThisHit \in todo /\ todo \in SUBSET (FindNum \X Nat)
    BY <2>1, ThisHitIs
  <2> QED
    BY <2>2, InputTypes DEF Hit, inputs, Typed
<1> DEFINE t == ThisHit
<1>2. t \in Free(n) <=> ~IsInhibited
  BY <1>1 DEF Free, IsInhibited
<1> HIDE DEF t
<1>3. /\ Free(n)' = Free(n) /\ todo' = todo \ {t} /\ t \in todo
  BY <1>1 DEF Free, t
<1>4. Taken' = IF IsInhibited THEN Taken ELSE Taken \cup {t}
  BY <1>2, <1>3 DEF Taken
<1>5. t \notin Taken
  BY <1>3 DEF Taken
<1>6. hits'[n'] \ todo' = (hits[n] \ todo) \cup {t} /\ hits'[n'] # todo'
  BY <1>1, <1>3
<1>7. Left' = Left /\ \A m \in Left : m \in Nat /\ m # n
  <2>1. DOMAIN hits \subseteq Nat
    BY InputTypes
  <2> QED
    BY <1>1, <2>1 DEF Left
<1> QED
  BY <1>1, <1>4, <1>5, <1>6, <1>7 DEF t

(* A hit that is inhibited is noted, and no more.                          *)
LEMMA InhibitedRight ==
  ASSUME Typed, ShownRight, HitInhibited
  PROVE  ShownRight'
<1>1. /\ Hit /\ IsInhibited
      /\ UNCHANGED <<gfDoneFile, g_ioHold, g_sLines, out>>
  BY DEF HitInhibited
<1>2. /\ n' = n /\ UNCHANGED inputs /\ sw' = sw /\ pc = "scan" /\ pc' = "scan" /\ Taken' = Taken
      /\ hits'[n'] \ todo' = (hits[n] \ todo) \cup {ThisHit} /\ hits'[n'] # todo'
      /\ Left' = Left /\ (\A m \in Left : m \in Nat /\ m # n)
      /\ Several' = Several /\ HoldsBack' = HoldsBack
  BY <1>1, HitTaken DEF inputs, Several, HoldsBack
<1>3. Noting /\ KeepsLines /\ PrintsLines
  BY <1>2 DEF ShownRight
<1>4. Noting'
  <2>1. /\ g_dwFndFlg' = IF sw.skip THEN g_dwFndFlg ELSE g_dwFndFlg \cup {ThisHit[1]}
        /\ g_dwFinds' = g_dwFinds + 1 /\ g_dwFinds \in Nat
    BY <1>1 DEF Hit, Typed
  <2>2. g_dwFinds' > 0
    BY <2>1
  <2>3. sw'.skip \/ g_dwFndFlg' = {h[1] : h \in hits'[n'] \ todo'}
    <3> DEFINE t == ThisHit
    <3> HIDE DEF t
    <3>1. /\ hits'[n'] \ todo' = (hits[n] \ todo) \cup {t}
          /\ sw.skip \/ g_dwFndFlg' = {h[1] : h \in hits[n] \ todo} \cup {t[1]}
      BY <1>2, <1>3, <2>1 DEF Noting, t
    <3> QED
      BY <1>2, <3>1
  <2>4. /\ gfDoneFile' <=> ~sw'.noFile /\ Taken' # {}
        /\ HoldsBack' /\ Taken' # {} => g_ioHold'
    BY <1>1, <1>2, <1>3 DEF Noting
  <2> QED
    BY <2>2, <2>3, <2>4 DEF Noting
<1>5. KeepsLines' /\ PrintsLines'
  <2>1. LinesOf(g_sLines, n)' = LinesOf(g_sLines, n) /\ LinesOf(out, n)' = LinesOf(out, n)
    BY <1>1, <1>2 DEF LinesOf, HasEntry, Item, FindNum
  <2> QED
    BY <1>1, <1>2, <1>3, <2>1 DEF KeepsLines, PrintsLines, Once
<1>6. \A m \in Left' : FileRight(m, LinesOf(out, m), HasName(out, m))'
  <2> SUFFICES ASSUME NEW m \in Left PROVE FileRight(m, LinesOf(out, m), HasName(out, m))'
    BY <1>2
  <2>1. FileRight(m, LinesOf(out, m), HasName(out, m))
    BY DEF ShownRight
  <2>2. LinesOf(out, m)' = LinesOf(out, m) /\ HasName(out, m)' = HasName(out, m)
    BY <1>1 DEF LinesOf, HasEntry, Item, FindNum, HasName, Name
  <2>3. UNCHANGED inputs
    BY <1>2
  <2> QED
    BY <2>1, <2>2, <2>3, SameFiles
<1>7. Once(out)'
  BY <1>1 DEF ShownRight, Once
<1> QED
  BY <1>4, <1>5, <1>6, <1>7 DEF ShownRight

(* A new file: nothing is noted, kept or printed of it.                    *)
LEMMA OpenRight ==
  ASSUME Typed, InOrder, ShownRight, OpenFile
  PROVE  ShownRight'
<1>1. /\ pc = "open" /\ n' = n + 1 /\ n \in Nat /\ out' = out /\ UNCHANGED inputs
      /\ g_sLines' = g_sLines /\ gfDoneFile' = FALSE /\ pc' = "scan"
      /\ todo' = hits[n + 1] /\ g_dwFndFlg' = {} /\ hits' = hits
      /\ out \in Seq(Entries(n)) /\ DOMAIN hits = 1..Len(hits)
  BY InputTypes DEF OpenFile, Typed, inputs
<1>2. g_sLines = <<>>
  BY <1>1 DEF InOrder, Kept
<1>3. Taken' = {} /\ hits'[n'] \ todo' = {} /\ hits'[n'] = todo'
  BY <1>1 DEF Taken, Free
<1>4. Noting'
  BY <1>1, <1>3 DEF Noting
<1>5. KeepsLines'
  <2>1. Once(<<>>) /\ \A e : ~HasEntry(<<>>, e)
    BY DEF Once, HasEntry
  <2>2. Once(g_sLines)' /\ LinesOf(g_sLines, n)' = {}
    BY <1>1, <1>2, <2>1 DEF Once, LinesOf, HasEntry
  <2> QED
    BY <1>3, <2>2 DEF KeepsLines
<1>6. PrintsLines'
  <2>1. \A i \in DOMAIN out : out[i].file # n + 1
    BY <1>1, NoneOfNext
  <2>2. \A h : ~HasEntry(out, Item(n + 1, h))
    BY <2>1 DEF HasEntry, Item
  <2>3. LinesOf(out, n)' = {}
    BY <1>1, <2>2 DEF LinesOf, HasEntry, Item
  <2> QED
    BY <1>3, <2>3 DEF PrintsLines
<1>7. Left' = Left
  BY <1>1 DEF Left
<1>8. \A m \in Left' : FileRight(m, LinesOf(out, m), HasName(out, m))'
  <2> SUFFICES ASSUME NEW m \in Left PROVE FileRight(m, LinesOf(out, m), HasName(out, m))'
    BY <1>7
  <2>1. FileRight(m, LinesOf(out, m), HasName(out, m))
    BY DEF ShownRight
  <2>2. LinesOf(out, m)' = LinesOf(out, m) /\ HasName(out, m)' = HasName(out, m)
    BY <1>1 DEF LinesOf, HasEntry, Item, FindNum, HasName, Name
  <2> QED
    BY <1>1, <2>1, <2>2, SameFiles
<1>9. Once(out)'
  BY <1>1 DEF ShownRight, Once
<1> QED
  BY <1>4, <1>5, <1>6, <1>8, <1>9 DEF ShownRight
(* What a hit puts out: the name, once, and with one find its line.        *)
LEMMA HitPrints ==
  ASSUME Typed, HitShown
  PROVE  \A e : HasEntry(out', e) <=>
           \/ HasEntry(out, e)
           \/ e = Name(n) /\ ~(gfDoneFile \/ sw.noFile \/ Holds)
           \/ e = Item(n, ThisHit) /\ sw.lines /\ ~Several
<1> DEFINE e0 == Item(n, ThisHit)
           b == IF sw.lines /\ ~Several THEN <<e0>> ELSE <<>>
<1>1. /\ out \in Seq(Entries(n)) /\ Name(n) \in Entries(n) /\ e0 \in Entries(n)
      /\ out' = (out \o NamePrinted) \o b
  BY ThisHitIs DEF HitShown, Hit, Typed
<1> HIDE DEF e0
<1>2. b \in Seq(Entries(n)) /\ NamePrinted \in Seq(Entries(n))
  BY <1>1 DEF NamePrinted
<1>3. out \o NamePrinted \in Seq(Entries(n))
  BY <1>1, <1>2
<1>4. ASSUME NEW e
      PROVE  /\ HasEntry(b, e) <=> e = e0 /\ sw.lines /\ ~Several
             /\ HasEntry(NamePrinted, e) <=> e = Name(n) /\ ~(gfDoneFile \/ sw.noFile \/ Holds)
  BY OneHas DEF NamePrinted
<1> HIDE DEF b
<1>5. ASSUME NEW e
      PROVE  HasEntry(out', e) <=> HasEntry(out, e) \/ HasEntry(NamePrinted, e) \/ HasEntry(b, e)
  <2>1. HasEntry((out \o NamePrinted) \o b, e) <=>
          HasEntry(out \o NamePrinted, e) \/ HasEntry(b, e)
    BY <1>2, <1>3, ConcatHas
  <2>2. HasEntry(out \o NamePrinted, e) <=> HasEntry(out, e) \/ HasEntry(NamePrinted, e)
    BY <1>1, <1>2, ConcatHas
  <2> QED
    BY <1>1, <2>1, <2>2
<1> QED
  BY <1>4, <1>5 DEF e0

LEMMA HitOnce ==
  ASSUME Typed, HitShown, Once(out), ~HasEntry(out, Item(n, ThisHit))
  PROVE  Once(out')
<1> DEFINE e0 == Item(n, ThisHit)
           b == IF sw.lines /\ ~Several THEN <<e0>> ELSE <<>>
<1>1. /\ out \in Seq(Entries(n)) /\ Name(n) \in Entries(n) /\ e0 \in Entries(n)
      /\ out' = (out \o NamePrinted) \o b
  BY ThisHitIs DEF HitShown, Hit, Typed
<1>2. e0 # Name(n) /\ Name(n).find = 0
  <2>1. ThisHit \in FindNum \X Nat /\ n \in Nat
    BY HitTaken DEF HitShown
  <2> HIDE DEF ThisHit
  <2>2. Item(n, ThisHit) # Name(n)
    BY <2>1, ItemIs
  <2> QED
    BY <2>2 DEF Name, e0
<1> HIDE DEF e0
<1>3. b \in Seq(Entries(n)) /\ NamePrinted \in Seq(Entries(n))
  BY <1>1 DEF NamePrinted
<1>4. Once(b) /\ Once(NamePrinted)
  BY DEF Once, NamePrinted
<1>5. \A e : (HasEntry(b, e) => e = e0) /\ (HasEntry(NamePrinted, e) => e = Name(n))
  BY OneHas DEF NamePrinted
<1> HIDE DEF b
<1>6. out \o NamePrinted \in Seq(Entries(n)) /\ Once(out \o NamePrinted)
  BY <1>1, <1>2, <1>3, <1>4, <1>5, OnceConcat
<1>7. ~HasEntry(out \o NamePrinted, e0)
  <2>1. HasEntry(out \o NamePrinted, e0) <=> HasEntry(out, e0) \/ HasEntry(NamePrinted, e0)
    BY <1>1, <1>3, ConcatHas
  <2> QED
    BY <1>2, <1>5, <2>1 DEF e0
<1>8. \A e : HasEntry(out \o NamePrinted, e) /\ HasEntry(b, e) => e.find = 0
  BY <1>5, <1>7
<1>9. Once((out \o NamePrinted) \o b)
  BY <1>3, <1>4, <1>6, <1>8, OnceConcat
<1> QED
  BY <1>1, <1>9

(* One line more of the file m.                                            *)
LEMMA OneLineMore ==
  ASSUME NEW m \in Nat, NEW t \in FindNum \X Nat, NEW o, NEW q,
         \A e : e # Name(m) => (HasEntry(q, e) <=> HasEntry(o, e) \/ e = Item(m, t))
  PROVE  LinesOf(q, m) = LinesOf(o, m) \cup {t}
<1>1. ASSUME NEW h \in FindNum \X Nat
      PROVE  HasEntry(q, Item(m, h)) <=> HasEntry(o, Item(m, h)) \/ h = t
  BY ItemIs
<1> QED
  BY <1>1 DEF LinesOf

LEMMA NoLineMore ==
  ASSUME NEW m \in Nat, NEW o, NEW q,
         \A e : e # Name(m) => (HasEntry(q, e) <=> HasEntry(o, e))
  PROVE  LinesOf(q, m) = LinesOf(o, m)
<1>1. ASSUME NEW h \in FindNum \X Nat
      PROVE  HasEntry(q, Item(m, h)) <=> HasEntry(o, Item(m, h))
  BY ItemIs
<1> QED
  BY <1>1 DEF LinesOf

(* A hit that is shown is noted, and kept or printed.                      *)
LEMMA HitRight ==
  ASSUME Typed, Heading, ShownRight, HitShown
  PROVE  ShownRight'
<1> DEFINE t == ThisHit
<1>1. /\ Hit /\ ~IsInhibited /\ g_ioHold' = Holds /\ DoOutFileName
      /\ g_sLines' = IF sw.lines /\ Several THEN InsertLine(g_sLines, Item(n, t))
                     ELSE g_sLines
  BY DEF HitShown
<1>2. /\ n \in Nat \ {0} /\ n' = n /\ UNCHANGED inputs /\ sw' = sw /\ pc = "scan" /\ pc' = "scan"
      /\ Taken' = Taken \cup {t} /\ t \notin Taken /\ t \in FindNum \X Nat
      /\ hits'[n'] \ todo' = (hits[n] \ todo) \cup {t} /\ hits'[n'] # todo'
      /\ Left' = Left /\ (\A m \in Left : m \in Nat /\ m # n)
      /\ Several' = Several /\ HoldsBack' = HoldsBack
  BY <1>1, HitTaken DEF inputs, Several, HoldsBack
<1>3. Noting /\ KeepsLines /\ PrintsLines /\ Once(out)
  BY <1>2 DEF ShownRight
<1>4. Noting'
  <2>1. /\ g_dwFndFlg' = IF sw.skip THEN g_dwFndFlg ELSE g_dwFndFlg \cup {t[1]}
        /\ g_dwFinds' = g_dwFinds + 1 /\ g_dwFinds \in Nat
    BY <1>1 DEF Hit, Typed
  <2> HIDE DEF t
  <2>2. g_dwFinds' > 0
    BY <2>1
  <2>3. sw'.skip \/ g_dwFndFlg' = {h[1] : h \in hits'[n'] \ todo'}
    <3>1. sw.skip \/ g_dwFndFlg' = {h[1] : h \in hits[n] \ todo} \cup {t[1]}
      BY <1>3, <2>1 DEF Noting
    <3> QED
      BY <1>2, <3>1
  <2>4. gfDoneFile' <=> ~sw'.noFile /\ Taken' # {}
    <3>1. (gfDoneFile => ~sw.noFile) /\ gfDoneFile \in BOOLEAN /\ sw.noFile \in BOOLEAN
      BY InputTypes DEF Heading, Typed
    <3>2. gfDoneFile' <=> ~sw.noFile
      <4>1. CASE gfDoneFile
        BY <1>1, <3>1, <4>1 DEF DoOutFileName
      <4>2. CASE ~gfDoneFile
        BY <1>1, <3>1, <4>2 DEF DoOutFileName
      <4> QED
        BY <4>1, <4>2
    <3> QED
      BY <1>2, <3>2
  <2>5. HoldsBack' => g_ioHold'
    BY <1>1, <1>2, Zenon DEF Holds, HoldsBack
  <2> QED
    BY <2>2, <2>3, <2>4, <2>5 DEF Noting
<1>5. KeepsLines'
  <2> DEFINE e0 == Item(n, t)
  <2>1. e0 \in Lines(n) /\ g_sLines \in Seq(Lines(n))
    BY <1>2, ItemIs DEF Heading
  <2>2. CASE sw.lines /\ Several
    <3>1. ~HasEntry(g_sLines, e0) /\ Once(g_sLines) /\ LinesOf(g_sLines, n) = Taken
      BY <1>2, <1>3, <2>2 DEF KeepsLines, LinesOf
    <3> DEFINE s == g_sLines
               r == InsertLine(s, e0)
    <3>2. Once(r) /\ \A e : HasEntry(r, e) <=> HasEntry(s, e) \/ e = e0
      <4> HIDE DEF e0
      <4> QED
        BY <2>1, <3>1, InsertLineHas
    <3> HIDE DEF r, s, t
    <3>3. LinesOf(r, n) = LinesOf(s, n) \cup {t}
      <4>1. \A e : HasEntry(r, e) <=> HasEntry(s, e) \/ e = Item(n, t)
        BY <3>2
      <4> QED
        BY <1>2, <4>1, OneLineMore
    <3>4. g_sLines' = r
      BY <1>1, <2>2 DEF r, s
    <3>5. Once(g_sLines') /\ LinesOf(g_sLines', n) = Taken'
      BY <1>2, <3>1, <3>2, <3>3, <3>4 DEF s
    <3>6. Once(g_sLines)' /\ LinesOf(g_sLines, n)' = LinesOf(g_sLines', n)
      BY <1>2, <3>5 DEF Once, LinesOf, HasEntry, Item, FindNum
    <3> QED
      BY <1>2, <2>2, <3>5, <3>6 DEF KeepsLines
  <2>3. CASE ~(sw.lines /\ Several)
    <3>1. g_sLines' = g_sLines
      BY <1>1, <2>3
    <3>2. Once(g_sLines)' /\ LinesOf(g_sLines, n)' = LinesOf(g_sLines, n)
      BY <1>2, <1>3, <3>1 DEF Once, LinesOf, HasEntry, Item, FindNum, KeepsLines
    <3> QED
      BY <1>2, <1>3, <2>3, <3>2 DEF KeepsLines
  <2> QED
    BY <2>2, <2>3
<1>6. PrintsLines'
  <2>1. \A e : e # Name(n) => (HasEntry(out', e) <=>
          HasEntry(out, e) \/ (e = Item(n, t) /\ sw.lines /\ ~Several))
    BY HitPrints
  <2> HIDE DEF t
  <2>2. CASE sw.lines /\ ~Several
    <3>1. LinesOf(out', n) = LinesOf(out, n) \cup {t}
      BY <1>2, <2>1, <2>2, OneLineMore
    <3> QED
      BY <1>2, <1>3, <2>2, <3>1 DEF PrintsLines, LinesOf, HasEntry, Item, FindNum
  <2>3. CASE ~(sw.lines /\ ~Several)
    <3>1. LinesOf(out', n) = LinesOf(out, n)
      BY <1>2, <2>1, <2>3, NoLineMore
    <3> QED
      BY <1>2, <1>3, <2>3, <3>1 DEF PrintsLines, LinesOf, HasEntry, Item, FindNum
  <2> QED
    BY <2>2, <2>3
<1>7. \A m \in Left' : FileRight(m, LinesOf(out, m), HasName(out, m))'
  <2> SUFFICES ASSUME NEW m \in Left PROVE FileRight(m, LinesOf(out, m), HasName(out, m))'
    BY <1>2
  <2>1. \A e : e.file # n => (HasEntry(out', e) <=> HasEntry(out, e))
    <3>1. Name(n).file = n /\ Item(n, t).file = n
      BY DEF Name, Item
    <3> QED
      BY <3>1, HitPrints
  <2>2. FileRight(m, LinesOf(out', m), HasName(out', m))
    BY <1>2, <2>1, OthersStay
  <2>3. LinesOf(out, m)' = LinesOf(out', m) /\ HasName(out, m)' = HasName(out', m)
    BY DEF LinesOf, HasEntry, Item, FindNum, HasName, Name
  <2> QED
    BY <1>2, <2>2, <2>3, SameFiles
<1>8. Once(out)'
  <2>1. ~HasEntry(out, Item(n, t))
    BY <1>2, <1>3 DEF PrintsLines, LinesOf
  <2>2. Once(out')
    BY <1>3, <2>1, HitOnce
  <2> QED
    BY <2>2 DEF Once
<1> QED
  BY <1>4, <1>5, <1>6, <1>7, <1>8 DEF ShownRight
(* The lines kept are those of the file in hand.                           *)
LEMMA KeptIs ==
  ASSUME Typed, Heading, pc = "scan"
  PROVE  /\ n \in Nat \ {0} /\ g_sLines \in Seq(Lines(n)) /\ types \in [FindNum -> 0..2]
         /\ DOMAIN g_sLines = 1..Len(g_sLines) /\ Len(g_sLines) \in Nat
         /\ \A u \in DOMAIN g_sLines :
              /\ <<g_sLines[u].find, g_sLines[u].line>> \in LinesOf(g_sLines, n)
              /\ g_sLines[u] = Item(n, <<g_sLines[u].find, g_sLines[u].line>>)
              /\ Given(g_sLines)[u] = types[g_sLines[u].find]
         /\ Given(g_sLines) \in [DOMAIN g_sLines -> 0..2]
<1>1. /\ n \in Nat \ {0} /\ g_sLines \in Seq(Lines(n)) /\ types \in [FindNum -> 0..2]
  BY InputTypes, TypesAssumption DEF Heading, Typed
<1> DEFINE s == g_sLines
<1>2. DOMAIN s = 1..Len(s) /\ Len(s) \in Nat /\ \A u \in DOMAIN s : s[u] \in Lines(n)
  BY <1>1
<1>3. \A e \in Lines(n) : /\ <<e.find, e.line>> \in FindNum \X Nat
                          /\ e = Item(n, <<e.find, e.line>>)
                          /\ e.find \in FindNum
  BY DEF Lines, Item
<1> HIDE DEF s
<1>4. ASSUME NEW u \in DOMAIN s
      PROVE  /\ <<s[u].find, s[u].line>> \in LinesOf(s, n)
             /\ s[u] = Item(n, <<s[u].find, s[u].line>>)
             /\ Given(s)[u] = types[s[u].find] /\ Given(s)[u] \in 0..2
  BY <1>1, <1>2, <1>3, <1>4 DEF LinesOf, HasEntry, Given
<1>5. Given(s) \in [DOMAIN s -> 0..2]
  <2>1. Given(s) = [u \in DOMAIN s |-> Given(s)[u]]
    BY DEF Given
  <2> QED
    BY <1>4, <2>1
<1> QED
  BY <1>1, <1>2, <1>4, <1>5 DEF s

(* And so are those picked of them.                                        *)
LEMMA LinesOutAre ==
  ASSUME Typed, Heading, pc = "scan", KeepsLines
  PROVE  /\ LinesOut \in Seq(Lines(n)) /\ Once(LinesOut)
         /\ \A h : h \in LinesOf(LinesOut, n) <=>
              /\ h \in FindNum \X Nat
              /\ \E u \in DOMAIN g_sLines :
                   ShowFLinesTypes(g_sLines)[u] = 0 /\ g_sLines[u] = Item(n, h)
         /\ LinesOf(LinesOut, n) \subseteq LinesOf(g_sLines, n)
         /\ \A e : HasEntry(LinesOut, e) =>
              e.file = n /\ e.find # 0 /\ \E h \in LinesOf(LinesOut, n) : e = Item(n, h)
<1> DEFINE s == g_sLines
           z == ShowFLinesTypes(s)
           p == Picked(s, z)
<1>1. /\ n \in Nat \ {0} /\ s \in Seq(Lines(n)) /\ DOMAIN s = 1..Len(s) /\ Len(s) \in Nat
      /\ \A u \in DOMAIN s : /\ <<s[u].find, s[u].line>> \in LinesOf(s, n)
                             /\ s[u] = Item(n, <<s[u].find, s[u].line>>)
  BY KeptIs
<1>2. LinesOut = p /\ Once(s)
  BY DEF LinesOut, KeepsLines
<1> HIDE DEF s, z
<1>3. p \in Seq(Lines(n)) /\ FromFirst(p, s, Len(s))
  BY <1>1, PickedIs
<1>4. \A e : HasEntry(p, e) <=> \E u \in 1..Len(s) : z[u] = 0 /\ s[u] = e
  BY <1>1, PickedHas
<1> HIDE DEF p
<1>5. Once(p)
  <2>1. DOMAIN p \subseteq Nat
    BY <1>3
  <2> QED
    BY <1>1, <1>2, <1>3, <2>1, PickedOnce
<1>6. \A h : h \in LinesOf(p, n) <=> /\ h \in FindNum \X Nat
                                     /\ \E u \in DOMAIN s : z[u] = 0 /\ s[u] = Item(n, h)
  BY <1>1, <1>4 DEF LinesOf
<1>7. LinesOf(p, n) \subseteq LinesOf(s, n)
  BY <1>6 DEF LinesOf, HasEntry
<1>8. ASSUME NEW e, HasEntry(p, e)
      PROVE  e.file = n /\ e.find # 0 /\ \E h \in LinesOf(p, n) : e = Item(n, h)
  <2>1. PICK u \in DOMAIN s : z[u] = 0 /\ s[u] = e
    BY <1>1, <1>4, <1>8
  <2> DEFINE h == <<s[u].find, s[u].line>>
  <2>2. h \in FindNum \X Nat /\ e = Item(n, h)
    BY <1>1, <2>1 DEF LinesOf
  <2> HIDE DEF h
  <2>3. h \in LinesOf(p, n)
    BY <1>6, <2>1, <2>2
  <2>4. e.file = n /\ e.find # 0
    BY <1>1, <2>2, ItemIs
  <2> QED
    BY <2>2, <2>3, <2>4
<1> QED
  BY <1>2, <1>3, <1>5, <1>6, <1>7, <1>8 DEF s, z

(* What ShowFLines leaves of the lines of a file is as the types say.      *)
LEMMA EndTyping ==
  ASSUME Typed, Heading, pc = "scan", KeepsLines, sw.lines, Several, todo = {}
  PROVE  Typing(n, LinesOf(LinesOut, n))
<1> DEFINE s == g_sLines
           z == ShowFLinesTypes(s)
           P == LinesOf(LinesOut, n)
           hit(u) == <<s[u].find, s[u].line>>
<1>1. /\ n \in Nat \ {0} /\ s \in Seq(Lines(n)) /\ types \in [FindNum -> 0..2]
      /\ Given(s) \in [DOMAIN s -> 0..2]
  BY KeptIs
<1>2. LinesOf(s, n) = Free(n)
  BY DEF KeepsLines, Taken
<1>3. \A u \in DOMAIN s : /\ hit(u) \in Free(n) /\ s[u] = Item(n, hit(u))
                          /\ Given(s)[u] = types[s[u].find]
  BY <1>2, KeptIs
<1>4. \A h : h \in P <=> /\ h \in FindNum \X Nat
                         /\ \E u \in DOMAIN s : z[u] = 0 /\ s[u] = Item(n, h)
  BY LinesOutAre
<1> DEFINE at(u, h) == /\ s[u].find = h[1] /\ s[u].line = h[2]
                       /\ Given(s)[u] = types[h[1]]
<1>5. Free(n) \subseteq FindNum \X Nat /\ P \subseteq FindNum \X Nat
  BY <1>2 DEF LinesOf
<1>6. \A h \in Free(n) : \E u \in DOMAIN s : s[u] = Item(n, h)
  BY <1>2 DEF LinesOf, HasEntry
<1>7. \A h : \A u \in DOMAIN s : s[u] = Item(n, h) => at(u, h)
  <2>1. \A h : Item(n, h).find = h[1] /\ Item(n, h).line = h[2]
    BY DEF Item
  <2> QED
    BY <1>3, <2>1
<1>8. \A h \in P : h \in Free(n) /\ \E u \in DOMAIN s : z[u] = 0 /\ at(u, h)
  <2>1. P \subseteq Free(n)
    BY <1>2, LinesOutAre
  <2> HIDE DEF P, z, at
  <2> QED
    BY <1>4, <1>7, <2>1
<1>9. \A u \in DOMAIN s : z[u] = 0 => hit(u) \in P
  <2> HIDE DEF P, z, at
  <2> QED
    BY <1>3, <1>4, <1>5
<1>10. \A u \in DOMAIN s : /\ hit(u)[1] = s[u].find /\ hit(u)[2] = s[u].line
                           /\ Given(s)[u] = types[hit(u)[1]]
  BY <1>3
<1>11. /\ \A j \in DOMAIN s : Given(s)[j] = 0 => z[j] = 0
       /\ (\A j \in DOMAIN s : Given(s)[j] # 2) =>
            ((\E j \in DOMAIN s : Given(s)[j] = 1 /\ z[j] = 0) <=>
             \E u, v \in DOMAIN s : Company(s, 1, u, v))
       /\ (\A j \in DOMAIN s : Given(s)[j] # 1) =>
            /\ \A u \in DOMAIN s : Given(s)[u] = 2 /\ z[u] = 0 =>
                 \E v \in DOMAIN s : Company(s, 2, u, v) /\ s[v].line = s[u].line
            /\ \A u, v \in DOMAIN s : Company(s, 2, u, v) /\ s[v].line = s[u].line =>
                 z[u] = 0 \/ z[v] = 0
  BY <1>1, LeftByTurns
<1>12. \A u \in DOMAIN s : s[u].find \in FindNum
  <2>1. \A u \in DOMAIN s : s[u] \in Lines(n)
    BY <1>1
  <2> QED
    BY <2>1 DEF Lines
<1> HIDE DEF s, z, P, hit
<1>13. ASSUME \A k \in FindNum : types[k] = 0 PROVE P = Free(n)
  <2>1. ASSUME NEW h \in Free(n) PROVE h \in P
    <3>1. PICK u \in DOMAIN s : s[u] = Item(n, h)
      BY <1>6
    <3>2. Given(s)[u] = 0
      BY <1>3, <1>12, <1>13
    <3>3. z[u] = 0 /\ h \in FindNum \X Nat
      BY <1>5, <1>11, <3>2
    <3> QED
      BY <1>4, <3>1, <3>3
  <2> QED
    BY <1>8, <2>1
<1>14. ASSUME \A k \in FindNum : types[k] # 2
       PROVE  (\E h \in P : types[h[1]] = 1) <=> Cardinality(TypedIn(n)) > 1
  <2>1. \A j \in DOMAIN s : Given(s)[j] # 2
    BY <1>3, <1>12, <1>14
  <2>2. \A k \in FindNum : types[k] # 0 <=> types[k] = 1
    <3>1. \A k \in FindNum : types[k] \in 0..2
      BY <1>1
    <3> QED
      BY <1>14, <3>1
  <2>3. IsFiniteSet(TypedIn(n))
    <3>1. TypedIn(n) \subseteq FindNum
      BY <1>5 DEF TypedIn
    <3>2. IsFiniteSet(FindNum)
      BY CountAssumption, FS_Interval DEF FindNum
    <3> QED
      BY <3>1, <3>2, FS_Subset
  <2>4. (\E h \in P : types[h[1]] = 1) <=> \E j \in DOMAIN s : Given(s)[j] = 1 /\ z[j] = 0
    <3>1. ASSUME NEW h \in P, types[h[1]] = 1
          PROVE  \E j \in DOMAIN s : Given(s)[j] = 1 /\ z[j] = 0
      BY <1>8, <3>1
    <3>2. ASSUME NEW j \in DOMAIN s, Given(s)[j] = 1, z[j] = 0
          PROVE  \E h \in P : types[h[1]] = 1
      BY <1>9, <1>10, <3>2
    <3> QED
      BY <3>1, <3>2
  <2>5. (\E u, v \in DOMAIN s : Company(s, 1, u, v)) <=> \E a, b \in TypedIn(n) : a # b
    <3>1. ASSUME NEW u \in DOMAIN s, NEW v \in DOMAIN s, Company(s, 1, u, v)
          PROVE  \E a, b \in TypedIn(n) : a # b
      <4>1. /\ hit(u) \in Free(n) /\ hit(v) \in Free(n) /\ hit(u)[1] # hit(v)[1]
            /\ types[hit(u)[1]] = 1 /\ types[hit(v)[1]] = 1
        BY <1>3, <1>10, <3>1 DEF Company
      <4>2. hit(u)[1] \in TypedIn(n) /\ hit(v)[1] \in TypedIn(n)
        BY <4>1 DEF TypedIn
      <4> QED
        BY <4>1, <4>2
    <3>2. ASSUME NEW a \in TypedIn(n), NEW b \in TypedIn(n), a # b
          PROVE  \E u, v \in DOMAIN s : Company(s, 1, u, v)
      <4>1. PICK h \in Free(n) : h[1] = a /\ types[a] # 0
        BY DEF TypedIn
      <4>2. PICK g \in Free(n) : g[1] = b /\ types[b] # 0
        BY DEF TypedIn
      <4>3. PICK u \in DOMAIN s : at(u, h)
        BY <1>6, <1>7
      <4>4. PICK v \in DOMAIN s : at(v, g)
        BY <1>6, <1>7
      <4>5. types[a] = 1 /\ types[b] = 1
        BY <1>5, <2>2, <4>1, <4>2
      <4> QED
        BY <3>2, <4>1, <4>2, <4>3, <4>4, <4>5 DEF Company
    <3> QED
      BY <3>1, <3>2
  <2> QED
    BY <1>11, <2>1, <2>3, <2>4, <2>5, MoreThanOne
<1>15. ASSUME \A k \in FindNum : types[k] # 1
       PROVE  {h[2] : h \in {g \in P : types[g[1]] = 2}} =
              {h[2] : h \in {g \in Free(n) : types[g[1]] = 2 /\
                        \E f \in Free(n) : types[f[1]] = 2 /\ f[1] # g[1] /\ f[2] = g[2]}}
  <2>1. \A j \in DOMAIN s : Given(s)[j] # 1
    BY <1>3, <1>12, <1>15
  <2> DEFINE Two(g) == /\ g \in Free(n) /\ types[g[1]] = 2
                       /\ \E f \in Free(n) : types[f[1]] = 2 /\ f[1] # g[1] /\ f[2] = g[2]
  <2>2. ASSUME NEW h \in P, types[h[1]] = 2 PROVE Two(h)
    <3>1. PICK u \in DOMAIN s : z[u] = 0 /\ at(u, h)
      BY <1>8
    <3>2. PICK v \in DOMAIN s : Company(s, 2, u, v) /\ s[v].line = s[u].line
      BY <1>11, <2>1, <2>2, <3>1
    <3>3. /\ hit(v) \in Free(n) /\ types[hit(v)[1]] = 2
          /\ hit(v)[1] # h[1] /\ hit(v)[2] = h[2]
      BY <1>3, <1>10, <3>1, <3>2 DEF Company
    <3> QED
      BY <1>8, <2>2, <3>3
  <2>3. ASSUME NEW g, Two(g) PROVE \E h \in P : types[h[1]] = 2 /\ h[2] = g[2]
    <3>1. PICK f \in Free(n) : types[f[1]] = 2 /\ f[1] # g[1] /\ f[2] = g[2]
      BY <2>3
    <3>2. PICK u \in DOMAIN s : at(u, g)
      BY <1>6, <1>7, <2>3
    <3>3. PICK v \in DOMAIN s : at(v, f)
      BY <1>6, <1>7
    <3>4. Company(s, 2, u, v) /\ s[v].line = s[u].line
      BY <2>3, <3>1, <3>2, <3>3 DEF Company
    <3>5. z[u] = 0 \/ z[v] = 0
      BY <1>11, <2>1, <3>4
    <3>6. \A w \in {u, v} : types[hit(w)[1]] = 2 /\ hit(w)[2] = g[2]
      BY <1>10, <2>3, <3>1, <3>2, <3>3
    <3> QED
      BY <1>9, <3>5, <3>6
  <2> HIDE DEF Two
  <2>4. {h[2] : h \in {g \in P : types[g[1]] = 2}} = {h[2] : h \in {g \in Free(n) : Two(g)}}
    <3>1. \A h \in P : types[h[1]] = 2 => h \in Free(n) /\ Two(h)
      BY <1>8, <2>2
    <3> QED
      BY <2>3, <3>1
  <2> QED
    BY <2>4 DEF Two
<1> QED
  BY <1>13, <1>14, <1>15 DEF Typing, P
(* What is put behind other entries adds its lines and its names.          *)
LEMMA LinesOfConcat ==
  ASSUME NEW S, NEW s \in Seq(S), NEW b \in Seq(S), NEW m
  PROVE  /\ LinesOf(s \o b, m) = LinesOf(s, m) \cup LinesOf(b, m)
         /\ HasName(s \o b, m) <=> HasName(s, m) \/ HasName(b, m)
<1>1. \A e : HasEntry(s \o b, e) <=> HasEntry(s, e) \/ HasEntry(b, e)
  BY ConcatHas
<1>2. \A o : HasName(o, m) <=> HasEntry(o, Name(m))
  BY DEF HasName, HasEntry
<1>3. HasName(s \o b, m) <=> HasName(s, m) \/ HasName(b, m)
  BY <1>1, <1>2
<1> HIDE DEF HasEntry, HasName
<1>4. LinesOf(s \o b, m) = LinesOf(s, m) \cup LinesOf(b, m)
  BY <1>1 DEF LinesOf
<1> QED
  BY <1>3, <1>4

(* What the end of a file prints: the lines that are left, and under -F:1  *)
(* the name before them, or nothing.                                       *)
LEMMA EndAdds ==
  ASSUME Typed, Heading, ShownRight, EndFile
  PROVE  LET P == LinesOf(LinesOut, n) IN
         /\ EndPrints => /\ LinesOf(out', n) = LinesOf(out, n) \cup P
                         /\ HasName(out', n) <=> HasName(out, n)
         /\ EndReleases => /\ LinesOf(out', n) = LinesOf(out, n) \cup P
                           /\ HasName(out', n) <=> HasName(out, n) \/ gfDoneFile
         /\ \A e : e.file # n => (HasEntry(out', e) <=> HasEntry(out, e))
         /\ Once(out')
<1> DEFINE b == LinesOut
           q == g_sOutList
<1>1. pc = "scan" /\ KeepsLines /\ PrintsLines /\ n \in Nat \ {0}
  BY InputTypes DEF ShownRight, EndFile, EndPrints, EndReleases, EndRejected, EndScan, Heading
<1>2. /\ b \in Seq(Lines(n)) /\ Once(b) /\ LinesOf(b, n) \subseteq LinesOf(g_sLines, n)
      /\ \A e : HasEntry(b, e) => /\ e.file = n /\ e.find # 0
                                  /\ \E h \in LinesOf(b, n) : e = Item(n, h)
  BY <1>1, LinesOutAre
<1>3. out \in Seq(Entries(n)) /\ q \in Seq(Entries(n)) /\ Once(out)
  BY DEF Typed, ShownRight
<1> HIDE DEF b
<1>4. b \in Seq(Entries(n))
  <2>1. Lines(n) \subseteq Entries(n)
    BY <1>1, LinesAre
  <2> QED
    BY <1>2, <2>1
<1>5. ~HasName(b, n)
  <2>1. Name(n).find = 0
    BY DEF Name
  <2>2. ~HasEntry(b, Name(n))
    BY <1>2, <2>1
  <2> QED
    BY <2>2 DEF HasName, HasEntry
<1>6. \A e : HasEntry(out, e) /\ HasEntry(b, e) => e.find = 0
  <2>1. LinesOf(out, n) \cap LinesOf(b, n) = {}
    BY <1>1, <1>2 DEF KeepsLines, PrintsLines
  <2>2. \A h \in LinesOf(b, n) : h \in FindNum \X Nat
    BY DEF LinesOf
  <2>3. ASSUME NEW e, HasEntry(out, e), HasEntry(b, e) PROVE FALSE
    <3>1. PICK h \in LinesOf(b, n) : e = Item(n, h)
      BY <1>2, <2>3
    <3>2. h \in LinesOf(out, n)
      BY <2>2, <2>3, <3>1 DEF LinesOf
    <3> QED
      BY <2>1, <3>2
  <2> QED
    BY <2>3
<1>7. CASE EndPrints
  <2>1. out' = out \o b
    BY <1>7 DEF EndPrints, b
  <2>2. /\ LinesOf(out', n) = LinesOf(out, n) \cup LinesOf(b, n)
        /\ HasName(out', n) <=> HasName(out, n) \/ HasName(b, n)
    BY <1>3, <1>4, <2>1, LinesOfConcat
  <2>3. \A e : HasEntry(out', e) <=> HasEntry(out, e) \/ HasEntry(b, e)
    BY <1>3, <1>4, <2>1, ConcatHas
  <2>4. \A e : e.file # n => (HasEntry(out', e) <=> HasEntry(out, e))
    BY <1>2, <2>3
  <2>5. Once(out')
    BY <1>2, <1>3, <1>4, <1>6, <2>1, OnceConcat
  <2>6. ~EndReleases
    BY <1>7 DEF EndPrints, EndReleases
  <2> QED
    BY <1>5, <2>2, <2>4, <2>5, <2>6 DEF b
<1>8. CASE EndReleases
  <2>1. out' = out \o (q \o b) /\ HoldsBack
    BY <1>8 DEF EndReleases, Held, b, Heading
  <2>2. q = IF gfDoneFile THEN <<Name(n)>> ELSE <<>>
    BY <1>1, <2>1 DEF Heading
  <2>3. /\ \A e : HasEntry(q, e) => e = Name(n)
        /\ HasName(q, n) <=> gfDoneFile
    <3>1. \A e : HasEntry(q, e) <=> e = Name(n) /\ gfDoneFile
      BY <2>2, OneHas
    <3> QED
      BY <3>1 DEF HasName, HasEntry
  <2>4. LinesOf(q, n) = {}
    BY <1>1, <2>3, ItemIs DEF LinesOf
  <2>5. Once(q)
    <3>1. DOMAIN q = {} \/ DOMAIN q = {1}
      BY <2>2
    <3> QED
      BY <3>1 DEF Once
  <2>6. Name(n).file = n /\ Name(n).find = 0
    BY DEF Name
  <2> HIDE DEF q
  <2>7. out \o q \in Seq(Entries(n)) /\ q \o b \in Seq(Entries(n))
    BY <1>3, <1>4
  <2>8. \A e : /\ HasEntry(q \o b, e) <=> HasEntry(q, e) \/ HasEntry(b, e)
               /\ HasEntry(out', e) <=> HasEntry(out, e) \/ HasEntry(q \o b, e)
    BY <1>3, <1>4, <2>1, <2>7, ConcatHas
  <2>9. /\ LinesOf(out', n) = LinesOf(out, n) \cup LinesOf(b, n)
        /\ HasName(out', n) <=> HasName(out, n) \/ gfDoneFile
    <3>1. /\ LinesOf(q \o b, n) = LinesOf(q, n) \cup LinesOf(b, n)
          /\ HasName(q \o b, n) <=> HasName(q, n) \/ HasName(b, n)
      BY <1>3, <1>4, LinesOfConcat
    <3>2. /\ LinesOf(out', n) = LinesOf(out, n) \cup LinesOf(q \o b, n)
          /\ HasName(out', n) <=> HasName(out, n) \/ HasName(q \o b, n)
      <4> DEFINE r == q \o b
      <4>1. out' = out \o r /\ r \in Seq(Entries(n))
        BY <2>1, <2>7
      <4> HIDE DEF r
      <4>2. /\ LinesOf(out \o r, n) = LinesOf(out, n) \cup LinesOf(r, n)
            /\ HasName(out \o r, n) <=> HasName(out, n) \/ HasName(r, n)
        BY <1>3, <4>1, LinesOfConcat
      <4> QED
        BY <4>1, <4>2 DEF r
    <3> QED
      BY <1>5, <2>3, <2>4, <3>1, <3>2
  <2>10. \A e : e.file # n => (HasEntry(out', e) <=> HasEntry(out, e))
    BY <1>2, <2>3, <2>6, <2>8
  <2>11. Once(out')
    <3>1. \A e : HasEntry(q, e) /\ HasEntry(b, e) => e.find = 0
      BY <2>3, <2>6
    <3>2. Once(q \o b)
      BY <1>2, <1>3, <1>4, <2>5, <3>1, OnceConcat
    <3>3. \A e : HasEntry(out, e) /\ HasEntry(q \o b, e) => e.find = 0
      BY <1>6, <2>3, <2>6, <2>8
    <3> QED
      BY <1>3, <2>1, <2>7, <3>2, <3>3, OnceConcat
  <2>12. ~EndPrints
    BY <1>8 DEF EndPrints, EndReleases
  <2> QED
    BY <2>9, <2>10, <2>11, <2>12 DEF b
<1>9. CASE EndRejected
  <2>1. out' = out /\ ~EndPrints /\ ~EndReleases
    BY <1>9 DEF EndPrints, EndReleases, EndRejected
  <2> QED
    BY <1>3, <2>1
<1> QED
  BY <1>7, <1>8, <1>9 DEF EndFile
(* When a file is left, what is printed of it is as asked.                 *)
LEMMA EndShows ==
  ASSUME Typed, InOrder, Heading, ShownRight, EndFile
  PROVE  FileRight(n, LinesOf(out', n), HasName(out', n))
<1> DEFINE P == LinesOf(LinesOut, n)
<1>1. /\ pc = "scan" /\ todo = {} /\ Noting /\ KeepsLines /\ PrintsLines
      /\ Taken = Free(n) /\ n \in Nat \ {0}
  <2>1. pc = "scan" /\ todo = {}
    BY DEF EndFile, EndPrints, EndReleases, EndRejected, EndScan
  <2> QED
    BY <2>1, InputTypes DEF ShownRight, Taken, Heading
<1>2. P \subseteq IF sw.lines /\ Several THEN Free(n) ELSE {}
  BY <1>1, LinesOutAre DEF KeepsLines
<1>3. sw.lines /\ Several => Typing(n, P)
  BY <1>1, EndTyping
<1> HIDE DEF P
<1>4. /\ LinesOf(out, n) = IF sw.lines /\ ~Several THEN Free(n) ELSE {}
      /\ (g_ioHold => HoldsBack) /\ (HoldsBack /\ Free(n) # {} => g_ioHold)
      /\ gfDoneFile <=> ~sw.noFile /\ Free(n) # {}
  BY <1>1 DEF PrintsLines, Noting, Heading
<1>5. /\ EndPrints => /\ LinesOf(out', n) = LinesOf(out, n) \cup P
                      /\ HasName(out', n) <=> HasName(out, n)
      /\ EndReleases => /\ LinesOf(out', n) = LinesOf(out, n) \cup P
                        /\ HasName(out', n) <=> HasName(out, n) \/ gfDoneFile
      /\ EndRejected => out' = out
  BY EndAdds DEF P, EndRejected
<1> SUFFICES ASSUME sw.skip => ~sw.allIn1
             PROVE  /\ IF sw.lines /\ Passes(n) THEN Typing(n, LinesOf(out', n))
                       ELSE LinesOf(out', n) = {}
                    /\ HasName(out', n) <=> (~sw.noFile /\ Free(n) # {} /\ Passes(n))
  BY DEF FileRight
<1>6. CASE HoldsBack
  <2>1. LinesOf(out, n) = {} /\ ~HasName(out, n) /\ ~sw.skip /\ Several /\ sw.allIn1
    <3>1. \A i \in DOMAIN out : out[i].file # n
      BY <1>1, <1>6 DEF Heading
    <3>2. ~HasName(out, n)
      BY <3>1 DEF HasName, Name
    <3> QED
      BY <1>4, <1>6, <3>2 DEF HoldsBack
  <2>2. Passes(n) <=> FindsIn(n) = FindNum
    BY <2>1 DEF Passes
  <2>3. g_dwFndFlg = FindsIn(n)
    <3>1. g_dwFndFlg = {h[1] : h \in hits[n] \ todo} /\ hits[n] \ todo = hits[n]
      BY <1>1, <2>1 DEF Noting
    <3> QED
      BY <3>1 DEF FindsIn
  <2>4. CASE EndPrints
    <3>1. Free(n) = {}
      BY <1>4, <1>6, <2>4 DEF EndPrints
    <3>2. P = {}
      BY <1>2, <3>1
    <3>3. LinesOf(out', n) = P
      BY <1>5, <2>1, <2>4, <3>2
    <3>4. ~HasName(out', n)
      BY <1>5, <2>1, <2>4
    <3> QED
      BY <1>3, <2>1, <3>1, <3>2, <3>3, <3>4
  <2>5. CASE EndReleases
    <3>1. Passes(n)
      BY <2>2, <2>3, <2>5 DEF EndReleases
    <3>2. LinesOf(out', n) = P
      BY <1>5, <2>1, <2>5
    <3>3. HasName(out', n) <=> gfDoneFile
      BY <1>5, <2>1, <2>5
    <3> QED
      BY <1>2, <1>3, <1>4, <2>1, <3>1, <3>2, <3>3
  <2>6. CASE EndRejected
    <3>1. ~Passes(n)
      <4>1. SUFFICES ASSUME FindsIn(n) = FindNum PROVE FALSE
        BY <2>2
      <4>2. 1 \in FindNum
        BY CountAssumption DEF FindNum
      <4>3. hits[n] # {}
        BY <4>1, <4>2 DEF FindsIn
      <4>4. g_dwFinds > 0
        BY <1>1, <4>3 DEF Noting
      <4> QED
        BY <2>1, <2>3, <2>6, <4>1, <4>4 DEF EndRejected
    <3> QED
      BY <1>5, <2>1, <2>6, <3>1
  <2> QED
    BY <2>4, <2>5, <2>6 DEF EndFile
<1>7. CASE ~HoldsBack
  <2>1. Passes(n)
    BY <1>7 DEF HoldsBack, Passes
  <2>2. EndPrints
    BY <1>4, <1>7 DEF EndFile, EndReleases, EndRejected
  <2>3. HasName(out, n) <=> gfDoneFile
    <3>1. gfDoneFile => HasName(out, n)
      BY <1>1, <1>7 DEF Heading
    <3>2. ASSUME HasName(out, n) PROVE gfDoneFile
      <4>1. PICK i \in DOMAIN out : out[i] = Name(n)
        BY <3>2 DEF HasName
      <4>2. out[i].file = n /\ out[i].find = 0
        BY <4>1 DEF Name
      <4>3. gfDoneFile \/ sw.noFile
        BY <1>1, <4>2 DEF InOrder, Printed
      <4>4. ~sw.noFile
        BY <4>2 DEF Heading, Headed
      <4> QED
        BY <4>3, <4>4
    <3> QED
      BY <3>1, <3>2
  <2>4. HasName(out', n) <=> (~sw.noFile /\ Free(n) # {} /\ Passes(n))
    BY <1>4, <1>5, <2>1, <2>2, <2>3
  <2>5. CASE Several
    <3>1. LinesOf(out', n) = P
      BY <1>4, <1>5, <2>2, <2>5
    <3> QED
      BY <1>2, <1>3, <2>1, <2>4, <2>5, <3>1
  <2>6. CASE ~Several
    <3>1. LinesOf(out', n) = IF sw.lines THEN Free(n) ELSE {}
      BY <1>2, <1>4, <1>5, <2>2, <2>6
    <3>2. Typing(n, Free(n))
      BY <2>6 DEF Typing
    <3> QED
      BY <2>1, <2>4, <3>1, <3>2
  <2> QED
    BY <2>5, <2>6
<1> QED
  BY <1>6, <1>7

LEMMA EndRight ==
  ASSUME Typed, InOrder, Heading, ShownRight, EndFile
  PROVE  ShownRight'
<1>1. /\ pc = "scan" /\ pc' # "scan" /\ n' = n /\ UNCHANGED inputs /\ n \in Nat
      /\ DOMAIN hits \subseteq Nat
  <2>1. pc = "scan" /\ pc' # "scan" /\ n' = n /\ UNCHANGED inputs
    BY DEF EndFile, EndPrints, EndReleases, EndRejected, EndScan, Frame, inputs
  <2> QED
    BY <2>1, InputTypes
<1>2. \A m \in Left' : m \in Nat /\ (m = n \/ (m \in Left /\ m # n))
  BY <1>1 DEF Left, inputs
<1>3. /\ \A e : e.file # n => (HasEntry(out', e) <=> HasEntry(out, e))
      /\ Once(out')
  BY EndAdds
<1>4. ASSUME NEW m \in Left' PROVE FileRight(m, LinesOf(out, m), HasName(out, m))'
  <2>1. FileRight(m, LinesOf(out', m), HasName(out', m))
    <3>1. CASE m = n
      BY <3>1, EndShows
    <3>2. CASE m \in Left /\ m # n
      BY <1>1, <1>2, <1>3, <3>2, OthersStay
    <3> QED
      BY <1>2, <3>1, <3>2
  <2>2. LinesOf(out, m)' = LinesOf(out', m) /\ HasName(out, m)' = HasName(out', m)
    BY DEF LinesOf, HasEntry, Item, FindNum, HasName, Name
  <2> QED
    BY <1>1, <2>1, <2>2, SameFiles
<1>5. Once(out)'
  BY <1>3 DEF Once
<1> QED
  BY <1>1, <1>4, <1>5 DEF ShownRight

LEMMA ShownStep ==
  ASSUME Typed, InOrder, Heading, ShownRight, [Next]_vars
  PROVE  ShownRight'
<1>1. CASE UNCHANGED vars
  <2>1. /\ UNCHANGED inputs /\ n' = n /\ pc' = pc /\ todo' = todo /\ out' = out
        /\ g_sLines' = g_sLines /\ g_ioHold' = g_ioHold /\ gfDoneFile' = gfDoneFile
        /\ g_dwFndFlg' = g_dwFndFlg /\ g_dwFinds' = g_dwFinds
        /\ hits' = hits /\ sw' = sw
    BY <1>1 DEF vars, inputs, counts
  <2>2. Left' = Left /\ Taken' = Taken /\ Several' = Several /\ HoldsBack' = HoldsBack
    BY <2>1 DEF Left, Taken, Free, Several, HoldsBack
  <2>3. Noting' = Noting /\ KeepsLines' = KeepsLines /\ PrintsLines' = PrintsLines
        /\ Once(out)' = Once(out)
    <3>1. LinesOf(g_sLines, n)' = LinesOf(g_sLines, n) /\ LinesOf(out, n)' = LinesOf(out, n)
      BY <2>1 DEF LinesOf, HasEntry, Item, FindNum
    <3> QED
      BY <2>1, <2>2, <3>1 DEF Noting, KeepsLines, PrintsLines, Once
  <2>4. ASSUME NEW m \in Left PROVE FileRight(m, LinesOf(out, m), HasName(out, m))'
    <3>1. FileRight(m, LinesOf(out, m), HasName(out, m))
      BY DEF ShownRight
    <3>2. LinesOf(out, m)' = LinesOf(out, m) /\ HasName(out, m)' = HasName(out, m)
      BY <2>1 DEF LinesOf, HasEntry, Item, FindNum, HasName, Name
    <3> QED
      BY <2>1, <3>1, <3>2, SameFiles
  <2> QED
    BY <2>1, <2>2, <2>3, <2>4 DEF ShownRight
<1> QED
  BY <1>1, OpenRight, InhibitedRight, HitRight, EndRight DEF Next

LEMMA ShownInit == Init => Typed /\ InOrder /\ Heading /\ ShownRight
<1> SUFFICES ASSUME Init PROVE Typed /\ InOrder /\ Heading /\ ShownRight
  OBVIOUS
<1>1. DOMAIN <<>> = {} /\ <<>> \in Seq(Lines(n))
  OBVIOUS
<1>2. Ordered(out) /\ Kept
  BY <1>1 DEF Init, Kept, Ordered
<1>3. Heading
  BY <1>1 DEF Init, Heading, Headed
<1>4. Left = {}
  <2>1. Typed
    BY TypeInit
  <2>2. DOMAIN hits = 1..Len(hits) /\ n = 0
    BY <2>1, InputTypes DEF Init
  <2> QED
    BY <2>2 DEF Left
<1>5. ShownRight
  BY <1>1, <1>4 DEF Init, ShownRight, Once
<1> QED
  BY <1>2, <1>3, <1>5, TypeInit DEF Init, InOrder
-----------------------------------------------------------------------------
(* What the properties say of what is printed.                             *)

(* The lines shown of a file are its lines among the entries, each counted *)
(* once; its name is shown when it is among them.                          *)
LEMMA ShownIs ==
  ASSUME Typed, Once(out), NEW m
  PROVE  /\ Shown(m) = LinesOf(out, m)
         /\ Cardinality(Output(m)) = Cardinality(Shown(m))
         /\ Name(m) \in ToSet(out) <=> HasName(out, m)
<1>1. /\ out \in Seq(Entries(n)) /\ n \in Nat /\ DOMAIN out = 1..Len(out) /\ Len(out) \in Nat
      /\ \A i \in DOMAIN out : out[i] \in Entries(n)
  BY InputTypes DEF Typed
<1> DEFINE hit(i) == <<out[i].find, out[i].line>>
<1>2. \A i \in DOMAIN out : out[i].find # 0 =>
        hit(i) \in FindNum \X Nat /\ out[i] = Item(out[i].file, hit(i))
  BY <1>1, LineIs
<1>3. \A i \in Output(m) : /\ i \in DOMAIN out /\ out[i] = Item(m, hit(i))
                           /\ hit(i) \in FindNum \X Nat /\ out[i].find # 0
  BY <1>2 DEF Output
<1>4. Shown(m) = LinesOf(out, m)
  <2>1. ASSUME NEW h \in Shown(m) PROVE h \in LinesOf(out, m)
    <3>1. PICK i \in Output(m) : h = hit(i)
      BY DEF Shown
    <3> HIDE DEF hit
    <3> QED
      BY <1>3, <3>1 DEF LinesOf, HasEntry
  <2>2. ASSUME NEW h \in LinesOf(out, m) PROVE h \in Shown(m)
    <3>1. PICK i \in DOMAIN out : out[i] = Item(m, h)
      BY DEF LinesOf, HasEntry
    <3>2. h \in FindNum \X Nat
      BY DEF LinesOf
    <3>3. h = <<h[1], h[2]>> /\ h[1] # 0
      BY <3>2 DEF FindNum
    <3>4. out[i].file = m /\ out[i].find = h[1] /\ out[i].line = h[2]
      BY <3>1 DEF Item
    <3>5. i \in Output(m) /\ hit(i) = h
      BY <3>3, <3>4 DEF Output
    <3> QED
      BY <3>5 DEF Shown
  <2> QED
    BY <2>1, <2>2
<1>5. Cardinality(Output(m)) = Cardinality(Shown(m))
  <2> DEFINE f == [i \in Output(m) |-> hit(i)]
  <2>1. IsFiniteSet(Output(m))
    <3>1. IsFiniteSet(1..Len(out))
      BY <1>1, FS_Interval
    <3>2. Output(m) \subseteq 1..Len(out)
      BY <1>1 DEF Output
    <3> QED
      BY <3>1, <3>2, FS_Subset
  <2>2. \A h \in Shown(m) : \E i \in Output(m) : h = hit(i)
    BY DEF Shown
  <2>3. \A i \in Output(m) : hit(i) \in Shown(m)
    BY DEF Shown
  <2>4. \A i, j \in Output(m) : hit(i) = hit(j) => i = j
    <3> HIDE DEF hit
    <3> QED
      BY <1>3 DEF Once
  <2> HIDE DEF hit
  <2>5. f \in Bijection(Output(m), Shown(m))
    BY <2>2, <2>3, <2>4 DEF Bijection, Injection, Surjection, IsInjective
  <2> QED
    BY <2>1, <2>5, FS_Bijection DEF ExistsBijection
<1>6. Name(m) \in ToSet(out) <=> HasName(out, m)
  BY DEF ToSet, HasName
<1> QED
  BY <1>4, <1>5, <1>6

(* What was left of every file is as its switches ask.                     *)
LEMMA ShownIsRight ==
  ASSUME Typed, Kept, ShownRight
  PROVE  ShownAsAsked /\ TypedNeedCompany /\ TypedShareLine
<1>1. ASSUME NEW m \in Left
      PROVE  /\ Shown(m) = LinesOf(out, m)
             /\ Cardinality(Output(m)) = Cardinality(Shown(m))
             /\ Name(m) \in ToSet(out) <=> HasName(out, m)
             /\ FileRight(m, Shown(m), Name(m) \in ToSet(out))
  <2>1. /\ Shown(m) = LinesOf(out, m)
        /\ Cardinality(Output(m)) = Cardinality(Shown(m))
        /\ Name(m) \in ToSet(out) <=> HasName(out, m)
    BY ShownIs DEF ShownRight
  <2>2. FileRight(m, LinesOf(out, m), HasName(out, m))
    BY DEF ShownRight
  <2> QED
    BY <2>1, <2>2 DEF FileRight
<1>2. \A m \in Left : m = n => g_sLines = <<>> /\ g_sOutList = <<>>
  BY InputTypes DEF Left, Kept
<1>3. ShownAsAsked
  BY <1>1, <1>2 DEF ShownAsAsked, FileRight, Typing
<1>4. TypedNeedCompany
  BY <1>1 DEF TypedNeedCompany, FileRight, Typing
<1>5. TypedShareLine
  BY <1>1 DEF TypedShareLine, FileRight, Typing
<1> QED
  BY <1>3, <1>4, <1>5

LEMMA ShownAlways == Spec => [](ShownAsAsked /\ TypedNeedCompany /\ TypedShareLine)
<1>1. Init => Typed /\ InOrder /\ Heading /\ ShownRight
  BY ShownInit
<1>2. Typed /\ InOrder /\ Heading /\ ShownRight /\ [Next]_vars =>
        (Typed /\ InOrder /\ Heading /\ ShownRight)'
  BY TypeStep, OrderStep, HeadingStep, ShownStep
<1>3. Typed /\ InOrder /\ Heading /\ ShownRight =>
        ShownAsAsked /\ TypedNeedCompany /\ TypedShareLine
  BY ShownIsRight DEF InOrder
<1> QED
  BY <1>1, <1>2, <1>3, PTL DEF Spec

(* Whatever the files, finds and switches, a file that was left has shown  *)
(* all its lines that are not inhibited, each once, and its name, or, for  *)
(* -F:1 when a find is missing, neither; nothing kept or held back reaches *)
(* the file that follows.                                                  *)
THEOREM ShownAllOrNone == Spec => []ShownAsAsked
BY ShownAlways, PTL

(* ShowFLines shows a line of a find of type 1 exactly in a file that has  *)
(* lines of two such finds, in whatever order the scan met them.           *)
THEOREM TypedInCompany == Spec => []TypedNeedCompany
BY ShownAlways, PTL

(* ShowFLines shows a line for finds of type 2 exactly when two of them    *)
(* stand on it, though it changes the types while it passes over them.     *)
THEOREM TypedOnLine == Spec => []TypedShareLine
BY ShownAlways, PTL
=============================================================================
