-------------------------- MODULE FindInLines_proofs --------------------------
(***************************************************************************)
(* Proofs about FindInLines, for every list of files, list of finds, set   *)
(* of switches and pattern matcher: the types, that the line shown is the  *)
(* one that was searched, that of a file just the lines with every find    *)
(* are shown, and that the search implements FindReport.  ShowLine takes   *)
(* the line from lpoff[0], the search from bgnoff; the invariant says how  *)
(* both lie to the scan, and what was shown of the lines behind it.        *)
(***************************************************************************)
EXTENDS FindInLines, FA4Lemmas

-----------------------------------------------------------------------------
(* What the type invariant says of the file and the finds.                 *)

LEMMA Given ==
  ASSUME TypeOK
  PROVE  /\ files \in Seq(Seq(Byte) \ {<<>>}) /\ Len(files) \in Nat
         /\ finds \in Seq(Find) /\ Len(finds) \in Nat
BY FilesAssumption, FindListsAssumption DEF TypeOK

LEMMA Mapped ==
  ASSUME TypeOK, n > 0
  PROVE  File \in Seq(Byte) /\ Size = Len(File) /\ Size \in Nat \ {0} /\ n \in DOMAIN files
<1>1. files \in Seq(Seq(Byte) \ {<<>>}) /\ n \in 1..Len(files)
  BY Given DEF TypeOK
<1>2. File \in Seq(Byte) \ {<<>>}
  BY <1>1 DEF File
<1> QED
  BY <1>1, <1>2 DEF Size

(* What the scan is at.                                                    *)
LEMMA AtByte ==
  ASSUME TypeOK, Scanning
  PROVE  /\ File \in Seq(Byte) /\ Size = Len(File) /\ Size \in Nat
         /\ n \in DOMAIN files /\ dwi < Size /\ dwi + 1 \in DOMAIN File
         /\ dwi \in Nat /\ bgnoff \in 0..dwi /\ dwl \in Nat
         /\ lpoff \in [0..MXLPS -> Nat] /\ lpoff[0] \in Nat
<1>1. n > 0 /\ dwi < Size
  BY DEF Scanning, TypeOK
<1>2. dwi \in Nat /\ bgnoff \in 0..dwi /\ dwl \in Nat /\ lpoff \in [0..MXLPS -> Nat]
  BY DEF TypeOK
<1>3. lpoff[0] \in Nat
  BY <1>2 DEF MXLPS
<1>4. File \in Seq(Byte) /\ Size = Len(File) /\ Size \in Nat /\ n \in DOMAIN files
  BY <1>1, Mapped
<1> QED
  BY <1>1, <1>2, <1>3, <1>4

(* The loop of Process_Line_For_Finds stops somewhere, at the first find   *)
(* that stops it.                                                          *)
LEMMA StopsAtIs ==
  ASSUME TypeOK, NEW bgn \in Nat, NEW end \in Nat
  PROVE  /\ StopsAt(bgn, end) \in 1..(Len(finds) + 1)
         /\ \A j \in 1..(StopsAt(bgn, end) - 1) : FoundIn(File, j, bgn, end)
         /\ \/ StopsAt(bgn, end) = Len(finds) + 1
            \/ Rejected(StopsAt(bgn, end))
            \/ ~FoundIn(File, StopsAt(bgn, end), bgn, end)
<1> DEFINE Stops(k) == k = Len(finds) + 1 \/ Rejected(k) \/ ~FoundIn(File, k, bgn, end)
           S == {k \in 1..(Len(finds) + 1) : Stops(k)}
<1>1. Len(finds) \in Nat
  BY Given
<1>2. S \in SUBSET Nat /\ Len(finds) + 1 \in S
  BY <1>1
<1>3. PICK m \in S : \A s \in S : m <= s
  <2> HIDE DEF S
  <2> QED
    BY <1>2, Least
<1>4. \A j \in 1..(m - 1) : j \in 1..(Len(finds) + 1) /\ j \notin S
  BY <1>1, <1>3
<1>5. \A j \in 1..(m - 1) : ~Rejected(j) /\ FoundIn(File, j, bgn, end)
  BY <1>4
<1> DEFINE P(k) == /\ k = Len(finds) + 1 \/ Rejected(k) \/ ~FoundIn(File, k, bgn, end)
                   /\ \A j \in 1..(k - 1) : ~Rejected(j) /\ FoundIn(File, j, bgn, end)
<1>6. \E k \in 1..(Len(finds) + 1) : P(k)
  BY <1>3, <1>5
<1>7. StopsAt(bgn, end) = CHOOSE k \in 1..(Len(finds) + 1) : P(k)
  BY DEF StopsAt
<1>8. StopsAt(bgn, end) \in 1..(Len(finds) + 1) /\ P(StopsAt(bgn, end))
  <2> HIDE DEF P
  <2> QED
    BY <1>6, <1>7
<1> QED
  BY <1>8

(* FullComp counts the finds seen.                                         *)
LEMMA CountedType ==
  ASSUME NEW k \in Nat
  PROVE  Counted(k) \in Nat
<1> DEFINE S == {j \in 1..(k - 1) : ~finds[j].regex}
<1>1. S \in SUBSET Nat /\ \A s \in S : s <= k
  OBVIOUS
<1>2. Cardinality(S) \in Nat
  <2> HIDE DEF S
  <2> QED
    BY <1>1, CountGrows
<1> QED
  BY <1>2 DEF Counted

LEMMA CountedAtStop ==
  ASSUME TypeOK
  PROVE  gdwFinds + Counted(StopsAt(bgnoff, dwi)) \in Nat
<1>1. bgnoff \in Nat /\ dwi \in Nat /\ gdwFinds \in Nat /\ Len(finds) \in Nat
  BY Given DEF TypeOK
<1>2. StopsAt(bgnoff, dwi) \in 1..(Len(finds) + 1)
  BY <1>1, StopsAtIs
<1>3. Counted(StopsAt(bgnoff, dwi)) \in Nat
  <2>1. StopsAt(bgnoff, dwi) \in Nat
    BY <1>1, <1>2
  <2> QED
    BY <2>1, CountedType
<1> QED
  BY <1>1, <1>3

(* A find that stands in a stretch is a byte of it, and no end of line.    *)
LEMMA FoundInLine ==
  ASSUME TypeOK, NEW k \in DOMAIN finds, NEW f \in Seq(Byte),
         NEW bgn \in Nat, NEW end \in 0..Len(f), FoundIn(f, k, bgn, end)
  PROVE  /\ bgn < end
         /\ ~finds[k].regex => \E o \in bgn..(end - 1) : ~IsBreak(f[o + 1])
<1>1. CASE finds[k].regex
  BY <1>1 DEF FoundIn
<1>2. CASE ~finds[k].regex
  <2> DEFINE t == Move2Find(sw, finds[k].text)
  <2>1. PICK o \in bgn..(end - 1) : FoundAt(sw, f, o, end, t)
    BY <1>2 DEF FoundIn
  <2>2. ~IsBreak(t[1])
    <3>1. finds[k] \in Find
      BY Given
    <3>2. finds[k].text \in Seq(Byte \ {0, LF, CR}) \ {<<>>}
      BY <3>1 DEF Find
    <3> QED
      BY <3>2, Folded
  <2>3. GetChr(sw, f[o + 1]) = t[1]
    BY <2>1 DEF FoundAt
  <2> HIDE DEF t
  <2> QED
    BY <1>2, <2>2, <2>3, ReadsBreak
<1> QED
  BY <1>1, <1>2

-----------------------------------------------------------------------------
(* The types.                                                              *)

LEMMA NextLineType ==
  ASSUME TypeOK, Scanning, NextLine
  PROVE  /\ dwi' \in Nat /\ bgnoff' \in 0..dwi'
         /\ dwl' \in Nat /\ lpoff' \in [0..MXLPS -> Nat]
<1>1. dwi \in Nat /\ dwl \in Nat /\ lpoff \in [0..MXLPS -> Nat]
  BY DEF TypeOK
<1>2. dwi' = dwi + 1 /\ bgnoff' = dwi
  BY DEF NextLine
<1>3. IncLine(dwi, lpoff) \in [0..MXLPS -> Nat]
  BY <1>1, IncLineType
<1> QED
  BY <1>1, <1>2, <1>3 DEF NextLine

LEMMA InitType == Init => TypeOK
<1> SUFFICES ASSUME Init PROVE TypeOK
  OBVIOUS
<1>1. files \in Seq(Seq(Byte) \ {<<>>})
  BY FilesAssumption DEF Init
<1>2. n \in 0..Len(files)
  BY <1>1 DEF Init
<1>3. lpoff \in [0..MXLPS -> Nat]
  BY DEF Init
<1>4. shown \in Seq([n : Nat, off : Nat, end : Nat, begin : Nat, line : Nat])
  BY DEF Init
<1> QED
  BY <1>2, <1>3, <1>4 DEF Init, TypeOK

LEMMA NextType == TypeOK /\ [Next]_vars => TypeOK'
<1> SUFFICES ASSUME TypeOK, [Next]_vars PROVE TypeOK'
  OBVIOUS
<1> USE DEF inputs, lines, counts
<1>0. Len(files) \in Nat /\ Len(finds) \in Nat
  BY Given
<1>1. CASE OpenFile
  BY <1>0, <1>1 DEF OpenFile, TypeOK
<1>2. CASE NextByte
  BY <1>2 DEF NextByte, ScanFrame, TypeOK
<1>3. CASE ShortLine
  <2>1. Scanning /\ NextLine
    BY <1>3 DEF ShortLine, AtBreak
  <2> QED
    BY <1>3, <2>1, NextLineType DEF ShortLine, ScanFrame, TypeOK
<1>4. CASE LineLacksFind
  <2>1. Scanning /\ NextLine
    BY <1>4 DEF LineLacksFind, AtBreak
  <2>2. gdwFinds' \in Nat
    BY <1>4, CountedAtStop DEF LineLacksFind
  <2> QED
    BY <1>4, <2>1, <2>2, NextLineType DEF LineLacksFind, ScanFrame, TypeOK
<1>5. CASE LineHasAll
  <2>1. Scanning /\ NextLine
    BY <1>5 DEF LineHasAll, AtBreak
  <2>2. gdwFinds' \in Nat
    <3>1. Counted(Len(finds) + 1) \in Nat
      BY <1>0, CountedType
    <3> QED
      BY <1>5, <3>1 DEF LineHasAll, TypeOK
  <2>3. shown' \in Seq([n : Nat, off : Nat, end : Nat, begin : Nat, line : Nat])
    <3>1. [n |-> n, off |-> bgnoff, end |-> dwi, begin |-> lpoff[0], line |-> dwl]
            \in [n : Nat, off : Nat, end : Nat, begin : Nat, line : Nat]
      BY <1>0, <2>1, AtByte DEF TypeOK
    <3>2. shown \in Seq([n : Nat, off : Nat, end : Nat, begin : Nat, line : Nat])
      BY DEF TypeOK
    <3> QED
      BY <1>5, <3>1, <3>2 DEF LineHasAll
  <2> QED
    BY <1>5, <2>1, <2>2, <2>3, NextLineType DEF LineHasAll, ScanFrame, TypeOK
<1>6. CASE RegexFails
  <2>1. gdwFinds' \in Nat
    BY <1>6, CountedAtStop DEF RegexFails
  <2> QED
    BY <1>6, <2>1 DEF RegexFails, TypeOK
<1>7. CASE EndFile
  BY <1>7 DEF EndFile, TypeOK
<1>8. CASE UNCHANGED vars
  BY <1>8 DEF vars, TypeOK
<1> QED
  BY <1>1, <1>2, <1>3, <1>4, <1>5, <1>6, <1>7, <1>8 DEF Next

(* Fa4Find.c:497-577: the variables of Find_In_Lines keep their types,     *)
(* whatever the files, the finds and the switches.                         *)
THEOREM TypeCorrect == Spec => []TypeOK
<1>1. Init => TypeOK
  BY InitType
<1>2. TypeOK /\ [Next]_vars => TypeOK'
  BY NextType
<1> QED
  BY <1>1, <1>2, PTL DEF Spec

-----------------------------------------------------------------------------
(* The line shown.                                                         *)

(* The scan has passed no end of line since the one at bgnoff, and the LFs *)
(* behind it are counted.                                                  *)
LineKept ==
  pc = "scan" =>
    /\ dwi <= Size
    /\ bgnoff = 0 \/ (bgnoff < dwi /\ IsBreak(File[bgnoff + 1]))
    /\ \A j \in (bgnoff + 1)..(dwi - 1) : ~IsBreak(File[j + 1])
    /\ CountedAt(File, dwi, dwl, lpoff[0])

(* What ShownIsSearched says of one report.                                *)
Right(r) ==
  NoLoneCR(files[r.n]) =>
    /\ (\E k \in DOMAIN finds : ~finds[k].regex) => Line(r) < r.end
    /\ Line(r) < r.end =>
         /\ SkipBreaks(files[r.n], r.begin) = Line(r)
         /\ r.line = Cardinality(LFsBefore(files[r.n], Line(r)))

(* A line that is not empty begins at the last LF, or with the file.       *)
LEMMA BeginIsStart ==
  ASSUME NEW f \in Seq(Byte), NoLoneCR(f), NEW d \in 0..Len(f), NEW b \in 0..d,
         b = 0 \/ IsBreak(f[b + 1]),
         \A j \in (b + 1)..(d - 1) : ~IsBreak(f[j + 1]),
         NEW dl, NEW last \in Nat, CountedAt(f, d, dl, last),
         NEW s \in b..(d - 1), ~IsBreak(f[s + 1]),
         \A j \in b..(s - 1) : IsBreak(f[j + 1])
  PROVE  last = b /\ dl = Cardinality(LFsBefore(f, s))
<1>1. \A i \in LFsBefore(f, d) : i <= b
  BY DEF LFsBefore, IsBreak
<1>2. ASSUME IsBreak(f[b + 1]) PROVE last = b
  <2>1. b < s /\ s < Len(f)
    BY <1>2
  <2>2. f[b + 1] # CR
    <3> SUFFICES ASSUME f[b + 1] = CR PROVE FALSE
      OBVIOUS
    <3>1. f[b + 2] = LF
      <4>1. b + 1 \in DOMAIN f /\ (b + 1) + 1 = b + 2
        BY <2>1
      <4>2. f[(b + 1) + 1] = LF
        BY <4>1 DEF NoLoneCR
      <4> QED
        BY <4>1, <4>2
    <3>2. b + 1 \in (b + 1)..(d - 1)
      BY <2>1
    <3> QED
      BY <3>1, <3>2 DEF IsBreak
  <2>3. b \in LFsBefore(f, d)
    BY <1>2, <2>1, <2>2 DEF LFsBefore, IsBreak
  <2>4. b <= last /\ last \in LFsBefore(f, d) \cup {0}
    BY <2>3 DEF CountedAt
  <2> QED
    BY <1>1, <2>4
<1>3. ASSUME ~IsBreak(f[b + 1]) PROVE last = b
  <2>1. b = 0
    BY <1>3
  <2>2. last \in LFsBefore(f, d) \cup {0}
    BY DEF CountedAt
  <2> QED
    BY <1>1, <2>1, <2>2
<1>4. last = b
  BY <1>2, <1>3
<1>5. LFsBefore(f, d) = LFsBefore(f, s)
  <2>1. \A i \in LFsBefore(f, d) : i < s
    <3>1. b < s \/ b = s
      OBVIOUS
    <3>2. CASE b < s
      BY <1>1, <3>2 DEF LFsBefore
    <3>3. CASE b = s
      BY <1>1, <3>3 DEF LFsBefore, IsBreak
    <3> QED
      BY <3>1, <3>2, <3>3
  <2> QED
    BY <2>1 DEF LFsBefore
<1> QED
  BY <1>4, <1>5 DEF CountedAt

(* The report of a line that holds every find.                             *)
LEMMA ReportRight ==
  ASSUME TypeOK, LineKept, LineHasAll
  PROVE  Right([n |-> n, off |-> bgnoff, end |-> dwi, begin |-> lpoff[0], line |-> dwl])
<1> DEFINE r == [n |-> n, off |-> bgnoff, end |-> dwi, begin |-> lpoff[0], line |-> dwl]
           s == SkipBreaks(File, bgnoff)
<1>1. Scanning
  BY DEF LineHasAll, AtBreak
<1>2. /\ File \in Seq(Byte) /\ Size = Len(File) /\ Size \in Nat
      /\ dwi < Size /\ dwi \in Nat /\ bgnoff \in 0..dwi /\ lpoff[0] \in Nat
  BY <1>1, AtByte
<1>3. /\ bgnoff = 0 \/ IsBreak(File[bgnoff + 1])
      /\ \A j \in (bgnoff + 1)..(dwi - 1) : ~IsBreak(File[j + 1])
      /\ CountedAt(File, dwi, dwl, lpoff[0])
  BY <1>1 DEF LineKept, Scanning
<1>4. bgnoff \in 0..Len(File) /\ dwi \in 0..Len(File) /\ bgnoff \in Nat
  BY <1>2
<1>5. /\ s \in bgnoff..Len(File)
      /\ s = Len(File) \/ ~IsBreak(File[s + 1])
      /\ \A j \in bgnoff..(s - 1) : IsBreak(File[j + 1])
  BY <1>2, <1>4, SkipBreaksIs
<1>6. files[r.n] = File /\ Line(r) = s
  BY DEF Line, File
<1> HIDE DEF s
<1>7. ASSUME NEW k \in DOMAIN finds, ~finds[k].regex
      PROVE  s < dwi
  <2>1. FoundIn(File, k, bgnoff, dwi)
    <3>1. StopsAt(bgnoff, dwi) = Len(finds) + 1
      BY DEF LineHasAll
    <3>2. k \in 1..(StopsAt(bgnoff, dwi) - 1)
      BY <3>1, Given
    <3> QED
      BY <1>2, <1>4, <3>2, StopsAtIs
  <2>2. PICK o \in bgnoff..(dwi - 1) : ~IsBreak(File[o + 1])
    BY <1>2, <1>4, <1>7, <2>1, FoundInLine
  <2>3. ~(o < s)
    BY <1>2, <1>5, <2>2
  <2> QED
    BY <1>2, <1>5, <2>2, <2>3
<1>8. ASSUME NoLoneCR(File), s < dwi
      PROVE  /\ SkipBreaks(File, lpoff[0]) = s
             /\ dwl = Cardinality(LFsBefore(File, s))
  <2>1. s \in bgnoff..(dwi - 1) /\ ~IsBreak(File[s + 1])
    BY <1>2, <1>5, <1>8
  <2>2. lpoff[0] = bgnoff /\ dwl = Cardinality(LFsBefore(File, s))
    BY <1>2, <1>3, <1>4, <1>5, <1>8, <2>1, BeginIsStart
  <2> QED
    BY <2>2 DEF s
<1>9. r.end = dwi /\ r.begin = lpoff[0] /\ r.line = dwl
  OBVIOUS
<1> HIDE DEF r
<1>10. Right(r)
  BY <1>6, <1>7, <1>8, <1>9 DEF Right
<1> QED
  BY <1>10 DEF r

LEMMA NextLineKept ==
  ASSUME TypeOK, LineKept, Scanning, AtBreak, NextLine, UNCHANGED <<files, n, pc>>
  PROVE  LineKept'
<1>1. /\ File \in Seq(Byte) /\ Size = Len(File) /\ Size \in Nat /\ dwi < Size
      /\ dwi \in Nat /\ dwl \in Nat /\ lpoff[0] \in Nat /\ lpoff \in [0..MXLPS -> Nat]
  BY AtByte
<1>2. File' = File /\ Size' = Size /\ dwi' = dwi + 1 /\ bgnoff' = dwi
  BY DEF File, Size, NextLine
<1>3. CountedAt(File, dwi, dwl, lpoff[0])
  BY DEF LineKept, Scanning
<1>4. dwi \in dwi..Len(File) /\ \A j \in dwi..(dwi - 1) : File[j + 1] # LF
  BY <1>1
<1>5. CountedAt(File, dwi + 1, dwl', lpoff'[0])
  <2>1. CASE File[dwi + 1] = LF
    <3>1. CountedAt(File, dwi + 1, dwl + 1, dwi)
      BY <1>1, <1>3, <1>4, <2>1, CountStep
    <3>2. IncLine(dwi, lpoff)[0] = dwi
      BY <1>1, IncLineType
    <3> QED
      BY <2>1, <3>1, <3>2 DEF NextLine
  <2>2. CASE File[dwi + 1] # LF
    <3>1. CountedAt(File, dwi + 1, dwl, lpoff[0])
      BY <1>1, <1>3, <1>4, <2>2, CountStep
    <3> QED
      BY <2>2, <3>1 DEF NextLine
  <2> QED
    BY <2>1, <2>2
<1>6. dwi' <= Size' /\ bgnoff' < dwi' /\ IsBreak(File'[bgnoff' + 1])
      /\ \A j \in (bgnoff' + 1)..(dwi' - 1) : ~IsBreak(File'[j + 1])
  BY <1>1, <1>2 DEF AtBreak
<1> QED
  BY <1>2, <1>5, <1>6 DEF LineKept

LEMMA NextKept == TypeOK /\ LineKept /\ [Next]_vars => LineKept'
<1> SUFFICES ASSUME TypeOK, LineKept, [Next]_vars PROVE LineKept'
  OBVIOUS
<1> USE DEF inputs, lines, counts
<1>1. CASE OpenFile
  <2>1. n + 1 \in 1..Len(files) /\ files' = files /\ n' = n + 1
    BY <1>1, Given DEF OpenFile, TypeOK
  <2>2. File' \in Seq(Byte) /\ Size' = Len(File')
    BY <2>1, Given DEF File, Size
  <2>3. CountedAt(File', 0, 0, 0)
    BY <2>2, StartCounted
  <2>4. dwi' = 0 /\ bgnoff' = 0 /\ dwl' = 0 /\ lpoff'[0] = 0
    BY <1>1 DEF OpenFile, MXLPS
  <2> QED
    BY <2>2, <2>3, <2>4 DEF LineKept
<1>2. CASE NextByte
  <2>1. /\ Scanning /\ dwi' = dwi + 1 /\ UNCHANGED <<bgnoff, dwl, lpoff>>
        /\ File' = File /\ Size' = Size /\ ~IsBreak(File[dwi + 1])
    BY <1>2 DEF NextByte, ScanFrame, File, Size
  <2>2. /\ File \in Seq(Byte) /\ Size = Len(File) /\ Size \in Nat /\ dwi < Size
        /\ dwi \in Nat /\ dwl \in Nat /\ lpoff[0] \in Nat /\ bgnoff \in 0..dwi
    BY <2>1, AtByte
  <2>3. /\ bgnoff = 0 \/ (bgnoff < dwi /\ IsBreak(File[bgnoff + 1]))
        /\ \A j \in (bgnoff + 1)..(dwi - 1) : ~IsBreak(File[j + 1])
        /\ CountedAt(File, dwi, dwl, lpoff[0])
    BY <2>1 DEF LineKept, Scanning
  <2>4. File[dwi + 1] # LF /\ dwi \in dwi..Len(File)
        /\ \A j \in dwi..(dwi - 1) : File[j + 1] # LF
    BY <2>1, <2>2 DEF IsBreak
  <2>5. CountedAt(File, dwi + 1, dwl, lpoff[0])
    BY <2>2, <2>3, <2>4, CountStep
  <2>6. \A j \in (bgnoff + 1)..(dwi' - 1) : ~IsBreak(File[j + 1])
    <3> SUFFICES ASSUME NEW j \in (bgnoff + 1)..dwi PROVE ~IsBreak(File[j + 1])
      BY <2>1, <2>2
    <3>1. j = dwi \/ j \in (bgnoff + 1)..(dwi - 1)
      BY <2>2
    <3> QED
      BY <2>1, <2>3, <3>1
  <2> QED
    BY <2>1, <2>2, <2>3, <2>5, <2>6 DEF LineKept
<1>3. ASSUME AtBreak, NextLine, ScanFrame PROVE LineKept'
  BY <1>3, NextLineKept DEF AtBreak, ScanFrame
<1>4. CASE ShortLine
  BY <1>3, <1>4 DEF ShortLine
<1>5. CASE LineLacksFind
  BY <1>3, <1>5 DEF LineLacksFind
<1>6. CASE LineHasAll
  BY <1>3, <1>6 DEF LineHasAll
<1>7. CASE RegexFails
  BY <1>7 DEF RegexFails, LineKept
<1>8. CASE EndFile
  BY <1>8 DEF EndFile, LineKept
<1>9. CASE UNCHANGED vars
  <2>1. UNCHANGED <<File, Size, pc, dwi, bgnoff, dwl, lpoff>>
    BY <1>9 DEF vars, File, Size
  <2> QED
    BY <2>1 DEF LineKept
<1> QED
  BY <1>1, <1>2, <1>4, <1>5, <1>6, <1>7, <1>8, <1>9 DEF Next

LEMMA NextRight ==
  TypeOK /\ LineKept /\ ShownIsSearched /\ [Next]_vars => ShownIsSearched'
<1> SUFFICES ASSUME TypeOK, LineKept, ShownIsSearched, [Next]_vars
             PROVE  ShownIsSearched'
  OBVIOUS
<1>1. files' = files /\ finds' = finds
  BY DEF Next, OpenFile, NextByte, ShortLine, LineLacksFind, LineHasAll,
         RegexFails, EndFile, ScanFrame, inputs, vars
<1>2. \A i \in DOMAIN shown : Right(shown[i])
  BY DEF ShownIsSearched, Right
<1>3. \A i \in DOMAIN shown' : Right(shown'[i])
  <2>1. CASE LineHasAll
    <3> DEFINE r == [n |-> n, off |-> bgnoff, end |-> dwi, begin |-> lpoff[0],
                     line |-> dwl]
    <3>1. Right(r)
      BY <2>1, ReportRight
    <3>2. shown' = Append(shown, r)
      BY <2>1 DEF LineHasAll
    <3>3. shown \in Seq([n : Nat, off : Nat, end : Nat, begin : Nat, line : Nat])
      BY DEF TypeOK
    <3>4. /\ Len(shown) \in Nat /\ DOMAIN shown' = 1..(Len(shown) + 1)
          /\ shown'[Len(shown) + 1] = r
          /\ \A i \in 1..Len(shown) : i \in DOMAIN shown /\ shown'[i] = shown[i]
      BY <3>2, <3>3
    <3> HIDE DEF r
    <3>5. ASSUME NEW i \in DOMAIN shown' PROVE Right(shown'[i])
      <4>1. i = Len(shown) + 1 \/ i \in 1..Len(shown)
        BY <3>4
      <4> QED
        BY <1>2, <3>1, <3>4, <4>1
    <3> QED
      BY <3>5
  <2>2. CASE shown' = shown
    BY <1>2, <2>2
  <2>3. LineHasAll \/ shown' = shown
    BY DEF Next, OpenFile, NextByte, ShortLine, LineLacksFind, RegexFails,
           EndFile, counts, vars
  <2> QED
    BY <2>1, <2>2, <2>3
<1>4. ASSUME NEW i \in DOMAIN shown'
      PROVE  LET r == shown'[i]
                 line == SkipBreaks(files'[r.n], r.off)
             IN  NoLoneCR(files'[r.n]) =>
                   /\ (\E k \in DOMAIN finds' : ~finds'[k].regex) => line < r.end
                   /\ line < r.end =>
                        /\ SkipBreaks(files'[r.n], r.begin) = line
                        /\ r.line = Cardinality(LFsBefore(files'[r.n], line))
  BY <1>1, <1>3 DEF Right, Line
<1> QED
  BY <1>4 DEF ShownIsSearched, Line

(* Fa4Find.c:524, Fa4Show.c:448: the line shown is the one that was        *)
(* searched, under its own number, for any finds and pattern matcher.      *)
THEOREM SearchedIsShown == Spec => []ShownIsSearched
<1>1. Init => TypeOK /\ LineKept /\ ShownIsSearched
  <2> SUFFICES ASSUME Init PROVE LineKept /\ ShownIsSearched
    BY InitType
  <2> QED
    BY DEF Init, LineKept, ShownIsSearched
<1>2. TypeOK /\ LineKept /\ ShownIsSearched /\ [Next]_vars
        => TypeOK' /\ LineKept' /\ ShownIsSearched'
  BY NextType, NextKept, NextRight
<1> QED
  BY <1>1, <1>2, PTL DEF Spec
-----------------------------------------------------------------------------
(* The lines that hold every find.                                         *)

(* Where a plain find stands does not depend on the breaks before it.      *)
LEMMA BreaksHoldNone ==
  ASSUME TypeOK, Plain, NEW k \in DOMAIN finds, NEW f \in Seq(Byte),
         NEW b \in Nat, NEW c \in Nat, b <= c, NEW e \in Nat,
         \A j \in b..(c - 1) : IsBreak(f[j + 1])
  PROVE  FoundIn(f, k, b, e) <=> FoundIn(f, k, c, e)
<1> DEFINE t == Move2Find(sw, finds[k].text)
<1>1. ~finds[k].regex
  BY DEF Plain
<1>2. ~IsBreak(t[1])
  <2>1. finds[k] \in Find
    BY Given
  <2>2. finds[k].text \in Seq(Byte \ {0, LF, CR}) \ {<<>>}
    BY <2>1 DEF Find
  <2> QED
    BY <2>2, Folded
<1> HIDE DEF t
<1>3. ASSUME NEW o \in b..(c - 1) PROVE ~FoundAt(sw, f, o, e, t)
  <2>1. IsBreak(GetChr(sw, f[o + 1]))
    BY ReadsBreak
  <2> QED
    BY <1>2, <2>1 DEF FoundAt
<1>4. \A o \in b..(e - 1) : o \in b..(c - 1) \/ o \in c..(e - 1)
  OBVIOUS
<1>5. \A o \in c..(e - 1) : o \in b..(e - 1)
  OBVIOUS
<1>6. \A d : FoundIn(f, k, d, e) <=> \E o \in d..(e - 1) : FoundAt(sw, f, o, e, t)
  BY <1>1 DEF FoundIn, t
<1> QED
  BY <1>3, <1>4, <1>5, <1>6

(* A find that stands in a stretch is not longer than the stretch.         *)
LEMMA FoundFits ==
  ASSUME TypeOK, Plain, NEW k \in DOMAIN finds, NEW f, NEW b \in Nat, NEW e \in Nat,
         FoundIn(f, k, b, e)
  PROVE  Len(finds[k].text) <= e - b
<1> DEFINE t == Move2Find(sw, finds[k].text)
<1>1. PICK o \in b..(e - 1) : FoundAt(sw, f, o, e, t)
  BY DEF FoundIn, Plain
<1>2. finds[k].text \in Seq(Byte \ {0, LF, CR}) \ {<<>>}
  <2>1. finds[k] \in Find
    BY Given
  <2> QED
    BY <2>1 DEF Find
<1>3. Len(t) = Len(finds[k].text) /\ Len(t) \in Nat
  BY <1>2, Folded
<1> HIDE DEF t
<1>4. Len(t) = 1 \/ ~(Len(t) >= e - o)
  BY <1>1 DEF FoundAt, FullComp
<1>5. o \in Nat /\ b <= o /\ o < e
  OBVIOUS
<1>6. \A l, d \in Nat : b <= d /\ d < e /\ (l = 1 \/ ~(l >= e - d)) => l <= e - b
  OBVIOUS
<1>7. Len(t) <= e - b
  BY ONLY <1>3, <1>4, <1>5, <1>6
<1> QED
  BY <1>3, <1>7

(* The length below which no line is looked at is that of a find.          *)
LEMMA MinLenIs ==
  ASSUME TypeOK
  PROVE  \E k \in DOMAIN finds : g_dwMinLen = Len(finds[k].text)
<1> DEFINE g == [k \in 1..Len(finds) |-> Len(finds[k].text)]
           Longest(l) == \A j \in DOMAIN finds : Len(finds[j].text) <= l
           S == {Len(finds[k].text) : k \in DOMAIN finds}
<1>1. finds \in Seq(Find) /\ Len(finds) > 1
  BY FindListsAssumption DEF TypeOK
<1>2. /\ Len(finds) \in Nat \ {0} /\ DOMAIN finds = 1..Len(finds)
      /\ \A k \in DOMAIN finds : Len(finds[k].text) \in Nat
  BY <1>1 DEF Find
<1>3. g \in [1..Len(finds) -> Nat]
  BY <1>2
<1>4. PICK k \in 1..Len(finds) : \A j \in 1..Len(finds) : g[j] <= g[k]
  <2> HIDE DEF g
  <2> QED
    BY <1>2, <1>3, GreatestOf
<1>5. \E l \in S : Longest(l)
  BY <1>2, <1>4
<1>6. g_dwMinLen = CHOOSE l \in S : Longest(l)
  BY DEF g_dwMinLen
<1>7. g_dwMinLen \in S
  <2> HIDE DEF S, Longest
  <2> QED
    BY <1>5, <1>6
<1> QED
  BY <1>7

(* The line that ends at d, when the end of line before it is at b, starts *)
(* behind that end of line, or with the file.                              *)
LEMMA LineStart ==
  ASSUME NEW f \in Seq(Byte), NEW d \in Nat, d < Len(f), IsBreak(f[d + 1]),
         NEW b \in 0..d, b = 0 \/ (b < d /\ IsBreak(f[b + 1])),
         \A j \in (b + 1)..(d - 1) : ~IsBreak(f[j + 1])
  PROVE  LET s == SegStart(f, d)
         IN  /\ s \in b..d
             /\ s = 0 \/ IsBreak(f[s])
             /\ \A j \in b..(s - 1) : IsBreak(f[j + 1])
             /\ \A j \in s..(d - 1) : ~IsBreak(f[j + 1])
             /\ EndOfLine(f, s) = d
             /\ s < d => SkipBreaks(f, b) = s
<1> DEFINE s == SegStart(f, d)
           e == EndOfLine(f, s)
           t == SkipBreaks(f, b)
<1>1. Len(f) \in Nat /\ d \in 0..Len(f)
  OBVIOUS
<1>2. s \in 0..d /\ (s = 0 \/ IsBreak(f[s])) /\ \A j \in s..(d - 1) : ~IsBreak(f[j + 1])
  BY <1>1, SegStartIs
<1>3. e \in s..Len(f) /\ (e = Len(f) \/ IsBreak(f[e + 1]))
      /\ \A j \in s..(e - 1) : ~IsBreak(f[j + 1])
  <2>1. s \in 0..Len(f)
    BY <1>1, <1>2
  <2> HIDE DEF s
  <2> QED
    BY <2>1, EndOfLineIs
<1>4. t \in b..Len(f) /\ (t = Len(f) \/ ~IsBreak(f[t + 1]))
      /\ \A j \in b..(t - 1) : IsBreak(f[j + 1])
  <2>1. b \in 0..Len(f)
    BY <1>1
  <2> QED
    BY <2>1, SkipBreaksIs
<1> HIDE DEF s, e, t
<1>5. b <= s
  <2> SUFFICES ASSUME s < b PROVE FALSE
    BY <1>2
  <2>1. b \in s..(d - 1) /\ IsBreak(f[b + 1])
    BY <1>2
  <2> QED
    BY <1>2, <2>1
<1>6. ASSUME NEW j \in b..(s - 1) PROVE IsBreak(f[j + 1])
  <2>1. s # 0 /\ IsBreak(f[s]) /\ s - 1 \in b..(d - 1) /\ (s - 1) + 1 = s
    BY <1>2
  <2>2. s - 1 = b
    <3> SUFFICES ASSUME s - 1 \in (b + 1)..(d - 1) PROVE FALSE
      BY <2>1
    <3>1. ~IsBreak(f[(s - 1) + 1])
      OBVIOUS
    <3> QED
      BY <2>1, <3>1
  <2>3. j = s - 1
    BY <1>2, <2>2
  <2> QED
    BY <2>1, <2>3
<1>7. e = d
  <2>1. ~(d < e)
    <3> SUFFICES ASSUME d < e PROVE FALSE
      OBVIOUS
    <3>1. d \in s..(e - 1)
      BY <1>2, <1>3
    <3> QED
      BY <1>3, <3>1
  <2>2. ~(e < d)
    <3> SUFFICES ASSUME e < d PROVE FALSE
      OBVIOUS
    <3>1. e \in s..(d - 1) /\ IsBreak(f[e + 1])
      BY <1>1, <1>2, <1>3
    <3> QED
      BY <1>2, <3>1
  <2> QED
    BY <1>1, <1>2, <1>3, <2>1, <2>2
<1>8. ASSUME s < d PROVE t = s
  <2>1. ~IsBreak(f[s + 1]) /\ s < Len(f)
    BY <1>1, <1>2, <1>8
  <2>2. ~(s < t)
    BY <1>2, <1>4, <1>5, <2>1
  <2>3. ~(t < s)
    <3> SUFFICES ASSUME t < s PROVE FALSE
      OBVIOUS
    <3>1. t \in b..(s - 1)
      BY <1>2, <1>4
    <3>2. IsBreak(f[t + 1]) /\ t # Len(f)
      BY <1>2, <1>6, <2>1, <3>1
    <3> QED
      BY <1>4, <3>2
  <2> QED
    BY <1>2, <1>4, <2>2, <2>3
<1> QED
  BY <1>2, <1>5, <1>6, <1>7, <1>8 DEF s, e, t

(* What is known where a line ends.                                        *)
LEMMA AtLineEnd ==
  ASSUME TypeOK, LineKept, AtBreak
  PROVE  LET s == SegStart(File, dwi)
         IN  /\ File \in Seq(Byte) /\ Size = Len(File) /\ n \in DOMAIN files
             /\ bgnoff \in Nat /\ dwi \in Nat /\ s \in Nat
             /\ bgnoff <= s /\ s <= dwi /\ dwi < Len(File)
             /\ s = 0 \/ IsBreak(File[s])
             /\ \A j \in bgnoff..(s - 1) : IsBreak(File[j + 1])
             /\ \A j \in s..(dwi - 1) : ~IsBreak(File[j + 1])
             /\ EndOfLine(File, s) = dwi
             /\ s < dwi => SkipBreaks(File, bgnoff) = s
<1>1. /\ File \in Seq(Byte) /\ Size = Len(File) /\ n \in DOMAIN files
      /\ dwi < Len(File) /\ dwi \in Nat /\ bgnoff \in 0..dwi
  BY AtByte DEF AtBreak
<1>2. /\ IsBreak(File[dwi + 1])
      /\ bgnoff = 0 \/ (bgnoff < dwi /\ IsBreak(File[bgnoff + 1]))
      /\ \A j \in (bgnoff + 1)..(dwi - 1) : ~IsBreak(File[j + 1])
  BY DEF AtBreak, Scanning, LineKept
<1> DEFINE s == SegStart(File, dwi)
<1>3. /\ s \in bgnoff..dwi
      /\ s = 0 \/ IsBreak(File[s])
      /\ \A j \in bgnoff..(s - 1) : IsBreak(File[j + 1])
      /\ \A j \in s..(dwi - 1) : ~IsBreak(File[j + 1])
      /\ EndOfLine(File, s) = dwi
      /\ s < dwi => SkipBreaks(File, bgnoff) = s
  BY <1>1, <1>2, LineStart
<1> HIDE DEF s
<1>4. s \in Nat /\ bgnoff <= s /\ s <= dwi /\ bgnoff \in Nat
  BY <1>1, <1>3
<1> QED
  BY <1>1, <1>3, <1>4 DEF s

(* A line that holds every find, and starts in the stretch that is looked  *)
(* at, is the line that ends there, and every find is found in it.         *)
LEMMA HeldIsHere ==
  ASSUME TypeOK, LineKept, AtBreak, Plain,
         NEW b \in Holding(File), bgnoff <= b, b < dwi
  PROVE  /\ b = SegStart(File, dwi)
         /\ \A k \in DOMAIN finds : FoundIn(File, k, bgnoff, dwi)
<1> DEFINE s == SegStart(File, dwi)
           e == EndOfLine(File, b)
<1>1. /\ File \in Seq(Byte) /\ bgnoff \in Nat /\ dwi \in Nat /\ s \in Nat
      /\ bgnoff <= s /\ s <= dwi /\ dwi < Len(File)
      /\ s = 0 \/ IsBreak(File[s])
      /\ \A j \in bgnoff..(s - 1) : IsBreak(File[j + 1])
      /\ \A j \in s..(dwi - 1) : ~IsBreak(File[j + 1])
      /\ EndOfLine(File, s) = dwi
  BY AtLineEnd
<1>2. /\ b \in 0..(Len(File) - 1)
      /\ b = 0 \/ IsBreak(File[b])
      /\ b < e /\ e < Len(File)
      /\ \A k \in DOMAIN finds : FoundIn(File, k, b, e)
  BY DEF Holding
<1>3. ~IsBreak(File[b + 1])
  <2>1. b \in 0..Len(File) /\ Len(File) \in Nat
    BY <1>1, <1>2
  <2>2. e \in b..Len(File) /\ \A j \in b..(e - 1) : ~IsBreak(File[j + 1])
    BY <1>1, <2>1, EndOfLineIs
  <2> HIDE DEF e
  <2>3. b \in b..(e - 1)
    BY <1>2, <2>1, <2>2
  <2> QED
    BY <2>2, <2>3
<1> HIDE DEF s, e
<1>4. b \in Nat
  BY <1>2
<1>5. b = s
  <2>1. ~(b < s)
    <3> SUFFICES ASSUME b < s PROVE FALSE
      OBVIOUS
    <3>1. b \in bgnoff..(s - 1)
      BY <1>1, <1>4
    <3> QED
      BY <1>1, <1>3, <3>1
  <2>2. ~(s < b)
    <3> SUFFICES ASSUME s < b PROVE FALSE
      OBVIOUS
    <3>1. b - 1 \in s..(dwi - 1) /\ (b - 1) + 1 = b /\ b # 0
      BY <1>1, <1>4
    <3>2. ~IsBreak(File[b])
      BY <1>1, <3>1
    <3> QED
      BY <1>2, <3>1, <3>2
  <2> QED
    BY <1>1, <1>4, <2>1, <2>2
<1>6. e = dwi
  BY <1>1, <1>5 DEF e
<1>7. ASSUME NEW k \in DOMAIN finds PROVE FoundIn(File, k, bgnoff, dwi)
  <2>1. FoundIn(File, k, s, dwi)
    BY <1>2, <1>5, <1>6
  <2> QED
    BY <1>1, <2>1, BreaksHoldNone
<1> QED
  BY <1>5, <1>7 DEF s

(* A line in which every find is found holds every find.                   *)
LEMMA FoundIsHeld ==
  ASSUME TypeOK, LineKept, AtBreak, Plain,
         \A k \in DOMAIN finds : FoundIn(File, k, bgnoff, dwi)
  PROVE  LET s == SegStart(File, dwi)
         IN  /\ s \in Holding(File) /\ bgnoff <= s /\ s < dwi
             /\ SkipBreaks(File, bgnoff) = s
<1> DEFINE s == SegStart(File, dwi)
<1>1. /\ File \in Seq(Byte) /\ bgnoff \in Nat /\ dwi \in Nat /\ s \in Nat
      /\ bgnoff <= s /\ s <= dwi /\ dwi < Len(File)
      /\ s = 0 \/ IsBreak(File[s])
      /\ \A j \in bgnoff..(s - 1) : IsBreak(File[j + 1])
      /\ EndOfLine(File, s) = dwi
      /\ s < dwi => SkipBreaks(File, bgnoff) = s
  BY AtLineEnd
<1> HIDE DEF s
<1>2. ASSUME NEW k \in DOMAIN finds PROVE FoundIn(File, k, s, dwi)
  BY <1>1, <1>2, BreaksHoldNone
<1>3. s < dwi
  <2>1. 1 \in DOMAIN finds
    BY FindListsAssumption, Given DEF TypeOK
  <2>2. dwi \in 0..Len(File)
    BY <1>1
  <2> QED
    BY <1>1, <1>2, <2>1, <2>2, FoundInLine
<1>4. s \in 0..(Len(File) - 1)
  BY <1>1, <1>3
<1>5. s \in Holding(File)
  BY <1>1, <1>2, <1>3, <1>4 DEF Holding
<1> QED
  BY <1>1, <1>3, <1>5 DEF s

(* A line in which every find is found is long enough, and the loop over   *)
(* the finds goes to its end.                                              *)
LEMMA FoundIsShown ==
  ASSUME TypeOK, Plain, NEW bgn \in Nat, NEW end \in Nat,
         \A k \in DOMAIN finds : FoundIn(File, k, bgn, end)
  PROVE  StopsAt(bgn, end) = Len(finds) + 1 /\ end - bgn >= g_dwMinLen
<1>1. finds \in Seq(Find) /\ Len(finds) \in Nat
  BY Given
<1>2. DOMAIN finds = 1..Len(finds)
  BY <1>1
<1>3. StopsAt(bgn, end) = Len(finds) + 1
  <2> DEFINE k == StopsAt(bgn, end)
  <2>1. k \in 1..(Len(finds) + 1)
        /\ (k = Len(finds) + 1 \/ Rejected(k) \/ ~FoundIn(File, k, bgn, end))
    BY StopsAtIs
  <2> HIDE DEF k
  <2>2. k \in DOMAIN finds \/ k = Len(finds) + 1
    BY <1>1, <1>2, <2>1
  <2>3. k \in DOMAIN finds => ~Rejected(k)
    BY DEF Plain, Rejected
  <2> QED
    BY <2>1, <2>2, <2>3 DEF k
<1>4. PICK k \in DOMAIN finds : g_dwMinLen = Len(finds[k].text)
  BY MinLenIs
<1>5. Len(finds[k].text) <= end - bgn
  BY FoundFits
<1>6. Len(finds[k].text) \in Nat
  <2>1. finds[k] \in Find
    BY <1>1, <1>4
  <2> QED
    BY <2>1 DEF Find
<1>7. \A l \in Nat : l <= end - bgn => end - bgn >= l
  OBVIOUS
<1> QED
  BY <1>3, <1>4, <1>5, <1>6, <1>7
-----------------------------------------------------------------------------
(* The steps of the search as the lines that hold every find see them.     *)

Stays == UNCHANGED <<n, pc, bgnoff, shown, g_dwFinds>>

Opens ==
  /\ pc = "open" /\ pc' = "scan" /\ n' = n + 1 /\ n' \in DOMAIN files
  /\ bgnoff' = 0 /\ g_dwFinds' = 0 /\ UNCHANGED shown

(* The lines that hold every find and start in the stretch looked at.      *)
Here == {b \in Holding(File) : bgnoff <= b /\ b < dwi}

Skips ==
  /\ pc = "scan" /\ bgnoff' = dwi /\ bgnoff <= dwi /\ Here = {}
  /\ UNCHANGED <<n, pc, shown, g_dwFinds>>

Shows(r) ==
  /\ pc = "scan" /\ bgnoff' = dwi /\ bgnoff <= dwi
  /\ r.n = n /\ Here = {Line(r)}
  /\ shown' = Append(shown, r) /\ g_dwFinds' = g_dwFinds + 1
  /\ UNCHANGED <<n, pc>>

Closes ==
  /\ pc = "scan" /\ pc' \in {"open", "done"}
  /\ \A b \in Holding(File) : b < bgnoff
  /\ UNCHANGED <<n, bgnoff, shown, g_dwFinds>>

LEMMA FixedInputs ==
  ASSUME [Next]_vars
  PROVE  /\ files' = files /\ finds' = finds /\ sw' = sw
         /\ \A f : Holding(f)' = Holding(f)
         /\ \A r : Line(r)' = Line(r)
<1>1. files' = files /\ finds' = finds /\ sw' = sw
  BY DEF Next, OpenFile, NextByte, ShortLine, LineLacksFind, LineHasAll,
         RegexFails, EndFile, ScanFrame, inputs, vars
<1>2. \A f, k, b, e : FoundIn(f, k, b, e)' = FoundIn(f, k, b, e)
  BY <1>1 DEF FoundIn
<1>3. \A f : Holding(f)' = Holding(f)
  BY <1>1, <1>2 DEF Holding
<1>4. \A r : Line(r)' = Line(r)
  BY <1>1 DEF Line
<1> QED
  BY <1>1, <1>3, <1>4

(* A file that has been scanned to its end holds no line but those that    *)
(* an end of line has ended.                                               *)
LEMMA NoneLeft ==
  ASSUME TypeOK, LineKept, pc = "scan", dwi >= Size, NEW b \in Holding(File)
  PROVE  b < bgnoff
<1> DEFINE e == EndOfLine(File, b)
<1>1. File \in Seq(Byte) /\ Size = Len(File) /\ Size \in Nat
  BY Mapped DEF TypeOK
<1>2. dwi = Len(File) /\ \A j \in (bgnoff + 1)..(dwi - 1) : ~IsBreak(File[j + 1])
  BY <1>1 DEF LineKept, TypeOK
<1>3. b \in 0..(Len(File) - 1) /\ b < e /\ e < Len(File)
  BY DEF Holding
<1>4. e \in b..Len(File) /\ IsBreak(File[e + 1])
  <2>1. b \in 0..Len(File)
    BY <1>1, <1>3
  <2>2. e \in b..Len(File) /\ (e = Len(File) \/ IsBreak(File[e + 1]))
    BY <1>1, <2>1, EndOfLineIs
  <2> HIDE DEF e
  <2> QED
    BY <1>1, <1>3, <2>2
<1> HIDE DEF e
<1>5. bgnoff \in Nat
  BY DEF TypeOK
<1>6. ~(bgnoff < e)
  <2> SUFFICES ASSUME bgnoff < e PROVE FALSE
    OBVIOUS
  <2>1. e \in (bgnoff + 1)..(dwi - 1)
    BY <1>1, <1>2, <1>3, <1>4, <1>5
  <2> QED
    BY <1>2, <1>4, <2>1
<1> QED
  BY <1>1, <1>3, <1>4, <1>5, <1>6

LEMMA Moves ==
  ASSUME TypeOK, LineKept, Plain, pc # "exit", [Next]_vars
  PROVE  Stays \/ Opens \/ Skips \/ (\E r : Shows(r)) \/ Closes
<1>1. CASE NextByte \/ UNCHANGED vars
  BY <1>1 DEF NextByte, ScanFrame, lines, counts, vars, Stays
<1>2. CASE OpenFile
  <2>1. n + 1 \in DOMAIN files
    BY <1>2, Given DEF OpenFile, TypeOK
  <2> QED
    BY <1>2, <2>1 DEF OpenFile, Opens
<1>3. ASSUME AtBreak
      PROVE  /\ pc = "scan" /\ bgnoff <= dwi
             /\ \A b \in Here : /\ b = SegStart(File, dwi)
                                /\ \A k \in DOMAIN finds : FoundIn(File, k, bgnoff, dwi)
  <2>1. pc = "scan" /\ bgnoff <= dwi /\ bgnoff \in Nat /\ dwi \in Nat
    BY <1>3 DEF AtBreak, Scanning, TypeOK
  <2> QED
    BY <1>3, <2>1, HeldIsHere DEF Here
<1>4. CASE ShortLine \/ LineLacksFind
  <2>1. AtBreak /\ bgnoff' = dwi /\ UNCHANGED <<n, pc, shown, g_dwFinds>>
    BY <1>4 DEF ShortLine, LineLacksFind, NextLine, ScanFrame, counts
  <2>2. Here = {}
    <3> SUFFICES ASSUME NEW b \in Here PROVE FALSE
      OBVIOUS
    <3>1. bgnoff \in Nat /\ dwi \in Nat /\ Len(finds) \in Nat
      BY Given DEF TypeOK
    <3>2. StopsAt(bgnoff, dwi) = Len(finds) + 1 /\ LongEnough
      BY <1>3, <2>1, <3>1, FoundIsShown DEF LongEnough
    <3> QED
      BY <1>4, <3>1, <3>2 DEF ShortLine, LineLacksFind
  <2> QED
    BY <1>3, <2>1, <2>2 DEF Skips
<1>5. CASE LineHasAll
  <2> DEFINE r == [n |-> n, off |-> bgnoff, end |-> dwi, begin |-> lpoff[0],
                   line |-> dwl]
             s == SegStart(File, dwi)
  <2>1. /\ AtBreak /\ bgnoff' = dwi /\ UNCHANGED <<n, pc>>
        /\ shown' = Append(shown, r) /\ g_dwFinds' = g_dwFinds + 1
        /\ StopsAt(bgnoff, dwi) = Len(finds) + 1
    BY <1>5 DEF LineHasAll, NextLine, ScanFrame
  <2>2. \A k \in DOMAIN finds : FoundIn(File, k, bgnoff, dwi)
    <3>1. bgnoff \in Nat /\ dwi \in Nat /\ Len(finds) \in Nat /\ finds \in Seq(Find)
      BY Given DEF TypeOK
    <3>2. \A j \in 1..(StopsAt(bgnoff, dwi) - 1) : FoundIn(File, j, bgnoff, dwi)
      BY <3>1, StopsAtIs
    <3>3. DOMAIN finds = 1..(StopsAt(bgnoff, dwi) - 1)
      BY <2>1, <3>1
    <3> QED
      BY <3>2, <3>3
  <2>3. s \in Holding(File) /\ bgnoff <= s /\ s < dwi /\ SkipBreaks(File, bgnoff) = s
    BY <2>1, <2>2, FoundIsHeld
  <2>4. r.n = n /\ Line(r) = s
    BY <2>3 DEF Line, File
  <2>5. Here = {s}
    <3>1. s \in Here
      BY <2>3 DEF Here
    <3> HIDE DEF s
    <3> QED
      BY <1>3, <2>1, <3>1 DEF s
  <2> HIDE DEF r, s
  <2>6. Shows(r)
    BY <1>3, <2>1, <2>4, <2>5 DEF Shows
  <2> QED
    BY <2>6
<1>6. ~RegexFails
  <2> SUFFICES ASSUME RegexFails PROVE FALSE
    OBVIOUS
  <2>1. bgnoff \in Nat /\ dwi \in Nat /\ Len(finds) \in Nat /\ finds \in Seq(Find)
    BY Given DEF TypeOK
  <2> DEFINE k == StopsAt(bgnoff, dwi)
  <2>2. k \in 1..(Len(finds) + 1)
    BY <2>1, StopsAtIs
  <2>3. k <= Len(finds) /\ Rejected(k)
    BY DEF RegexFails
  <2> HIDE DEF k
  <2>4. k \in DOMAIN finds
    BY <2>1, <2>2, <2>3
  <2> QED
    BY <2>3, <2>4 DEF Plain, Rejected
<1>7. CASE EndFile
  <2>1. /\ pc = "scan" /\ dwi >= Size /\ pc' \in {"open", "done"}
        /\ UNCHANGED <<n, bgnoff, shown, g_dwFinds>>
    BY <1>7 DEF EndFile, lines, counts
  <2> QED
    BY <2>1, NoneLeft DEF Closes
<1> QED
  BY <1>1, <1>2, <1>4, <1>5, <1>6, <1>7 DEF Next
-----------------------------------------------------------------------------
(* What has been shown is what the scan has passed.                        *)

(* The scan has passed a line of the file m that starts at b.              *)
Passed(m, b) == m < n \/ (m = n /\ (pc = "scan" => b < bgnoff))

(* The line of the file m that starts at b holds every find; it is shown.  *)
Held(m, b) == m \in DOMAIN files /\ b \in Holding(files[m])
ShownAt(m, b) == \E i \in DOMAIN shown : shown[i].n = m /\ Line(shown[i]) = b

(* The lines shown are those behind that hold every find.                  *)
ShownHeld == \A m, b : ShownAt(m, b) <=> Held(m, b) /\ Passed(m, b)

(* The lines were shown in the order of the files and of their starts.     *)
Later(r, s) == r.n < s.n \/ (r.n = s.n /\ Line(r) < Line(s))
ShownInOrder == \A i, j \in DOMAIN shown : i < j => Later(shown[i], shown[j])

(* The count of a file is that of its lines shown.                         *)
OfFile(m) == {i \in DOMAIN shown : shown[i].n = m}
FileCount == n > 0 => g_dwFinds = Cardinality(OfFile(n))

ShownSoFar ==
  Plain => /\ pc # "exit" /\ (pc = "done" => n > 0)
           /\ ShownHeld /\ ShownInOrder /\ FileCount

LEMMA ShownSeq ==
  ASSUME TypeOK
  PROVE  Len(shown) \in Nat /\ DOMAIN shown = 1..Len(shown)
<1>1. shown \in Seq([n : Nat, off : Nat, end : Nat, begin : Nat, line : Nat])
  BY DEF TypeOK
<1> QED
  BY <1>1

LEMMA Appended ==
  ASSUME TypeOK, NEW r, shown' = Append(shown, r)
  PROVE  /\ DOMAIN shown' = DOMAIN shown \cup {Len(shown) + 1}
         /\ Len(shown) \in Nat /\ Len(shown') = Len(shown) + 1
         /\ shown'[Len(shown) + 1] = r
         /\ \A i \in DOMAIN shown : i \in Nat /\ i < Len(shown) + 1 /\ shown'[i] = shown[i]
<1>1. shown \in Seq([n : Nat, off : Nat, end : Nat, begin : Nat, line : Nat])
  BY DEF TypeOK
<1>2. Len(shown) \in Nat /\ DOMAIN shown = 1..Len(shown)
  BY <1>1
<1>3. /\ DOMAIN Append(shown, r) = 1..(Len(shown) + 1)
      /\ Len(Append(shown, r)) = Len(shown) + 1
      /\ Append(shown, r)[Len(shown) + 1] = r
      /\ \A i \in 1..Len(shown) : Append(shown, r)[i] = shown[i]
  BY <1>1, <1>2
<1>4. 1..(Len(shown) + 1) = 1..Len(shown) \cup {Len(shown) + 1}
  BY <1>2
<1> QED
  BY <1>2, <1>3, <1>4

(* What a step leaves behind, it does not bring back.                      *)
LEMMA PassedGrows ==
  ASSUME TypeOK, Stays \/ Opens \/ Skips \/ (\E r : Shows(r)) \/ Closes,
         NEW m \in Nat, NEW b \in Nat, Passed(m, b)
  PROVE  Passed(m, b)'
<1>1. n \in Nat /\ bgnoff \in Nat /\ dwi \in Nat
  BY Given DEF TypeOK
<1>2. CASE Stays
  BY <1>2 DEF Stays, Passed
<1>3. CASE Opens
  BY <1>1, <1>3 DEF Opens, Passed
<1>4. CASE Skips \/ \E r : Shows(r)
  <2>1. bgnoff' = dwi /\ bgnoff <= dwi /\ n' = n /\ pc' = pc
    BY <1>4 DEF Skips, Shows
  <2>2. b < bgnoff => b < dwi
    BY <1>1, <2>1
  <2> QED
    BY <2>1, <2>2 DEF Passed
<1>5. CASE Closes
  BY <1>5 DEF Closes, Passed
<1> QED
  BY <1>2, <1>3, <1>4, <1>5

(* What it newly leaves behind is the line it shows.                       *)
LEMMA PassedNew ==
  ASSUME TypeOK, Stays \/ Opens \/ Skips \/ (\E r : Shows(r)) \/ Closes,
         NEW m \in DOMAIN files, NEW b \in Holding(files[m]), Passed(m, b)', ~Passed(m, b)
  PROVE  \E r : Shows(r) /\ r.n = m /\ Line(r) = b
<1>1. n \in Nat /\ bgnoff \in Nat /\ dwi \in Nat /\ m \in Nat
  BY Given DEF TypeOK
<1>2. b \in Nat
  BY Given DEF Holding
<1>3. ~Stays
  BY DEF Stays, Passed
<1>4. ~Opens
  BY <1>1, <1>2 DEF Opens, Passed
<1>5. ~Closes
  BY DEF Closes, Passed, File
<1>6. ASSUME Skips \/ \E r : Shows(r)
      PROVE  m = n /\ b \in Here
  <2>1. bgnoff' = dwi /\ n' = n /\ pc' = pc /\ pc = "scan"
    BY <1>6 DEF Skips, Shows
  <2>2. m = n /\ b < dwi /\ ~(b < bgnoff)
    BY <2>1 DEF Passed
  <2>3. bgnoff <= b
    BY <1>1, <1>2, <2>2
  <2> QED
    BY <2>2, <2>3 DEF Here, File
<1>7. ~Skips
  BY <1>6 DEF Skips
<1> QED
  BY <1>3, <1>4, <1>5, <1>6, <1>7 DEF Shows
LEMMA ShowsOrKeeps ==
  ASSUME Stays \/ Opens \/ Skips \/ (\E r : Shows(r)) \/ Closes
  PROVE  shown' = shown \/ \E r : Shows(r)
BY DEF Stays, Opens, Skips, Closes

(* What a report says of the line: it holds every find, and has now been   *)
(* passed, as it had not before.                                           *)
LEMMA ShowsHere ==
  ASSUME TypeOK, LineKept, NEW r, Shows(r), NEW b, b = Line(r)
  PROVE  /\ r.n = n /\ n \in DOMAIN files /\ b \in Holding(files[n])
         /\ b \in Nat /\ bgnoff <= b /\ pc = "scan"
         /\ Passed(r.n, b)' /\ ~Passed(r.n, b)
<1>1. /\ r.n = n /\ pc = "scan" /\ n' = n /\ pc' = pc /\ bgnoff' = dwi
      /\ b \in Here
  BY DEF Shows
<1>2. n \in DOMAIN files /\ n \in Nat /\ bgnoff \in Nat
  BY <1>1, Mapped, Given DEF TypeOK
<1>3. b \in Holding(files[n]) /\ bgnoff <= b /\ b < dwi
  BY <1>1 DEF Here, File
<1>4. b \in Nat
  BY <1>3 DEF Holding
<1>5. ~(b < bgnoff) /\ ~(n < n)
  BY <1>2, <1>3, <1>4
<1>6. Passed(r.n, b)' /\ ~Passed(r.n, b)
  BY <1>1, <1>3, <1>5 DEF Passed
<1> QED
  BY <1>1, <1>2, <1>3, <1>4, <1>6

LEMMA HeldStays ==
  ASSUME [Next]_vars, NEW m, NEW b
  PROVE  Held(m, b)' <=> Held(m, b)
<1>1. files' = files /\ Holding(files[m])' = Holding(files[m])
  BY FixedInputs DEF Holding, FoundIn
<1> QED
  BY <1>1 DEF Held

LEMMA ShownAtGrows ==
  ASSUME TypeOK, [Next]_vars, NEW m, NEW b,
         Stays \/ Opens \/ Skips \/ (\E r : Shows(r)) \/ Closes
  PROVE  ShownAt(m, b)' <=> ShownAt(m, b) \/ \E r : Shows(r) /\ r.n = m /\ Line(r) = b
<1> DEFINE At(r) == r.n = m /\ Line(r) = b
<1>1. ShownAt(m, b) <=> \E i \in DOMAIN shown : At(shown[i])
  BY DEF ShownAt
<1>2. ShownAt(m, b)' <=> \E i \in DOMAIN shown' : At(shown'[i])
  BY FixedInputs DEF ShownAt, Line
<1>3. CASE shown' = shown
  <2>1. ~\E r : Shows(r)
    <3> SUFFICES ASSUME NEW r, Shows(r) PROVE FALSE
      OBVIOUS
    <3>1. Len(shown') = Len(shown) + 1 /\ Len(shown) \in Nat
      BY Appended DEF Shows
    <3> QED
      BY <1>3, <3>1
  <2> QED
    BY <1>1, <1>2, <1>3, <2>1
<1>4. ASSUME NEW r, Shows(r)
      PROVE  (\E i \in DOMAIN shown' : At(shown'[i]))
               <=> (\E i \in DOMAIN shown : At(shown[i])) \/ At(r)
  <2> HIDE DEF At
  <2> QED
    BY <1>4, Appended DEF Shows
<1>5. ASSUME NEW r, NEW q, Shows(r), Shows(q) PROVE r = q
  <2>1. shown'[Len(shown) + 1] = r
    BY <1>5, Appended DEF Shows
  <2>2. shown'[Len(shown) + 1] = q
    BY <1>5, Appended DEF Shows
  <2> QED
    BY <2>1, <2>2
<1> HIDE DEF At
<1>6. CASE \E r : Shows(r)
  <2>1. PICK r : Shows(r)
    BY <1>6
  <2>2. At(r) <=> \E q : Shows(q) /\ At(q)
    BY <1>5, <2>1
  <2> QED
    BY <1>1, <1>2, <1>4, <2>1, <2>2 DEF At
<1> QED
  BY <1>3, <1>6, ShowsOrKeeps

LEMMA NextShownHeld ==
  ASSUME TypeOK, LineKept, Plain, pc # "exit", ShownHeld, [Next]_vars
  PROVE  ShownHeld'
<1>1. Stays \/ Opens \/ Skips \/ (\E r : Shows(r)) \/ Closes
  BY Moves
<1> SUFFICES ASSUME NEW m, NEW b
             PROVE  ShownAt(m, b)' <=> Held(m, b)' /\ Passed(m, b)'
  BY DEF ShownHeld
<1>2. ASSUME Held(m, b) PROVE m \in Nat /\ b \in Nat
  BY <1>2, Given DEF Held, Holding
<1>3. ShownAt(m, b) <=> Held(m, b) /\ Passed(m, b)
  BY DEF ShownHeld
<1>4. Held(m, b) /\ Passed(m, b) => Passed(m, b)'
  BY <1>1, <1>2, PassedGrows
<1>5. Held(m, b) /\ Passed(m, b)' /\ ~Passed(m, b)
        => \E r : Shows(r) /\ r.n = m /\ Line(r) = b
  BY <1>1, PassedNew DEF Held
<1>6. ASSUME NEW r, Shows(r), r.n = m, Line(r) = b
      PROVE  Held(m, b) /\ Passed(m, b)'
  BY <1>6, ShowsHere DEF Held
<1> QED
  BY <1>1, <1>3, <1>4, <1>5, <1>6, HeldStays, ShownAtGrows

LEMMA NextInOrder ==
  ASSUME TypeOK, LineKept, Plain, pc # "exit", ShownHeld, ShownInOrder, [Next]_vars
  PROVE  ShownInOrder'
<1>1. Stays \/ Opens \/ Skips \/ (\E r : Shows(r)) \/ Closes
  BY Moves
<1>2. \A r, s : Later(r, s)' <=> Later(r, s)
  BY FixedInputs DEF Later
<1>3. ASSUME NEW i \in DOMAIN shown', NEW j \in DOMAIN shown', i < j
      PROVE  Later(shown'[i], shown'[j])
  <2>1. CASE shown' = shown
    BY <1>3, <2>1 DEF ShownInOrder
  <2>2. CASE \E r : Shows(r)
    <3>1. PICK r : Shows(r)
      BY <2>2
    <3>2. /\ DOMAIN shown' = DOMAIN shown \cup {Len(shown) + 1}
          /\ Len(shown) \in Nat /\ shown'[Len(shown) + 1] = r
          /\ \A k \in DOMAIN shown : k \in Nat /\ k < Len(shown) + 1 /\ shown'[k] = shown[k]
      BY <3>1, Appended DEF Shows
    <3>3. i \in DOMAIN shown
      <4>1. i = Len(shown) + 1 => ~(i < j)
        BY <1>3, <3>2
      <4> QED
        BY <1>3, <3>2, <4>1
    <3>4. CASE j \in DOMAIN shown
      BY <1>3, <3>2, <3>3, <3>4 DEF ShownInOrder
    <3>5. CASE j = Len(shown) + 1
      <4> DEFINE q == shown[i]
      <4>1. q.n \in DOMAIN files /\ Line(q) \in Holding(files[q.n]) /\ Passed(q.n, Line(q))
        BY <3>3 DEF ShownHeld, ShownAt, Held
      <4>2. r.n = n /\ Line(r) \in Nat /\ bgnoff <= Line(r) /\ pc = "scan"
        <5>1. PICK b : b = Line(r)
          OBVIOUS
        <5> QED
          BY <3>1, <5>1, ShowsHere
      <4>3. Line(q) \in Nat /\ bgnoff \in Nat
        BY <4>1, Given DEF Holding, TypeOK
      <4> HIDE DEF q
      <4>4. q.n < n \/ (q.n = n /\ Line(q) < bgnoff)
        BY <4>1, <4>2 DEF Passed
      <4>5. Line(q) < bgnoff => Line(q) < Line(r)
        BY <4>2, <4>3
      <4>6. Later(q, r)
        BY <4>2, <4>4, <4>5 DEF Later
      <4> QED
        BY <3>2, <3>3, <3>5, <4>6 DEF q
    <3> QED
      BY <3>2, <3>4, <3>5
  <2> QED
    BY <1>1, <2>1, <2>2, ShowsOrKeeps
<1>4. ASSUME NEW i \in DOMAIN shown', NEW j \in DOMAIN shown', i < j
      PROVE  Later(shown[i], shown[j])'
  <2>1. PICK r, s : r = shown'[i] /\ s = shown'[j]
    OBVIOUS
  <2>2. Later(r, s)'
    BY <1>2, <1>3, <1>4, <2>1
  <2> QED
    BY <2>1, <2>2 DEF Later, Line
<1> QED
  BY <1>4 DEF ShownInOrder

LEMMA NextCount ==
  ASSUME TypeOK, LineKept, Plain, pc # "exit", ShownHeld, FileCount, [Next]_vars
  PROVE  FileCount'
<1>1. Stays \/ Opens \/ Skips \/ (\E r : Shows(r)) \/ Closes
  BY Moves
<1>2. CASE Stays \/ Skips \/ Closes
  <2>1. n' = n /\ shown' = shown /\ g_dwFinds' = g_dwFinds
    BY <1>2 DEF Stays, Skips, Closes
  <2> QED
    BY <2>1 DEF FileCount, OfFile
<1>3. CASE Opens
  <2>1. n' = n + 1 /\ shown' = shown /\ g_dwFinds' = 0 /\ n \in Nat
    BY <1>3, Given DEF Opens, TypeOK
  <2>2. ASSUME NEW i \in DOMAIN shown PROVE shown[i].n # n + 1
    <3>1. Passed(shown[i].n, Line(shown[i])) /\ shown[i].n \in Nat
      <4>1. ShownAt(shown[i].n, Line(shown[i]))
        BY DEF ShownAt
      <4>2. shown[i].n \in DOMAIN files /\ Passed(shown[i].n, Line(shown[i]))
        BY <4>1 DEF ShownHeld, Held
      <4> QED
        BY <4>2, Given
    <3>2. shown[i].n < n \/ shown[i].n = n
      BY <3>1 DEF Passed
    <3> QED
      BY <2>1, <3>1, <3>2
  <2>3. {i \in DOMAIN shown' : shown'[i].n = n'} = {}
    BY <2>1, <2>2
  <2> QED
    BY <2>1, <2>3, FS_EmptySet DEF FileCount, OfFile
<1>4. CASE \E r : Shows(r)
  <2>1. PICK r : Shows(r)
    BY <1>4
  <2>2. /\ n' = n /\ r.n = n /\ g_dwFinds' = g_dwFinds + 1
    BY <2>1 DEF Shows
  <2>3. /\ DOMAIN shown' = DOMAIN shown \cup {Len(shown) + 1}
        /\ Len(shown) \in Nat /\ shown'[Len(shown) + 1] = r
        /\ \A k \in DOMAIN shown : k \in Nat /\ k < Len(shown) + 1 /\ shown'[k] = shown[k]
    BY <2>1, Appended DEF Shows
  <2> DEFINE S == {i \in DOMAIN shown : shown[i].n = n}
             T == {i \in DOMAIN shown' : shown'[i].n = n}
  <2>4. T = S \cup {Len(shown) + 1}
    BY <2>2, <2>3
  <2>5. S \in SUBSET Nat /\ Len(shown) + 1 \notin S /\ \A i \in S : i <= Len(shown)
    BY <2>3
  <2> HIDE DEF S, T
  <2>6. Cardinality(T) = Cardinality(S) + 1
    BY <2>3, <2>4, <2>5, CountGrows
  <2>7. FileCount => (n > 0 => g_dwFinds = Cardinality(S))
    BY DEF FileCount, OfFile, S
  <2>8. n' > 0 => g_dwFinds' = Cardinality(T)
    BY <2>2, <2>6, <2>7
  <2>9. T = OfFile(n)'
    BY <2>2 DEF T, OfFile
  <2> QED
    BY <2>8, <2>9 DEF FileCount
<1> QED
  BY <1>1, <1>2, <1>3, <1>4

LEMMA NextSoFar == TypeOK /\ LineKept /\ ShownSoFar /\ [Next]_vars => ShownSoFar'
<1> SUFFICES ASSUME TypeOK, LineKept, ShownSoFar, [Next]_vars, Plain' PROVE ShownSoFar'
  BY DEF ShownSoFar
<1>1. Plain
  BY FixedInputs DEF Plain
<1>2. pc # "exit" /\ ShownHeld /\ ShownInOrder /\ FileCount
  BY <1>1 DEF ShownSoFar
<1>3. pc' # "exit" /\ (pc' = "done" => n' > 0)
  <2>1. pc = "done" => n > 0
    BY <1>1 DEF ShownSoFar
  <2>2. Stays \/ Opens \/ Skips \/ (\E r : Shows(r)) \/ Closes
    BY <1>1, <1>2, Moves
  <2> QED
    BY <1>2, <2>1, <2>2 DEF Stays, Opens, Skips, Shows, Closes, TypeOK
<1> QED
  BY <1>1, <1>2, <1>3, NextShownHeld, NextInOrder, NextCount DEF ShownSoFar
LEMMA InitSoFar == Init => LineKept /\ ShownSoFar
<1> SUFFICES ASSUME Init PROVE LineKept /\ ShownSoFar
  OBVIOUS
<1>1. n = 0 /\ pc = "open" /\ shown = <<>> /\ files \in Seq(Seq(Byte) \ {<<>>})
  BY FilesAssumption DEF Init
<1>2. ShownHeld
  <2>1. \A m \in DOMAIN files : m \in Nat /\ m > 0
    BY <1>1
  <2>2. \A m, b : ~ShownAt(m, b)
    BY <1>1 DEF ShownAt
  <2>3. \A m, b : Held(m, b) => ~Passed(m, b)
    BY <1>1, <2>1 DEF Held, Passed
  <2> QED
    BY <2>2, <2>3 DEF ShownHeld
<1> QED
  BY <1>1, <1>2 DEF LineKept, ShownSoFar, ShownInOrder, FileCount

(* Fa4Find.c:517-538: for every list of files, finds and switches, when a  *)
(* file is done the lines shown of it are those that hold every find, each *)
(* once and in order, and as many as are counted.                          *)
THEOREM HoldingShown == Spec => []HoldingLinesShown
<1> DEFINE Inv == TypeOK /\ LineKept /\ ShownSoFar
<1>1. Init => Inv
  BY InitType, InitSoFar
<1>2. Inv /\ [Next]_vars => Inv'
  BY NextType, NextKept, NextSoFar
<1>3. Inv => HoldingLinesShown
  <2> SUFFICES ASSUME Inv, Plain, (pc = "open" /\ n > 0) \/ pc = "done"
               PROVE  LET of == {i \in DOMAIN shown : shown[i].n = n}
                      IN  /\ {Line(shown[i]) : i \in of} = Holding(File)
                          /\ \A i, j \in of : i < j => Line(shown[i]) < Line(shown[j])
                          /\ g_dwFinds = Cardinality(of)
    BY DEF HoldingLinesShown
  <2>1. ShownHeld /\ ShownInOrder /\ FileCount /\ pc # "scan"
    BY DEF ShownSoFar
  <2>2. n \in DOMAIN files /\ n > 0
    <3>1. n \in 0..Len(files) /\ Len(files) \in Nat /\ n \in Nat
      BY Given DEF TypeOK
    <3>2. n > 0
      BY DEF ShownSoFar
    <3> QED
      BY <3>1, <3>2, Given
  <2>3. \A b : ShownAt(n, b) <=> b \in Holding(File)
    BY <2>1, <2>2 DEF ShownHeld, Held, Passed, File
  <2>4. {Line(shown[i]) : i \in OfFile(n)} = Holding(File)
    <3>1. \A b : b \in {Line(shown[i]) : i \in OfFile(n)} <=> ShownAt(n, b)
      BY DEF ShownAt, OfFile
    <3> QED
      BY <2>3, <3>1
  <2>5. \A i, j \in OfFile(n) : i < j => Line(shown[i]) < Line(shown[j])
    <3>1. n \in Nat /\ ~(n < n)
      BY DEF TypeOK
    <3> QED
      BY <2>1, <3>1 DEF ShownInOrder, Later, OfFile
  <2> QED
    BY <2>1, <2>2, <2>4, <2>5 DEF FileCount, OfFile
<1> QED
  BY <1>1, <1>2, <1>3, PTL DEF Spec

-----------------------------------------------------------------------------
(* The steps of FindInLines are steps of FindReport.                       *)

LEMMA PlacesAre ==
  ASSUME NEW w
  PROVE  /\ w \in Places <=> \E m, b : w = <<m, 1, b>> /\ ShownAt(m, b)
         /\ w \in Wanted <=> \E m, b : w = <<m, 1, b>> /\ Held(m, b)
<1>1. w \in Places <=> \E m, b : w = <<m, 1, b>> /\ ShownAt(m, b)
  BY DEF Places, Place, ShownAt
<1>2. w \in Wanted <=> \E m, b : w = <<m, 1, b>> /\ Held(m, b)
  <2> DEFINE Of(m) == {<<m, 1, s>> : s \in Holding(files[m])}
  <2>1. \A m : w \in Of(m) <=> \E b \in Holding(files[m]) : w = <<m, 1, b>>
    OBVIOUS
  <2>2. w \in Wanted <=> \E m \in DOMAIN files : w \in Of(m)
    <3>1. Wanted = UNION {Of(m) : m \in DOMAIN files}
      BY DEF Wanted
    <3> HIDE DEF Of
    <3> QED
      BY <3>1
  <2> HIDE DEF Of
  <2> QED
    BY <2>1, <2>2 DEF Held
<1> QED
  BY <1>1, <1>2

LEMMA StepReports ==
  ASSUME TypeOK, TypeOK', LineKept, ShownSoFar, Plain, [Next]_vars
  PROVE  [Report!Next]_(Report!vars)
<1>1. Stays \/ Opens \/ Skips \/ (\E r : Shows(r)) \/ Closes
  BY Moves DEF ShownSoFar
<1>2. ShownHeld /\ n \in Nat /\ bgnoff \in Nat
  BY Given DEF ShownSoFar, TypeOK
<1>3. Wanted' = Wanted
  <2>1. files' = files /\ finds' = finds /\ sw' = sw
    BY FixedInputs
  <2> QED
    BY <2>1 DEF Wanted, Holding, FoundIn
<1>4. shown' = shown => Places' = Places /\ Len(shown)' = Len(shown)
  BY FixedInputs DEF Places, Place, Line
<1>5. CASE Stays \/ Opens \/ Skips
  <2>1. shown' = shown
    BY <1>5 DEF Stays, Opens, Skips
  <2>2. FilesLeft' = FilesLeft
    BY <1>2, <1>5 DEF Stays, Opens, Skips, FilesLeft
  <2> QED
    BY <1>3, <1>4, <2>1, <2>2 DEF Report!vars
<1>6. CASE \E r : Shows(r)
  <2>1. PICK r, b : Shows(r) /\ b = Line(r)
    BY <1>6
  <2>2. /\ Held(n, b) /\ ~Passed(n, b) /\ r.n = n /\ pc = "scan" /\ b \in Nat
        /\ Here = {b} /\ n' = n /\ pc' = pc /\ shown' = Append(shown, r)
    BY <2>1, ShowsHere DEF Held, Shows
  <2> DEFINE w == <<n, 1, b>>
  <2>3. w \in Wanted \ Places
    <3>1. w \in Wanted
      BY <2>2, PlacesAre
    <3>2. ASSUME w \in Places PROVE FALSE
      <4>1. PICK m, c : w = <<m, 1, c>> /\ ShownAt(m, c)
        BY <3>2, PlacesAre
      <4>2. m = n /\ c = b
        BY <4>1
      <4> QED
        BY <1>2, <2>2, <4>1, <4>2 DEF ShownHeld
    <3> QED
      BY <3>1, <3>2
  <2>4. ASSUME NEW v \in Wanted, Report!Before(v, w) PROVE v \in Places
    <3>1. PICK m, c : v = <<m, 1, c>> /\ Held(m, c)
      BY PlacesAre
    <3>2. m < n \/ (m = n /\ c < b)
      BY <2>4, <3>1 DEF Report!Before
    <3>3. ASSUME m = n, c < b PROVE c < bgnoff
      <4>1. c \in Holding(File) /\ b < dwi /\ dwi \in Nat /\ c \in Nat
        <5>1. c \in Holding(File) /\ b \in Here
          BY <2>2, <3>1, <3>3 DEF Held, File
        <5> QED
          BY <5>1 DEF Here, TypeOK, Holding
      <4>2. ~(bgnoff <= c)
        <5> SUFFICES ASSUME bgnoff <= c PROVE FALSE
          OBVIOUS
        <5>1. c \in Here
          BY <2>2, <3>3, <4>1 DEF Here
        <5> QED
          BY <2>2, <3>3, <5>1
      <4> QED
        BY <1>2, <4>1, <4>2
    <3>4. Passed(m, c)
      BY <3>2, <3>3 DEF Passed
    <3> QED
      BY <1>2, <3>1, <3>4, PlacesAre DEF ShownHeld
  <2>5. Places' = Places \cup {w}
    <3>1. \A x : x \in Places' <=> x \in Places \/ x = w
      <4>1. \A m, c : ShownAt(m, c)' <=> ShownAt(m, c) \/ (m = n /\ c = b)
        <5>1. ASSUME NEW q, Shows(q) PROVE q = r
          <6>1. shown'[Len(shown) + 1] = q
            BY <5>1, Appended DEF Shows
          <6>2. shown'[Len(shown) + 1] = r
            BY <2>1, Appended DEF Shows
          <6> QED
            BY <6>1, <6>2
        <5> QED
          BY <1>1, <2>1, <2>2, <5>1, ShownAtGrows
      <4>2. \A x : x \in Places' <=> \E m, c : x = <<m, 1, c>> /\ ShownAt(m, c)'
        BY DEF Places, Place, ShownAt
      <4> QED
        BY <4>1, <4>2, PlacesAre
    <3> QED
      BY <3>1
  <2>6. Len(shown)' = Len(shown) + 1
    BY <2>2, Appended
  <2>7. FilesLeft' = FilesLeft /\ w[1] > FilesLeft
    BY <1>2, <2>2 DEF FilesLeft
  <2> HIDE DEF w
  <2>8. Report!Report
    BY <1>3, <2>3, <2>4, <2>5, <2>6, <2>7 DEF Report!Report
  <2> QED
    BY <2>8 DEF Report!Next
<1>7. CASE Closes
  <2>1. shown' = shown /\ FilesLeft + 1 = n /\ FilesLeft' = FilesLeft + 1
    BY <1>2, <1>7 DEF Closes, FilesLeft
  <2>2. ASSUME NEW w \in Wanted, w[1] = n PROVE w \in Places
    <3>1. PICK m, b : w = <<m, 1, b>> /\ Held(m, b)
      BY PlacesAre
    <3>2. m = n
      BY <2>2, <3>1
    <3>3. Passed(m, b)
      BY <1>7, <3>1, <3>2 DEF Closes, Passed, Held, File
    <3> QED
      BY <1>2, <3>1, <3>3, PlacesAre DEF ShownHeld
  <2>3. Report!Leave
    BY <1>3, <1>4, <2>1, <2>2 DEF Report!Leave
  <2> QED
    BY <2>3 DEF Report!Next
<1> QED
  BY <1>1, <1>5, <1>6, <1>7

(* Fa4Find.c:497-577: for every list of files, plain finds and switches,   *)
(* the search by lines reports each line that holds every find once, in    *)
(* the order of the files and of the lines, and leaves no file before all  *)
(* of its lines have been reported.                                        *)
THEOREM LinesReport == Spec /\ Plain => ReportsInOrder
<1> DEFINE Inv == TypeOK /\ LineKept /\ ShownSoFar /\ Plain
<1>1. Init /\ Plain => Inv
  BY InitType, InitSoFar
<1>2. Inv /\ [Next]_vars => Inv'
  <2>1. Plain /\ [Next]_vars => Plain'
    BY FixedInputs DEF Plain
  <2> QED
    BY <2>1, NextType, NextKept, NextSoFar
<1>3. Init => Report!Init
  <2> SUFFICES ASSUME Init PROVE Report!Init
    OBVIOUS
  <2>1. TypeOK /\ shown = <<>> /\ FilesLeft = 0
    BY InitType DEF Init, FilesLeft
  <2>2. Wanted \in SUBSET (Nat \X Nat \X Nat)
    <3> SUFFICES ASSUME NEW w \in Wanted PROVE w \in Nat \X Nat \X Nat
      OBVIOUS
    <3>1. PICK m, b : w = <<m, 1, b>> /\ Held(m, b)
      BY PlacesAre
    <3>2. m \in Nat /\ b \in Nat
      <4>1. m \in DOMAIN files /\ b \in 0..(Len(files[m]) - 1)
        BY <3>1 DEF Held, Holding
      <4> QED
        BY <2>1, <4>1, Given
    <3> QED
      BY <3>1, <3>2
  <2>3. Places = {} /\ Len(shown) = 0
    BY <2>1 DEF Places
  <2> QED
    BY <2>1, <2>2, <2>3 DEF Report!Init
<1>4. Inv /\ Inv' /\ [Next]_vars => [Report!Next]_(Report!vars)
  BY StepReports
<1> QED
  BY <1>1, <1>2, <1>3, <1>4, PTL DEF Spec, ReportsInOrder, Report!Spec
=============================================================================
