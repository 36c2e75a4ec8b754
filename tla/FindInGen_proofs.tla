--------------------------- MODULE FindInGen_proofs ---------------------------
(***************************************************************************)
(* Proofs about FindInGen, for every list of files, list of finds, set of  *)
(* switches and pattern matcher: the types, the count of lines, the line   *)
(* shown, the flags of -F:1, that the search implements FindReport, and    *)
(* what is reported of a pattern.  After a find the scan goes on behind    *)
(* the line; the invariants say that what it has told lies behind it, and  *)
(* that of what lies behind it all was told.  And about FullCompare, for   *)
(* every file, find and mix of switches: what the compare that the scan    *)
(* makes at each offset reports.                                           *)
(***************************************************************************)
EXTENDS FindInGen, FullCompare, FA4Lemmas

-----------------------------------------------------------------------------
(* What the type invariant says of the file and the find of the moment.    *)

LEMMA Mapped ==
  ASSUME TypeOK, n > 0
  PROVE  File \in Seq(Byte) /\ Size \in Nat \ {0} /\ n \in DOMAIN files
<1>1. files \in Seq(Seq(Byte) \ {<<>>})
  BY FilesAssumption DEF TypeOK
<1>2. n \in 1..Len(files)
  BY <1>1 DEF TypeOK
<1>3. File \in Seq(Byte) \ {<<>>}
  BY <1>1, <1>2 DEF File
<1> QED
  BY <1>1, <1>2, <1>3 DEF Size

LEMMA Sought ==
  ASSUME TypeOK, fi > 0
  PROVE  /\ Len(ThisFind) \in Nat \ {0}
         /\ ~IsBreak(ThisFind[1])
<1>1. finds \in Seq(Find)
  BY FindListsAssumption DEF TypeOK
<1>2. finds[fi] \in Find
  BY <1>1 DEF TypeOK
<1>3. finds[fi].text \in Seq(Byte \ {0, LF, CR}) \ {<<>>}
  BY <1>2 DEF Find
<1> QED
  BY <1>3, Folded DEF ThisFind

-----------------------------------------------------------------------------
(* The type invariant.                                                     *)

LEMMA CountLineType ==
  ASSUME TypeOK, NEW d, NEW at \in Nat, CountLine(d, at)
  PROVE  dwl' \in Nat /\ lpoff' \in [0..MXLPS -> Nat]
BY IncLineType DEF CountLine, TypeOK

LEMMA ShowType ==
  ASSUME TypeOK, n > 0, fi > 0, NEW off \in Nat,
         NEW offs \in [0..MXLPS -> Nat], NEW line \in Nat, Show(off, offs, line),
         finds' = finds
  PROVE  /\ g_dwFndFlg' \in SUBSET (1..Len(finds)) /\ g_dwFinds' \in Nat
         /\ shown' \in Seq([n : Nat, k : Nat, off : Nat, begin : Nat, line : Nat])
<1>1. offs[0] \in Nat /\ n \in Nat /\ fi \in 1..Len(finds) /\ fi \in Nat
  <2>1. finds \in Seq(Find) /\ files \in Seq(Seq(Byte) \ {<<>>})
    BY FindListsAssumption, FilesAssumption DEF TypeOK
  <2> QED
    BY <2>1 DEF TypeOK, MXLPS
<1>2. [n |-> n, k |-> fi, off |-> off, begin |-> offs[0], line |-> line]
        \in [n : Nat, k : Nat, off : Nat, begin : Nat, line : Nat]
  BY <1>1
<1> QED
  BY <1>1, <1>2 DEF Show, TypeOK

LEMMA GoToEndLineType ==
  ASSUME TypeOK, Scanning, GoToEndLine
  PROVE  dwi' \in Nat /\ dwl' \in Nat /\ lpoff' \in [0..MXLPS -> Nat]
<1>1. n > 0
  BY DEF TypeOK, Scanning
<1>2. dwi + 1 \in 0..Len(File)
  BY <1>1, Mapped DEF TypeOK, Scanning, Size
<1>3. EndOfLine(File, dwi + 1) \in Nat
  BY <1>1, <1>2, Mapped, EndOfLineIs
<1> QED
  BY <1>3, CountLineType DEF GoToEndLine

LEMMA RegexCounts ==
  ASSUME TypeOK, n > 0, NEW b \in Nat, NEW e \in Nat, e <= Size
  PROVE  /\ LFsIn(b, e) \in SUBSET Nat
         /\ \A i \in LFsIn(b, e) : i <= e
         /\ Cardinality(LFsIn(b, e)) \in Nat
<1>1. LFsIn(b, e) \in SUBSET Nat /\ \A i \in LFsIn(b, e) : i <= e
  BY DEF LFsIn
<1> QED
  <2> HIDE DEF LFsIn
  <2> QED
    BY <1>1, CountGrows

LEMMA PassBreaksType ==
  ASSUME TypeOK, n > 0, NEW e \in Nat, NEW s \in Nat, s <= Size,
         PassBreaks(e, s)
  PROVE  dwi' \in Nat /\ dwl' \in Nat /\ lpoff' \in [0..MXLPS -> Nat]
<1> DEFINE lfs == LFsIn(e, s)
           rest == lfs \ {Top(lfs)}
<1>1. lfs \in SUBSET Nat /\ (\A i \in lfs : i <= s) /\ Cardinality(lfs) \in Nat
  BY RegexCounts
<1>2. lfs # {} => Top(lfs) \in Nat
  <2> HIDE DEF lfs
  <2> QED
    BY <1>1, TopIs
<1>3. rest # {} => Top(rest) \in Nat
  <2>1. rest \in SUBSET Nat /\ \A i \in rest : i <= s
    BY <1>1
  <2> HIDE DEF rest
  <2> QED
    BY <2>1, TopIs
<1>4. lpoff' \in [0..MXLPS -> Nat]
  <2>1. lpoff \in [0..MXLPS -> Nat]
    BY DEF TypeOK
  <2>2. lpoff' = IF lfs = {} THEN lpoff
                 ELSE IncLine(Top(lfs), IF rest = {} THEN lpoff
                                        ELSE IncLine(Top(rest), lpoff))
    BY DEF PassBreaks, IncLines
  <2> HIDE DEF lfs, rest
  <2>3. CASE lfs = {}
    BY <2>1, <2>2, <2>3
  <2>4. CASE lfs # {} /\ rest = {}
    BY <1>2, <2>1, <2>2, <2>4, IncLineType
  <2>5. CASE lfs # {} /\ rest # {}
    <3>1. IncLine(Top(rest), lpoff) \in [0..MXLPS -> Nat]
      BY <1>3, <2>1, <2>5, IncLineType
    <3> QED
      BY <1>2, <2>2, <2>5, <3>1, IncLineType
  <2> QED
    BY <2>3, <2>4, <2>5
<1>5. dwi' = s /\ dwl' = dwl + Cardinality(lfs)
  BY DEF PassBreaks
<1> QED
  <2> HIDE DEF lfs
  <2> QED
    BY <1>1, <1>4, <1>5 DEF TypeOK

LEMMA RegexEnds ==
  ASSUME TypeOK, InRegex
  PROVE  /\ n > 0 /\ fi > 0
         /\ EndOfLine(File, dwi) \in dwi..Size
         /\ EndOfLine(File, dwi) < Size =>
              SkipBreaks(File, EndOfLine(File, dwi) + 1)
                \in (EndOfLine(File, dwi) + 1)..Size
<1>1. n > 0 /\ fi > 0
  BY DEF TypeOK, InRegex
<1>2. File \in Seq(Byte) /\ Size = Len(File) /\ Size \in Nat /\ dwi \in 0..Len(File)
  BY <1>1, Mapped DEF TypeOK, InRegex, Size
<1>3. EndOfLine(File, dwi) \in dwi..Size
  BY <1>2, EndOfLineIs
<1>4. ASSUME EndOfLine(File, dwi) < Size
      PROVE  SkipBreaks(File, EndOfLine(File, dwi) + 1)
               \in (EndOfLine(File, dwi) + 1)..Size
  <2>1. EndOfLine(File, dwi) + 1 \in 0..Len(File)
    BY <1>2, <1>3, <1>4
  <2> QED
    BY <1>2, <2>1, SkipBreaksIs
<1> QED
  BY <1>1, <1>3, <1>4

LEMMA ResetScanType ==
  ASSUME TypeOK, ResetScan, fi < Len(finds)
  PROVE  /\ fi' \in 1..Len(finds) /\ n' = n
         /\ files' = files /\ finds' = finds /\ sw' = sw
         /\ dwi' = 0 /\ dwl' = 0 /\ lpoff' \in [0..MXLPS -> Nat] /\ lpoff'[0] = 0
         /\ g_dwFndFlg' = g_dwFndFlg /\ g_dwFinds' = g_dwFinds
         /\ gdwFinds' = gdwFinds /\ shown' = shown
         /\ g_dwTotFinds' = g_dwTotFinds
<1>1. finds \in Seq(Find)
  BY FindListsAssumption DEF TypeOK
<1> QED
  BY <1>1 DEF ResetScan, TypeOK, MXLPS, inputs, counts

LEMMA InitType == Init => TypeOK
<1> SUFFICES ASSUME Init PROVE TypeOK
  OBVIOUS
<1>1. files \in Seq(Seq(Byte) \ {<<>>}) /\ finds \in Seq(Find)
  BY FilesAssumption, FindListsAssumption DEF Init
<1> QED
  BY <1>1 DEF Init, TypeOK, MXLPS

LEMMA NextType == TypeOK /\ [Next]_vars => TypeOK'
<1> SUFFICES ASSUME TypeOK, [Next]_vars PROVE TypeOK'
  OBVIOUS
<1> USE DEF inputs, scan, counts
<1>0. /\ files \in Seq(Seq(Byte) \ {<<>>}) /\ finds \in Seq(Find)
      /\ Len(files) \in Nat /\ Len(finds) \in Nat
  BY FilesAssumption, FindListsAssumption DEF TypeOK
<1>1. CASE OpenFile
  BY <1>0, <1>1 DEF OpenFile, TypeOK
<1>2. CASE StartScan
  <2>1. pre' = pre /\ pc' = "scan" /\ n > 0
    BY <1>2 DEF StartScan, TypeOK
  <2>2. ResetScan /\ fi < Len(finds)
    BY <1>2 DEF StartScan
  <2>3. /\ fi' \in 1..Len(finds) /\ n' = n
        /\ files' = files /\ finds' = finds /\ sw' = sw
        /\ dwi' = 0 /\ dwl' = 0 /\ lpoff' \in [0..MXLPS -> Nat] /\ lpoff'[0] = 0
        /\ g_dwFndFlg' = g_dwFndFlg /\ g_dwFinds' = g_dwFinds
        /\ gdwFinds' = gdwFinds /\ shown' = shown
        /\ g_dwTotFinds' = g_dwTotFinds
    BY <2>2, ResetScanType
  <2> QED
    BY <1>0, <2>1, <2>3 DEF TypeOK
<1>3. CASE StartRegex
  <2>1. pre' \in SUBSET (1..Len(finds))
    BY <1>0, <1>3 DEF StartRegex, TypeOK
  <2>2. pc' = "regex" /\ n > 0
    BY <1>3 DEF StartRegex, TypeOK
  <2>3. ResetScan /\ fi < Len(finds)
    BY <1>3 DEF StartRegex
  <2>4. /\ fi' \in 1..Len(finds) /\ n' = n
        /\ files' = files /\ finds' = finds /\ sw' = sw
        /\ dwi' = 0 /\ dwl' = 0 /\ lpoff' \in [0..MXLPS -> Nat] /\ lpoff'[0] = 0
        /\ g_dwFndFlg' = g_dwFndFlg /\ g_dwFinds' = g_dwFinds
        /\ gdwFinds' = gdwFinds /\ shown' = shown
        /\ g_dwTotFinds' = g_dwTotFinds
    BY <2>3, ResetScanType
  <2> QED
    BY <1>0, <2>1, <2>2, <2>4 DEF TypeOK
<1>4. CASE RegexFails
  BY <1>0, <1>4 DEF RegexFails, TypeOK
<1>5. CASE FoundInText
  <2>1. n > 0 /\ fi > 0
    BY <1>5 DEF FoundInText, Scanning, TypeOK
  <2>2. dwi' \in Nat /\ dwl' \in Nat /\ lpoff' \in [0..MXLPS -> Nat]
    BY <1>5, GoToEndLineType DEF FoundInText
  <2>3. /\ g_dwFndFlg' \in SUBSET (1..Len(finds)) /\ g_dwFinds' \in Nat
        /\ shown' \in Seq([n : Nat, k : Nat, off : Nat, begin : Nat, line : Nat])
    <3>1. dwi \in Nat /\ lpoff \in [0..MXLPS -> Nat] /\ dwl \in Nat
      BY DEF TypeOK
    <3> QED
      BY <1>5, <2>1, <3>1, ShowType DEF FoundInText, ScanFrame
  <2> QED
    BY <1>0, <1>5, <2>1, <2>2, <2>3 DEF FoundInText, ScanFrame, TypeOK
<1>6. CASE FoundInBinary
  <2>1. n > 0 /\ fi > 0
    BY <1>6 DEF FoundInBinary, Scanning, TypeOK
  <2>2. /\ g_dwFndFlg' \in SUBSET (1..Len(finds)) /\ g_dwFinds' \in Nat
        /\ shown' \in Seq([n : Nat, k : Nat, off : Nat, begin : Nat, line : Nat])
    <3>1. dwi \in Nat /\ lpoff \in [0..MXLPS -> Nat] /\ dwl \in Nat
      BY DEF TypeOK
    <3> QED
      BY <1>6, <2>1, <3>1, ShowType DEF FoundInBinary, ScanFrame
  <2>3. Len(ThisFind) \in Nat
    BY <2>1, Sought
  <2> QED
    BY <1>0, <1>6, <2>1, <2>2, <2>3 DEF FoundInBinary, ScanFrame, TypeOK
<1>7. CASE SkipLine
  <2>1. dwi' \in Nat /\ dwl' \in Nat /\ lpoff' \in [0..MXLPS -> Nat]
    BY <1>7, GoToEndLineType DEF SkipLine
  <2> QED
    BY <1>0, <1>7, <2>1 DEF SkipLine, ScanFrame, TypeOK
<1>8. CASE NextByte
  <2>1. dwl' \in Nat /\ lpoff' \in [0..MXLPS -> Nat]
    <3>1. dwi \in Nat
      BY DEF TypeOK
    <3> QED
      BY <1>8, <3>1, CountLineType DEF NextByte
  <2> QED
    BY <1>0, <1>8, <2>1 DEF NextByte, ScanFrame, TypeOK
<1>9. CASE RegexLine
  <2> DEFINE e == EndOfLine(File, dwi)
             s == SkipBreaks(File, e + 1)
  <2>1. n > 0 /\ fi > 0 /\ Size \in Nat /\ dwi \in Nat
    <3>1. InRegex
      BY <1>9 DEF RegexLine
    <3>2. n > 0 /\ fi > 0
      BY <3>1, RegexEnds
    <3> QED
      BY <3>2, Mapped DEF TypeOK
  <2>2. e \in Nat /\ s \in Nat /\ s <= Size
    BY <1>9, <2>1, RegexEnds DEF RegexLine
  <2>3. PassBreaks(e, s)
    BY <1>9 DEF RegexLine
  <2> HIDE DEF e, s
  <2>4. dwi' \in Nat /\ dwl' \in Nat /\ lpoff' \in [0..MXLPS -> Nat]
    BY <2>1, <2>2, <2>3, PassBreaksType
  <2>5. /\ g_dwFndFlg' \in SUBSET (1..Len(finds)) /\ g_dwFinds' \in Nat
        /\ shown' \in Seq([n : Nat, k : Nat, off : Nat, begin : Nat, line : Nat])
    <3> DEFINE offs == IF File[e + 1] = LF THEN IncLine(e, lpoff) ELSE lpoff
               line == IF File[e + 1] = LF THEN dwl + 1 ELSE dwl
    <3>1. offs \in [0..MXLPS -> Nat] /\ line \in Nat
      BY <2>2, IncLineType DEF TypeOK
    <3>2. \/ Show(dwi, offs, line)
          \/ UNCHANGED <<shown, g_dwFndFlg, g_dwFinds>>
      BY <1>9 DEF RegexLine, e
    <3>3. finds' = finds
      BY <1>9 DEF RegexLine, RegexFrame
    <3> HIDE DEF offs, line
    <3>4. CASE Show(dwi, offs, line)
      BY <2>1, <3>1, <3>3, <3>4, ShowType
    <3>5. CASE UNCHANGED <<shown, g_dwFndFlg, g_dwFinds>>
      BY <3>5 DEF TypeOK
    <3> QED
      BY <3>2, <3>4, <3>5
  <2> QED
    BY <1>0, <1>9, <2>1, <2>4, <2>5 DEF RegexLine, InRegex, RegexFrame, TypeOK
<1>10. CASE RegexLastLine
  <2>1. Size \in Nat
    BY <1>10, Mapped DEF RegexLastLine, InRegex, TypeOK
  <2> QED
    BY <1>0, <1>10, <2>1 DEF RegexLastLine, RegexFrame, TypeOK
<1>11. CASE EndFind
  BY <1>0, <1>11 DEF EndFind, TypeOK
<1>12. CASE EndFile
  BY <1>0, <1>12 DEF EndFile, TypeOK
<1>13. CASE UNCHANGED vars
  BY <1>13 DEF vars, TypeOK
<1> QED
  BY <1>1, <1>2, <1>3, <1>4, <1>5, <1>6, <1>7, <1>8, <1>9, <1>10, <1>11,
     <1>12, <1>13 DEF Next, Scan, Regex

(* Fa4Find.c:700-1064: the variables of the search keep their types,       *)
(* whatever the files, the finds and the switches.                         *)
THEOREM TypeCorrect == Spec => []TypeOK
<1>1. Init => TypeOK
  BY InitType
<1>2. TypeOK /\ [Next]_vars => TypeOK'
  BY NextType
<1> QED
  BY <1>1, <1>2, PTL DEF Spec

-----------------------------------------------------------------------------
(* The count of lines.                                                     *)

(* CountLine at e, for the byte there.                                     *)
LEMMA CountLineStep ==
  ASSUME TypeOK, n > 0, NEW e \in dwi..Size,
         \A j \in dwi..(e - 1) : File[j + 1] # LF,
         CountedAt(File, dwi, dwl, lpoff[0]),
         NEW d, d = LF <=> (e < Size /\ File[e + 1] = LF),
         CountLine(d, e)
  PROVE  CountedAt(File, e + 1, dwl', lpoff'[0])
<1>1. File \in Seq(Byte) /\ Size = Len(File) /\ Size \in Nat /\ dwi \in Nat
      /\ dwl \in Nat /\ lpoff[0] \in Nat /\ lpoff \in [0..MXLPS -> Nat]
  <2>1. File \in Seq(Byte) /\ Size \in Nat
    BY Mapped
  <2>2. Size = Len(File)
    BY DEF Size
  <2>3. lpoff \in [0..MXLPS -> Nat] /\ dwi \in Nat /\ dwl \in Nat
    BY DEF TypeOK
  <2> QED
    BY <2>1, <2>2, <2>3 DEF MXLPS
<1>2. /\ d = LF => dwl' = dwl + 1 /\ lpoff' = IncLine(e, lpoff)
      /\ d # LF => dwl' = dwl /\ lpoff' = lpoff
  BY DEF CountLine
<1>3. e \in Nat /\ IncLine(e, lpoff)[0] = e
  BY <1>1, IncLineType
<1>4. e \in dwi..Len(File)
  BY <1>1
<1>5. /\ e < Size /\ File[e + 1] = LF => CountedAt(File, e + 1, dwl + 1, e)
      /\ ~(e < Size /\ File[e + 1] = LF) => CountedAt(File, e + 1, dwl, lpoff[0])
  BY <1>1, <1>4, CountStep
<1> QED
  BY <1>2, <1>3, <1>5

(* No LF is passed over uncounted by GO_TO_END_LINE: the byte it sets out  *)
(* from is not one.                                                        *)
LEMMA GoToEndLineStep ==
  ASSUME TypeOK, Scanning, GoToEndLine, File[dwi + 1] # LF,
         CountedAt(File, dwi, dwl, lpoff[0])
  PROVE  CountedAt(File, dwi', dwl', lpoff'[0])
<1> DEFINE e == EndOfLine(File, dwi + 1)
           d == IF e < Size THEN File[e + 1] ELSE 0
<1>1. n > 0
  BY DEF TypeOK, Scanning
<1>2. File \in Seq(Byte) /\ Size = Len(File) /\ Size \in Nat
      /\ dwi \in Nat /\ dwi + 1 \in 0..Len(File)
  BY <1>1, Mapped DEF TypeOK, Scanning, Size
<1>3. e \in (dwi + 1)..Size /\ \A j \in (dwi + 1)..(e - 1) : ~IsBreak(File[j + 1])
  BY <1>2, EndOfLineIs
<1>4. CountLine(d, e) /\ dwi' = e + 1
  BY DEF GoToEndLine
<1>5. d = LF <=> (e < Size /\ File[e + 1] = LF)
  BY DEF LF
<1> HIDE DEF e, d
<1>6. \A j \in dwi..(e - 1) : File[j + 1] # LF
  BY <1>2, <1>3 DEF IsBreak
<1>7. e \in dwi..Size
  BY <1>2, <1>3
<1> QED
  BY <1>1, <1>4, <1>5, <1>6, <1>7, CountLineStep

(* The byte at which a find has been found is no end of line.              *)
LEMMA HitIsNoBreak ==
  ASSUME TypeOK, Scanning, Hit, Text
  PROVE  File[dwi + 1] # LF /\ File[dwi + 1] # CR
<1>1. n > 0 /\ fi > 0
  BY DEF TypeOK, Scanning
<1>2. File[dwi + 1] \in Byte
  BY <1>1, Mapped DEF TypeOK, Scanning, Size
<1>3. GetChr(sw, File[dwi + 1]) = ThisFind[1]
  BY DEF Hit, FoundAt
<1>4. ~IsBreak(ThisFind[1])
  BY <1>1, Sought
<1>5. ~IsBreak(GetChr(sw, File[dwi + 1]))
  BY <1>3, <1>4
<1> QED
  BY <1>2, <1>5 DEF IsBreak, GetChr, Mask, ToUpper, LF, CR, Byte, Text

LEMMA ChrIsLF ==
  ASSUME TypeOK, Scanning, Text
  PROVE  ScanChr = LF <=> File[dwi + 1] = LF
<1>1. n > 0
  BY DEF TypeOK, Scanning
<1>2. File[dwi + 1] \in Byte
  BY <1>1, Mapped DEF TypeOK, Scanning, Size
<1>3. sw \in Switch
  BY SwitchesAssumption DEF TypeOK
<1> QED
  BY <1>2, <1>3, ReadsLF DEF ScanChr, Text

LEMMA LinesCountedIs ==
  LinesCounted <=> (pc = "scan" /\ Text => CountedAt(File, dwi, dwl, lpoff[0]))
BY DEF LinesCounted, CountedAt

LEMMA NextCounts == TypeOK /\ TypeOK' /\ LinesCounted /\ [Next]_vars => LinesCounted'
<1> SUFFICES ASSUME TypeOK, TypeOK', LinesCounted, [Next]_vars,
                    pc' = "scan", Text'
             PROVE  CountedAt(File, dwi, dwl, lpoff[0])'
  BY DEF LinesCounted, CountedAt
<1>0. sw' = sw /\ files' = files /\ Text
  BY DEF Next, Scan, Regex, vars, inputs, OpenFile, StartScan, StartRegex, RegexFails,
         ResetScan, FoundInText, FoundInBinary, SkipLine, NextByte, ScanFrame,
         RegexLine, RegexLastLine, RegexFrame, EndFind, EndFile, Text
<1>1. CASE StartScan
  <2>1. n > 0 /\ n' = n /\ dwi' = 0 /\ dwl' = 0 /\ lpoff'[0] = 0
    BY <1>1 DEF StartScan, ResetScan, TypeOK, MXLPS
  <2>2. File' = File /\ File \in Seq(Byte)
    BY <1>0, <2>1, Mapped DEF File
  <2> QED
    BY <2>1, <2>2, StartCounted DEF CountedAt, LFsBefore
<1>2. ASSUME Scan
      PROVE  CountedAt(File, dwi, dwl, lpoff[0])'
  <2>1. Scanning /\ n' = n
    BY <1>2 DEF Scan, FoundInText, FoundInBinary, SkipLine, NextByte, ScanFrame
  <2>2. File' = File /\ n > 0
    BY <1>0, <2>1 DEF File, Scanning, TypeOK
  <2>3. CountedAt(File, dwi, dwl, lpoff[0])
    BY <1>0, <2>1, LinesCountedIs DEF Scanning
  <2>4. CountedAt(File, dwi', dwl', lpoff'[0])
    <3>1. CASE FoundInText
      BY <1>0, <2>1, <2>3, <3>1, HitIsNoBreak, GoToEndLineStep DEF FoundInText
    <3>2. CASE FoundInBinary
      BY <1>0, <3>2 DEF FoundInBinary, Text
    <3>3. CASE SkipLine
      <4>1. ScanChr # LF
        BY <3>3 DEF SkipLine, IsBreak
      <4> QED
        BY <1>0, <2>1, <2>3, <3>3, <4>1, ChrIsLF, GoToEndLineStep DEF SkipLine
    <3>4. CASE NextByte
      <4>1. dwi \in dwi..Size /\ dwi < Size /\ \A j \in dwi..(dwi - 1) : File[j + 1] # LF
        <5>1. dwi < Size /\ Size \in Nat /\ dwi \in Nat
          BY <2>1, <2>2, Mapped DEF Scanning, TypeOK
        <5> QED
          BY <5>1
      <4>2. ScanChr = LF <=> (dwi < Size /\ File[dwi + 1] = LF)
        BY <1>0, <2>1, <4>1, ChrIsLF
      <4>3. CountLine(ScanChr, dwi) /\ dwi' = dwi + 1
        BY <3>4 DEF NextByte
      <4> QED
        BY <2>2, <2>3, <4>1, <4>2, <4>3, CountLineStep
    <3> QED
      BY <1>2, <3>1, <3>2, <3>3, <3>4 DEF Scan
  <2> QED
    BY <2>2, <2>4 DEF CountedAt, LFsBefore
<1>3. CASE UNCHANGED vars
  BY <1>0, <1>3, LinesCountedIs DEF vars, inputs, scan, File, CountedAt, LFsBefore
<1>4. ASSUME OpenFile \/ StartRegex \/ RegexFails \/ Regex \/ EndFind \/ EndFile
      PROVE  FALSE
  BY <1>4 DEF OpenFile, StartRegex, RegexFails, Regex, RegexLine, RegexLastLine,
              InRegex, RegexFrame, EndFind, EndFile
<1> QED
  BY <1>1, <1>2, <1>3, <1>4 DEF Next

(* Fa4Find.c:904-949: whatever the text files and the finds, the count of  *)
(* lines with which a plain scan numbers the lines it shows is that of the *)
(* LFs behind it, and the line offset it keeps is that of the last of them.*)
THEOREM LineCountsRight == Spec => []LinesCounted
<1>1. Init => LinesCounted
  BY DEF Init, LinesCounted
<1>2. TypeOK /\ TypeOK' /\ LinesCounted /\ [Next]_vars => LinesCounted'
  BY NextCounts
<1> QED
  BY <1>1, <1>2, TypeCorrect, PTL DEF Spec

-----------------------------------------------------------------------------
(* The line that is shown.                                                 *)

(* What ShownLineHoldsFind says of one call of ShowLine.                   *)
HoldsFind(r) ==
  Text /\ Plain(r.k) /\ NoLoneCR(files[r.n]) =>
    /\ r.off \in ShownText(files[r.n], r.begin)
    /\ r.line = Cardinality(LFsBefore(files[r.n], r.off))

(* The scan line by line is one for a regular expression.                  *)
RegexScansRegex == pc = "regex" => finds[fi].regex

LEMMA NextRegexScans ==
  RegexScansRegex /\ [Next]_vars => RegexScansRegex'
BY DEF RegexScansRegex, Next, Scan, Regex, vars, inputs, OpenFile, StartScan,
       StartRegex, RegexFails, ResetScan, FoundInText, FoundInBinary, SkipLine,
       NextByte, ScanFrame, RegexLine, RegexLastLine, RegexFrame, EndFind, EndFile

LEMMA AppendHolds ==
  ASSUME NEW T, shown \in Seq(T), NEW r, shown' = Append(shown, r), r \in T,
         files' = files, finds' = finds, sw' = sw,
         HoldsFind(r), ShownLineHoldsFind
  PROVE  ShownLineHoldsFind'
<1>1. ASSUME NEW i \in DOMAIN shown'
      PROVE  HoldsFind(shown'[i])
  <2>1. (i \in DOMAIN shown /\ shown'[i] = shown[i]) \/ shown'[i] = r
    BY <1>1
  <2> QED
    BY <2>1 DEF HoldsFind, ShownLineHoldsFind
<1> QED
  BY <1>1 DEF HoldsFind, ShownLineHoldsFind, Text, Plain

LEMMA NextShows ==
  TypeOK /\ LinesCounted /\ RegexScansRegex /\ ShownLineHoldsFind /\ [Next]_vars
    => ShownLineHoldsFind'
<1> SUFFICES ASSUME TypeOK, LinesCounted, RegexScansRegex, ShownLineHoldsFind,
                    [Next]_vars
             PROVE  ShownLineHoldsFind'
  OBVIOUS
<1> DEFINE T == [n : Nat, k : Nat, off : Nat, begin : Nat, line : Nat]
<1>0. files' = files /\ finds' = finds /\ sw' = sw
  BY DEF Next, Scan, Regex, vars, inputs, OpenFile, StartScan, StartRegex, RegexFails,
         ResetScan, FoundInText, FoundInBinary, SkipLine, NextByte, ScanFrame,
         RegexLine, RegexLastLine, RegexFrame, EndFind, EndFile
<1>1. ASSUME shown' = shown
      PROVE  ShownLineHoldsFind'
  BY <1>0, <1>1 DEF ShownLineHoldsFind, Text, Plain
<1>2. ASSUME NEW off \in Nat, NEW offs \in [0..MXLPS -> Nat], NEW line \in Nat,
             Show(off, offs, line), pc \in {"scan", "regex"},
             HoldsFind([n |-> n, k |-> fi, off |-> off, begin |-> offs[0],
                        line |-> line])
      PROVE  ShownLineHoldsFind'
  <2> DEFINE r == [n |-> n, k |-> fi, off |-> off, begin |-> offs[0], line |-> line]
  <2>1. shown \in Seq(T)
    BY DEF TypeOK
  <2>2. r \in T
    <3>1. n \in Nat /\ fi \in Nat
      BY FilesAssumption, FindListsAssumption DEF TypeOK
    <3>2. offs[0] \in Nat
      BY DEF MXLPS
    <3> QED
      BY <3>1, <3>2
  <2>3. shown' = Append(shown, r)
    BY <1>2 DEF Show
  <2> HIDE DEF r, T
  <2>4. HoldsFind(r)
    BY <1>2 DEF r
  <2> QED
    BY <1>0, <2>1, <2>2, <2>3, <2>4, AppendHolds
<1>3. CASE FoundInText
  <2>1. Scanning /\ Hit /\ Show(dwi, lpoff, dwl) /\ n > 0
    BY <1>3 DEF FoundInText, Scanning, TypeOK
  <2>2. dwi \in Nat /\ dwl \in Nat /\ lpoff \in [0..MXLPS -> Nat] /\ lpoff[0] \in Nat
    BY DEF TypeOK, MXLPS
  <2>3. ASSUME Text, NoLoneCR(File)
        PROVE  /\ dwi \in ShownText(File, lpoff[0])
               /\ dwl = Cardinality(LFsBefore(File, dwi))
    <3>1. CountedAt(File, dwi, dwl, lpoff[0])
      BY <2>1, <2>3, LinesCountedIs DEF Scanning
    <3>2. File \in Seq(Byte) /\ dwi \in 0..(Len(File) - 1)
      BY <2>1, <2>2, Mapped DEF Scanning, Size
    <3>3. ~IsBreak(File[dwi + 1])
      BY <2>1, <2>3, HitIsNoBreak DEF IsBreak
    <3> QED
      BY <2>2, <2>3, <3>1, <3>2, <3>3, LineHolds DEF CountedAt
  <2>4. HoldsFind([n |-> n, k |-> fi, off |-> dwi, begin |-> lpoff[0],
                   line |-> dwl])
    BY <2>3 DEF HoldsFind, File
  <2> QED
    BY <1>2, <2>1, <2>2, <2>4 DEF Scanning
<1>4. CASE FoundInBinary
  <2>1. Show(dwi, lpoff, dwl) /\ sw.bin /\ pc = "scan"
    BY <1>4 DEF FoundInBinary, Scanning
  <2>2. dwi \in Nat /\ dwl \in Nat /\ lpoff \in [0..MXLPS -> Nat]
    BY DEF TypeOK
  <2>3. HoldsFind([n |-> n, k |-> fi, off |-> dwi, begin |-> lpoff[0],
                   line |-> dwl])
    BY <2>1 DEF HoldsFind, Text
  <2> QED
    BY <1>2, <2>1, <2>2, <2>3
<1>5. CASE RegexLine
  <2> DEFINE e == EndOfLine(File, dwi)
             offs == IF File[e + 1] = LF THEN IncLine(e, lpoff) ELSE lpoff
             line == IF File[e + 1] = LF THEN dwl + 1 ELSE dwl
  <2>1. InRegex
    BY <1>5 DEF RegexLine
  <2>2. e \in Nat
    <3>1. dwi \in Nat /\ Size \in Nat
      BY <2>1, RegexEnds, Mapped DEF TypeOK
    <3> QED
      BY <2>1, <3>1, RegexEnds
  <2>3. Show(dwi, offs, line) \/ shown' = shown
    BY <1>5 DEF RegexLine
  <2> HIDE DEF e
  <2>4. offs \in [0..MXLPS -> Nat] /\ line \in Nat /\ dwi \in Nat
    <3>1. lpoff \in [0..MXLPS -> Nat] /\ dwl \in Nat /\ dwi \in Nat
      BY DEF TypeOK
    <3>2. IncLine(e, lpoff) \in [0..MXLPS -> Nat]
      BY <2>2, <3>1, IncLineType
    <3> QED
      BY <3>1, <3>2
  <2> HIDE DEF offs, line
  <2>5. HoldsFind([n |-> n, k |-> fi, off |-> dwi, begin |-> offs[0],
                   line |-> line])
    BY <2>1 DEF HoldsFind, Plain, RegexScansRegex, InRegex
  <2> QED
    BY <1>1, <1>2, <2>1, <2>3, <2>4, <2>5 DEF InRegex
<1>6. ASSUME \/ OpenFile \/ StartScan \/ StartRegex \/ RegexFails \/ SkipLine
             \/ NextByte \/ RegexLastLine \/ EndFind \/ EndFile \/ UNCHANGED vars
      PROVE  shown' = shown
  BY <1>6 DEF OpenFile, StartScan, StartRegex, RegexFails, ResetScan, SkipLine,
              NextByte, RegexLastLine, EndFind, EndFile, vars, counts
<1> QED
  BY <1>1, <1>3, <1>4, <1>5, <1>6 DEF Next, Scan, Regex

(* Fa4Find.c:924, Fa4Show.c:448: whatever the text files without lone CRs  *)
(* and the finds, the line shown for a plain find holds that find, and the *)
(* number shown with it is its own.                                        *)
THEOREM ShownLinesRight == Spec => []ShownLineHoldsFind
<1>1. Init => ShownLineHoldsFind /\ RegexScansRegex
  BY DEF Init, ShownLineHoldsFind, RegexScansRegex
<1>2. TypeOK /\ LinesCounted /\ RegexScansRegex /\ ShownLineHoldsFind /\ [Next]_vars
        => ShownLineHoldsFind' /\ RegexScansRegex'
  BY NextShows, NextRegexScans
<1> QED
  BY <1>1, <1>2, TypeCorrect, LineCountsRight, PTL DEF Spec
-----------------------------------------------------------------------------
(* The flags of the finds.                                                 *)

(* A scan of the file f for the find of text t finds it at offset o.       *)
Stands(s, f, t, o) == FoundAt(s, f, o, Len(f), Move2Find(s, t))

(* With the flags flg, that of find k, of text t, is right as far as the   *)
(* offsets of f below hi go.                                               *)
FlagRight(flg, k, s, f, t, hi) ==
  /\ k \in flg => \E o \in 0..(Len(f) - 1) : Stands(s, f, t, o)
  /\ k \notin flg => \A o \in 0..(Len(f) - 1) : o < hi => ~Stands(s, f, t, o)

InFile == pc \in {"next", "scan", "regex"}

(* The flags are those of the finds of this file that have been scanned    *)
(* for, and that of the scan under way is set once the find is met.        *)
FlagsRight ==
  InFile =>
    /\ g_dwFndFlg \in SUBSET (1..fi)
    /\ ~sw.begin =>
         \A k \in DOMAIN finds : Plain(k) =>
           /\ k < fi \/ (k = fi /\ pc = "next")
                => FlagRight(g_dwFndFlg, k, sw, File, finds[k].text, Len(File))
           /\ k = fi /\ pc = "scan"
                => FlagRight(g_dwFndFlg, k, sw, File, finds[k].text, dwi)

(* A find whose flag a step leaves alone.                                  *)
LEMMA FlagStays ==
  ASSUME NEW k, NEW flg, NEW new, k \in new <=> k \in flg,
         NEW s, NEW f, NEW t, NEW hi, FlagRight(flg, k, s, f, t, hi)
  PROVE  FlagRight(new, k, s, f, t, hi)
BY DEF FlagRight

(* A find that the scan meets at o.                                        *)
LEMMA FlagMet ==
  ASSUME NEW k, NEW flg, k \in flg, NEW s, NEW f, NEW t, NEW hi,
         NEW o \in 0..(Len(f) - 1), Stands(s, f, t, o)
  PROVE  FlagRight(flg, k, s, f, t, hi)
BY DEF FlagRight

(* A find that the scan does not meet at hi.                               *)
LEMMA FlagNotMet ==
  ASSUME NEW k, NEW flg, NEW s, NEW f, NEW t, NEW hi \in Nat, ~Stands(s, f, t, hi),
         FlagRight(flg, k, s, f, t, hi)
  PROVE  FlagRight(flg, k, s, f, t, hi + 1)
<1>1. ASSUME NEW o \in 0..(Len(f) - 1), o < hi + 1, k \notin flg
      PROVE  ~Stands(s, f, t, o)
  <2>1. o < hi \/ o = hi
    BY <1>1
  <2> QED
    BY <1>1, <2>1 DEF FlagRight
<1> QED
  BY <1>1 DEF FlagRight

(* A flag that is set is that of a find up to the one searched for.        *)
LEMMA FlagsGrow ==
  ASSUME NEW i \in Nat, i > 0, NEW flg \in SUBSET (1..i), NEW new,
         new = flg \/ new = flg \cup {i}
  PROVE  new \in SUBSET (1..i)
<1>1. i \in 1..i
  OBVIOUS
<1>2. \A k \in new : k \in 1..i
  BY <1>1
<1> QED
  BY <1>2

LEMMA NextFlags ==
  TypeOK /\ RegexScansRegex /\ FlagsRight /\ [Next]_vars => FlagsRight'
<1> SUFFICES ASSUME TypeOK, RegexScansRegex, FlagsRight, [Next]_vars, InFile'
             PROVE  /\ (g_dwFndFlg \in SUBSET (1..fi))'
                    /\ \A k \in DOMAIN finds' : ~sw'.begin /\ Plain(k)' =>
                              /\ k < fi' \/ (k = fi' /\ pc' = "next")
                                   => FlagRight(g_dwFndFlg', k, sw', File',
                                                finds'[k].text, Len(File'))
                              /\ k = fi' /\ pc' = "scan"
                                   => FlagRight(g_dwFndFlg', k, sw', File',
                                                finds'[k].text, dwi')
  BY DEF FlagsRight
<1> USE DEF inputs, scan, counts
<1>0. /\ files' = files /\ finds' = finds /\ sw' = sw
      /\ fi \in Nat /\ dwi \in Nat /\ Len(finds) \in Nat
  <2>1. files' = files /\ finds' = finds /\ sw' = sw
    BY DEF Next, Scan, Regex, vars, OpenFile, StartScan, StartRegex, RegexFails,
           ResetScan, FoundInText, FoundInBinary, SkipLine, NextByte, ScanFrame,
           RegexLine, RegexLastLine, RegexFrame, EndFind, EndFile
  <2>2. finds \in Seq(Find)
    BY FindListsAssumption DEF TypeOK
  <2> QED
    BY <2>1, <2>2 DEF TypeOK
<1>1. CASE OpenFile
  BY <1>0, <1>1 DEF OpenFile
<1>2. CASE (StartScan \/ StartRegex) /\ InFile
  <2>1. /\ fi' = fi + 1 /\ n' = n /\ g_dwFndFlg' = g_dwFndFlg
        /\ pc = "next" /\ pc' # "next" /\ dwi' = 0
    BY <1>2 DEF StartScan, StartRegex, ResetScan
  <2>2. File' = File
    BY <1>0, <2>1 DEF File
  <2>3. g_dwFndFlg \in SUBSET (1..fi)
    BY <1>2 DEF FlagsRight
  <2>4. ASSUME ~sw'.begin, NEW k \in DOMAIN finds', Plain(k)', k < fi'
        PROVE  FlagRight(g_dwFndFlg', k, sw', File', finds'[k].text, Len(File'))
    <3>1. k < fi \/ k = fi
      <4>1. finds \in Seq(Find)
        BY FindListsAssumption DEF TypeOK
      <4> QED
        BY <1>0, <2>1, <2>4, <4>1
    <3> QED
      BY <1>0, <1>2, <2>1, <2>2, <2>4, <3>1 DEF FlagsRight, Plain
  <2>5. ASSUME NEW k, k = fi'
        PROVE  FlagRight(g_dwFndFlg', k, sw', File', finds'[k].text, dwi')
    <3>1. k \notin g_dwFndFlg'
      BY <1>0, <2>1, <2>3, <2>5
    <3>2. \A o \in 0..(Len(File') - 1) : ~(o < dwi')
      BY <2>1
    <3> QED
      BY <3>1, <3>2 DEF FlagRight
  <2>6. g_dwFndFlg' \in SUBSET (1..fi')
    BY <1>0, <2>1, <2>3
  <2> QED
    BY <2>1, <2>4, <2>5, <2>6
<1>3. ASSUME Scanning, n' = n, fi' = fi, pc' = pc,
             g_dwFndFlg' = g_dwFndFlg \/ g_dwFndFlg' = g_dwFndFlg \cup {fi},
             ~sw.begin /\ Plain(fi)
               => FlagRight(g_dwFndFlg', fi, sw, File, finds[fi].text, dwi')
      PROVE  /\ (g_dwFndFlg \in SUBSET (1..fi))'
             /\ \A k \in DOMAIN finds' : ~sw'.begin /\ Plain(k)' =>
                       /\ k < fi' \/ (k = fi' /\ pc' = "next")
                            => FlagRight(g_dwFndFlg', k, sw', File',
                                         finds'[k].text, Len(File'))
                       /\ k = fi' /\ pc' = "scan"
                            => FlagRight(g_dwFndFlg', k, sw', File',
                                         finds'[k].text, dwi')
  <2>1. File' = File
    BY <1>0, <1>3 DEF File
  <2>2. fi > 0 /\ g_dwFndFlg \in SUBSET (1..fi) /\ pc = "scan"
    BY <1>3 DEF FlagsRight, Scanning, InFile, TypeOK
  <2>3. (g_dwFndFlg \in SUBSET (1..fi))'
    <3>1. g_dwFndFlg' \in SUBSET (1..fi)
      BY <1>0, <1>3, <2>2, FlagsGrow
    <3> QED
      BY <1>3, <3>1
  <2>4. ASSUME ~sw'.begin, NEW k \in DOMAIN finds', Plain(k)'
        PROVE  /\ k < fi' \/ (k = fi' /\ pc' = "next")
                    => FlagRight(g_dwFndFlg', k, sw', File', finds'[k].text, Len(File'))
               /\ k = fi' /\ pc' = "scan"
                    => FlagRight(g_dwFndFlg', k, sw', File', finds'[k].text, dwi')
    <3>1. ASSUME k < fi
          PROVE  FlagRight(g_dwFndFlg', k, sw', File', finds'[k].text, Len(File'))
      <4>1. k \in g_dwFndFlg' <=> k \in g_dwFndFlg
        BY <1>0, <1>3, <3>1
      <4>2. FlagRight(g_dwFndFlg, k, sw, File, finds[k].text, Len(File))
        BY <1>0, <2>2, <2>4, <3>1 DEF FlagsRight, InFile, Plain
      <4> QED
        BY <1>0, <2>1, <4>1, <4>2, FlagStays
    <3> QED
      BY <1>0, <1>3, <2>1, <2>2, <2>4, <3>1 DEF Plain
  <2> QED
    BY <2>3, <2>4
<1>4. CASE FoundInText \/ FoundInBinary
  <2>1. /\ Scanning /\ Hit /\ n' = n /\ fi' = fi /\ pc' = pc /\ n > 0
        /\ g_dwFndFlg' = g_dwFndFlg \cup {fi}
    BY <1>4 DEF FoundInText, FoundInBinary, Show, ScanFrame, Scanning, TypeOK
  <2>2. dwi \in 0..(Len(File) - 1)
    BY <1>0, <2>1, Mapped DEF Scanning, Size
  <2>3. Stands(sw, File, finds[fi].text, dwi)
    BY <2>1 DEF Hit, Stands, ThisFind, Size
  <2>4. FlagRight(g_dwFndFlg', fi, sw, File, finds[fi].text, dwi')
    BY <2>1, <2>2, <2>3, FlagMet
  <2> QED
    BY <1>3, <2>1, <2>4
<1>5. CASE SkipLine \/ NextByte
  <2>1. /\ Scanning /\ ~Hit /\ n' = n /\ fi' = fi /\ pc' = pc
        /\ g_dwFndFlg' = g_dwFndFlg
        /\ ~sw.begin => dwi' = dwi + 1
    BY <1>5 DEF SkipLine, NextByte, ScanFrame
  <2>2. ASSUME ~sw.begin, Plain(fi)
        PROVE  FlagRight(g_dwFndFlg', fi, sw, File, finds[fi].text, dwi')
    <3>1. ~Stands(sw, File, finds[fi].text, dwi)
      BY <2>1 DEF Hit, Stands, ThisFind, Size
    <3>2. pc = "scan" /\ fi \in DOMAIN finds
      BY <1>0, <2>1 DEF Scanning, TypeOK
    <3> QED
      BY <1>0, <2>1, <2>2, <3>1, <3>2, FlagNotMet DEF FlagsRight, InFile
  <2> QED
    BY <1>3, <2>1, <2>2
<1>6. CASE Regex
  <2>1. /\ InRegex /\ n' = n /\ fi' = fi /\ pc' = pc
        /\ g_dwFndFlg' = g_dwFndFlg \/ g_dwFndFlg' = g_dwFndFlg \cup {fi}
    BY <1>6 DEF Regex, RegexLine, RegexLastLine, RegexFrame, Show
  <2>2. /\ File' = File /\ fi > 0 /\ pc = "regex" /\ finds[fi].regex
        /\ g_dwFndFlg \in SUBSET (1..fi)
    BY <1>0, <2>1 DEF File, InRegex, InFile, FlagsRight, RegexScansRegex, TypeOK
  <2>3. (g_dwFndFlg \in SUBSET (1..fi))'
    <3>1. g_dwFndFlg' \in SUBSET (1..fi)
      BY <1>0, <2>1, <2>2, FlagsGrow
    <3> QED
      BY <2>1, <3>1
  <2>4. ASSUME ~sw'.begin, NEW k \in DOMAIN finds', Plain(k)', k < fi'
        PROVE  FlagRight(g_dwFndFlg', k, sw', File', finds'[k].text, Len(File'))
    <3>1. k \in g_dwFndFlg' <=> k \in g_dwFndFlg
      BY <1>0, <2>1, <2>4
    <3>2. FlagRight(g_dwFndFlg, k, sw, File, finds[k].text, Len(File))
      BY <1>0, <2>1, <2>2, <2>4 DEF FlagsRight, InFile, Plain
    <3> QED
      BY <1>0, <2>2, <3>1, <3>2, FlagStays
  <2> QED
    BY <1>0, <2>1, <2>2, <2>3, <2>4 DEF Plain
<1>7. CASE EndFind
  <2>1. /\ pc \in {"scan", "regex"} /\ dwi >= Size /\ n > 0 /\ Size \in Nat
        /\ n' = n /\ fi' = fi /\ pc' = "next" /\ g_dwFndFlg' = g_dwFndFlg
    <3>1. n > 0
      BY <1>7 DEF EndFind, TypeOK
    <3> QED
      BY <1>7, <3>1, Mapped DEF EndFind
  <2>2. File' = File /\ g_dwFndFlg \in SUBSET (1..fi)
    BY <1>0, <2>1 DEF File, InFile, FlagsRight
  <2>3. ASSUME ~sw'.begin, NEW k \in DOMAIN finds', Plain(k)', k = fi
        PROVE  FlagRight(g_dwFndFlg', k, sw', File', finds'[k].text, Len(File'))
    <3>1. pc = "scan"
      BY <1>0, <2>1, <2>3 DEF RegexScansRegex, Plain
    <3>2. FlagRight(g_dwFndFlg, k, sw, File, finds[k].text, dwi)
      BY <1>0, <2>3, <3>1 DEF FlagsRight, InFile, Plain
    <3>3. FlagRight(g_dwFndFlg, k, sw, File, finds[k].text, Len(File))
      <4>1. \A o \in 0..(Len(File) - 1) : o < dwi
        BY <1>0, <2>1 DEF Size
      <4> QED
        BY <3>2, <4>1 DEF FlagRight
    <3> QED
      BY <1>0, <2>1, <2>2, <3>3
  <2>4. ASSUME ~sw'.begin, NEW k \in DOMAIN finds', Plain(k)', k < fi
        PROVE  FlagRight(g_dwFndFlg', k, sw', File', finds'[k].text, Len(File'))
    BY <1>0, <2>1, <2>2, <2>4 DEF FlagsRight, InFile, Plain
  <2> QED
    BY <2>1, <2>2, <2>3, <2>4
<1>8. CASE UNCHANGED vars
  BY <1>8 DEF vars, FlagsRight, InFile, File, Plain
<1>9. ASSUME RegexFails \/ EndFile
      PROVE  FALSE
  BY <1>9 DEF RegexFails, EndFile, InFile
<1>10. InFile \/ OpenFile \/ UNCHANGED vars
  BY DEF InFile, Next, Scan, Regex, StartScan, StartRegex, RegexFails,
         FoundInText, FoundInBinary, SkipLine, NextByte, Scanning, InRegex,
         RegexLine, RegexLastLine, EndFind, EndFile
<1> QED
  BY <1>1, <1>2, <1>4, <1>5, <1>6, <1>7, <1>8, <1>9, <1>10 DEF Next, Scan

(* Fa4Find.c:750-923, 1026-1042: in every file, text or binary, and for    *)
(* every list of finds, the flags by which -F:1 decides whether it is      *)
(* shown are those of the plain finds that stand in it, though a text      *)
(* find is looked for from the line after the last one on.                 *)
THEOREM FlagsRightFinds == Spec => []FlagsTellFinds
<1>1. Init => FlagsRight /\ RegexScansRegex
  BY DEF Init, FlagsRight, RegexScansRegex, InFile
<1>2. TypeOK /\ RegexScansRegex /\ FlagsRight /\ [Next]_vars
        => FlagsRight' /\ RegexScansRegex'
  BY NextFlags, NextRegexScans
<1>3. TypeOK /\ FlagsRight => FlagsTellFinds
  <2> SUFFICES ASSUME TypeOK, FlagsRight, pc = "next", fi = Len(finds), ~sw.begin,
                      NEW k \in DOMAIN finds, Plain(k)
               PROVE  k \in g_dwFndFlg
                        <=> \E o \in 0..(Size - 1) :
                              FoundAt(sw, File, o, Size, Move2Find(sw, finds[k].text))
    BY DEF FlagsTellFinds
  <2>1. k < fi \/ k = fi
    <3>1. finds \in Seq(Find)
      BY FindListsAssumption DEF TypeOK
    <3> QED
      BY <3>1
  <2>2. FlagRight(g_dwFndFlg, k, sw, File, finds[k].text, Len(File))
    BY <2>1 DEF FlagsRight, InFile
  <2>3. n > 0
    BY DEF TypeOK
  <2>4. \A o \in 0..(Len(File) - 1) : o < Len(File)
    BY <2>3, Mapped DEF Size
  <2> QED
    BY <2>2, <2>4 DEF FlagRight, Stands, Size
<1> QED
  BY <1>1, <1>2, <1>3, TypeCorrect, PTL DEF Spec

-----------------------------------------------------------------------------
(* The refinement of FindReport.                                           *)

(* An end of line stands between the offset o and the scan at d.           *)
Passed(f, o, d) == o < d /\ (d >= Len(f) \/ \E j \in o..(d - 1) : IsBreak(f[j + 1]))

(* A find told of is one that the search has gone past: its scan has ended,*)
(* or has gone on to a later line.                                         *)
ToldPassed(r) ==
  /\ r.n \in DOMAIN files /\ r.k \in DOMAIN finds
  /\ r.off \in 0..(Len(files[r.n]) - 1)
  /\ \/ Scanned(r.n, r.k)
     \/ r.n = n /\ r.k = fi /\ pc = "scan" /\ Passed(File, r.off, dwi)

ToldBehind == \A i \in Told : ToldPassed(shown[i])

(* What the search has gone past has been told of.                         *)
BehindTold ==
  \A m \in DOMAIN files : \A k \in DOMAIN finds :
    Text /\ Plain(k) =>
      \A o \in 0..(Len(files[m]) - 1) :
        StandsAt(m, k, o)
          /\ (Scanned(m, k) \/ (m = n /\ k = fi /\ pc = "scan" /\ o < dwi))
          => <<m, k, SegStart(files[m], o)>> \in Places

(* Under -B the scan of a text stands at a line's start.                   *)
AtStart ==
  pc = "scan" /\ Text /\ sw.begin /\ dwi < Size => dwi = 0 \/ IsBreak(File[dwi])

(* No find stands at an end of line.                                       *)
LEMMA FoundNoBreak ==
  ASSUME TypeOK, NEW m \in DOMAIN files, NEW k \in DOMAIN finds, NEW o,
         StandsAt(m, k, o)
  PROVE  ~IsBreak(files[m][o + 1])
<1> DEFINE t == Move2Find(sw, finds[k].text)
<1>1. GetChr(sw, files[m][o + 1]) = t[1]
  BY DEF StandsAt, FoundAt
<1>2. ~IsBreak(t[1])
  <2>1. finds[k] \in Find
    BY FindListsAssumption DEF TypeOK
  <2>2. finds[k].text \in Seq(Byte \ {0, LF, CR}) \ {<<>>}
    BY <2>1 DEF Find
  <2> QED
    BY <2>2, Folded
<1> HIDE DEF t
<1> QED
  BY <1>1, <1>2, ReadsBreak

(* GO_TO_END_LINE, and the step after it, go past the rest of the line.    *)
LEMMA GoesToEnd ==
  ASSUME TypeOK, Scanning, GoToEndLine
  PROVE  /\ dwi \in Nat /\ dwi' \in Nat /\ dwi < dwi'
         /\ ~IsBreak(File[dwi + 1]) =>
              \A o \in Nat :
                dwi <= o /\ o < dwi' /\ o < Len(File) /\ ~IsBreak(File[o + 1])
                  => /\ SegStart(File, o) = SegStart(File, dwi)
                     /\ o # dwi => o # 0 /\ ~IsBreak(File[o])
         /\ dwi' < Len(File) => IsBreak(File[dwi'])
         /\ Passed(File, dwi, dwi')
<1> DEFINE e == EndOfLine(File, dwi + 1)
<1>1. n > 0
  BY DEF TypeOK, Scanning
<1>2. /\ File \in Seq(Byte) /\ Len(File) \in Nat /\ dwi \in Nat
      /\ dwi < Len(File) /\ dwi + 1 \in 0..Len(File)
  BY <1>1, Mapped DEF TypeOK, Scanning, Size
<1>3. /\ e \in (dwi + 1)..Len(File)
      /\ e = Len(File) \/ IsBreak(File[e + 1])
  BY <1>2, EndOfLineIs
<1>4. dwi' = e + 1
  BY DEF GoToEndLine
<1>7. ASSUME ~IsBreak(File[dwi + 1]), NEW o \in Nat, dwi <= o, o < dwi',
             o < Len(File), ~IsBreak(File[o + 1])
      PROVE  /\ SegStart(File, o) = SegStart(File, dwi)
             /\ o # dwi => o # 0 /\ ~IsBreak(File[o])
  <2>1. o <= e
    BY <1>3, <1>4, <1>7
  <2> QED
    BY <1>2, <1>7, <2>1, RestOfLine
<1> HIDE DEF e
<1>5. Passed(File, dwi, dwi')
  <2>1. dwi < dwi' /\ e \in dwi..(dwi' - 1)
    BY <1>2, <1>3, <1>4
  <2>2. dwi' >= Len(File) \/ IsBreak(File[e + 1])
    BY <1>2, <1>3, <1>4
  <2> QED
    BY <2>1, <2>2 DEF Passed
<1>6. dwi' < Len(File) => IsBreak(File[dwi'])
  BY <1>2, <1>3, <1>4
<1> QED
  BY <1>2, <1>3, <1>4, <1>5, <1>6, <1>7

(* A scan of a text goes from dwi past the line there, or past the byte    *)
(* there, and leaves no stretch behind in which the find stands and of     *)
(* which it has not told.                                                  *)
LEMMA ScanGoes ==
  ASSUME TypeOK, AtStart, Text, Scan
  PROVE  /\ n > 0 /\ fi \in DOMAIN finds /\ dwi < Len(File) /\ dwi \in Nat
         /\ File \in Seq(Byte) /\ n \in DOMAIN files
         /\ UNCHANGED <<files, finds, sw, n, fi, pc>>
         /\ dwi' \in Nat /\ dwi < dwi'
         /\ AtStart'
         /\ FoundInText => Passed(File, dwi, dwi')
         /\ \A o \in Nat :
              dwi <= o /\ o < dwi' /\ o < Len(File) /\ StandsAt(n, fi, o) =>
              FoundInText /\ SegStart(File, o) = SegStart(File, dwi)
<1>1. Scanning /\ UNCHANGED <<files, finds, sw, n, fi, pc>>
  BY DEF Scan, FoundInText, FoundInBinary, SkipLine, NextByte, ScanFrame, inputs
<1>2. n > 0 /\ fi > 0 /\ pc = "scan"
  BY <1>1 DEF Scanning, TypeOK
<1>3. /\ File \in Seq(Byte) /\ n \in DOMAIN files /\ dwi < Len(File)
      /\ dwi \in Nat /\ Len(File) \in Nat /\ Size = Len(File)
  BY <1>1, <1>2, Mapped DEF Scanning, Size, TypeOK
<1>4. fi \in DOMAIN finds
  <2>1. finds \in Seq(Find)
    BY FindListsAssumption DEF TypeOK
  <2> QED
    BY <1>2, <2>1 DEF TypeOK
<1>5. ASSUME NEW o \in Nat, o < Len(File), StandsAt(n, fi, o)
      PROVE  ~IsBreak(File[o + 1])
  BY <1>3, <1>4, <1>5, FoundNoBreak DEF File
<1>6. File' = File /\ Text'
  BY <1>1 DEF File, Text
<1>7. CASE FoundInText
  <2>1. GoToEndLine /\ Hit
    BY <1>7 DEF FoundInText
  <2>2. ~IsBreak(File[dwi + 1])
    BY <1>1, <2>1, HitIsNoBreak DEF IsBreak
  <2>3. /\ dwi' \in Nat /\ dwi < dwi'
        /\ \A o \in Nat :
             dwi <= o /\ o < dwi' /\ o < Len(File) /\ ~IsBreak(File[o + 1])
               => SegStart(File, o) = SegStart(File, dwi)
        /\ dwi' < Len(File) => IsBreak(File[dwi'])
        /\ Passed(File, dwi, dwi')
    BY <1>1, <2>1, <2>2, GoesToEnd
  <2>4. AtStart'
    BY <1>6, <2>3 DEF AtStart, Size
  <2> QED
    BY <1>1, <1>2, <1>3, <1>4, <1>5, <1>7, <2>3, <2>4
<1>8. CASE SkipLine
  <2>1. GoToEndLine /\ ~Hit /\ sw.begin /\ ~IsBreak(ScanChr)
    BY <1>8 DEF SkipLine
  <2>2. ~IsBreak(File[dwi + 1])
    BY <2>1, ReadsBreak DEF ScanChr
  <2>3. /\ dwi' \in Nat /\ dwi < dwi'
        /\ \A o \in Nat :
             dwi <= o /\ o < dwi' /\ o < Len(File) /\ ~IsBreak(File[o + 1])
               => (o # dwi => o # 0 /\ ~IsBreak(File[o]))
        /\ dwi' < Len(File) => IsBreak(File[dwi'])
    BY <1>1, <2>1, <2>2, GoesToEnd
  <2>4. ASSUME NEW o \in Nat, dwi <= o, o < dwi', o < Len(File), StandsAt(n, fi, o)
        PROVE  FALSE
    <3>1. o # dwi
      BY <2>1, <2>4 DEF StandsAt, Hit, ThisFind, File, Size
    <3>2. o # 0 /\ ~IsBreak(File[o])
      BY <1>5, <2>3, <2>4, <3>1
    <3>3. SegStart(File, o) = o
      BY <2>1, <2>4 DEF StandsAt, File
    <3> QED
      BY <1>3, <2>4, <3>2, <3>3, SegStartIs
  <2>5. AtStart'
    BY <1>6, <2>3 DEF AtStart, Size
  <2> QED
    BY <1>1, <1>2, <1>3, <1>4, <1>8, <2>3, <2>4, <2>5 DEF SkipLine, FoundInText
<1>9. CASE NextByte
  <2>1. dwi' = dwi + 1 /\ ~Hit
    BY <1>9 DEF NextByte
  <2>2. ASSUME NEW o \in Nat, dwi <= o, o < dwi', o < Len(File), StandsAt(n, fi, o)
        PROVE  FALSE
    <3>1. o = dwi
      BY <1>3, <2>1, <2>2
    <3> QED
      BY <2>1, <2>2, <3>1 DEF StandsAt, Hit, ThisFind, File, Size
  <2>3. AtStart'
    <3>1. sw.begin => IsBreak(ScanChr)
      BY <1>9 DEF NextByte, Text
    <3>2. IsBreak(ScanChr) => IsBreak(File[dwi + 1])
      <4>1. ~sw.parity /\ File[dwi + 1] \in Byte
        BY <1>3 DEF Text
      <4> QED
        BY <4>1 DEF ScanChr, IsBreak, GetChr, Mask, ToUpper, Byte, LF, CR
    <3> QED
      BY <1>1, <1>6, <2>1, <3>1, <3>2 DEF AtStart
  <2>4. ~FoundInText
    BY <2>1 DEF FoundInText
  <2> QED
    BY <1>1, <1>2, <1>3, <1>4, <2>1, <2>2, <2>3, <2>4
<1> QED
  BY <1>7, <1>8, <1>9 DEF Scan, FoundInBinary, Text

(* Between two files all the finds of the one before have been scanned.    *)
AtEnd == pc = "open" /\ n > 0 => fi = Len(finds)

LEMMA NextAtEnd == TypeOK /\ AtEnd /\ [Next]_vars => AtEnd'
BY DEF AtEnd, Next, Scan, Regex, vars, inputs, OpenFile, StartScan,
       StartRegex, RegexFails, ResetScan, FoundInText, FoundInBinary, SkipLine,
       NextByte, Scanning, InRegex, ScanFrame, RegexLine, RegexLastLine,
       RegexFrame, EndFind, EndFile

(* Where a step other than one of a scan takes the search.                 *)
LEMMA Moves ==
  ASSUME TypeOK, AtEnd, [Next]_vars
  PROVE  \/ /\ pc = "open" /\ pc' = "next" /\ n' = n + 1 /\ fi' = 0
            /\ n > 0 => fi = Len(finds)
         \/ pc = "next" /\ pc' \in {"scan", "regex"} /\ n' = n /\ fi' = fi + 1 /\ dwi' = 0
         \/ /\ pc \in {"scan", "regex"} /\ pc' = "next" /\ n' = n /\ fi' = fi
            /\ dwi >= Size
         \/ pc = "next" /\ pc' \in {"open", "done", "exit"} /\ n' = n /\ fi' = fi
         \/ pc = "regex" /\ pc' = pc /\ n' = n /\ fi' = fi
         \/ Scan /\ pc = "scan" /\ pc' = pc /\ n' = n /\ fi' = fi
         \/ UNCHANGED vars
BY DEF AtEnd, Next, Scan, Regex, OpenFile, StartScan, StartRegex, RegexFails, ResetScan,
       FoundInText, FoundInBinary, SkipLine, NextByte, Scanning, InRegex, ScanFrame,
       RegexLine, RegexLastLine, RegexFrame, EndFind, EndFile

(* What has been scanned stays so.                                         *)
LEMMA ScannedStays ==
  ASSUME TypeOK, AtEnd, [Next]_vars, NEW m \in Nat, NEW k \in Nat, Scanned(m, k)
  PROVE  Scanned(m, k)'
<1>1. n \in Nat /\ fi \in Nat
  BY FilesAssumption, FindListsAssumption DEF TypeOK
<1> QED
  BY <1>1, Moves DEF Scanned, vars

(* A plain find is scanned for, in the file, up to the file's end.         *)
LEMMA ScannedNew ==
  ASSUME TypeOK, AtEnd, RegexScansRegex, [Next]_vars,
         NEW m \in DOMAIN files, NEW k \in DOMAIN finds, Plain(k), Scanned(m, k)'
  PROVE  \/ Scanned(m, k)
         \/ m = n /\ k = fi /\ pc = "scan" /\ dwi >= Size
<1>1. /\ n \in Nat /\ fi \in Nat /\ m \in Nat /\ k \in Nat /\ k <= Len(finds) /\ m > 0
      /\ Len(finds) \in Nat
  <2>1. finds \in Seq(Find) /\ files \in Seq(Seq(Byte) \ {<<>>})
    BY FilesAssumption, FindListsAssumption DEF TypeOK
  <2>2. DOMAIN finds = 1..Len(finds) /\ DOMAIN files = 1..Len(files)
        /\ Len(finds) \in Nat /\ Len(files) \in Nat
    BY <2>1
  <2>3. n \in Nat /\ fi \in Nat
    BY <2>2 DEF TypeOK
  <2> QED
    BY <2>2, <2>3
<1>2. pc = "regex" => k # fi
  BY DEF RegexScansRegex, Plain
<1> QED
  BY <1>1, <1>2, Moves DEF Scanned, vars, Scan, Scanning, FoundInText, FoundInBinary,
                           SkipLine, NextByte

-----------------------------------------------------------------------------
(* What a step adds to what has been told.                                 *)

(* A step that tells of nothing that counts.                               *)
Quiet == Told' = Told /\ \A i \in Told : shown'[i] = shown[i]

LEMMA ToldWhen ==
  ASSUME TypeOK, [Next]_vars, RegexScansRegex
  PROVE  /\ ~(FoundInText /\ Text /\ Plain(fi)) => Quiet
         /\ FoundInText /\ Text /\ Plain(fi) =>
              /\ Told' = Told \cup {Len(shown) + 1}
              /\ Len(shown) \in Nat /\ \A i \in Told : i <= Len(shown) /\ i \in Nat
              /\ \A i \in Told : shown'[i] = shown[i]
              /\ shown'[Len(shown) + 1]
                   = [n |-> n, k |-> fi, off |-> dwi, begin |-> lpoff[0], line |-> dwl]
<1> DEFINE T == [n : Nat, k : Nat, off : Nat, begin : Nat, line : Nat]
           Tells(r) == Text /\ Plain(r.k)
<1>0. shown \in Seq(T) /\ files' = files /\ finds' = finds /\ sw' = sw
  BY DEF TypeOK, Next, Scan, Regex, vars, inputs, OpenFile, StartScan, StartRegex,
         RegexFails, ResetScan, FoundInText, FoundInBinary, SkipLine, NextByte,
         ScanFrame, RegexLine, RegexLastLine, RegexFrame, EndFind, EndFile
<1>1. Len(shown) \in Nat /\ DOMAIN shown = 1..Len(shown) /\ Told \subseteq DOMAIN shown
  BY <1>0 DEF Told
<1>2. ASSUME shown' = shown
      PROVE  Quiet
  BY <1>0, <1>2 DEF Quiet, Told, Text, Plain
<1>9. /\ Told = {i \in DOMAIN shown : Tells(shown[i])}
      /\ Told' = {i \in DOMAIN shown' : Tells(shown'[i])}
  BY <1>0 DEF Told, Text, Plain
<1>3. ASSUME NEW r, shown' = Append(shown, r)
      PROVE  /\ \A i \in DOMAIN shown : shown'[i] = shown[i]
             /\ shown'[Len(shown) + 1] = r
             /\ DOMAIN shown' = DOMAIN shown \cup {Len(shown) + 1}
             /\ Len(shown) + 1 \notin DOMAIN shown
  BY <1>0, <1>1, <1>3
<1>4. ASSUME NEW r, shown' = Append(shown, r), ~(Text /\ Plain(r.k))
      PROVE  Quiet
  <2>0. ~Tells(r)
    BY <1>4
  <2> HIDE DEF Tells
  <2>1. Told' = Told
    BY <1>3, <1>4, <1>9, <2>0
  <2> QED
    BY <1>1, <1>3, <1>4, <2>1 DEF Quiet
<1>5. ASSUME NEW r, shown' = Append(shown, r), Text, Plain(r.k)
      PROVE  /\ Told' = Told \cup {Len(shown) + 1}
             /\ \A i \in Told : shown'[i] = shown[i]
             /\ shown'[Len(shown) + 1] = r
  <2>0. Tells(r)
    BY <1>5
  <2> HIDE DEF Tells
  <2>1. Told' = Told \cup {Len(shown) + 1}
    BY <1>3, <1>5, <1>9, <2>0
  <2> QED
    BY <1>1, <1>3, <1>5, <2>1
<1>6. CASE FoundInText
  <2> DEFINE r == [n |-> n, k |-> fi, off |-> dwi, begin |-> lpoff[0], line |-> dwl]
  <2>1. shown' = Append(shown, r) /\ r.k = fi
    BY <1>6 DEF FoundInText, Show
  <2> HIDE DEF r
  <2>2. CASE Text /\ Plain(fi)
    <3>1. /\ Told' = Told \cup {Len(shown) + 1}
          /\ \A i \in Told : shown'[i] = shown[i]
          /\ shown'[Len(shown) + 1] = r
      BY <1>5, <2>1, <2>2
    <3> QED
      BY <1>1, <1>6, <2>2, <3>1 DEF r
  <2>3. CASE ~(Text /\ Plain(fi))
    BY <1>4, <2>1, <2>3
  <2> QED
    BY <2>2, <2>3
<1>7. CASE FoundInBinary
  <2>1. \E r : shown' = Append(shown, r) /\ ~Text
    BY <1>7 DEF FoundInBinary, Show, Text
  <2> QED
    BY <1>4, <1>7, <2>1
<1>8. CASE RegexLine
  <2>1. \/ shown' = shown
        \/ \E r : shown' = Append(shown, r) /\ r.k = fi /\ ~Plain(fi)
    <3>1. ~Plain(fi)
      BY <1>8 DEF RegexLine, InRegex, RegexScansRegex, Plain
    <3>2. \/ shown' = shown
          \/ \E off, offs, line : Show(off, offs, line)
      BY <1>8 DEF RegexLine
    <3> QED
      BY <3>1, <3>2 DEF Show
  <2>2. ~FoundInText
    BY <1>8 DEF RegexLine, InRegex, FoundInText, Scanning
  <2> QED
    BY <1>2, <1>4, <2>1, <2>2
<1> QED
  BY <1>2, <1>6, <1>7, <1>8 DEF Next, Scan, Regex, vars, counts, OpenFile, StartScan,
     StartRegex, RegexFails, ResetScan, SkipLine, NextByte, RegexLastLine, EndFind, EndFile

-----------------------------------------------------------------------------
(* What has been told of has been gone past, and what has been gone past   *)
(* has been told of.                                                       *)

LEMMA FixedInputs ==
  ASSUME [Next]_vars
  PROVE  files' = files /\ finds' = finds /\ sw' = sw
BY DEF Next, Scan, Regex, vars, inputs, OpenFile, StartScan, StartRegex, RegexFails,
       ResetScan, FoundInText, FoundInBinary, SkipLine, NextByte, ScanFrame,
       RegexLine, RegexLastLine, RegexFrame, EndFind, EndFile

LEMMA NextAtStart ==
  TypeOK /\ AtEnd /\ AtStart /\ [Next]_vars => AtStart'
<1> SUFFICES ASSUME TypeOK, AtEnd, AtStart, [Next]_vars, pc' = "scan", Text'
             PROVE  AtStart'
  BY DEF AtStart
<1>1. Text
  BY FixedInputs DEF Text
<1>2. CASE Scan
  BY <1>1, <1>2, ScanGoes
<1>3. CASE dwi' = 0
  BY <1>3 DEF AtStart
<1>4. CASE UNCHANGED vars
  BY <1>4 DEF AtStart, Text, vars, inputs, scan, File, Size
<1> QED
  BY <1>2, <1>3, <1>4, Moves

(* An end of line behind the scan stays behind it.                         *)
LEMMA PassedGrows ==
  ASSUME NEW f, Len(f) \in Nat, NEW o \in Nat, NEW d \in Nat, NEW e \in Nat, d < e,
         Passed(f, o, d)
  PROVE  Passed(f, o, e)
<1>1. o < e
  BY DEF Passed
<1>2. CASE d >= Len(f)
  BY <1>1, <1>2 DEF Passed
<1>3. CASE \E j \in o..(d - 1) : IsBreak(f[j + 1])
  <2>1. PICK j \in o..(d - 1) : IsBreak(f[j + 1])
    BY <1>3
  <2>2. j \in o..(e - 1)
    OBVIOUS
  <2> QED
    BY <1>1, <2>1, <2>2 DEF Passed
<1> QED
  BY <1>2, <1>3 DEF Passed

(* What is behind the scan stays behind it.                                *)
LEMMA PassedStays ==
  ASSUME TypeOK, AtEnd, AtStart, [Next]_vars, Text, NEW r, ToldPassed(r)
  PROVE  ToldPassed(r)'
<1>0. /\ r.n \in DOMAIN files /\ r.k \in DOMAIN finds /\ r.n \in Nat /\ r.k \in Nat
      /\ r.off \in 0..(Len(files[r.n]) - 1) /\ files' = files /\ finds' = finds
  <2>1. finds \in Seq(Find) /\ files \in Seq(Seq(Byte) \ {<<>>})
    BY FilesAssumption, FindListsAssumption DEF TypeOK
  <2>2. DOMAIN finds = 1..Len(finds) /\ DOMAIN files = 1..Len(files)
        /\ Len(finds) \in Nat /\ Len(files) \in Nat
    BY <2>1
  <2>3. r.n \in DOMAIN files /\ r.k \in DOMAIN finds
        /\ r.off \in 0..(Len(files[r.n]) - 1)
    BY DEF ToldPassed
  <2>4. r.n \in Nat /\ r.k \in Nat
    BY <2>2, <2>3
  <2> QED
    BY <2>3, <2>4, FixedInputs
<1>1. CASE Scanned(r.n, r.k)
  <2>1. Scanned(r.n, r.k)'
    BY <1>0, <1>1, ScannedStays
  <2> QED
    BY <1>0, <2>1 DEF ToldPassed
<1>2. CASE r.n = n /\ r.k = fi /\ pc = "scan" /\ Passed(File, r.off, dwi)
  <2>1. CASE pc' = "next" /\ n' = n /\ fi' = fi
    BY <1>0, <1>2, <2>1 DEF ToldPassed, Scanned
  <2>2. CASE Scan /\ pc' = pc /\ n' = n /\ fi' = fi
    <3>1. /\ dwi \in Nat /\ dwi' \in Nat /\ dwi < dwi' /\ File \in Seq(Byte)
          /\ r.off \in Nat /\ File' = File
      <4>1. /\ dwi \in Nat /\ dwi' \in Nat /\ dwi < dwi' /\ File \in Seq(Byte)
        BY <2>2, ScanGoes
      <4>2. r.off \in Nat
        BY <1>0
      <4> QED
        BY <1>0, <2>2, <4>1, <4>2 DEF File
    <3>2. Passed(File, r.off, dwi')
      BY <1>2, <3>1, PassedGrows
    <3> QED
      BY <1>0, <1>2, <2>2, <3>1, <3>2 DEF ToldPassed
  <2>3. CASE UNCHANGED vars
    BY <1>0, <1>2, <2>3 DEF ToldPassed, vars, File, scan, inputs
  <2> QED
    BY <1>2, <2>1, <2>2, <2>3, Moves
<1> QED
  BY <1>1, <1>2 DEF ToldPassed

LEMMA NextToldBehind ==
  TypeOK /\ AtEnd /\ AtStart /\ RegexScansRegex /\ ToldBehind /\ [Next]_vars
    => ToldBehind'
<1> SUFFICES ASSUME TypeOK, AtEnd, AtStart, RegexScansRegex, ToldBehind, [Next]_vars,
                    NEW i \in Told'
             PROVE  \A r : r = shown'[i] => ToldPassed(r)'
  BY DEF ToldBehind, ToldPassed, Scanned
<1> SUFFICES ASSUME NEW r, r = shown'[i]
             PROVE  ToldPassed(r)'
  OBVIOUS
<1>1. ASSUME i \in Told, shown'[i] = shown[i]
      PROVE  ToldPassed(r)'
  <2>1. ToldPassed(r) /\ Text
    BY <1>1 DEF ToldBehind, Told
  <2> QED
    BY <2>1, PassedStays
<1>2. ASSUME FoundInText, Text, r = [n |-> n, k |-> fi, off |-> dwi,
                                     begin |-> lpoff[0], line |-> dwl]
      PROVE  ToldPassed(r)'
  <2>1. /\ n > 0 /\ fi \in DOMAIN finds /\ dwi < Len(File) /\ dwi \in Nat
        /\ File \in Seq(Byte) /\ n \in DOMAIN files
        /\ UNCHANGED <<files, finds, sw, n, fi, pc>>
        /\ Passed(File, dwi, dwi')
    BY <1>2, ScanGoes DEF Scan
  <2>2. pc = "scan" /\ r.n = n /\ r.k = fi /\ r.off = dwi /\ File' = File
    BY <1>2, <2>1 DEF FoundInText, Scanning, File
  <2>3. r.off \in 0..(Len(files[r.n]) - 1)
    BY <2>1, <2>2 DEF File
  <2> QED
    BY <2>1, <2>2, <2>3 DEF ToldPassed
<1> QED
  BY <1>1, <1>2, ToldWhen DEF Quiet

LEMMA NextBehindTold ==
  TypeOK /\ AtEnd /\ AtStart /\ RegexScansRegex /\ BehindTold /\ [Next]_vars
    => BehindTold'
<1> SUFFICES ASSUME TypeOK, AtEnd, AtStart, RegexScansRegex, BehindTold, [Next]_vars,
                    Text, NEW m \in DOMAIN files, NEW k \in DOMAIN finds, Plain(k),
                    NEW o \in 0..(Len(files[m]) - 1), StandsAt(m, k, o),
                    Scanned(m, k)' \/ (m = n' /\ k = fi' /\ pc' = "scan" /\ o < dwi')
             PROVE  <<m, k, SegStart(files[m], o)>> \in Places'
  BY FixedInputs DEF BehindTold, Text, Plain, StandsAt
<1>1. Places \subseteq Places'
  <2>1. files' = files /\ Told \subseteq Told' /\ \A i \in Told : shown'[i] = shown[i]
    BY FixedInputs, ToldWhen DEF Quiet
  <2> QED
    BY <2>1 DEF Places, Place
<1>2. ASSUME Scanned(m, k) \/ (m = n /\ k = fi /\ pc = "scan" /\ o < dwi)
      PROVE  <<m, k, SegStart(files[m], o)>> \in Places'
  BY <1>1, <1>2 DEF BehindTold
<1>3. CASE Scanned(m, k)'
  <2>1. CASE m = n /\ k = fi /\ pc = "scan" /\ dwi >= Size
    <3>1. o < dwi
      <4>1. o \in Nat /\ o < Len(File) /\ Len(File) \in Nat /\ dwi \in Nat /\ dwi >= Len(File)
        <5>1. File \in Seq(Byte)
          BY <2>1, Mapped DEF TypeOK
        <5> QED
          BY <2>1, <5>1 DEF File, Size, TypeOK
      <4> QED
        BY <4>1
    <3> QED
      BY <1>2, <2>1, <3>1
  <2> QED
    BY <1>2, <1>3, <2>1, ScannedNew
<1>4. CASE m = n' /\ k = fi' /\ pc' = "scan" /\ o < dwi'
  <2>1. CASE dwi' = 0
    BY <1>4, <2>1
  <2>2. CASE Scan /\ pc = "scan" /\ n' = n /\ fi' = fi
    <3>1. /\ dwi \in Nat /\ o \in Nat /\ o < Len(File) /\ m = n /\ k = fi
      <4>1. File \in Seq(Byte) /\ dwi \in Nat
        BY <2>2, ScanGoes
      <4> QED
        BY <1>4, <2>2, <4>1 DEF File
    <3>2. CASE o < dwi
      BY <1>2, <2>2, <3>1, <3>2
    <3>3. CASE dwi <= o
      <4>1. FoundInText /\ SegStart(File, o) = SegStart(File, dwi)
        BY <1>4, <2>2, <3>1, <3>3, ScanGoes
      <4>2. /\ Len(shown) + 1 \in Told'
            /\ shown'[Len(shown) + 1]
                 = [n |-> n, k |-> fi, off |-> dwi, begin |-> lpoff[0], line |-> dwl]
        BY <3>1, <4>1, ToldWhen
      <4>3. <<n, fi, SegStart(File, dwi)>> \in Places'
        BY <4>2, FixedInputs DEF Places, Place, File
      <4> QED
        BY <3>1, <4>1, <4>3 DEF File
    <3> QED
      BY <3>1, <3>2, <3>3
  <2>3. CASE UNCHANGED vars
    BY <1>2, <1>4, <2>3 DEF vars, scan
  <2> QED
    BY <1>4, <2>1, <2>2, <2>3, Moves
<1> QED
  BY <1>3, <1>4

-----------------------------------------------------------------------------
(* The steps of FindInGen are steps of FindReport.                         *)

LEMMA WantedIs ==
  ASSUME NEW w
  PROVE  w \in Wanted <=>
           \E m \in DOMAIN files : \E k \in DOMAIN finds :
             /\ Text /\ Plain(k)
             /\ \E o \in 0..(Len(files[m]) - 1) :
                  StandsAt(m, k, o) /\ w = <<m, k, SegStart(files[m], o)>>
<1> DEFINE Of(m, k) == {<<m, k, s>> : s \in HitSegs(m, k)}
<1>1. w \in Wanted <=>
        \E m \in DOMAIN files : \E k \in DOMAIN finds :
          Text /\ Plain(k) /\ w \in Of(m, k)
  <2> HIDE DEF Of
  <2>1. Wanted = UNION {Of(m, k) : m \in {i \in DOMAIN files : Text},
                                   k \in {i \in DOMAIN finds : Plain(i)}}
    BY DEF Wanted, Of
  <2> QED
    BY <2>1
<1>2. ASSUME NEW m, NEW k
      PROVE  w \in Of(m, k) <=>
               \E o \in 0..(Len(files[m]) - 1) :
                 StandsAt(m, k, o) /\ w = <<m, k, SegStart(files[m], o)>>
  BY DEF HitSegs
<1> HIDE DEF Of
<1> QED
  BY <1>1, <1>2

LEMMA WantedType == TypeOK => Wanted \in SUBSET (Nat \X Nat \X Nat)
<1> SUFFICES ASSUME TypeOK, NEW w \in Wanted
             PROVE  w \in Nat \X Nat \X Nat
  OBVIOUS
<1>0. PICK m \in DOMAIN files, k \in DOMAIN finds :
     \E o \in 0..(Len(files[m]) - 1) :
        w = <<m, k, SegStart(files[m], o)>>
  BY WantedIs
<1>1. PICK o \in 0..(Len(files[m]) - 1) :
     w = <<m, k, SegStart(files[m], o)>>
  BY <1>0
<1>2. files \in Seq(Seq(Byte) \ {<<>>}) /\ finds \in Seq(Find)
  BY FilesAssumption, FindListsAssumption DEF TypeOK
<1>3. m \in Nat /\ k \in Nat /\ files[m] \in Seq(Byte)
  BY <1>2
<1>4. o \in 0..Len(files[m])
  BY <1>3
<1>5. SegStart(files[m], o) \in 0..o
  BY <1>3, <1>4, SegStartIs
<1> QED
  BY <1>1, <1>3, <1>5

(* A report of a plain find is one of a place wanted, not reported before, *)
(* and before which nothing is left out.                                   *)
LEMMA TellsWanted ==
  ASSUME TypeOK, AtStart, ToldBehind, BehindTold, FoundInText, Text, Plain(fi)
  PROVE  LET w == <<n, fi, SegStart(File, dwi)>>
         IN  /\ w \in Wanted \ Places
             /\ \A v \in Wanted : Report!Before(v, w) => v \in Places
<1> DEFINE s == SegStart(File, dwi)
<1>1. /\ n \in DOMAIN files /\ fi \in DOMAIN finds /\ dwi < Len(File) /\ dwi \in Nat
      /\ File \in Seq(Byte) /\ pc = "scan" /\ Hit /\ Size = Len(File)
  BY ScanGoes DEF Scan, FoundInText, Scanning, Size
<1>2. n \in Nat /\ fi \in Nat
  BY FilesAssumption, FindListsAssumption DEF TypeOK
<1>3. StandsAt(n, fi, dwi)
  <2>1. ASSUME sw.begin PROVE SegStart(File, dwi) = dwi
    <3>1. dwi = 0 \/ IsBreak(File[dwi])
      BY <1>1, <2>1 DEF AtStart
    <3>2. dwi \in 0..dwi /\ dwi \in 0..Len(File)
          /\ \A j \in dwi..(dwi - 1) : ~IsBreak(File[j + 1])
      BY <1>1
    <3> QED
      BY <1>1, <3>1, <3>2, SegStartUnique
  <2> QED
    BY <1>1, <2>1 DEF StandsAt, Hit, ThisFind, File, Size
<1>4. <<n, fi, s>> \in Wanted
  <2>1. dwi \in 0..(Len(files[n]) - 1)
    BY <1>1 DEF File
  <2> QED
    BY <1>1, <1>3, <2>1, WantedIs DEF File
<1>5. ASSUME NEW i \in Told, Place(shown[i]) = <<n, fi, s>>
      PROVE  FALSE
  <2> DEFINE r == shown[i]
  <2>1. r.n = n /\ r.k = fi /\ SegStart(File, r.off) = s
    BY <1>5 DEF Place, File
  <2>2. ToldPassed(r)
    BY DEF ToldBehind
  <2>3. Passed(File, r.off, dwi) /\ r.off \in 0..(Len(File) - 1)
    BY <1>1, <1>2, <2>1, <2>2 DEF ToldPassed, Scanned, File
  <2> HIDE DEF r
  <2>4. PICK j \in r.off..(dwi - 1) : IsBreak(File[j + 1])
    BY <1>1, <2>3 DEF Passed
  <2>5. SegStart(File, r.off) < s
    <3>1. r.off \in Nat /\ dwi <= Len(File)
      BY <1>1, <2>3
    <3> QED
      BY <1>1, <2>4, <3>1, SegApart
  <2>6. s \in 0..dwi
    <3>1. dwi \in 0..Len(File)
      BY <1>1
    <3> QED
      BY <1>1, <3>1, SegStartIs
  <2> QED
    BY <2>1, <2>5, <2>6
<1>6. <<n, fi, s>> \notin Places
  BY <1>5 DEF Places
<1>7. ASSUME NEW v \in Wanted, Report!Before(v, <<n, fi, s>>)
      PROVE  v \in Places
  <2>0. PICK m \in DOMAIN files, k \in DOMAIN finds :
       \E o \in 0..(Len(files[m]) - 1) :
          Plain(k) /\ StandsAt(m, k, o) /\ v = <<m, k, SegStart(files[m], o)>>
    BY WantedIs
  <2>1. PICK o \in 0..(Len(files[m]) - 1) :
       Plain(k) /\ StandsAt(m, k, o) /\ v = <<m, k, SegStart(files[m], o)>>
    BY <2>0
  <2>2. m < n \/ (m = n /\ k < fi) \/ (m = n /\ k = fi /\ SegStart(File, o) < s)
    BY <1>7, <2>1 DEF Report!Before, File
  <2>3. Scanned(m, k) \/ (m = n /\ k = fi /\ o < dwi)
    <3>1. ASSUME m = n, SegStart(File, o) < s PROVE o < dwi
      <4>1. o \in Nat
        BY <1>1, <3>1 DEF File
      <4>2. SUFFICES ASSUME dwi <= o PROVE FALSE
        BY <1>1, <4>1
      <4>3. o <= Len(File) /\ o \in 0..Len(File) /\ dwi \in 0..Len(File)
        BY <1>1, <3>1, <4>1 DEF File
      <4>4. s <= SegStart(File, o)
        BY <1>1, <4>1, <4>2, <4>3, SegsInOrder
      <4>5. s \in 0..dwi /\ SegStart(File, o) \in 0..o
        BY <1>1, <4>3, SegStartIs
      <4> QED
        BY <1>1, <3>1, <4>1, <4>4, <4>5
    <3> QED
      BY <2>2, <3>1 DEF Scanned
  <2> QED
    BY <1>1, <2>1, <2>3 DEF BehindTold
<1> QED
  BY <1>4, <1>6, <1>7

LEMMA StepReports ==
  ASSUME TypeOK, TypeOK', AtEnd, AtStart, RegexScansRegex, ToldBehind, BehindTold,
         [Next]_vars
  PROVE  [Report!Next]_(Report!vars)
<1>1. Wanted' = Wanted
  <2>1. files' = files /\ finds' = finds /\ sw' = sw
    BY FixedInputs
  <2> QED
    BY <2>1 DEF Wanted, HitSegs, StandsAt, Text, Plain
<1>2. ASSUME Quiet
      PROVE  Places' = Places /\ Cardinality(Told)' = Cardinality(Told)
  BY <1>2, FixedInputs DEF Quiet, Places, Place
<1>3. n \in Nat /\ fi \in Nat /\ Len(finds) \in Nat /\ finds \in Seq(Find)
      /\ files \in Seq(Seq(Byte) \ {<<>>})
  <2>1. finds \in Seq(Find) /\ files \in Seq(Seq(Byte) \ {<<>>})
    BY FilesAssumption, FindListsAssumption DEF TypeOK
  <2>2. Len(finds) \in Nat /\ Len(files) \in Nat
    BY <2>1
  <2> QED
    BY <2>1, <2>2 DEF TypeOK
<1>4. CASE FoundInText /\ Text /\ Plain(fi)
  <2> DEFINE w == <<n, fi, SegStart(File, dwi)>>
  <2>1. w \in Wanted \ Places /\ \A v \in Wanted : Report!Before(v, w) => v \in Places
    BY <1>4, TellsWanted
  <2>2. /\ Told' = Told \cup {Len(shown) + 1}
        /\ Len(shown) \in Nat /\ \A i \in Told : i <= Len(shown) /\ i \in Nat
        /\ \A i \in Told : shown'[i] = shown[i]
        /\ shown'[Len(shown) + 1]
             = [n |-> n, k |-> fi, off |-> dwi, begin |-> lpoff[0], line |-> dwl]
    BY <1>4, ToldWhen
  <2>3. Cardinality(Told)' = Cardinality(Told) + 1
    <3>1. Told \in SUBSET Nat /\ \A i \in Told : i <= Len(shown)
      BY <2>2
    <3>2. Len(shown) + 1 \notin Told
      BY <2>2
    <3> QED
      BY <2>2, <3>1, <3>2, CountGrows
  <2>4. Places' = Places \cup {w}
    <3> DEFINE P(f, r) == <<r.n, r.k, SegStart(f[r.n], r.off)>>
               last == Len(shown) + 1
    <3>1. files' = files
      BY FixedInputs
    <3>2. P(files, shown'[last]) = w
      BY <2>2 DEF File
    <3>3. Places' = {P(files, shown'[i]) : i \in Told'}
      BY <3>1 DEF Places, Place
    <3>4. Places = {P(files, shown[i]) : i \in Told}
      BY DEF Places, Place
    <3> HIDE DEF P, w, last
    <3>5. Told' = Told \cup {last} /\ \A i \in Told : shown'[i] = shown[i]
      BY <2>2 DEF last
    <3> QED
      BY <3>2, <3>3, <3>4, <3>5
  <2>5. FilesLeft' = FilesLeft /\ w[1] > FilesLeft
    BY <1>3, <1>4 DEF FoundInText, ScanFrame, Scanning, FilesLeft
  <2> HIDE DEF w
  <2>6. Report!Report
    BY <1>1, <2>1, <2>3, <2>4, <2>5 DEF Report!Report
  <2> QED
    BY <2>6 DEF Report!Next
<1>5. CASE EndFile
  <2>1. Quiet
    <3>1. ~FoundInText
      BY <1>5 DEF EndFile, FoundInText, Scanning
    <3> QED
      BY <3>1, ToldWhen
  <2>2. FilesLeft' = FilesLeft + 1 /\ FilesLeft + 1 = n /\ pc = "next" /\ fi = Len(finds)
    BY <1>3, <1>5 DEF EndFile, FilesLeft
  <2>3. ASSUME NEW w \in Wanted, w[1] = n
        PROVE  w \in Places
    <3>0. PICK m \in DOMAIN files, k \in DOMAIN finds :
         \E o \in 0..(Len(files[m]) - 1) :
            Text /\ Plain(k) /\ StandsAt(m, k, o) /\ w = <<m, k, SegStart(files[m], o)>>
      BY WantedIs
    <3>1. PICK o \in 0..(Len(files[m]) - 1) :
         Text /\ Plain(k) /\ StandsAt(m, k, o) /\ w = <<m, k, SegStart(files[m], o)>>
      BY <3>0
    <3>2. m = n /\ k \in 1..Len(finds)
      <4>1. w[1] = m
        BY <3>1
      <4> QED
        BY <1>3, <2>3, <4>1
    <3>3. Scanned(m, k)
      BY <1>3, <2>2, <3>2 DEF Scanned
    <3> QED
      BY <3>1, <3>3 DEF BehindTold
  <2>4. Report!Leave
    BY <1>1, <1>2, <2>1, <2>2, <2>3 DEF Report!Leave
  <2> QED
    BY <2>4 DEF Report!Next
<1>6. CASE ~(FoundInText /\ Text /\ Plain(fi)) /\ ~EndFile
  <2>1. Quiet
    BY <1>6, ToldWhen
  <2>2. FilesLeft' = FilesLeft
    <3>1. CASE OpenFile
      BY <1>3, <3>1 DEF OpenFile, FilesLeft
    <3>2. CASE StartScan \/ StartRegex \/ RegexFails \/ EndFind
      <4>1. n' = n /\ pc \notin {"open", "done"} /\ pc' \notin {"open", "done"}
        BY <3>2 DEF StartScan, StartRegex, RegexFails, EndFind, ResetScan
      <4> QED
        BY <4>1 DEF FilesLeft
    <3>3. CASE Scan \/ Regex \/ UNCHANGED vars
      <4>1. n' = n /\ pc' = pc
        <5>1. CASE Scan
          BY <5>1 DEF Scan, FoundInText, FoundInBinary, SkipLine, NextByte, ScanFrame
        <5>2. CASE Regex
          BY <5>2 DEF Regex, RegexLine, RegexLastLine, RegexFrame
        <5>3. CASE UNCHANGED vars
          BY <5>3 DEF vars
        <5> QED
          BY <3>3, <5>1, <5>2, <5>3
      <4> QED
        BY <4>1 DEF FilesLeft
    <3> QED
      BY <1>6, <3>1, <3>2, <3>3 DEF Next
  <2> QED
    BY <1>1, <1>2, <2>1, <2>2 DEF Report!vars
<1> QED
  BY <1>4, <1>5, <1>6

(* Fa4Find.c:700-1064: for every list of text files, finds and switches,   *)
(* the search reports each stretch of a line between ends of line in which *)
(* a plain find stands once, in the order of files, finds and lines, and   *)
(* leaves no file before all of its finds have been reported, though after *)
(* a find it goes on behind the line.                                      *)
THEOREM SearchReports == Spec => ReportsInOrder
<1> DEFINE Inv == /\ TypeOK /\ AtEnd /\ AtStart /\ RegexScansRegex
                  /\ ToldBehind /\ BehindTold
<1>1. Init => Inv
  <2> SUFFICES ASSUME Init PROVE Inv
    OBVIOUS
  <2>1. TypeOK
    BY InitType
  <2>2. AtEnd /\ AtStart /\ RegexScansRegex /\ ToldBehind
    BY DEF Init, AtEnd, AtStart, RegexScansRegex, ToldBehind, Told
  <2>3. BehindTold
    <3>1. files \in Seq(Seq(Byte) \ {<<>>}) /\ n = 0 /\ pc # "scan"
      BY FilesAssumption DEF Init
    <3>2. \A m \in DOMAIN files : m \in Nat /\ m > 0
      BY <3>1
    <3> QED
      BY <3>1, <3>2 DEF BehindTold, Scanned
  <2> QED
    BY <2>1, <2>2, <2>3
<1>2. Inv /\ [Next]_vars => Inv'
  BY NextType, NextAtEnd, NextAtStart, NextRegexScans, NextToldBehind, NextBehindTold
<1>3. Init => Report!Init
  <2> SUFFICES ASSUME Init PROVE Report!Init
    OBVIOUS
  <2>1. Wanted \in SUBSET (Nat \X Nat \X Nat)
    BY InitType, WantedType
  <2>2. Told = {} /\ FilesLeft = 0
    BY DEF Init, Told, FilesLeft
  <2>3. Places = {} /\ Cardinality(Told) = 0
    BY <2>2, FS_EmptySet DEF Places
  <2> QED
    BY <2>1, <2>2, <2>3 DEF Report!Init
<1>4. Inv /\ Inv' /\ [Next]_vars => [Report!Next]_(Report!vars)
  BY StepReports
<1> QED
  BY <1>1, <1>2, <1>3, <1>4, PTL DEF Spec, ReportsInOrder, Report!Spec

-----------------------------------------------------------------------------
(* The regular expressions, in the file for which they are compiled.       *)

(* In the first file a find that has been compiled is not behind the one   *)
(* of the moment, so that no regular expression is scanned for as text.    *)
FirstOnce ==
  /\ n = 0 => pre = {}
  /\ n = 1 => /\ \A k \in pre : k <= fi
              /\ pc = "scan" => Plain(fi)

(* The scan for a regular expression stands at the start of a line, with   *)
(* the lines behind it counted.                                            *)
RegexAtLine ==
  pc = "regex" =>
    /\ dwi <= Size
    /\ dwi = 0 \/ dwi = Size \/ IsBreak(File[dwi])
    /\ CountedAt(File, dwi, dwl, lpoff[0])

(* The scan of the first file for find k is past offset b.                 *)
FirstPast(k, b) ==
  \/ n > 1
  \/ n = 1 /\ (k < fi \/ (k = fi /\ (pc = "regex" => b < dwi)))

(* The pattern k matches the line of the first file that starts at b.      *)
Matches(k, b) ==
  /\ k \in DOMAIN finds /\ ~Plain(k)
  /\ b \in MatchedLines(files[1], finds[k].text)

(* That line has been reported.                                            *)
MatchShown(k, b) ==
  \E i \in DOMAIN shown : shown[i].n = 1 /\ shown[i].k = k /\ shown[i].off = b

(* The lines reported are the lines matched, as far as the scan has come.  *)
MatchesShown ==
  \A k \in DOMAIN finds : ~Plain(k) =>
    \A b \in Nat : MatchShown(k, b) <=> Matches(k, b) /\ FirstPast(k, b)

(* No such line is reported twice.                                         *)
MatchesOnce ==
  \A i, j \in DOMAIN shown :
    /\ shown[i].n = 1 /\ shown[j].n = 1
    /\ shown[i].k = shown[j].k /\ ~Plain(shown[i].k)
    /\ shown[i].off = shown[j].off
    => i = j

(* What is reported of a line that a CR ends is that line, and its number. *)
MatchRight(r) ==
  /\ r.n = 1 /\ ~Plain(r.k)
  /\ files[1][EndOfLine(files[1], r.off) + 1] = CR /\ NoLoneCR(files[1])
  => /\ r.off \in ShownText(files[1], r.begin)
     /\ r.line = Cardinality(LFsBefore(files[1], r.off))

MatchesRight == \A i \in DOMAIN shown : MatchRight(shown[i])

LEMMA NextFirstOnce ==
  TypeOK /\ FirstOnce /\ [Next]_vars => FirstOnce'
<1> SUFFICES ASSUME TypeOK, FirstOnce, [Next]_vars PROVE FirstOnce'
  OBVIOUS
<1>1. n \in Nat /\ fi \in Nat /\ finds' = finds
  BY FilesAssumption, FindListsAssumption, FixedInputs DEF TypeOK
<1>2. pre \in SUBSET Nat
  BY FindListsAssumption DEF TypeOK
<1>3. CASE OpenFile
  BY <1>1, <1>3 DEF FirstOnce, OpenFile
<1>4. CASE StartScan
  BY <1>1, <1>2, <1>4 DEF FirstOnce, StartScan, ResetScan, Plain, TypeOK
<1>5. CASE StartRegex
  BY <1>1, <1>2, <1>5 DEF FirstOnce, StartRegex, ResetScan, TypeOK
<1>6. CASE RegexFails \/ EndFind \/ EndFile
  BY <1>1, <1>6 DEF FirstOnce, RegexFails, EndFind, EndFile
<1>7. CASE Scan \/ Regex
  BY <1>1, <1>7 DEF FirstOnce, Scan, Regex, FoundInText, FoundInBinary, SkipLine,
     NextByte, ScanFrame, RegexLine, RegexLastLine, RegexFrame, Plain
<1>8. CASE UNCHANGED vars
  BY <1>1, <1>8 DEF FirstOnce, vars, Plain
<1> QED
  BY <1>3, <1>4, <1>5, <1>6, <1>7, <1>8 DEF Next

(* The loop after a line counts the LFs that it passes over.               *)
LEMMA BreaksCounted ==
  ASSUME NEW f \in Seq(Byte), NEW o \in Nat, NEW e \in Nat, NEW s \in Nat,
         o <= e, e <= s, s <= Len(f), \A j \in o..(e - 1) : ~IsBreak(f[j + 1]),
         NEW lines \in Nat, NEW offs \in [0..MXLPS -> Nat],
         CountedAt(f, o, lines, offs[0]),
         NEW lfs, lfs = {i \in e..(s - 1) : f[i + 1] = LF}
  PROVE  CountedAt(f, s, lines + Cardinality(lfs), IncLines(lfs, offs)[0])
<1> DEFINE A == LFsBefore(f, o)
<1>1. lfs \in SUBSET Nat /\ \A i \in lfs : e <= i /\ i < s
  OBVIOUS
<1>2. LFsBefore(f, s) = A \cup lfs /\ A \cap lfs = {}
  <2>1. \A j \in o..(e - 1) : f[j + 1] # LF
    BY DEF IsBreak
  <2>2. \A i \in A : i \in Nat /\ i < o
    BY DEF LFsBefore
  <2>3. LFsBefore(f, s) = A \cup lfs
    BY <2>1 DEF LFsBefore
  <2> QED
    BY <1>1, <2>2, <2>3
<1>3. A \in SUBSET Nat /\ \A i \in A : i < o
  BY LFsAreFinite
<1>4. IsFiniteSet(A) /\ IsFiniteSet(lfs)
  <2>1. \A i \in A : i <= o
    BY <1>3
  <2>2. \A i \in lfs : i <= s
    BY <1>1
  <2> HIDE DEF A
  <2> QED
    BY <1>1, <1>3, <2>1, <2>2, CountGrows
<1>5. Cardinality(A) \in Nat /\ Cardinality(lfs) \in Nat
  BY <1>4, FS_CardinalityType
<1>6. Cardinality(LFsBefore(f, s)) = lines + Cardinality(lfs)
  <2>1. Cardinality(A \cup lfs) = Cardinality(A) + Cardinality(lfs) - Cardinality({})
    BY <1>2, <1>4, FS_Union
  <2>2. Cardinality({}) = 0
    BY FS_EmptySet
  <2>3. Cardinality(A) = lines
    BY DEF CountedAt
  <2> QED
    BY <1>2, <1>5, <2>1, <2>2, <2>3
<1>7. CASE lfs = {}
  <2>1. IncLines(lfs, offs) = offs
    BY <1>7 DEF IncLines
  <2> QED
    BY <1>2, <1>6, <1>7, <2>1 DEF CountedAt
<1>8. CASE lfs # {}
  <2>1. Top(lfs) \in lfs /\ \A i \in lfs : i <= Top(lfs)
    <3>1. \A i \in lfs : i <= s
      BY <1>1
    <3> QED
      BY <1>1, <1>8, <3>1, TopIs
  <2>2. IncLines(lfs, offs)[0] = Top(lfs)
    <3>1. \A at, p : IncLine(at, p)[0] = at
      BY DEF IncLine, MXLPS
    <3>2. \E p : IncLines(lfs, offs) = IncLine(Top(lfs), p)
      BY <1>8 DEF IncLines
    <3> QED
      BY ONLY <3>1, <3>2
  <2>3. \A i \in A : i <= Top(lfs)
    BY <1>1, <1>3, <2>1
  <2> HIDE DEF A
  <2> QED
    BY <1>2, <1>6, <2>1, <2>2, <2>3 DEF CountedAt
<1> QED
  BY <1>7, <1>8

(* One line is looked at, and the ends of line behind it are no start of   *)
(* a line that can match.                                                  *)
LEMMA OneLine ==
  ASSUME NEW f \in Seq(Byte), NEW d \in 0..(Len(f) - 1), d = 0 \/ IsBreak(f[d]),
         NEW t, NEW e, e = EndOfLine(f, d)
  PROVE  /\ d \in MatchedLines(f, t)
              <=> d < e /\ e < Len(f) /\ PcreExec(t, SubSeq(f, d + 1, e))
         /\ e = Len(f) => \A b \in MatchedLines(f, t) : b <= d
         /\ e < Len(f) => \A b \in MatchedLines(f, t) :
                            b <= d \/ SkipBreaks(f, e + 1) <= b
<1>1. d \in 0..Len(f) /\ Len(f) \in Nat
  OBVIOUS
<1>2. /\ e \in d..Len(f)
      /\ e = Len(f) \/ IsBreak(f[e + 1])
      /\ \A j \in d..(e - 1) : ~IsBreak(f[j + 1])
  BY <1>1, EndOfLineIs
<1>3. d \in MatchedLines(f, t)
        <=> d < e /\ e < Len(f) /\ PcreExec(t, SubSeq(f, d + 1, e))
  BY DEF MatchedLines
<1>4. ASSUME NEW b \in MatchedLines(f, t)
      PROVE  /\ b \in 0..(Len(f) - 1) /\ (b = 0 \/ IsBreak(f[b]))
             /\ ~IsBreak(f[b + 1])
  <2>1. /\ b \in 0..(Len(f) - 1) /\ (b = 0 \/ IsBreak(f[b]))
        /\ b < EndOfLine(f, b)
    BY DEF MatchedLines
  <2>2. b \in 0..Len(f)
    BY <2>1
  <2>3. \A j \in b..(EndOfLine(f, b) - 1) : ~IsBreak(f[j + 1])
    BY <2>2, EndOfLineIs
  <2>4. EndOfLine(f, b) \in b..Len(f)
    BY <2>2, EndOfLineIs
  <2>5. b \in b..(EndOfLine(f, b) - 1)
    BY <2>1, <2>4
  <2> QED
    BY <2>1, <2>3, <2>5
<1>5. ASSUME NEW b \in MatchedLines(f, t), d < b, b <= e
      PROVE  FALSE
  <2>1. b \in Nat /\ IsBreak(f[b]) /\ b # 0
    BY <1>4, <1>5
  <2>2. b - 1 \in d..(e - 1) /\ (b - 1) + 1 = b
    BY <1>2, <1>5, <2>1
  <2> QED
    BY <1>2, <2>1, <2>2
<1>6. e = Len(f) => \A b \in MatchedLines(f, t) : b <= d
  BY <1>1, <1>2, <1>4, <1>5
<1>7. ASSUME e < Len(f), NEW b \in MatchedLines(f, t), ~(b <= d)
      PROVE  SkipBreaks(f, e + 1) <= b
  <2>0. b \in Nat /\ e \in Nat /\ d \in Nat
    BY <1>2, <1>4
  <2>4. ~(b <= e)
    BY <1>5, <1>7, <2>0
  <2>1. b \in Nat /\ e < b /\ ~IsBreak(f[b + 1])
    BY <1>4, <2>0, <2>4
  <2>2. e + 1 \in 0..Len(f)
    BY <1>2, <1>7
  <2>3. /\ SkipBreaks(f, e + 1) \in (e + 1)..Len(f)
        /\ \A j \in (e + 1)..(SkipBreaks(f, e + 1) - 1) : IsBreak(f[j + 1])
    BY <2>2, SkipBreaksIs
  <2>5. (e + 1)..(SkipBreaks(f, e + 1) - 1) \subseteq Nat /\ SkipBreaks(f, e + 1) \in Nat
    BY <1>2, <2>3
  <2>6. b \notin (e + 1)..(SkipBreaks(f, e + 1) - 1)
    BY <2>1, <2>3
  <2> QED
    BY <2>0, <2>1, <2>5, <2>6
<1> QED
  BY <1>3, <1>6, <1>7
(* The lines of the file searched that the find of the moment matches.     *)
MatchedHere == MatchedLines(File, finds[fi].text)

(* What is reported of the line at dwi, when an LF does not end it, is the *)
(* line offset behind it and its number.                                   *)
ReportsLine(r) ==
  /\ r.n = n /\ r.k = fi /\ r.off = dwi
  /\ File[EndOfLine(File, dwi) + 1] = CR => r.begin = lpoff[0] /\ r.line = dwl

(* A turn of the scan for a regular expression takes it to a line behind,  *)
(* and past no line that matches but the one it stood at, which it reports.*)
LEMMA RegexGoes ==
  ASSUME TypeOK, RegexScansRegex, RegexAtLine, Regex
  PROVE  /\ n > 0 /\ fi \in DOMAIN finds /\ ~Plain(fi) /\ pc = "regex"
         /\ n' = n /\ fi' = fi /\ pc' = pc
         /\ dwi \in 0..(Size - 1) /\ dwi' \in (dwi + 1)..Size
         /\ dwi' = Size \/ IsBreak(File[dwi'])
         /\ CountedAt(File, dwi', dwl', lpoff'[0])
         /\ \A b \in MatchedHere : b <= dwi \/ dwi' <= b
         /\ dwi \in MatchedHere =>
              /\ ~IsBreak(File[dwi + 1])
              /\ \E r : shown' = Append(shown, r) /\ ReportsLine(r)
         /\ dwi \notin MatchedHere => shown' = shown
<1> DEFINE e == EndOfLine(File, dwi)
           s == SkipBreaks(File, e + 1)
           t == finds[fi].text
<1>1. InRegex /\ n' = n /\ fi' = fi /\ pc' = pc
  BY DEF Regex, RegexLine, RegexLastLine, RegexFrame
<1>2. /\ n > 0 /\ fi > 0 /\ e \in dwi..Size
      /\ e < Size => s \in (e + 1)..Size
  BY <1>1, RegexEnds
<1>3. fi \in DOMAIN finds /\ ~Plain(fi) /\ pc = "regex"
  <2>1. finds \in Seq(Find) /\ DOMAIN finds = 1..Len(finds)
    BY FindListsAssumption DEF TypeOK
  <2>2. pc = "regex" /\ finds[fi].regex
    BY <1>1 DEF InRegex, RegexScansRegex
  <2> QED
    BY <1>2, <2>1, <2>2 DEF TypeOK, Plain
<1>4. File \in Seq(Byte) /\ Size = Len(File) /\ Size \in Nat /\ dwi \in 0..(Size - 1)
  BY <1>1, <1>2, Mapped DEF TypeOK, InRegex, Size
<1>5. /\ dwi = 0 \/ IsBreak(File[dwi])
      /\ CountedAt(File, dwi, dwl, lpoff[0])
  BY <1>1, <1>4 DEF RegexAtLine, InRegex
<1>6. lpoff \in [0..MXLPS -> Nat] /\ dwl \in Nat
  BY DEF TypeOK
<1>7. /\ e = Size \/ IsBreak(File[e + 1])
      /\ \A j \in dwi..(e - 1) : ~IsBreak(File[j + 1])
  <2>1. dwi \in 0..Len(File)
    BY <1>4
  <2> QED
    BY <1>4, <2>1, EndOfLineIs
<1>8. /\ dwi \in MatchedHere
           <=> dwi < e /\ e < Size /\ PcreExec(t, SubSeq(File, dwi + 1, e))
      /\ e = Size => \A b \in MatchedHere : b <= dwi
      /\ e < Size => \A b \in MatchedHere : b <= dwi \/ s <= b
  <2>1. dwi \in 0..(Len(File) - 1)
    BY <1>4
  <2> QED
    BY <1>4, <1>5, <2>1, OneLine DEF MatchedHere
<1>9. dwi \in MatchedHere => ~IsBreak(File[dwi + 1])
  <2>1. dwi < e => dwi \in dwi..(e - 1)
    BY <1>2, <1>4
  <2> QED
    BY <1>7, <1>8, <2>1
<1>10. CASE RegexLine
  <2>1. e < Size /\ PassBreaks(e, s)
    BY <1>10 DEF RegexLine
  <2>2. /\ dwi' = s /\ dwl' = dwl + Cardinality(LFsIn(e, s))
        /\ lpoff' = IncLines(LFsIn(e, s), lpoff)
    BY <2>1 DEF PassBreaks
  <2>3. s \in (e + 1)..Size /\ \A j \in (e + 1)..(s - 1) : IsBreak(File[j + 1])
    <3>1. e + 1 \in 0..Len(File)
      BY <1>2, <1>4, <2>1
    <3> QED
      BY <1>2, <1>4, <2>1, <3>1, SkipBreaksIs
  <2>4. IF dwi < e /\ PcreExec(t, SubSeq(File, dwi + 1, e))
        THEN \E r : shown' = Append(shown, r) /\ ReportsLine(r)
        ELSE shown' = shown
    <3>1. CASE e > dwi /\ PcreExec(t, SubSeq(File, dwi + 1, e))
      <4>1. Show(dwi, IF File[e + 1] = LF THEN IncLine(e, lpoff) ELSE lpoff,
                 IF File[e + 1] = LF THEN dwl + 1 ELSE dwl)
        BY <1>10, <3>1 DEF RegexLine
      <4>2. File[e + 1] = CR => File[e + 1] # LF
        BY DEF CR, LF
      <4>3. dwi < e
        BY <1>2, <1>4, <3>1
      <4> HIDE DEF e, t
      <4> QED
        BY <3>1, <4>1, <4>2, <4>3 DEF Show, ReportsLine, e
    <3>2. CASE ~(e > dwi /\ PcreExec(t, SubSeq(File, dwi + 1, e)))
      <4>1. shown' = shown
        BY <1>10, <3>2 DEF RegexLine
      <4>2. dwi < e <=> e > dwi
        BY <1>2, <1>4
      <4> QED
        BY <3>2, <4>1, <4>2
    <3> QED
      BY <3>1, <3>2
  <2>5. CountedAt(File, s, dwl + Cardinality(LFsIn(e, s)), IncLines(LFsIn(e, s), lpoff)[0])
    <3>1. dwi \in Nat /\ e \in Nat /\ s \in Nat /\ dwi <= e /\ e <= s /\ s <= Len(File)
      BY <1>2, <1>4, <2>3
    <3>2. LFsIn(e, s) = {i \in e..(s - 1) : File[i + 1] = LF}
      BY DEF LFsIn
    <3> HIDE DEF e, s
    <3> QED
      BY <1>4, <1>5, <1>6, <1>7, <3>1, <3>2, BreaksCounted
  <2>6. s = Size \/ IsBreak(File[s])
    <3>1. s - 1 = e \/ s - 1 \in (e + 1)..(s - 1)
      BY <1>2, <1>4, <2>3
    <3>2. (s - 1) + 1 = s
      BY <1>2, <1>4, <2>3
    <3> QED
      BY <1>7, <2>1, <2>3, <3>1, <3>2
  <2>7. s \in (dwi + 1)..Size
    BY <1>2, <1>4, <2>3
  <2> HIDE DEF e, s
  <2> QED
    BY <1>1, <1>2, <1>3, <1>4, <1>8, <1>9, <2>1, <2>2, <2>4, <2>5, <2>6, <2>7
<1>11. CASE RegexLastLine
  <2>1. e = Size /\ dwi' = Size /\ dwl' = dwl /\ lpoff' = lpoff /\ shown' = shown
    BY <1>11 DEF RegexLastLine
  <2>2. dwi \notin MatchedHere
    BY <1>4, <1>8, <2>1
  <2>3. LFsBefore(File, Size) = LFsBefore(File, dwi)
    BY <1>4, <1>7, <2>1 DEF LFsBefore, IsBreak
  <2>4. CountedAt(File, Size, dwl, lpoff[0])
    BY <1>5, <2>3 DEF CountedAt
  <2>5. Size \in (dwi + 1)..Size
    BY <1>4
  <2> HIDE DEF e, s
  <2> QED
    BY <1>1, <1>2, <1>3, <1>4, <1>8, <2>1, <2>2, <2>4, <2>5
<1> QED
  BY <1>10, <1>11 DEF Regex

LEMMA NextRegexAtLine ==
  TypeOK /\ RegexScansRegex /\ RegexAtLine /\ [Next]_vars => RegexAtLine'
<1> SUFFICES ASSUME TypeOK, RegexScansRegex, RegexAtLine, [Next]_vars, pc' = "regex"
             PROVE  RegexAtLine'
  BY DEF RegexAtLine
<1>1. CASE StartRegex
  <2>1. n > 0 /\ n' = n /\ files' = files /\ dwi' = 0 /\ dwl' = 0 /\ lpoff'[0] = 0
    BY <1>1, FixedInputs DEF StartRegex, ResetScan, TypeOK, MXLPS
  <2>2. File' = File /\ Size' = Size /\ File \in Seq(Byte) /\ Size \in Nat
    BY <2>1, Mapped DEF File, Size
  <2> QED
    BY <2>1, <2>2, StartCounted DEF RegexAtLine, CountedAt, LFsBefore
<1>2. CASE Regex
  <2>1. /\ n' = n /\ dwi \in 0..(Size - 1) /\ dwi' \in (dwi + 1)..Size
        /\ dwi' = Size \/ IsBreak(File[dwi'])
        /\ CountedAt(File, dwi', dwl', lpoff'[0])
    BY <1>2, RegexGoes
  <2>2. File' = File /\ Size' = Size
    BY <2>1, FixedInputs DEF File, Size
  <2> QED
    BY <2>1, <2>2 DEF RegexAtLine, CountedAt, LFsBefore
<1>3. CASE UNCHANGED vars
  BY <1>3 DEF RegexAtLine, vars, inputs, scan, File, Size, CountedAt, LFsBefore
<1>4. ASSUME OpenFile \/ StartScan \/ RegexFails \/ Scan \/ EndFind \/ EndFile
      PROVE  FALSE
  BY <1>4 DEF OpenFile, StartScan, RegexFails, Scan, FoundInText, FoundInBinary,
              SkipLine, NextByte, Scanning, ScanFrame, EndFind, EndFile
<1> QED
  BY <1>1, <1>2, <1>3, <1>4 DEF Next
(* A report as ShowLine takes it.                                          *)
ShowArgs == [n : Nat, k : Nat, off : Nat, begin : Nat, line : Nat]

(* Only the scan for a regular expression reports one in the first file.   *)
LEMMA OtherReports ==
  ASSUME TypeOK, FirstOnce, [Next]_vars, ~(Regex /\ n = 1)
  PROVE  \/ shown' = shown
         \/ \E r : shown' = Append(shown, r) /\ ~(r.n = 1 /\ ~Plain(r.k))
<1>1. CASE FoundInText \/ FoundInBinary
  <2>1. \E r : shown' = Append(shown, r) /\ r.n = n /\ r.k = fi
    BY <1>1 DEF FoundInText, FoundInBinary, Show
  <2>2. pc = "scan"
    BY <1>1 DEF FoundInText, FoundInBinary, Scanning
  <2> QED
    BY <2>1, <2>2 DEF FirstOnce
<1>2. CASE Regex
  <2>1. \/ shown' = shown
        \/ \E r : shown' = Append(shown, r) /\ r.n = n
    BY <1>2 DEF Regex, RegexLine, RegexLastLine, Show
  <2> QED
    BY <1>2, <2>1
<1>3. ASSUME \/ OpenFile \/ StartScan \/ StartRegex \/ RegexFails \/ SkipLine
             \/ NextByte \/ EndFind \/ EndFile \/ UNCHANGED vars
      PROVE  shown' = shown
  BY <1>3 DEF OpenFile, StartScan, StartRegex, RegexFails, ResetScan, SkipLine,
              NextByte, EndFind, EndFile, vars, counts
<1> QED
  BY <1>1, <1>2, <1>3 DEF Next, Scan

(* What one more report changes.                                           *)
LEMMA OneMore ==
  ASSUME TypeOK, [Next]_vars, NEW r, shown' = Append(shown, r)
  PROVE  /\ DOMAIN shown' = DOMAIN shown \cup {Len(shown) + 1}
         /\ Len(shown) + 1 \notin DOMAIN shown
         /\ shown'[Len(shown) + 1] = r
         /\ \A i \in DOMAIN shown : shown'[i] = shown[i]
<1>1. shown \in Seq(ShowArgs)
  BY DEF TypeOK, ShowArgs
<1> QED
  <2> HIDE DEF ShowArgs
  <2> QED
    BY <1>1

LEMMA ShownGrows ==
  ASSUME TypeOK, [Next]_vars, NEW r, shown' = Append(shown, r), NEW k, NEW b
  PROVE  MatchShown(k, b)' <=> MatchShown(k, b) \/ (r.n = 1 /\ r.k = k /\ r.off = b)
<1> DEFINE d == Len(shown) + 1
<1>1. /\ DOMAIN shown' = DOMAIN shown \cup {d} /\ shown'[d] = r
      /\ \A i \in DOMAIN shown : shown'[i] = shown[i]
  BY OneMore
<1> HIDE DEF d
<1> QED
  BY <1>1 DEF MatchShown

(* The scan of the first file for a regular expression comes past what     *)
(* matches in the turns of that scan alone.                                *)
LEMMA PastStays ==
  ASSUME TypeOK, AtEnd, FirstOnce, RegexAtLine, [Next]_vars, ~(Regex /\ n = 1),
         NEW k \in DOMAIN finds, ~Plain(k), NEW b, Matches(k, b)
  PROVE  FirstPast(k, b)' <=> FirstPast(k, b)
<1>1. n \in Nat /\ fi \in Nat /\ k \in 1..Len(finds) /\ fi <= Len(finds) /\ Len(finds) \in Nat
  <2>1. finds \in Seq(Find) /\ files \in Seq(Seq(Byte) \ {<<>>})
    BY FilesAssumption, FindListsAssumption DEF TypeOK
  <2> QED
    BY <2>1 DEF TypeOK
<1>2. n' = 1 /\ pc' = "scan" => Plain(fi')
  <2>1. FirstOnce' /\ finds' = finds
    BY NextFirstOnce, FixedInputs
  <2> QED
    BY <2>1 DEF FirstOnce, Plain
<1>3. n = 1 /\ pc = "regex" /\ dwi >= Size => b < dwi
  <2>1. b \in 0..(Len(files[1]) - 1)
    BY DEF Matches, MatchedLines
  <2>2. n = 1 /\ pc = "regex" => dwi \in Nat /\ Size \in Nat /\ Size = Len(files[1])
    BY Mapped DEF TypeOK, Size, File
  <2> QED
    BY <2>1, <2>2
<1>4. b \in Nat
  BY DEF Matches, MatchedLines
<1>5. n = 1 /\ pc = "scan" => Plain(fi)
  BY DEF FirstOnce
<1>6. pc = "regex" /\ pc' = pc /\ n' = n /\ fi' = fi => n # 1 \/ UNCHANGED vars
  BY DEF Next, OpenFile, StartScan, StartRegex, RegexFails, Scan, FoundInText,
     FoundInBinary, SkipLine, NextByte, Scanning, EndFind, EndFile
<1> QED
  BY <1>1, <1>2, <1>3, <1>4, <1>5, <1>6, Moves DEF FirstPast, vars, scan
LEMMA NextMatchesShown ==
  TypeOK /\ AtEnd /\ FirstOnce /\ RegexScansRegex /\ RegexAtLine /\ MatchesShown
    /\ [Next]_vars => MatchesShown'
<1> SUFFICES ASSUME TypeOK, AtEnd, FirstOnce, RegexScansRegex, RegexAtLine,
                    MatchesShown, [Next]_vars,
                    NEW k \in DOMAIN finds, ~Plain(k), NEW b \in Nat
             PROVE  MatchShown(k, b)' <=> Matches(k, b) /\ FirstPast(k, b)'
  BY FixedInputs DEF MatchesShown, Matches, Plain
<1>1. MatchShown(k, b) <=> Matches(k, b) /\ FirstPast(k, b)
  BY DEF MatchesShown
<1>2. CASE ~(Regex /\ n = 1)
  <2>1. Matches(k, b) => (FirstPast(k, b)' <=> FirstPast(k, b))
    BY <1>2, PastStays
  <2>2. MatchShown(k, b)' <=> MatchShown(k, b)
    <3>1. CASE shown' = shown
      BY <3>1 DEF MatchShown
    <3>2. ASSUME NEW r, shown' = Append(shown, r), ~(r.n = 1 /\ ~Plain(r.k))
          PROVE  MatchShown(k, b)' <=> MatchShown(k, b)
      BY <3>2, ShownGrows
    <3> QED
      BY <1>2, <3>1, <3>2, OtherReports
  <2> QED
    BY <1>1, <2>1, <2>2
<1>3. CASE Regex /\ n = 1
  <2>1. /\ fi \in DOMAIN finds /\ pc = "regex" /\ n' = n /\ fi' = fi /\ pc' = pc
        /\ dwi \in 0..(Size - 1) /\ dwi' \in (dwi + 1)..Size
        /\ \A c \in MatchedHere : c <= dwi \/ dwi' <= c
        /\ dwi \in MatchedHere => \E r : shown' = Append(shown, r) /\ ReportsLine(r)
        /\ dwi \notin MatchedHere => shown' = shown
    BY <1>3, RegexGoes
  <2>2. n = 1 /\ MatchedHere = MatchedLines(files[1], finds[fi].text)
    BY <1>3 DEF MatchedHere, File
  <2>3. dwi \in Nat /\ dwi' \in Nat /\ dwi < dwi'
    BY <1>3, <2>1, Mapped
  <2>4. MatchShown(k, b)'
          <=> MatchShown(k, b) \/ (dwi \in MatchedHere /\ k = fi /\ b = dwi)
    <3>1. CASE dwi \in MatchedHere
      <4>1. PICK r : shown' = Append(shown, r) /\ ReportsLine(r)
        BY <2>1, <3>1
      <4> QED
        BY <2>2, <3>1, <4>1, ShownGrows DEF ReportsLine
    <3>2. CASE dwi \notin MatchedHere
      BY <2>1, <3>2 DEF MatchShown
    <3> QED
      BY <3>1, <3>2
  <2>5. CASE k # fi
    BY <1>1, <2>1, <2>2, <2>4, <2>5 DEF FirstPast
  <2>7. ~(fi < fi) /\ ~(n > 1)
    <3>1. fi \in Nat
      BY FindListsAssumption DEF TypeOK
    <3> QED
      BY <2>2, <3>1
  <2>6. CASE k = fi
    <3>1. Matches(k, b) <=> b \in MatchedHere
      BY <2>2, <2>6 DEF Matches
    <3>2. FirstPast(k, b) <=> b < dwi
      BY <2>1, <2>2, <2>6, <2>7 DEF FirstPast
    <3>3. FirstPast(k, b)' <=> b < dwi'
      BY <2>1, <2>2, <2>6, <2>7 DEF FirstPast
    <3>4. b \in MatchedHere => (b < dwi' <=> b < dwi \/ b = dwi)
      BY <2>1, <2>3
    <3> QED
      BY <1>1, <2>4, <2>6, <3>1, <3>2, <3>3, <3>4
  <2> QED
    BY <2>5, <2>6
<1> QED
  BY <1>2, <1>3

LEMMA NextMatchesOnce ==
  TypeOK /\ FirstOnce /\ RegexScansRegex /\ RegexAtLine /\ MatchesShown /\ MatchesOnce
    /\ [Next]_vars => MatchesOnce'
<1> SUFFICES ASSUME TypeOK, FirstOnce, RegexScansRegex, RegexAtLine, MatchesShown,
                    MatchesOnce, [Next]_vars
             PROVE  MatchesOnce'
  OBVIOUS
<1>0. finds' = finds
  BY FixedInputs
<1>1. CASE shown' = shown
  BY <1>0, <1>1 DEF MatchesOnce, Plain
<1>2. ASSUME NEW r, shown' = Append(shown, r),
             r.n = 1 /\ ~Plain(r.k) => ~MatchShown(r.k, r.off)
      PROVE  MatchesOnce'
  <2> DEFINE d == Len(shown) + 1
  <2>1. /\ DOMAIN shown' = DOMAIN shown \cup {d} /\ shown'[d] = r
        /\ \A i \in DOMAIN shown : shown'[i] = shown[i]
    BY <1>2, OneMore
  <2> HIDE DEF d
  <2>2. r.n = 1 /\ ~Plain(r.k) =>
          \A i \in DOMAIN shown : ~(shown[i].n = 1 /\ shown[i].k = r.k /\ shown[i].off = r.off)
    BY <1>2 DEF MatchShown
  <2> QED
    BY <1>0, <2>1, <2>2 DEF MatchesOnce, Plain
<1>3. CASE Regex /\ n = 1
  <2>1. /\ fi \in DOMAIN finds /\ ~Plain(fi) /\ pc = "regex" /\ dwi \in 0..(Size - 1)
        /\ dwi \in MatchedHere => \E r : shown' = Append(shown, r) /\ ReportsLine(r)
        /\ dwi \notin MatchedHere => shown' = shown
    BY <1>3, RegexGoes
  <2>2. ASSUME NEW r, shown' = Append(shown, r), ReportsLine(r)
        PROVE  MatchesOnce'
    <3>1. r.k = fi /\ r.off = dwi /\ dwi \in Nat
      BY <2>1, <2>2 DEF ReportsLine
    <3>2. n \in Nat /\ fi \in Nat
      BY FilesAssumption, FindListsAssumption DEF TypeOK
    <3>3. ~FirstPast(fi, dwi)
      BY <1>3, <2>1, <3>1, <3>2 DEF FirstPast
    <3>4. ~MatchShown(fi, dwi)
      BY <2>1, <3>1, <3>3 DEF MatchesShown
    <3> QED
      BY <1>2, <2>2, <3>1, <3>4
  <2> QED
    BY <1>1, <2>1, <2>2
<1>4. CASE ~(Regex /\ n = 1)
  BY <1>1, <1>2, <1>4, OtherReports
<1> QED
  BY <1>3, <1>4

LEMMA NextMatchesRight ==
  TypeOK /\ FirstOnce /\ RegexScansRegex /\ RegexAtLine /\ MatchesRight
    /\ [Next]_vars => MatchesRight'
<1> SUFFICES ASSUME TypeOK, FirstOnce, RegexScansRegex, RegexAtLine, MatchesRight,
                    [Next]_vars
             PROVE  MatchesRight'
  OBVIOUS
<1>0. finds' = finds /\ files' = files
  BY FixedInputs
<1>1. CASE shown' = shown
  BY <1>0, <1>1 DEF MatchesRight, MatchRight, Plain
<1>2. ASSUME NEW r, shown' = Append(shown, r), MatchRight(r)
      PROVE  MatchesRight'
  <2> DEFINE d == Len(shown) + 1
  <2>1. /\ DOMAIN shown' = DOMAIN shown \cup {d} /\ shown'[d] = r
        /\ \A i \in DOMAIN shown : shown'[i] = shown[i]
    BY <1>2, OneMore
  <2> HIDE DEF d
  <2>2. ASSUME NEW i \in DOMAIN shown'
        PROVE  MatchRight(shown'[i])
    <3>1. shown'[i] = r \/ (i \in DOMAIN shown /\ shown'[i] = shown[i])
      BY <2>1, <2>2
    <3> QED
      BY <1>2, <3>1 DEF MatchesRight
  <2> QED
    BY <1>0, <2>2 DEF MatchesRight, MatchRight, Plain
<1>3. CASE Regex /\ n = 1
  <2>1. /\ n > 0 /\ dwi \in 0..(Size - 1)
        /\ dwi \in MatchedHere => ~IsBreak(File[dwi + 1])
        /\ dwi \in MatchedHere => \E r : shown' = Append(shown, r) /\ ReportsLine(r)
        /\ dwi \notin MatchedHere => shown' = shown
    BY <1>3, RegexGoes
  <2>2. ASSUME NEW r, shown' = Append(shown, r), ReportsLine(r), dwi \in MatchedHere
        PROVE  MatchesRight'
    <3>1. File \in Seq(Byte) /\ Size = Len(File) /\ File = files[1] /\ n = 1
      BY <1>3, <2>1, Mapped DEF Size, File
    <3>2. CountedAt(File, dwi, dwl, lpoff[0])
      BY <1>3, RegexGoes DEF RegexAtLine
    <3>3. lpoff[0] \in Nat
      BY DEF TypeOK, MXLPS
    <3>4. NoLoneCR(File) => dwi \in ShownText(File, lpoff[0])
      BY <2>1, <2>2, <3>1, <3>2, <3>3, LineHolds
    <3>5. dwl = Cardinality(LFsBefore(File, dwi))
      BY <3>2 DEF CountedAt
    <3>6. MatchRight(r)
      BY <2>2, <3>1, <3>4, <3>5 DEF MatchRight, ReportsLine
    <3> QED
      BY <1>2, <2>2, <3>6
  <2> QED
    BY <1>1, <2>1, <2>2
<1>4. CASE ~(Regex /\ n = 1)
  BY <1>1, <1>2, <1>4, OtherReports DEF MatchRight
<1> QED
  BY <1>3, <1>4

(* When the first file has been scanned for a pattern, what is reported    *)
(* of it is what the property says.                                        *)
LEMMA MatchesReported ==
  TypeOK /\ AtEnd /\ MatchesShown /\ MatchesOnce /\ MatchesRight => RegexLinesReported
<1> SUFFICES ASSUME TypeOK, AtEnd, MatchesShown, MatchesOnce, MatchesRight,
                    NEW k \in DOMAIN finds, finds[k].regex, n > 0, Scanned(1, k),
                    NEW of, of = {i \in DOMAIN shown : shown[i].n = 1 /\ shown[i].k = k}
             PROVE  /\ {shown[i].off : i \in of}
                         = MatchedLines(files[1], finds[k].text)
                    /\ Cardinality(of) = Cardinality({shown[i].off : i \in of})
                    /\ \A i \in of :
                         LET r == shown[i] IN
                           files[1][EndOfLine(files[1], r.off) + 1] = CR
                             /\ NoLoneCR(files[1])
                             => /\ r.off \in ShownText(files[1], r.begin)
                                /\ r.line = Cardinality(LFsBefore(files[1], r.off))
  BY DEF RegexLinesReported
<1>1. n \in Nat /\ fi \in Nat
  BY FilesAssumption, FindListsAssumption DEF TypeOK
<1>2. shown \in Seq(ShowArgs)
  BY DEF TypeOK, ShowArgs
<1>3. DOMAIN shown = 1..Len(shown) /\ Len(shown) \in Nat
  BY <1>2
<1>4. \A i \in DOMAIN shown : shown[i].off \in Nat
  <2>1. \A i \in DOMAIN shown : shown[i] \in ShowArgs
    BY <1>2, <1>3
  <2> QED
    BY <2>1 DEF ShowArgs
<1>5. ~Plain(k)
  BY DEF Plain
<1>6. \A b \in Nat : FirstPast(k, b)
  BY <1>1 DEF FirstPast, Scanned
<1>7. \A b : b \in {shown[i].off : i \in of}
               <=> b \in MatchedLines(files[1], finds[k].text)
  <2> TAKE b
  <2>1. b \in {shown[i].off : i \in of} <=> b \in Nat /\ MatchShown(k, b)
    BY <1>4 DEF MatchShown
  <2>2. b \in Nat => (MatchShown(k, b) <=> Matches(k, b))
    BY <1>5, <1>6 DEF MatchesShown
  <2>3. Matches(k, b) <=> b \in MatchedLines(files[1], finds[k].text)
    BY <1>5 DEF Matches
  <2>4. b \in MatchedLines(files[1], finds[k].text) => b \in Nat
    BY DEF MatchedLines
  <2> QED
    BY <2>1, <2>2, <2>3, <2>4
<1>8. Cardinality(of) = Cardinality({shown[i].off : i \in of})
  <2>1. IsFiniteSet(of)
    <3>1. of \in SUBSET Nat /\ \A i \in of : i <= Len(shown)
      BY <1>3
    <3> QED
      BY <1>3, <3>1, CountGrows
  <2> DEFINE f == [i \in of |-> shown[i].off]
  <2>2. f \in [of -> Nat]
    BY <1>4
  <2>3. \A i, j \in of : f[i] = f[j] => i = j
    BY <1>5 DEF MatchesOnce
  <2>4. {f[i] : i \in of} = {shown[i].off : i \in of}
    OBVIOUS
  <2> HIDE DEF f
  <2>5. Cardinality(of) = Cardinality({f[i] : i \in of})
    BY <2>1, <2>2, <2>3, AsManyValues
  <2> QED
    BY <2>4, <2>5
<1>9. ASSUME NEW i \in of
      PROVE  LET r == shown[i] IN
               files[1][EndOfLine(files[1], r.off) + 1] = CR /\ NoLoneCR(files[1])
                 => /\ r.off \in ShownText(files[1], r.begin)
                    /\ r.line = Cardinality(LFsBefore(files[1], r.off))
  <2>1. i \in DOMAIN shown /\ MatchRight(shown[i])
    BY DEF MatchesRight
  <2> QED
    BY <1>5, <2>1 DEF MatchRight
<1> QED
  BY <1>7, <1>8, <1>9

(* Fa4Find.c:815-901: whatever the files and the matcher, in the first     *)
(* file the search reports of each pattern the ended lines that it matches,*)
(* all of them and each once, and shows the line that a CR LF ends with    *)
(* its own number.                                                         *)
THEOREM RegexReports == Spec => []RegexLinesReported
<1> DEFINE Inv == /\ TypeOK /\ AtEnd /\ FirstOnce /\ RegexScansRegex /\ RegexAtLine
                  /\ MatchesShown /\ MatchesOnce /\ MatchesRight
<1>1. Init => Inv
  <2> SUFFICES ASSUME Init PROVE Inv
    OBVIOUS
  <2>1. TypeOK
    BY InitType
  <2>2. AtEnd /\ FirstOnce /\ RegexScansRegex /\ RegexAtLine /\ MatchesOnce /\ MatchesRight
    BY DEF Init, AtEnd, FirstOnce, RegexScansRegex, RegexAtLine, MatchesOnce, MatchesRight
  <2>3. MatchesShown
    BY DEF Init, MatchesShown, MatchShown, FirstPast
  <2> QED
    BY <2>1, <2>2, <2>3
<1>2. Inv /\ [Next]_vars => Inv'
  BY NextType, NextAtEnd, NextFirstOnce, NextRegexScans, NextRegexAtLine,
     NextMatchesShown, NextMatchesOnce, NextMatchesRight
<1>3. Inv => RegexLinesReported
  BY MatchesReported
<1> QED
  BY <1>1, <1>2, <1>3, PTL DEF Spec

-----------------------------------------------------------------------------
(* FullCompare.                                                            *)

(* The verdict is that of the compare at the offset.                       *)
VerdictStands == verdict # "none" => verdict = Verdict(opts, lpf, dwoff, given)

LEMMA CompareInitHolds ==
  ASSUME CompareInit
  PROVE  CompareTypeOK /\ VerdictStands
BY DEF CompareInit, CompareTypeOK, VerdictStands

LEMMA CompareNextHolds ==
  ASSUME CompareTypeOK, VerdictStands, [CompareNext]_compareVars
  PROVE  CompareTypeOK' /\ VerdictStands'
<1>1. CASE Compare
  <2>1. Verdict(opts, lpf, dwoff, given) \in {"found", "no"}
    BY DEF Verdict
  <2> QED
    BY <1>1, <2>1 DEF Compare, CompareTypeOK, VerdictStands
<1>2. CASE Advance
  <2>1. lpf \in Seq(Byte) /\ Len(lpf) \in Nat
    BY FileBytesAssumption DEF CompareTypeOK
  <2>2. dwoff + 1 \in 0..(Len(lpf) - 1)
    BY <1>2, <2>1 DEF Advance, CompareTypeOK
  <2> QED
    BY <1>2, <2>2 DEF Advance, CompareTypeOK, VerdictStands
<1>3. CASE UNCHANGED compareVars
  BY <1>3 DEF compareVars, CompareTypeOK, VerdictStands
<1> QED
  BY <1>1, <1>2, <1>3 DEF CompareNext

(* What the inputs of a compare are.                                       *)
LEMMA ComparedInputs ==
  ASSUME CompareTypeOK, VerdictStands
  PROVE  /\ lpf \in Seq(Byte) /\ given \in Seq(Byte \ {0}) \ {<<>>} /\ opts \in CompOptions
         /\ dwoff \in 0..(Len(lpf) - 1) /\ Len(given) \in Nat
         /\ opts.spacey \in BOOLEAN /\ opts.parity \in BOOLEAN
         /\ verdict # "none" =>
              (verdict = "found" <=> FoundAt(opts, lpf, dwoff, Len(lpf), Move2Find(opts, given)))
<1>1. lpf \in Seq(Byte) /\ given \in Seq(Byte \ {0}) \ {<<>>} /\ opts \in CompOptions
  BY FileBytesAssumption, FindsAssumption, OptionsAssumption DEF CompareTypeOK
<1>2. opts.spacey \in BOOLEAN /\ opts.parity \in BOOLEAN
  BY <1>1 DEF CompOptions
<1>3. verdict # "none" =>
        (verdict = "found" <=> FoundAt(opts, lpf, dwoff, Len(lpf), Move2Find(opts, given)))
  BY DEF VerdictStands, Verdict
<1> QED
  BY <1>1, <1>2, <1>3 DEF CompareTypeOK

(* Fa4Comp.c:74-200: whatever the file, the find, the offset and the mix   *)
(* of switches, a find that is reported stands there.                      *)
THEOREM ComparesReal == CompareSpec => []FindsAreReal
<1>1. CompareTypeOK /\ VerdictStands => FindsAreReal
  <2> SUFFICES ASSUME CompareTypeOK, VerdictStands, verdict = "found",
                      Len(given) >= 2 \/ ~opts.whole
               PROVE  IF opts.spacey
                      THEN (opts.parity => SevenBit(lpf)) => StandsSpacey(opts, lpf, dwoff, given)
                      ELSE /\ FindStands(opts, lpf, dwoff, given)
                           /\ FindAlone(opts, lpf, dwoff, given)
    BY DEF FindsAreReal
  <2>1. FoundAt(opts, lpf, dwoff, Len(lpf), Move2Find(opts, given))
    BY ComparedInputs
  <2>2. CASE opts.spacey
    <3> SUFFICES ASSUME opts.parity => SevenBit(lpf)
                 PROVE  StandsSpacey(opts, lpf, dwoff, given)
      BY <2>2
    <3> QED
      BY <2>1, <2>2, ComparedInputs, FoundStandsSpacey
  <2>3. CASE ~opts.spacey
    BY <2>1, <2>3, ComparedInputs, FoundStands
  <2> QED
    BY <2>2, <2>3
<1> QED
  BY <1>1, CompareInitHolds, CompareNextHolds, PTL DEF CompareSpec

(* Fa4Comp.c:74-200: and a find of two or more 7-bit bytes that stands     *)
(* before the last byte of the file is reported, without -i, and without   *)
(* -p unless -c is given too.                                              *)
THEOREM ComparesFound == CompareSpec => []RealFindsFound
<1>1. CompareTypeOK /\ VerdictStands => RealFindsFound
  <2> SUFFICES ASSUME CompareTypeOK, VerdictStands, verdict # "none", ~opts.spacey,
                      Len(given) >= 2, Fits, SevenBit(given), FirstByteFolds,
                      FindStands(opts, lpf, dwoff, given), FindAlone(opts, lpf, dwoff, given)
               PROVE  verdict = "found"
    BY DEF RealFindsFound
  <2>1. FoundAt(opts, lpf, dwoff, Len(lpf), Move2Find(opts, given))
    BY ComparedInputs, StandsFound DEF Fits, SevenBit, FirstByteFolds
  <2> QED
    BY <2>1, ComparedInputs
<1> QED
  BY <1>1, CompareInitHolds, CompareNextHolds, PTL DEF CompareSpec
=============================================================================
