--------------------------- MODULE FindSkip_proofs ---------------------------
(***************************************************************************)
(* Proofs about FindSkip, for every file, find and mix of switches: the    *)
(* types, that the lines shown are numbered right, and that they are those *)
(* in which the find stands in code.  Find_Skip counts lines in four       *)
(* places; the invariant is that together they have counted, at the head   *)
(* of each turn, just the LFs behind the scan.  What it knows of comments  *)
(* is the byte before (and the quote it is in); the invariant is that this *)
(* is the mode of the machine that reads every byte, or an LF comes next.  *)
(***************************************************************************)
EXTENDS FindSkip, FA4Lemmas

-----------------------------------------------------------------------------
(* The types.                                                              *)

(* What the type invariant says of the inputs.                             *)
LEMMA Given ==
  ASSUME TypeOK
  PROVE  /\ file \in Seq(Byte) /\ Size = Len(file) /\ Size \in Nat \ {0}
         /\ find \in Seq(Byte \ {0, LF, CR}) \ {<<>>} /\ sw \in Switch
         /\ Len(ThisFind) \in Nat \ {0} /\ ~IsBreak(ThisFind[1])
<1>1. /\ file \in Seq(Byte) \ {<<>>} /\ sw \in Switch
      /\ find \in Seq(Byte \ {0, LF, CR}) \ {<<>>}
  BY InputsAssumption DEF TypeOK
<1> QED
  BY <1>1, Folded DEF Size, ThisFind

(* The bytes in hand are bytes.                                            *)
LEMMA AtType ==
  ASSUME TypeOK, NEW o \in Nat, o < Size
  PROVE  At(o) \in Byte /\ At(o) = file[o + 1]
BY Given DEF At

LEMMA ChrType ==
  ASSUME TypeOK, Scanning
  PROVE  /\ Chr \in Byte
         /\ ~sw.parity => /\ Chr = LF <=> At(dwi) = LF
                          /\ IsBreak(Chr) <=> IsBreak(At(dwi))
<1>1. At(dwi) \in Byte
  BY AtType DEF Scanning, TypeOK
<1>2. ToUpper(At(dwi)) \in Byte
  BY <1>1 DEF ToUpper, Byte
<1>3. \A c \in Byte : c % 128 \in Byte
  BY DEF Byte
<1>4. Chr \in Byte
  BY <1>1, <1>2, <1>3 DEF Chr, GetChr, Mask
<1>5. ~sw.parity => (IsBreak(Chr) <=> IsBreak(At(dwi))) /\ (Chr = LF <=> At(dwi) = LF)
  BY <1>1 DEF Chr, GetChr, Mask, ToUpper, Byte, IsBreak, CR, LF
<1> QED
  BY <1>4, <1>5

LEMMA EndTurnType ==
  ASSUME TypeOK, NEW d \in Byte, NEW at \in Nat, NEW quoted \in BOOLEAN,
         EndTurn(d, at, quoted)
  PROVE  /\ dwi' \in Nat /\ dwl' \in Nat /\ lpoff' \in [0..MXLPS -> Nat]
         /\ pd' \in Byte /\ inQuot' \in BOOLEAN
<1>1. lpoff \in [0..MXLPS -> Nat] /\ dwl \in Nat
  BY DEF TypeOK
<1>2. IncLine(at, lpoff) \in [0..MXLPS -> Nat]
  BY <1>1, IncLineType
<1>3. inQuot' = (quoted /\ d # LF)
  BY DEF EndTurn
<1>4. inQuot' \in BOOLEAN
  BY <1>3
<1> QED
  BY <1>1, <1>2, <1>4 DEF EndTurn

LEMMA ShowType ==
  ASSUME TypeOK, NEW at \in Nat, NEW offs \in [0..MXLPS -> Nat], NEW line \in Nat,
         Show(at, offs, line)
  PROVE  shown' \in Seq([off : Nat, begin : Nat, line : Nat])
<1>1. [off |-> at, begin |-> offs[0], line |-> line] \in [off : Nat, begin : Nat, line : Nat]
  BY DEF MXLPS
<1>2. shown \in Seq([off : Nat, begin : Nat, line : Nat])
  BY DEF TypeOK
<1> QED
  BY <1>1, <1>2 DEF Show

(* The byte in hand at the end of a line passed over, or of the file.      *)
LEMMA LineEndType ==
  ASSUME TypeOK, NEW at \in Nat, at < Size
  PROVE  LET e == EndOfLine(file, at + 1)
         IN  /\ e \in (at + 1)..Size
             /\ e < Size => At(e) \in Byte /\ IsBreak(At(e))
             /\ file[Size] \in Byte
             /\ \A j \in (at + 1)..(e - 1) : ~IsBreak(file[j + 1])
<1> DEFINE e == EndOfLine(file, at + 1)
<1>1. at + 1 \in 0..Len(file)
  BY Given
<1>2. /\ e \in (at + 1)..Size
      /\ e = Size \/ IsBreak(file[e + 1])
      /\ \A j \in (at + 1)..(e - 1) : ~IsBreak(file[j + 1])
  BY <1>1, Given, EndOfLineIs
<1>3. file[Size] \in Byte
  BY Given
<1> HIDE DEF e
<1>4. e < Size => At(e) \in Byte /\ At(e) = file[e + 1]
  BY <1>2, AtType
<1> QED
  BY <1>2, <1>3, <1>4 DEF e

LEMMA CompareAtType ==
  ASSUME TypeOK, Scanning, NEW c \in Byte, NEW at \in dwi..Size,
         NEW quoted \in BOOLEAN, CompareAt(c, at, quoted)
  PROVE  /\ dwi' \in Nat /\ dwl' \in Nat /\ lpoff' \in [0..MXLPS -> Nat]
         /\ pd' \in Byte /\ inQuot' \in BOOLEAN
         /\ shown' \in Seq([off : Nat, begin : Nat, line : Nat])
<1>1. at \in Nat /\ at <= Size /\ Size \in Nat /\ Len(ThisFind) \in Nat
  BY Given DEF TypeOK
<1>2. lpoff \in [0..MXLPS -> Nat] /\ dwl \in Nat
      /\ shown \in Seq([off : Nat, begin : Nat, line : Nat])
  BY DEF TypeOK
<1>3. CASE ~Hits(c, at)
  BY <1>1, <1>2, <1>3, EndTurnType DEF CompareAt
<1>4. CASE Hits(c, at)
  <2>1. Show(at, lpoff, dwl)
    BY <1>4 DEF CompareAt
  <2>2. shown' \in Seq([off : Nat, begin : Nat, line : Nat])
    BY <1>1, <1>2, <2>1, ShowType
  <2>3. CASE sw.bin
    <3>1. EndTurn(c, at + Len(ThisFind), quoted) /\ at + Len(ThisFind) \in Nat
      BY <1>1, <1>4, <2>3 DEF CompareAt
    <3> QED
      BY <2>2, <3>1, EndTurnType
  <2>4. CASE ~sw.bin
    <3> DEFINE e == IF at < Size THEN EndOfLine(file, at + 1) ELSE at + 1
               d == IF at + 1 >= Size THEN c ELSE IF e < Size THEN At(e) ELSE file[Size]
    <3>1. EndTurn(d, e, quoted)
      BY <1>4, <2>4 DEF CompareAt
    <3>2. e \in Nat /\ d \in Byte
      <4>1. CASE at < Size
        BY <1>1, <4>1, LineEndType
      <4>2. CASE ~(at < Size)
        BY <1>1, <4>2
      <4> QED
        BY <4>1, <4>2
    <3> HIDE DEF e, d
    <3> QED
      BY <2>2, <3>1, <3>2, EndTurnType
  <2> QED
    BY <2>3, <2>4
<1> QED
  BY <1>3, <1>4

(* The slash that closes a comment exists, or the end of the file does.    *)
LEMMA BlockEndIs ==
  ASSUME TypeOK, Scanning
  PROVE  /\ BlockEnd \in (dwi + 1)..Size
         /\ BlockEnd < Size =>
              At(BlockEnd) = SLASH /\ At(BlockEnd - 1) = STAR /\ BlockEnd - 1 > dwi
         /\ \A j \in (dwi + 2)..(BlockEnd - 1) : ~(At(j) = SLASH /\ At(j - 1) = STAR)
<1>1. dwi \in Nat /\ Size \in Nat /\ dwi < Size
  BY Given DEF Scanning, TypeOK
<1> DEFINE Stop == {e \in (dwi + 1)..Size :
                      e = Size \/ (At(e) = SLASH /\ At(e - 1) = STAR /\ e - 1 > dwi)}
<1>2. Stop \in SUBSET Nat /\ Size \in Stop
  BY <1>1
<1>3. PICK m \in Stop : \A s \in Stop : m <= s
  <2> HIDE DEF Stop
  <2> QED
    BY <1>2, Least
<1>4. ASSUME NEW j \in (dwi + 2)..(m - 1), At(j) = SLASH /\ At(j - 1) = STAR
      PROVE  FALSE
  <2>1. j \in Stop
    BY <1>1, <1>3, <1>4
  <2> QED
    BY <1>1, <1>3, <1>4, <2>1
<1>5. \E e \in (dwi + 1)..Size :
        /\ e = Size \/ (At(e) = SLASH /\ At(e - 1) = STAR /\ e - 1 > dwi)
        /\ \A j \in (dwi + 2)..(e - 1) : ~(At(j) = SLASH /\ At(j - 1) = STAR)
  BY <1>3, <1>4
<1>6. /\ BlockEnd \in (dwi + 1)..Size
      /\ BlockEnd = Size \/ (At(BlockEnd) = SLASH /\ At(BlockEnd - 1) = STAR /\ BlockEnd - 1 > dwi)
      /\ \A j \in (dwi + 2)..(BlockEnd - 1) : ~(At(j) = SLASH /\ At(j - 1) = STAR)
  <2> DEFINE P(e) == /\ e = Size \/ (At(e) = SLASH /\ At(e - 1) = STAR /\ e - 1 > dwi)
                     /\ \A j \in (dwi + 2)..(e - 1) : ~(At(j) = SLASH /\ At(j - 1) = STAR)
  <2>1. BlockEnd = CHOOSE e \in (dwi + 1)..Size : P(e)
    BY DEF BlockEnd
  <2>2. \E e \in (dwi + 1)..Size : P(e)
    BY <1>5
  <2>3. BlockEnd \in (dwi + 1)..Size /\ P(BlockEnd)
    <3> HIDE DEF P
    <3> QED
      BY <2>1, <2>2
  <2> QED
    BY <2>3
<1> QED
  BY <1>1, <1>6

(* The lines that a comment counts.                                        *)
LEMMA BlockLines ==
  ASSUME TypeOK, Scanning, NEW e \in (dwi + 1)..Size
  PROVE  LET lfs == LFsIn(dwi + 1, e)
         IN  /\ lfs \in SUBSET Nat /\ IsFiniteSet(lfs) /\ Cardinality(lfs) \in Nat
             /\ \A i \in lfs : i <= Size
             /\ IncLines(lfs, lpoff) \in [0..MXLPS -> Nat]
             /\ lfs = {} => IncLines(lfs, lpoff) = lpoff
             /\ lfs # {} => IncLines(lfs, lpoff)[0] \in lfs
                            /\ \A i \in lfs : i <= IncLines(lfs, lpoff)[0]
<1> DEFINE lfs == LFsIn(dwi + 1, e)
           rest == lfs \ {Top(lfs)}
<1>1. dwi \in Nat /\ Size \in Nat /\ lpoff \in [0..MXLPS -> Nat]
  BY Given DEF TypeOK
<1>2. lfs \in SUBSET Nat /\ \A i \in lfs : i <= Size
  BY <1>1 DEF LFsIn
<1>3. rest \in SUBSET Nat /\ \A i \in rest : i <= Size
  BY <1>2
<1>4. IncLines(lfs, lpoff) = IF lfs = {} THEN lpoff
                             ELSE IncLine(Top(lfs), IF rest = {} THEN lpoff
                                                    ELSE IncLine(Top(rest), lpoff))
  BY DEF IncLines
<1> HIDE DEF lfs, rest
<1>5. IsFiniteSet(lfs) /\ Cardinality(lfs) \in Nat
  BY <1>1, <1>2, CountGrows
<1>6. lfs # {} => Top(lfs) \in lfs /\ \A i \in lfs : i <= Top(lfs)
  BY <1>1, <1>2, TopIs
<1>7. rest # {} => Top(rest) \in Nat
  BY <1>1, <1>3, TopIs
<1>8. (IF rest = {} THEN lpoff ELSE IncLine(Top(rest), lpoff)) \in [0..MXLPS -> Nat]
  BY <1>1, <1>7, IncLineType
<1> DEFINE offs == IF rest = {} THEN lpoff ELSE IncLine(Top(rest), lpoff)
<1>9. lfs # {} => /\ IncLines(lfs, lpoff) \in [0..MXLPS -> Nat]
                  /\ IncLines(lfs, lpoff)[0] = Top(lfs)
  <2>1. offs \in [0..MXLPS -> Nat]
    BY <1>8
  <2>2. lfs # {} => IncLines(lfs, lpoff) = IncLine(Top(lfs), offs)
    BY <1>4
  <2>3. lfs # {} => Top(lfs) \in Nat
    BY <1>2, <1>6
  <2> HIDE DEF offs
  <2> QED
    BY <2>1, <2>2, <2>3, IncLineType
<1>10. lfs = {} => IncLines(lfs, lpoff) = lpoff
  BY <1>4
<1> QED
  BY <1>1, <1>2, <1>5, <1>6, <1>9, <1>10 DEF lfs

LEMMA InitType == Init => TypeOK
<1> SUFFICES ASSUME Init PROVE TypeOK
  OBVIOUS
<1>1. [file |-> file, find |-> find, sw |-> sw] \in Inputs
  <2>1. PICK i \in Inputs : file = i.file /\ find = i.find /\ sw = i.sw
    BY DEF Init
  <2>2. i = [file |-> i.file, find |-> i.find, sw |-> i.sw]
    BY InputsAssumption
  <2> QED
    BY <2>1, <2>2
<1>2. lpoff \in [0..MXLPS -> Nat]
  BY DEF Init
<1>3. shown \in Seq([off : Nat, begin : Nat, line : Nat])
  BY DEF Init
<1>4. dwi \in Nat /\ dwl \in Nat /\ pd \in Byte
  BY DEF Init, Byte
<1>5. inQuot \in BOOLEAN
  BY DEF Init
<1>6. qc \in Quotes \cup {0}
  BY DEF Init
<1> QED
  BY <1>1, <1>2, <1>3, <1>4, <1>5, <1>6 DEF TypeOK

LEMMA NextType == TypeOK /\ [Next]_vars => TypeOK'
<1> SUFFICES ASSUME TypeOK, [Next]_vars PROVE TypeOK'
  OBVIOUS
<1> USE DEF inputs
<1>1. CASE BlockComment
  <2>1. Scanning /\ CountBlock(BlockEnd) /\ dwi' = BlockEnd + 1 /\ pd' = 0
        /\ UNCHANGED <<inputs, inQuot, qc, shown>>
    BY <1>1 DEF BlockComment
  <2>2. BlockEnd \in (dwi + 1)..Size /\ dwi \in Nat /\ dwl \in Nat
    BY <2>1, BlockEndIs DEF TypeOK
  <2> DEFINE lfs == LFsIn(dwi + 1, BlockEnd)
  <2>3. Cardinality(lfs) \in Nat /\ IncLines(lfs, lpoff) \in [0..MXLPS -> Nat]
    BY <2>1, <2>2, BlockLines
  <2>4. dwl' = dwl + Cardinality(lfs) /\ lpoff' = IncLines(lfs, lpoff)
    BY <2>1 DEF CountBlock
  <2> HIDE DEF lfs
  <2> QED
    BY <2>1, <2>2, <2>3, <2>4 DEF TypeOK, Byte
<1>2. CASE BlockCommentAtEnd
  <2> DEFINE d == IF dwi + 1 < Size THEN file[Size] ELSE Chr
             lfs == LFsIn(dwi + 1, Size)
             offs == IncLines(lfs, lpoff)
             line == dwl + Cardinality(lfs)
  <2>1. /\ Scanning /\ dwi' = Size + 1 /\ UNCHANGED <<inputs, inQuot, qc>>
        /\ IF Hits(d, Size) THEN Show(Size, offs, line) ELSE UNCHANGED shown
        /\ dwl' = line + (IF d = LF THEN 1 ELSE 0)
        /\ lpoff' = IF d = LF THEN IncLine(Size, offs) ELSE offs
        /\ pd' = d
    BY <1>2 DEF BlockCommentAtEnd
  <2>2. Size \in (dwi + 1)..Size /\ Size \in Nat /\ dwi \in Nat /\ dwl \in Nat
    BY <2>1, Given DEF Scanning, TypeOK
  <2>3. Cardinality(lfs) \in Nat /\ offs \in [0..MXLPS -> Nat]
    BY <2>1, <2>2, BlockLines
  <2>4. d \in Byte
    BY <2>1, Given, ChrType
  <2> HIDE DEF d, lfs, offs
  <2>5. line \in Nat
    BY <2>2, <2>3
  <2> HIDE DEF line
  <2>6. shown' \in Seq([off : Nat, begin : Nat, line : Nat])
    <3>1. CASE Hits(d, Size)
      BY <2>1, <2>2, <2>3, <2>5, <3>1, ShowType
    <3>2. CASE ~Hits(d, Size)
      BY <2>1, <3>2 DEF TypeOK
    <3> QED
      BY <3>1, <3>2
  <2>7. lpoff' \in [0..MXLPS -> Nat]
    BY <2>1, <2>2, <2>3, IncLineType
  <2> QED
    BY <2>1, <2>2, <2>4, <2>5, <2>6, <2>7 DEF TypeOK
<1>3. ASSUME NEW c \in Byte, NEW at \in dwi..Size, NEW quoted \in BOOLEAN,
             Scanning, CompareAt(c, at, quoted), UNCHANGED inputs,
             qc' \in Quotes \cup {0}
      PROVE  TypeOK'
  BY <1>3, CompareAtType DEF TypeOK
<1>4. inQuot \in BOOLEAN /\ qc \in Quotes \cup {0}
  BY DEF TypeOK
<1>5. ASSUME Scanning PROVE dwi \in dwi..Size /\ dwi \in Nat /\ Size \in Nat
  BY <1>5, Given DEF Scanning, TypeOK
<1>6. CASE LineComment
  <2> DEFINE e == EndOfLine(file, dwi + 1)
             d == IF dwi + 1 = Size THEN Chr
                  ELSE IF e < Size THEN At(e) ELSE file[Size]
  <2>1. Scanning /\ CompareAt(d, e, inQuot) /\ UNCHANGED <<inputs, qc>>
    BY <1>6 DEF LineComment
  <2>2. e \in dwi..Size /\ d \in Byte
    BY <1>5, <2>1, LineEndType, ChrType DEF Scanning
  <2> HIDE DEF d, e
  <2> QED
    BY <1>3, <1>4, <2>1, <2>2
<1>7. CASE Quote
  <2> DEFINE quoted == IF inQuot THEN Chr # qc ELSE TRUE
  <2>1. /\ Scanning /\ Chr \in Quotes /\ CompareAt(Chr, dwi, quoted)
        /\ qc' = (IF inQuot THEN qc ELSE Chr) /\ UNCHANGED inputs
    BY <1>7 DEF Quote
  <2>2. quoted \in BOOLEAN
    BY <1>4
  <2> HIDE DEF quoted
  <2> QED
    BY <1>3, <1>4, <1>5, <2>1, <2>2, ChrType
<1>8. CASE Code
  <2>1. Scanning /\ CompareAt(Chr, dwi, inQuot) /\ UNCHANGED <<inputs, qc>>
    BY <1>8 DEF Code
  <2> QED
    BY <1>3, <1>4, <1>5, <2>1, ChrType
<1>9. CASE UNCHANGED vars
  BY <1>9 DEF vars, TypeOK
<1> QED
  BY <1>1, <1>2, <1>6, <1>7, <1>8, <1>9 DEF Next

(* Fa4Find.c:1067-1229: the variables of Find_Skip and Find_Skip_Perl keep *)
(* their types, whatever the files, the finds and the switches.            *)
THEOREM TypeCorrect == Spec => []TypeOK
<1>1. Init => TypeOK
  BY InitType
<1>2. TypeOK /\ [Next]_vars => TypeOK'
  BY NextType
<1> QED
  BY <1>1, <1>2, PTL DEF Spec

-----------------------------------------------------------------------------
(* The count of lines.                                                     *)

(* At the head of a turn the count and the last line offset are those of   *)
(* the LFs behind the scan.                                                *)
LinesKept == Text /\ dwi < Size => CountedAt(file, dwi, dwl, lpoff[0])

(* The end of a turn with the byte at the offset e in hand.                *)
LEMMA TurnCounts ==
  ASSUME TypeOK, CountedAt(file, dwi, dwl, lpoff[0]),
         NEW d \in Byte, NEW e \in dwi..Size, NEW quoted, EndTurn(d, e, quoted),
         \A j \in dwi..(e - 1) : file[j + 1] # LF,
         e < Size => (d = LF <=> file[e + 1] = LF)
  PROVE  dwi' < Size => CountedAt(file, dwi', dwl', lpoff'[0])
<1> SUFFICES ASSUME dwi' < Size
             PROVE  CountedAt(file, dwi', dwl', lpoff'[0])
  OBVIOUS
<1>1. /\ file \in Seq(Byte) /\ Size = Len(file) /\ Size \in Nat
      /\ dwi \in Nat /\ dwl \in Nat /\ lpoff \in [0..MXLPS -> Nat]
      /\ lpoff[0] \in Nat
  BY Given DEF TypeOK, MXLPS
<1>2. dwi' = e + 1 /\ e < Size /\ e \in Nat
  BY <1>1 DEF EndTurn
<1>3. CASE d = LF
  <2>1. dwl' = dwl + 1 /\ lpoff' = IncLine(e, lpoff) /\ file[e + 1] = LF
    BY <1>2, <1>3 DEF EndTurn
  <2>2. lpoff'[0] = e
    BY <1>1, <1>2, <2>1, IncLineType
  <2>3. e \in dwi..Len(file) /\ e < Len(file)
    BY <1>1, <1>2
  <2>4. CountedAt(file, e + 1, dwl + 1, e)
    BY <1>1, <2>1, <2>3, CountStep
  <2> QED
    BY <1>2, <2>1, <2>2, <2>4
<1>4. CASE d # LF
  <2>1. dwl' = dwl /\ lpoff' = lpoff /\ file[e + 1] # LF
    BY <1>2, <1>4 DEF EndTurn
  <2>2. e \in dwi..Len(file)
    BY <1>1, <1>2
  <2>3. CountedAt(file, e + 1, dwl, lpoff[0])
    BY <1>1, <2>1, <2>2, CountStep
  <2> QED
    BY <1>2, <2>1, <2>3
<1> QED
  BY <1>3, <1>4

(* A find shown where the count is right.                                  *)
LEMMA ShowRight ==
  ASSUME TypeOK, ShownLineRight, UNCHANGED inputs,
         NEW at \in Nat, NEW offs \in [0..MXLPS -> Nat], NEW line \in Nat,
         Show(at, offs, line),
         Text /\ NoLoneCR(file) /\ at < Size =>
           /\ at \in ShownText(file, offs[0])
           /\ line = Cardinality(LFsBefore(file, at))
  PROVE  ShownLineRight'
<1> DEFINE Right(r) == Text /\ NoLoneCR(file) /\ r.off < Size =>
                         /\ r.off \in ShownText(file, r.begin)
                         /\ r.line = Cardinality(LFsBefore(file, r.off))
           rec == [off |-> at, begin |-> offs[0], line |-> line]
<1>1. shown \in Seq([off : Nat, begin : Nat, line : Nat])
  BY DEF TypeOK
<1>2. rec \in [off : Nat, begin : Nat, line : Nat]
  BY DEF MXLPS
<1>3. Right(rec)
  OBVIOUS
<1>4. \A i \in DOMAIN shown : Right(shown[i])
  BY DEF ShownLineRight
<1>5. shown' = Append(shown, rec)
  BY DEF Show
<1> HIDE DEF Right, rec
<1>6. \A i \in DOMAIN shown' : Right(shown'[i])
  BY <1>1, <1>2, <1>3, <1>4, <1>5
<1>7. file' = file /\ Text' = Text /\ Size' = Size
  BY DEF inputs, Text, Size
<1>8. ASSUME NEW i \in DOMAIN shown'
      PROVE  LET r == shown'[i] IN
               Text' /\ NoLoneCR(file') /\ r.off < Size' =>
                 /\ r.off \in ShownText(file', r.begin)
                 /\ r.line = Cardinality(LFsBefore(file', r.off))
  BY <1>6, <1>7 DEF Right
<1> QED
  BY <1>8 DEF ShownLineRight

(* Nothing shown, nothing wrong.                                           *)
LEMMA NoneShown ==
  ASSUME ShownLineRight, UNCHANGED <<file, sw, shown>>
  PROVE  ShownLineRight'
BY DEF ShownLineRight, Text, Size

(* The compare at the offset at and what follows it in the turn: the find  *)
(* begins with no end of line, so it stands where the scan does, or at the *)
(* end of the file, but not at the end of a line that was passed over.     *)
LEMMA CompareCounts ==
  ASSUME TypeOK, ShownLineRight, LinesKept, Scanning, UNCHANGED inputs,
         NEW c \in Byte, NEW at \in dwi..Size, NEW quoted \in BOOLEAN,
         CompareAt(c, at, quoted),
         Text => /\ \A j \in dwi..(at - 1) : file[j + 1] # LF
                 /\ at < Size => /\ c = LF <=> file[at + 1] = LF
                                 /\ IsBreak(c) <=> IsBreak(file[at + 1]),
         dwi < at => at = Size \/ IsBreak(c)
  PROVE  LinesKept' /\ ShownLineRight'
<1>1. /\ file \in Seq(Byte) /\ Size = Len(file) /\ Size \in Nat /\ dwi < Size
      /\ dwi \in Nat /\ dwl \in Nat /\ lpoff \in [0..MXLPS -> Nat]
      /\ lpoff[0] \in Nat /\ at \in Nat /\ at <= Size
      /\ Len(ThisFind) \in Nat \ {0} /\ ~IsBreak(ThisFind[1])
  <2>1. /\ file \in Seq(Byte) /\ Size = Len(file) /\ Size \in Nat
        /\ Len(ThisFind) \in Nat \ {0} /\ ~IsBreak(ThisFind[1])
    BY Given
  <2>2. dwi \in Nat /\ dwl \in Nat /\ lpoff \in [0..MXLPS -> Nat]
    BY DEF TypeOK
  <2>3. at \in Nat /\ at <= Size /\ dwi < Size
    BY <2>1, <2>2 DEF Scanning
  <2>4. lpoff[0] \in Nat
    BY <2>2 DEF MXLPS
  <2> QED
    BY <2>1, <2>2, <2>3, <2>4
<1>2. file' = file /\ sw' = sw /\ Size' = Size /\ Text' = Text
  BY DEF inputs, Size, Text
<1>3. Text => CountedAt(file, dwi, dwl, lpoff[0])
  BY <1>1 DEF LinesKept
<1>4. CASE ~Hits(c, at)
  <2>1. EndTurn(c, at, quoted) /\ shown' = shown
    BY <1>4 DEF CompareAt
  <2>2. Text /\ dwi' < Size => CountedAt(file, dwi', dwl', lpoff'[0])
    BY <1>3, <2>1, TurnCounts
  <2> QED
    BY <1>2, <2>1, <2>2, NoneShown DEF LinesKept
<1>5. CASE Hits(c, at)
  <2>1. Show(at, lpoff, dwl) /\ ~IsBreak(c)
    BY <1>1, <1>5 DEF CompareAt, Hits
  <2>2. at < Size => at = dwi
    BY <1>1, <2>1
  <2>3. Text /\ NoLoneCR(file) /\ at < Size =>
          /\ at \in ShownText(file, lpoff[0])
          /\ dwl = Cardinality(LFsBefore(file, at))
    <3> SUFFICES ASSUME Text, NoLoneCR(file), at < Size
                 PROVE  /\ at \in ShownText(file, lpoff[0])
                        /\ dwl = Cardinality(LFsBefore(file, at))
      OBVIOUS
    <3>1. at \in 0..(Len(file) - 1) /\ ~IsBreak(file[at + 1])
      BY <1>1, <2>1
    <3>2. CountedAt(file, at, dwl, lpoff[0])
      BY <1>3, <2>2
    <3>3. at \in ShownText(file, lpoff[0])
      BY <1>1, <3>1, <3>2, LineHolds
    <3> QED
      BY <3>2, <3>3 DEF CountedAt
  <2>4. ShownLineRight'
    BY <1>1, <2>1, <2>3, ShowRight
  <2>5. ASSUME Text PROVE dwi' < Size => CountedAt(file, dwi', dwl', lpoff'[0])
    <3> DEFINE e == IF at < Size THEN EndOfLine(file, at + 1) ELSE at + 1
               d == IF at + 1 >= Size THEN c ELSE IF e < Size THEN At(e) ELSE file[Size]
    <3>1. EndTurn(d, e, quoted)
      BY <1>5, <2>5 DEF CompareAt, Text
    <3>2. dwi' = e + 1
      BY <3>1 DEF EndTurn
    <3>3. CASE at < Size
      <4>1. /\ e \in (at + 1)..Size
            /\ e < Size => At(e) \in Byte
            /\ file[Size] \in Byte
            /\ \A j \in (at + 1)..(e - 1) : ~IsBreak(file[j + 1])
        BY <1>1, <3>3, LineEndType
      <4>2. d \in Byte /\ (e < Size => d = file[e + 1])
        BY <1>1, <4>1 DEF At
      <4> HIDE DEF e, d
      <4>3. file[at + 1] # LF
        BY <2>1, <2>5, <3>3 DEF IsBreak
      <4>4. e \in dwi..Size /\ \A j \in dwi..(e - 1) : file[j + 1] # LF
        BY <1>1, <2>2, <3>3, <4>1, <4>3 DEF IsBreak
      <4> QED
        BY <1>3, <2>5, <3>1, <4>2, <4>4, TurnCounts
    <3>4. CASE ~(at < Size)
      BY <1>1, <3>2, <3>4
    <3> QED
      BY <3>3, <3>4
  <2> QED
    BY <1>2, <2>4, <2>5 DEF LinesKept
<1> QED
  BY <1>4, <1>5

(* The lines of a comment are counted in its turn, and in no other.        *)
LEMMA BlockCounts ==
  ASSUME TypeOK, LinesKept, BlockComment
  PROVE  LinesKept'
<1> DEFINE L == LFsIn(dwi + 1, BlockEnd)
           B == LFsBefore(file, dwi)
<1>1. /\ file \in Seq(Byte) /\ Size = Len(file) /\ Size \in Nat /\ dwi < Size
      /\ dwi \in Nat /\ Scanning
  BY Given DEF BlockComment, Scanning, TypeOK
<1>2. /\ BlockEnd \in (dwi + 1)..Size /\ BlockEnd < Size
      /\ file[BlockEnd + 1] = SLASH
  BY <1>1, BlockEndIs DEF BlockComment, At
<1>3. /\ dwi' = BlockEnd + 1 /\ dwl' = dwl + Cardinality(L)
      /\ lpoff' = IncLines(L, lpoff) /\ file' = file /\ sw' = sw
  BY DEF BlockComment, CountBlock, inputs
<1> SUFFICES ASSUME Text PROVE CountedAt(file, dwi', dwl', lpoff'[0])
  BY <1>3 DEF LinesKept, Text
<1>4. CountedAt(file, dwi, dwl, lpoff[0])
  BY <1>1 DEF LinesKept
<1>5. file[dwi + 1] # LF
  <2>1. Chr # LF
    BY DEF BlockComment, OpensBlock, STAR, LF
  <2> QED
    BY <1>1, <2>1, ChrType DEF Text, At
<1>6. LFsBefore(file, BlockEnd + 1) = B \cup L /\ B \cap L = {}
  BY <1>1, <1>2, <1>5 DEF LFsBefore, LFsIn, At, SLASH, LF
<1>7. /\ L \in SUBSET Nat /\ IsFiniteSet(L) /\ Cardinality(L) \in Nat
      /\ L = {} => IncLines(L, lpoff) = lpoff
      /\ L # {} => IncLines(L, lpoff)[0] \in L /\ \A i \in L : i <= IncLines(L, lpoff)[0]
  BY <1>1, <1>2, BlockLines
<1>8. B \in SUBSET Nat /\ IsFiniteSet(B) /\ Cardinality(B) = dwl
      /\ \A i \in B : i < dwi
  <2>1. B \in SUBSET Nat /\ \A i \in B : i < dwi
    BY DEF LFsBefore
  <2>2. \A i \in B : i <= dwi
    BY <1>1, <2>1
  <2> HIDE DEF B
  <2>3. IsFiniteSet(B)
    BY <1>1, <2>1, <2>2, CountGrows
  <2> QED
    BY <1>4, <2>1, <2>3 DEF CountedAt, B
<1>9. \A i \in L : dwi < i
  BY <1>1 DEF LFsIn
<1>10. lpoff[0] \in B \/ lpoff[0] = 0
  BY <1>4 DEF CountedAt
<1>11. \A i \in B : i <= lpoff[0]
  BY <1>4 DEF CountedAt
<1> HIDE DEF B, L
<1>12. Cardinality(B \cup L) = dwl + Cardinality(L)
  <2>1. Cardinality(B \cup L) = Cardinality(B) + Cardinality(L) - Cardinality(B \cap L)
    BY <1>7, <1>8, FS_Union
  <2>2. Cardinality(B \cap L) = 0
    BY <1>6, FS_EmptySet
  <2>3. dwl \in Nat
    BY DEF TypeOK
  <2> QED
    BY <1>7, <1>8, <2>1, <2>2, <2>3
<1>13. CASE L = {}
  BY <1>3, <1>6, <1>7, <1>10, <1>11, <1>12, <1>13 DEF CountedAt
<1>14. CASE L # {}
  <2>1. lpoff'[0] \in L /\ \A i \in L : i <= lpoff'[0]
    BY <1>3, <1>7, <1>14
  <2>2. PICK t \in L : lpoff'[0] = t
    BY <2>1
  <2>3. \A i \in B : i <= t
    BY <1>1, <1>7, <1>8, <1>9
  <2> QED
    BY <1>3, <1>6, <1>12, <2>1, <2>2, <2>3 DEF CountedAt
<1> QED
  BY <1>13, <1>14

LEMMA NextCounts ==
  TypeOK /\ LinesKept /\ ShownLineRight /\ [Next]_vars => LinesKept' /\ ShownLineRight'
<1> SUFFICES ASSUME TypeOK, LinesKept, ShownLineRight, [Next]_vars
             PROVE  LinesKept' /\ ShownLineRight'
  OBVIOUS
<1>1. CASE BlockComment
  <2>1. UNCHANGED <<file, sw, shown>>
    BY <1>1 DEF BlockComment, inputs
  <2> QED
    BY <1>1, <2>1, BlockCounts, NoneShown
<1>2. CASE BlockCommentAtEnd
  <2> DEFINE d == IF dwi + 1 < Size THEN file[Size] ELSE Chr
             lfs == LFsIn(dwi + 1, Size)
             offs == IncLines(lfs, lpoff)
             line == dwl + Cardinality(lfs)
  <2>1. /\ Scanning /\ dwi' = Size + 1 /\ UNCHANGED inputs
        /\ IF Hits(d, Size) THEN Show(Size, offs, line) ELSE UNCHANGED shown
    BY <1>2 DEF BlockCommentAtEnd
  <2>2. Size \in (dwi + 1)..Size /\ Size \in Nat /\ dwi \in Nat /\ dwl \in Nat
    BY <2>1, Given DEF Scanning, TypeOK
  <2>3. Cardinality(lfs) \in Nat /\ offs \in [0..MXLPS -> Nat]
    BY <2>1, <2>2, BlockLines
  <2> HIDE DEF d, lfs, offs
  <2>4. line \in Nat
    BY <2>2, <2>3
  <2> HIDE DEF line
  <2>5. LinesKept'
    <3>1. Size' = Size
      BY <2>1 DEF inputs, Size
    <3> QED
      BY <2>1, <2>2, <3>1 DEF LinesKept
  <2>6. CASE Hits(d, Size)
    BY <2>1, <2>2, <2>3, <2>4, <2>5, <2>6, ShowRight
  <2>7. CASE ~Hits(d, Size)
    BY <2>1, <2>5, <2>7, NoneShown DEF inputs
  <2> QED
    BY <2>6, <2>7
<1>3. ASSUME Scanning
      PROVE  /\ dwi \in Nat /\ Size \in Nat /\ dwi < Size
             /\ Chr \in Byte
             /\ Text => /\ Chr = LF <=> file[dwi + 1] = LF
                        /\ IsBreak(Chr) <=> IsBreak(file[dwi + 1])
  BY <1>3, Given, ChrType DEF Scanning, TypeOK, Text, At
<1>4. inQuot \in BOOLEAN
  BY DEF TypeOK
<1>5. CASE LineComment
  <2> DEFINE e == EndOfLine(file, dwi + 1)
             d == IF dwi + 1 = Size THEN Chr
                  ELSE IF e < Size THEN At(e) ELSE file[Size]
  <2>1. Scanning /\ CompareAt(d, e, inQuot) /\ UNCHANGED inputs /\ Chr # LF
    BY <1>5 DEF LineComment, OpensLine, OpensPerl, SLASH, HASH, LF
  <2>2. /\ e \in (dwi + 1)..Size
        /\ e < Size => At(e) \in Byte /\ IsBreak(At(e))
        /\ file[Size] \in Byte
        /\ \A j \in (dwi + 1)..(e - 1) : ~IsBreak(file[j + 1])
    BY <1>3, <2>1, LineEndType
  <2>3. e \in dwi..Size /\ d \in Byte
    BY <1>3, <2>1, <2>2
  <2>4. e < Size => d = file[e + 1] /\ IsBreak(d)
    BY <1>3, <2>1, <2>2 DEF At
  <2> HIDE DEF d, e
  <2>5. Text => \A j \in dwi..(e - 1) : file[j + 1] # LF
    BY <1>3, <2>1, <2>2 DEF IsBreak
  <2>6. dwi < e => e = Size \/ IsBreak(d)
    BY <1>3, <2>1, <2>2, <2>4
  <2> QED
    BY <1>4, <2>1, <2>3, <2>4, <2>5, <2>6, CompareCounts
<1>6. ASSUME NEW quoted \in BOOLEAN, Scanning, CompareAt(Chr, dwi, quoted),
             UNCHANGED inputs
      PROVE  LinesKept' /\ ShownLineRight'
  <2>1. dwi \in dwi..Size /\ \A j \in dwi..(dwi - 1) : file[j + 1] # LF
    BY <1>3, <1>6
  <2> QED
    BY <1>3, <1>6, <2>1, CompareCounts
<1>7. CASE Quote
  <2> DEFINE quoted == IF inQuot THEN Chr # qc ELSE TRUE
  <2>1. Scanning /\ CompareAt(Chr, dwi, quoted) /\ UNCHANGED inputs
    BY <1>7 DEF Quote
  <2>2. quoted \in BOOLEAN
    BY <1>4
  <2> HIDE DEF quoted
  <2> QED
    BY <1>6, <2>1, <2>2
<1>8. CASE Code
  <2>1. Scanning /\ CompareAt(Chr, dwi, inQuot) /\ UNCHANGED inputs
    BY <1>8 DEF Code
  <2> QED
    BY <1>4, <1>6, <2>1
<1>9. CASE UNCHANGED vars
  <2>1. UNCHANGED <<file, sw, shown, dwi, dwl, lpoff>>
    BY <1>9 DEF vars, inputs
  <2>2. LinesKept'
    BY <2>1 DEF LinesKept, Text, Size
  <2> QED
    BY <2>1, <2>2, NoneShown
<1> QED
  BY <1>1, <1>2, <1>5, <1>7, <1>8, <1>9 DEF Next

(* Fa4Find.c:1091-1094, 1152: whatever comments a text has, the line shown *)
(* for a find is the one that holds it, under its own number.              *)
THEOREM ShownLinesRight == Spec => []ShownLineRight
<1>1. Init => TypeOK /\ LinesKept /\ ShownLineRight
  <2> SUFFICES ASSUME Init PROVE TypeOK /\ LinesKept /\ ShownLineRight
    OBVIOUS
  <2>1. TypeOK
    BY InitType
  <2>2. file \in Seq(Byte) /\ dwi = 0 /\ dwl = 0 /\ lpoff[0] = 0 /\ shown = <<>>
    BY <2>1, Given DEF Init, MXLPS
  <2>3. LinesKept
    BY <2>2, StartCounted DEF LinesKept
  <2>4. ShownLineRight
    BY <2>2 DEF ShownLineRight
  <2> QED
    BY <2>1, <2>3, <2>4
<1>2. TypeOK /\ LinesKept /\ ShownLineRight /\ [Next]_vars
        => TypeOK' /\ LinesKept' /\ ShownLineRight'
  BY NextType, NextCounts
<1> QED
  BY <1>1, <1>2, PTL DEF Spec
-----------------------------------------------------------------------------
(* The machine that tells comments from code.                              *)

After(m, c) == IF sw.perl THEN PerlAfter(m, c) ELSE CAfter(m, c)
Mode == {"code", "slash", "line", "block", "star", "quote", "apostrophe", "escape"}

LEMMA AfterType ==
  ASSUME NEW m \in Mode, NEW c
  PROVE  After(m, c) \in Mode
<1>1. PerlAfter(m, c) \in Mode
  BY DEF PerlAfter, Mode
<1>2. CAfter(m, c) \in Mode
  BY DEF CAfter, Mode
<1> QED
  BY <1>1, <1>2 DEF After

(* It is a function of the offset, and goes from byte to byte.             *)
LEMMA ModesAre ==
  ASSUME TypeOK
  PROVE  /\ Modes[0] = "code"
         /\ \A o \in 1..Size : Modes[o] = After(Modes[o - 1], file[o])
         /\ \A o \in 0..Size : Modes[o] \in Mode
<1> DEFINE Right(g) ==
             g = [o \in 0..Size |->
                    IF o = 0 THEN "code"
                    ELSE IF sw.perl THEN PerlAfter(g[o - 1], file[o])
                         ELSE CAfter(g[o - 1], file[o])]
           f == CHOOSE g : Right(g)
           step == [x \in Mode \X (1..Size) |-> After(x[1], file[x[2]])]
<1>1. Modes = f
  BY DEF Modes
<1>2. Size \in Nat
  BY Given
<1>3. step \in [Mode \X (1..Size) -> Mode]
  BY AfterType
<1>4. \A m \in Mode, o \in 1..Size : step[<<m, o>>] = After(m, file[o])
  OBVIOUS
<1> HIDE DEF step
<1>5. PICK g \in [0..Size -> Mode] : Steps(g, "code", step, Size)
  BY <1>2, <1>3, StepsExist DEF Mode
<1>6. \A o \in 1..Size : g[o] = After(g[o - 1], file[o])
  <2> SUFFICES ASSUME NEW o \in 1..Size PROVE g[o] = After(g[o - 1], file[o])
    OBVIOUS
  <2>1. o - 1 \in 0..Size
    BY <1>2
  <2>2. g[o - 1] \in Mode
    BY <2>1
  <2> QED
    BY <1>4, <1>5, <2>2 DEF Steps
<1>7. Right(g)
  <2>1. \A o \in 0..Size : o # 0 => o \in 1..Size
    BY <1>2
  <2>2. \A o \in 0..Size : g[o] = IF o = 0 THEN "code"
                                  ELSE IF sw.perl THEN PerlAfter(g[o - 1], file[o])
                                       ELSE CAfter(g[o - 1], file[o])
    BY <1>5, <1>6, <2>1 DEF Steps, After
  <2> QED
    BY <2>2
<1>8. Right(f)
  <2> HIDE DEF Right
  <2> QED
    BY <1>7
<1>9. f[0] = "code" /\ \A o \in 1..Size : f[o] = After(f[o - 1], file[o])
  <2> HIDE DEF f
  <2>1. \A o \in 0..Size : f[o] = IF o = 0 THEN "code"
                                  ELSE IF sw.perl THEN PerlAfter(f[o - 1], file[o])
                                       ELSE CAfter(f[o - 1], file[o])
    BY <1>8
  <2>2. 0 \in 0..Size /\ \A o \in 1..Size : o \in 0..Size /\ o # 0
    BY <1>2
  <2> QED
    BY <2>1, <2>2 DEF After
<1> HIDE DEF f
<1>10. ASSUME NEW o \in 0..Size, f[o] \notin Mode PROVE FALSE
  <2> DEFINE Out == {i \in 0..Size : f[i] \notin Mode}
  <2>1. Out \in SUBSET Nat /\ Out # {}
    BY <1>10
  <2>2. PICK i \in Out : \A j \in Out : i <= j
    <3> HIDE DEF Out
    <3> QED
      BY <2>1, Least
  <2>3. i # 0 /\ i \in 0..Size
    BY <1>9, <2>2 DEF Mode
  <2>4. i \in 1..Size /\ i - 1 \in 0..Size /\ i - 1 \notin Out
    BY <1>2, <2>2, <2>3
  <2>5. f[i - 1] \in Mode
    BY <2>4
  <2>6. f[i] \in Mode
    BY <1>9, <2>4, <2>5, AfterType
  <2> QED
    BY <2>2, <2>6
<1> QED
  BY <1>1, <1>9, <1>10

LEMMA NextMode ==
  ASSUME TypeOK, NEW o \in Nat, o < Size
  PROVE  Modes[o + 1] = After(Modes[o], At(o)) /\ Modes[o] \in Mode
<1>1. o + 1 \in 1..Size /\ (o + 1) - 1 = o /\ o \in 0..Size
  BY Given
<1> QED
  BY <1>1, ModesAre DEF At

(* A comment to the end of the line goes on to it.                         *)
LEMMA LineGoesOn ==
  ASSUME TypeOK, NEW k \in Nat, NEW e \in k..Size, Modes[k] = "line",
         \A j \in k..(e - 1) : ~IsBreak(At(j))
  PROVE  \A o \in k..e : Modes[o] = "line"
<1>1. Size \in Nat
  BY Given
<1> SUFFICES ASSUME NEW o \in k..e, Modes[o] # "line" PROVE FALSE
  OBVIOUS
<1> DEFINE Not == {i \in k..e : Modes[i] # "line"}
<1>2. Not \in SUBSET Nat /\ Not # {}
  BY <1>1
<1>3. PICK i \in Not : \A j \in Not : i <= j
  <2> HIDE DEF Not
  <2> QED
    BY <1>2, Least
<1>4. i # k /\ i \in k..e /\ Modes[i] # "line"
  BY <1>3
<1>5. i - 1 \in k..(e - 1) /\ i - 1 \in k..e /\ i - 1 \in Nat /\ i - 1 < Size /\ (i - 1) + 1 = i
  BY <1>1, <1>4
<1>6. Modes[i - 1] = "line"
  <2>1. i - 1 \notin Not
    BY <1>1, <1>3, <1>4
  <2> QED
    BY <1>5, <2>1
<1>7. Modes[i] = After("line", At(i - 1))
  BY <1>5, <1>6, NextMode
<1> QED
  BY <1>4, <1>5, <1>7 DEF After, PerlAfter, CAfter

(* A block comment goes on to where the code finds its end.                *)
LEMMA BlockGoesOn ==
  ASSUME TypeOK, Scanning, ~sw.perl, Modes[dwi + 1] = "block"
  PROVE  /\ \A o \in (dwi + 1)..BlockEnd : Modes[o] \in {"block", "star"}
         /\ BlockEnd < Size => Modes[BlockEnd + 1] = "code"
<1> DEFINE e == BlockEnd
           In(o) == Modes[o] = IF o > dwi + 1 /\ At(o - 1) = STAR THEN "star" ELSE "block"
<1>1. /\ Size \in Nat /\ dwi \in Nat /\ e \in (dwi + 1)..Size
      /\ e < Size => At(e) = SLASH /\ At(e - 1) = STAR /\ e - 1 > dwi
      /\ \A j \in (dwi + 2)..(e - 1) : ~(At(j) = SLASH /\ At(j - 1) = STAR)
  BY Given, BlockEndIs DEF TypeOK
<1> HIDE DEF e
<1>2. ASSUME NEW o \in (dwi + 1)..e, ~In(o) PROVE FALSE
  <2> DEFINE Not == {i \in (dwi + 1)..e : ~In(i)}
  <2>1. Not \in SUBSET Nat /\ Not # {}
    BY <1>1, <1>2
  <2>2. PICK i \in Not : \A j \in Not : i <= j
    <3> HIDE DEF Not
    <3> QED
      BY <2>1, Least
  <2>3. i # dwi + 1
    <3>1. In(dwi + 1)
      BY <1>1
    <3> QED
      BY <2>2, <3>1
  <2>4. /\ i \in (dwi + 1)..e /\ ~In(i) /\ i > dwi + 1
        /\ i - 1 \in (dwi + 1)..e /\ i - 1 \in Nat /\ i - 1 < Size /\ (i - 1) + 1 = i
    BY <1>1, <2>2, <2>3
  <2>5. In(i - 1)
    <3>1. i - 1 \notin Not
      BY <1>1, <2>2, <2>4
    <3> QED
      BY <2>4, <3>1
  <2>6. Modes[i] = CAfter(Modes[i - 1], At(i - 1))
    BY <2>4, NextMode DEF After
  <2>7. CASE Modes[i - 1] = "block"
    BY <2>4, <2>6, <2>7 DEF CAfter
  <2>8. CASE Modes[i - 1] = "star"
    <3>1. i - 1 > dwi + 1 /\ At((i - 1) - 1) = STAR
      BY <2>5, <2>8
    <3>2. i - 1 \in (dwi + 2)..(e - 1)
      BY <1>1, <2>4, <3>1
    <3>3. At(i - 1) # SLASH
      BY <1>1, <3>1, <3>2
    <3> QED
      BY <2>4, <2>6, <2>8, <3>3 DEF CAfter
  <2> QED
    BY <2>5, <2>7, <2>8
<1>3. \A o \in (dwi + 1)..e : Modes[o] \in {"block", "star"}
  BY <1>2
<1>4. ASSUME e < Size PROVE Modes[e + 1] = "code"
  <2>1. e \in (dwi + 1)..e /\ e > dwi + 1 /\ e \in Nat
    BY <1>1, <1>4
  <2>2. Modes[e] = "star"
    BY <1>1, <1>2, <1>4, <2>1
  <2>3. Modes[e + 1] = CAfter("star", SLASH)
    BY <1>1, <1>4, <2>1, <2>2, NextMode DEF After
  <2> QED
    BY <2>3 DEF CAfter
<1> QED
  BY <1>3, <1>4 DEF e
-----------------------------------------------------------------------------
(* What is shown, and what is not.                                         *)

(* Between two turns the code knows what the machine knows.  Behind a find *)
(* in Perl it has not looked at the quotes of the line, but the LF that    *)
(* comes next ends them all.                                               *)
PerlMode ==
  IF inQuot THEN (IF qc = 34 THEN "quote" ELSE "apostrophe")
  ELSE IF pd = BACKSLASH THEN "escape" ELSE "code"

ModeKept ==
  dwi < Size =>
    IF sw.perl
    THEN At(dwi) = LF \/ (Modes[dwi] = PerlMode /\ (inQuot => qc # 0))
    ELSE Modes[dwi] = IF pd = SLASH THEN "slash" ELSE "code"

(* A find shown stands in code, and its line has been left; ...            *)
Behind(f, o, at) == at >= Len(f) \/ \E j \in (o + 1)..(at - 1) : IsBreak(f[j + 1])

ShownInCode ==
  \A i \in DOMAIN shown :
    shown[i].off < Size => shown[i].off \in InCode /\ Behind(file, shown[i].off, dwi)

(* ... no line is shown for two finds; ...                                 *)
ShownOnce ==
  \A i, j \in DOMAIN shown :
    i # j /\ shown[i].off < Size /\ shown[j].off < Size
      => SegStart(file, shown[i].off) # SegStart(file, shown[j].off)

(* ... the lines of all finds that were passed have been shown; ...        *)
Covered(o) ==
  \E i \in DOMAIN shown :
    shown[i].off < Size /\ SegStart(file, shown[i].off) = SegStart(file, o)

CodeShown == \A o \in InCode : o < dwi => Covered(o)

(* ... and what is shown behind the file is the end of a comment.          *)
AtEndShown ==
  \A i \in DOMAIN shown :
    shown[i].off >= Size =>
      i = Len(shown) /\ dwi >= Size /\ Len(find) = 1 /\ Modes[Size] \in InComment

ShownKept == ShownInCode /\ ShownOnce /\ CodeShown /\ AtEndShown

SkipKept ==
  Text /\ NoneOpensBehind /\ NoLoneCR(file) => ModeKept /\ ShownKept

LEMMA SameModes ==
  ASSUME UNCHANGED inputs
  PROVE  /\ file' = file /\ find' = find /\ sw' = sw /\ Size' = Size
         /\ Modes' = Modes /\ InCode' = InCode /\ Text' = Text
         /\ NoneOpensBehind' = NoneOpensBehind
<1>1. file' = file /\ find' = find /\ sw' = sw
  BY DEF inputs
<1>2. Size' = Size /\ Text' = Text
  BY <1>1 DEF Size, Text
<1> DEFINE M(f, w, s) ==
             CHOOSE mode : mode = [o \in 0..s |->
                IF o = 0 THEN "code"
                ELSE IF w.perl THEN PerlAfter(mode[o - 1], f[o])
                     ELSE CAfter(mode[o - 1], f[o])]
<1>3. Modes = M(file, sw, Size)
  BY DEF Modes
<1>4. Modes' = M(file', sw', Size')
  BY DEF Modes
<1> HIDE DEF M
<1>5. Modes' = Modes
  BY <1>1, <1>2, <1>3, <1>4
<1>6. Stands' = Stands
  BY <1>1, <1>2 DEF Stands, ThisFind
<1>7. InCode' = InCode
  BY <1>2, <1>5, <1>6 DEF InCode
<1>8. NoneOpensBehind' = NoneOpensBehind
  BY <1>1, <1>5, <1>7 DEF NoneOpensBehind
<1> QED
  BY <1>1, <1>2, <1>5, <1>7, <1>8

(* A find in code is in no comment, opens none, and begins with no break.  *)
LEMMA CodeIs ==
  ASSUME TypeOK
  PROVE  \A o : /\ o \in InCode <=>
                     /\ o \in 0..(Size - 1) /\ FoundAt(sw, file, o, Size, ThisFind)
                     /\ Modes[o] \notin InComment /\ Modes[o + 1] \notin {"line", "block"}
                /\ o \in InCode => o \in Nat /\ o < Size /\ ~IsBreak(At(o))
<1>1. Size \in Nat /\ ~IsBreak(ThisFind[1])
  BY Given
<1> SUFFICES ASSUME NEW o
             PROVE  /\ o \in InCode <=>
                        /\ o \in 0..(Size - 1) /\ FoundAt(sw, file, o, Size, ThisFind)
                        /\ Modes[o] \notin InComment /\ Modes[o + 1] \notin {"line", "block"}
                    /\ o \in InCode => o \in Nat /\ o < Size /\ ~IsBreak(At(o))
  OBVIOUS
<1>2. o \in InCode <=>
        /\ o \in 0..(Size - 1) /\ FoundAt(sw, file, o, Size, ThisFind)
        /\ Modes[o] \notin InComment /\ (o < Size => Modes[o + 1] \notin {"line", "block"})
  BY DEF InCode, Stands
<1>3. o \in 0..(Size - 1) => o \in Nat /\ o < Size
  BY <1>1
<1>4. FoundAt(sw, file, o, Size, ThisFind) => ~IsBreak(At(o))
  BY <1>1, ReadsBreak DEF FoundAt, At
<1> QED
  BY <1>2, <1>3, <1>4

(* What is behind the scan and left stays so.                              *)
LEMMA BehindStays ==
  ASSUME NEW f, Len(f) \in Nat, NEW o \in Nat, NEW d \in Nat, NEW e \in Nat, d < e,
         Behind(f, o, d)
  PROVE  Behind(f, o, e)
<1>1. CASE d >= Len(f)
  BY <1>1 DEF Behind
<1>2. CASE \E j \in (o + 1)..(d - 1) : IsBreak(f[j + 1])
  <2>1. PICK j \in (o + 1)..(d - 1) : IsBreak(f[j + 1])
    BY <1>2
  <2>2. j \in (o + 1)..(e - 1)
    BY <2>1
  <2> QED
    BY <2>1, <2>2 DEF Behind
<1> QED
  BY <1>1, <1>2 DEF Behind

LEMMA ShownIs ==
  ASSUME TypeOK
  PROVE  /\ shown \in Seq([off : Nat, begin : Nat, line : Nat])
         /\ Len(shown) \in Nat /\ DOMAIN shown = 1..Len(shown)
         /\ \A i \in DOMAIN shown : shown[i].off \in Nat
<1>1. shown \in Seq([off : Nat, begin : Nat, line : Nat])
  BY DEF TypeOK
<1>2. Len(shown) \in Nat /\ DOMAIN shown = 1..Len(shown)
  BY <1>1
<1>3. \A i \in DOMAIN shown : shown[i] \in [off : Nat, begin : Nat, line : Nat]
  <2> DEFINE Rec == [off : Nat, begin : Nat, line : Nat]
  <2>1. shown \in Seq(Rec)
    BY <1>1
  <2> HIDE DEF Rec
  <2>2. \A i \in DOMAIN shown : shown[i] \in Rec
    BY <2>1
  <2> QED
    BY <2>2 DEF Rec
<1>4. \A i \in DOMAIN shown : shown[i].off \in Nat
  BY <1>3
<1> QED
  BY <1>1, <1>2, <1>4

(* A turn that shows nothing and passes no find in code.                   *)
LEMMA PassesOver ==
  ASSUME TypeOK, ShownKept, UNCHANGED inputs, shown' = shown, dwi < Size,
         dwi' \in Nat, dwi < dwi', \A o \in InCode : ~(dwi <= o /\ o < dwi')
  PROVE  ShownKept'
<1>1. /\ file' = file /\ find' = find /\ Size' = Size /\ Modes' = Modes /\ InCode' = InCode
  BY SameModes
<1>2. dwi \in Nat /\ Size \in Nat /\ Size = Len(file) /\ \A o \in InCode : o \in Nat
  BY Given, CodeIs DEF TypeOK
<1>3. \A i \in DOMAIN shown : shown[i].off \in Nat /\ shown[i].off < Size
  <2>1. \A i \in DOMAIN shown : shown[i].off \in Nat
    BY ShownIs
  <2>2. \A i \in DOMAIN shown : ~(shown[i].off >= Size)
    BY <1>2 DEF ShownKept, AtEndShown
  <2> QED
    BY <1>2, <2>1, <2>2
<1>4. ShownInCode'
  <2> SUFFICES ASSUME NEW i \in DOMAIN shown
               PROVE  shown[i].off \in InCode /\ Behind(file, shown[i].off, dwi')
    BY <1>1 DEF ShownInCode
  <2>1. shown[i].off \in InCode /\ Behind(file, shown[i].off, dwi) /\ shown[i].off \in Nat
    BY <1>3 DEF ShownKept, ShownInCode
  <2> QED
    BY <1>2, <2>1, BehindStays
<1>5. ShownOnce'
  BY <1>1 DEF ShownKept, ShownOnce
<1>6. CodeShown'
  <2> SUFFICES ASSUME NEW o \in InCode, o < dwi' PROVE Covered(o)'
    BY <1>1 DEF CodeShown
  <2>1. o < dwi
    BY <1>2
  <2> QED
    BY <1>1, <2>1 DEF ShownKept, CodeShown, Covered
<1>7. AtEndShown'
  <2>1. \A i \in DOMAIN shown' : ~(shown'[i].off >= Size')
    BY <1>1, <1>2, <1>3
  <2> QED
    BY <2>1 DEF AtEndShown
<1> QED
  BY <1>4, <1>5, <1>6, <1>7 DEF ShownKept

(* A find in code is shown, and the rest of its line is passed.            *)
LEMMA ShowsFind ==
  ASSUME TypeOK, ShownKept, UNCHANGED inputs, dwi < Size, dwi \in InCode,
         NEW r \in [off : Nat, begin : Nat, line : Nat], r.off = dwi,
         shown' = Append(shown, r), dwi' = EndOfLine(file, dwi + 1) + 1
  PROVE  ShownKept'
<1> DEFINE e == EndOfLine(file, dwi + 1)
<1>1. /\ file' = file /\ find' = find /\ Size' = Size /\ Modes' = Modes /\ InCode' = InCode
      /\ \A j : At(j)' = At(j)
  BY SameModes DEF At
<1>2. /\ dwi \in Nat /\ Size \in Nat /\ file \in Seq(Byte) /\ Size = Len(file)
      /\ \A o \in InCode : o \in Nat /\ o < Size /\ ~IsBreak(At(o))
  BY Given, CodeIs DEF TypeOK
<1>3. /\ e \in (dwi + 1)..Size /\ (e < Size => IsBreak(At(e)))
      /\ \A j \in (dwi + 1)..(e - 1) : ~IsBreak(At(j))
  BY <1>2, LineEndType DEF At
<1> HIDE DEF e
<1>4. dwi' = e + 1 /\ dwi' \in Nat /\ dwi < dwi'
  BY <1>2, <1>3 DEF e
<1> DEFINE k == Len(shown) + 1
<1>5. /\ DOMAIN shown = 1..(k - 1) /\ k \in Nat /\ DOMAIN shown' = 1..k /\ shown'[k] = r
      /\ \A i \in DOMAIN shown : shown'[i] = shown[i] /\ shown[i].off \in Nat
      /\ \A i \in DOMAIN shown' : i \in DOMAIN shown \/ i = k
  BY ShownIs
<1>6. \A i \in DOMAIN shown : shown[i].off < Size
  <2>1. \A i \in DOMAIN shown : ~(shown[i].off >= Size)
    BY <1>2 DEF ShownKept, AtEndShown
  <2> QED
    BY <1>2, <1>5, <2>1
<1> HIDE DEF k
<1>7. ShownInCode'
  <2> SUFFICES ASSUME NEW i \in DOMAIN shown'
               PROVE  shown'[i].off \in InCode /\ Behind(file, shown'[i].off, dwi')
    BY <1>1 DEF ShownInCode
  <2>1. CASE i \in DOMAIN shown
    <3>1. /\ shown[i].off \in InCode /\ Behind(file, shown[i].off, dwi)
          /\ shown[i].off \in Nat /\ shown'[i] = shown[i]
      BY <1>5, <1>6, <2>1 DEF ShownKept, ShownInCode
    <3> QED
      BY <1>2, <1>4, <3>1, BehindStays
  <2>2. CASE i = k
    <3>1. Behind(file, dwi, dwi')
      <4>1. CASE e < Size
        <5>1. e \in (dwi + 1)..(dwi' - 1)
          BY <1>2, <1>3, <1>4
        <5> QED
          BY <1>3, <4>1, <5>1 DEF Behind, At
      <4>2. CASE ~(e < Size)
        BY <1>2, <1>3, <1>4, <4>2 DEF Behind
      <4> QED
        BY <4>1, <4>2
    <3> QED
      BY <1>5, <2>2, <3>1
  <2> QED
    BY <1>5, <2>1, <2>2
<1>8. ASSUME NEW i \in DOMAIN shown
      PROVE  SegStart(file, shown[i].off) # SegStart(file, dwi)
  <2> DEFINE o == shown[i].off
  <2>1. o \in InCode /\ o \in Nat /\ Behind(file, o, dwi)
    BY <1>5, <1>6 DEF ShownKept, ShownInCode
  <2> HIDE DEF o
  <2>2. PICK j \in (o + 1)..(dwi - 1) : IsBreak(file[j + 1])
    BY <1>2, <2>1 DEF Behind
  <2>3. j \in o..(dwi - 1) /\ IsBreak(file[j + 1]) /\ dwi <= Len(file)
    BY <1>2, <2>1, <2>2
  <2>4. SegStart(file, o) < SegStart(file, dwi)
    BY <1>2, <2>1, <2>3, SegApart
  <2>5. SegStart(file, dwi) \in Nat
    BY <1>2, SegStartIs
  <2>6. SegStart(file, o) \in Nat
    BY <1>2, <2>1, SegStartIs
  <2> QED
    BY <2>4, <2>5, <2>6 DEF o
<1>9. ShownOnce'
  <2> SUFFICES ASSUME NEW i \in DOMAIN shown', NEW j \in DOMAIN shown', i # j
               PROVE  SegStart(file, shown'[i].off) # SegStart(file, shown'[j].off)
    BY <1>1 DEF ShownOnce
  <2>1. CASE i \in DOMAIN shown /\ j \in DOMAIN shown
    BY <1>5, <1>6, <2>1 DEF ShownKept, ShownOnce
  <2>2. CASE i = k /\ j \in DOMAIN shown
    BY <1>5, <1>8, <2>2
  <2>3. CASE j = k /\ i \in DOMAIN shown
    BY <1>5, <1>8, <2>3
  <2> QED
    BY <1>5, <2>1, <2>2, <2>3
<1>10. CodeShown'
  <2> SUFFICES ASSUME NEW o \in InCode, o < dwi' PROVE Covered(o)'
    BY <1>1 DEF CodeShown
  <2>1. CASE o < dwi
    <3>1. Covered(o)
      BY <2>1 DEF ShownKept, CodeShown
    <3>2. PICK i \in DOMAIN shown : shown[i].off < Size /\ SegStart(file, shown[i].off) = SegStart(file, o)
      BY <3>1 DEF Covered
    <3>3. i \in DOMAIN shown' /\ shown'[i] = shown[i]
      BY <1>5
    <3> QED
      BY <1>1, <3>2, <3>3 DEF Covered
  <2>2. CASE ~(o < dwi)
    <3>1. o \in Nat /\ dwi <= o /\ o <= e /\ o < Size /\ ~IsBreak(At(o))
      BY <1>2, <1>3, <1>4, <2>2
    <3>2. o < e \/ o = Size
      BY <1>2, <1>3, <3>1
    <3>3. ~IsBreak(At(dwi))
      BY <1>2
    <3>4. \A j \in dwi..(o - 1) : ~IsBreak(file[j + 1])
      BY <1>2, <1>3, <3>1, <3>2, <3>3 DEF At
    <3>5. SegStart(file, o) = SegStart(file, dwi)
      <4>1. o <= Len(file)
        BY <1>2, <3>1
      <4> QED
        BY <1>2, <3>1, <3>4, <4>1, SegTogether
    <3>6. k \in DOMAIN shown' /\ shown'[k].off = dwi
      BY <1>5
    <3> QED
      BY <1>1, <3>5, <3>6 DEF Covered
  <2> QED
    BY <2>1, <2>2
<1>11. AtEndShown'
  <2>1. \A i \in DOMAIN shown' : shown'[i].off < Size /\ shown'[i].off \in Nat
    BY <1>2, <1>5, <1>6
  <2>2. ASSUME NEW i \in DOMAIN shown', shown'[i].off >= Size' PROVE FALSE
    <3> DEFINE x == shown'[i].off
    <3>1. x \in Nat /\ x < Size /\ x >= Size
      BY <1>1, <2>1, <2>2
    <3> HIDE DEF x
    <3> QED
      BY <1>2, <3>1
  <2> QED
    BY <2>2 DEF AtEndShown
<1> QED
  BY <1>7, <1>9, <1>10, <1>11 DEF ShownKept

(* The last byte of a comment that the file ends in is taken for a find.   *)
LEMMA ShowsAtEnd ==
  ASSUME TypeOK, ShownKept, UNCHANGED inputs, dwi < Size,
         NEW r \in [off : Nat, begin : Nat, line : Nat], r.off = Size,
         shown' = Append(shown, r), dwi' \in Nat, dwi' >= Size,
         \A o \in InCode : o < dwi, Len(find) = 1, Modes[Size] \in InComment
  PROVE  ShownKept'
<1>1. /\ file' = file /\ find' = find /\ Size' = Size /\ Modes' = Modes /\ InCode' = InCode
  BY SameModes
<1>2. dwi \in Nat /\ Size \in Nat /\ Size = Len(file)
  BY Given DEF TypeOK
<1> DEFINE k == Len(shown) + 1
<1>3. /\ DOMAIN shown = 1..(k - 1) /\ k \in Nat /\ DOMAIN shown' = 1..k /\ shown'[k] = r
      /\ Len(shown') = k
      /\ \A i \in DOMAIN shown : shown'[i] = shown[i] /\ shown[i].off \in Nat
      /\ \A i \in DOMAIN shown' : i \in DOMAIN shown \/ i = k
  BY ShownIs
<1>4. \A i \in DOMAIN shown : shown[i].off < Size
  <2>1. \A i \in DOMAIN shown : ~(shown[i].off >= Size)
    BY <1>2 DEF ShownKept, AtEndShown
  <2> QED
    BY <1>2, <1>3, <2>1
<1> HIDE DEF k
<1>5. \A i \in DOMAIN shown' : shown'[i].off < Size => i \in DOMAIN shown
  BY <1>2, <1>3
<1>6. ShownInCode'
  <2> SUFFICES ASSUME NEW i \in DOMAIN shown', shown'[i].off < Size
               PROVE  shown'[i].off \in InCode /\ Behind(file, shown'[i].off, dwi')
    BY <1>1 DEF ShownInCode
  <2>1. Behind(file, shown'[i].off, dwi')
    BY <1>2 DEF Behind
  <2> QED
    BY <1>3, <1>4, <1>5, <2>1 DEF ShownKept, ShownInCode
<1>7. ShownOnce'
  BY <1>1, <1>3, <1>5 DEF ShownKept, ShownOnce
<1>8. CodeShown'
  <2> SUFFICES ASSUME NEW o \in InCode PROVE Covered(o)'
    BY <1>1 DEF CodeShown
  <2>1. PICK i \in DOMAIN shown : shown[i].off < Size /\ SegStart(file, shown[i].off) = SegStart(file, o)
    BY DEF ShownKept, CodeShown, Covered
  <2>2. i \in DOMAIN shown' /\ shown'[i] = shown[i]
    BY <1>3
  <2> QED
    BY <1>1, <2>1, <2>2 DEF Covered
<1>9. AtEndShown'
  <2> SUFFICES ASSUME NEW i \in DOMAIN shown', shown'[i].off >= Size
               PROVE  i = Len(shown')
    BY <1>1 DEF AtEndShown
  <2>1. ASSUME i \in DOMAIN shown PROVE FALSE
    <3> DEFINE x == shown'[i].off
    <3>1. x \in Nat /\ x < Size /\ x >= Size
      BY <1>3, <1>4, <2>1
    <3> HIDE DEF x
    <3> QED
      BY <1>2, <3>1
  <2> QED
    BY <1>3, <2>1
<1> QED
  BY <1>6, <1>7, <1>8, <1>9 DEF ShownKept
-----------------------------------------------------------------------------
(* A turn of the loop keeps it so.                                         *)

(* What the code tests for reads as it is written.                         *)
LEMMA ChrIs ==
  ASSUME TypeOK, Scanning, Text
  PROVE  /\ dwi \in Nat /\ Size \in Nat /\ dwi < Size /\ At(dwi) \in Byte
         /\ \A x \in {STAR, SLASH, HASH, BACKSLASH, 34, 39, LF, CR} : Chr = x <=> At(dwi) = x
         /\ Hits(Chr, dwi) <=> FoundAt(sw, file, dwi, Size, ThisFind)
<1>1. dwi \in Nat /\ Size \in Nat /\ dwi < Size
  BY Given DEF TypeOK, Scanning
<1>2. At(dwi) \in Byte
  BY <1>1, AtType
<1>3. \A x \in {STAR, SLASH, HASH, BACKSLASH, 34, 39, LF, CR} : Chr = x <=> At(dwi) = x
  <2>1. Chr = IF sw.case THEN At(dwi) ELSE ToUpper(At(dwi))
    BY DEF Chr, GetChr, Mask, Text
  <2> QED
    BY <1>2, <2>1 DEF ToUpper, Byte, STAR, SLASH, HASH, BACKSLASH, LF, CR
<1>4. Hits(Chr, dwi) <=> FoundAt(sw, file, dwi, Size, ThisFind)
  BY DEF Hits, FoundAt, Chr, At
<1> QED
  BY <1>1, <1>2, <1>3, <1>4

(* Where the code sees a comment open, one does.                           *)
LEMMA OpensIs ==
  ASSUME TypeOK, Text, Scanning, ModeKept
  PROVE  /\ OpensBlock => Modes[dwi + 1] = "block"
         /\ OpensLine \/ OpensPerl => Modes[dwi + 1] = "line"
<1>1. /\ dwi \in Nat /\ dwi < Size
      /\ \A x \in {STAR, SLASH, HASH, BACKSLASH, 34, 39, LF, CR} : Chr = x <=> At(dwi) = x
  BY ChrIs
<1>2. Modes[dwi + 1] = After(Modes[dwi], At(dwi))
  BY <1>1, NextMode
<1>3. CASE sw.perl
  <2>1. At(dwi) = LF \/ Modes[dwi] = PerlMode
    BY <1>1, <1>3 DEF ModeKept
  <2>2. ASSUME OpensPerl PROVE Modes[dwi + 1] = "line"
    <3>1. At(dwi) = HASH /\ ~inQuot /\ pd # BACKSLASH
      BY <1>1, <2>2 DEF OpensPerl
    <3>2. Modes[dwi] = "code"
      BY <2>1, <3>1 DEF PerlMode, HASH, LF
    <3>3. PerlAfter("code", HASH) = "line"
      BY DEF PerlAfter, HASH, LF, BACKSLASH
    <3> QED
      BY <1>2, <1>3, <3>1, <3>2, <3>3 DEF After
  <2> QED
    BY <1>3, <2>2 DEF OpensBlock, OpensLine
<1>4. CASE ~sw.perl
  <2>1. Modes[dwi] = IF pd = SLASH THEN "slash" ELSE "code"
    BY <1>1, <1>4 DEF ModeKept
  <2>2. Modes[dwi + 1] = CAfter(Modes[dwi], At(dwi))
    BY <1>2, <1>4 DEF After
  <2>3. OpensBlock => At(dwi) = STAR /\ pd = SLASH
    BY <1>1 DEF OpensBlock
  <2>4. OpensLine => At(dwi) = SLASH /\ pd = SLASH
    BY <1>1 DEF OpensLine
  <2> QED
    BY <1>4, <2>1, <2>2, <2>3, <2>4 DEF CAfter, OpensPerl, STAR, SLASH
<1> QED
  BY <1>3, <1>4

(* A line has one end, wherever in it one looks for it.                    *)
LEMMA EndFromNext ==
  ASSUME TypeOK, NEW o \in Nat, o < Size, ~IsBreak(At(o))
  PROVE  EndOfLine(file, o) = EndOfLine(file, o + 1)
<1> DEFINE d == EndOfLine(file, o)
           e == EndOfLine(file, o + 1)
<1>1. file \in Seq(Byte) /\ Size = Len(file) /\ Size \in Nat /\ ~IsBreak(file[o + 1])
  BY Given DEF At
<1>2. /\ d \in o..Size /\ (d = Size \/ IsBreak(file[d + 1]))
      /\ \A j \in o..(d - 1) : ~IsBreak(file[j + 1])
  <2>1. o \in 0..Len(file)
    BY <1>1
  <2> QED
    BY <1>1, <2>1, EndOfLineIs
<1>3. /\ e \in (o + 1)..Size /\ (e = Size \/ IsBreak(file[e + 1]))
      /\ \A j \in (o + 1)..(e - 1) : ~IsBreak(file[j + 1])
  <2>1. o + 1 \in 0..Len(file)
    BY <1>1
  <2> QED
    BY <1>1, <2>1, EndOfLineIs
<1> HIDE DEF d, e
<1>4. ~(d < e)
  BY <1>1, <1>2, <1>3
<1>5. ~(e < d)
  BY <1>1, <1>2, <1>3
<1>6. d = e
  BY <1>1, <1>2, <1>3, <1>4, <1>5
<1> QED
  BY <1>6 DEF d, e

(* What a turn does to the quote that the scan is in.                      *)
Quoting(quoted) ==
  IF sw.perl /\ Chr \in Quotes
  THEN /\ quoted = IF inQuot THEN Chr # qc ELSE TRUE
       /\ qc' = IF inQuot THEN qc ELSE Chr
  ELSE quoted = inQuot /\ qc' = qc

(* What the machine is in behind a byte at which no comment opens.         *)
LEMMA AfterByte ==
  ASSUME TypeOK, Text, Scanning, ModeKept, ~OpensBlock, ~OpensLine, ~OpensPerl,
         NEW quoted \in BOOLEAN, Quoting(quoted)
  PROVE  /\ sw.perl =>
              LET q == quoted /\ Chr # LF
              IN  /\ Modes[dwi + 1] = IF q THEN IF qc' = 34 THEN "quote" ELSE "apostrophe"
                                      ELSE IF Chr = BACKSLASH THEN "escape" ELSE "code"
                  /\ q => qc' # 0
         /\ ~sw.perl => Modes[dwi + 1] = IF Chr = SLASH THEN "slash" ELSE "code"
         /\ At(dwi) # LF => Modes[dwi] \notin InComment
<1>1. /\ dwi \in Nat /\ dwi < Size
      /\ \A x \in {STAR, SLASH, HASH, BACKSLASH, 34, 39, LF, CR} : Chr = x <=> At(dwi) = x
  BY ChrIs
<1>2. Modes[dwi + 1] = After(Modes[dwi], At(dwi)) /\ Modes[dwi] \in Mode
  BY <1>1, NextMode
<1>3. CASE ~sw.perl
  <2>1. Modes[dwi] = IF pd = SLASH THEN "slash" ELSE "code"
    BY <1>1, <1>3 DEF ModeKept
  <2>2. Modes[dwi + 1] = CAfter(Modes[dwi], At(dwi))
    BY <1>2, <1>3 DEF After
  <2>3. pd = SLASH => At(dwi) # STAR /\ At(dwi) # SLASH
    BY <1>1, <1>3 DEF OpensBlock, OpensLine
  <2>4. Modes[dwi + 1] = IF At(dwi) = SLASH THEN "slash" ELSE "code"
    BY <2>1, <2>2, <2>3 DEF CAfter
  <2> QED
    BY <1>1, <1>3, <2>1, <2>4 DEF InComment
<1>4. CASE sw.perl
  <2> DEFINE c == At(dwi)
             m == Modes[dwi]
             q == quoted /\ Chr # LF
  <2>1. c = LF \/ (m = PerlMode /\ (inQuot => qc # 0))
    BY <1>1, <1>4 DEF ModeKept
  <2>2. Modes[dwi + 1] = PerlAfter(m, c)
    BY <1>2, <1>4 DEF After
  <2>3. inQuot \in BOOLEAN /\ qc \in {34, 39, 0}
    BY DEF TypeOK, Quotes
  <2>4. c = HASH => inQuot \/ pd = BACKSLASH
    BY <1>1, <1>4 DEF OpensPerl
  <2>5. Chr \in Quotes <=> c \in {34, 39}
    BY <1>1 DEF Quotes
  <2>6. CASE c = LF
    <3>1. PerlAfter(m, c) = "code" /\ Chr = LF /\ Chr # BACKSLASH
      BY <1>1, <2>6 DEF PerlAfter, IsBreak, LF, BACKSLASH
    <3> QED
      BY <1>4, <2>2, <2>6, <3>1
  <2>7. CASE c # LF /\ c \in {34, 39}
    <3>1. m = PerlMode /\ (inQuot => qc # 0) /\ Chr = c
      BY <1>1, <2>1, <2>7
    <3>2. quoted = (IF inQuot THEN c # qc ELSE TRUE) /\ qc' = IF inQuot THEN qc ELSE c
      BY <1>4, <2>5, <2>7, <3>1 DEF Quoting
    <3>3. CASE inQuot
      <4>1. qc \in {34, 39} /\ qc' = qc /\ (quoted <=> c # qc)
        BY <2>3, <3>1, <3>2, <3>3
      <4>2. m = IF qc = 34 THEN "quote" ELSE "apostrophe"
        BY <3>1, <3>3 DEF PerlMode
      <4>3. PerlAfter(m, c) = IF c = qc THEN "code" ELSE m
        BY <2>7, <4>1, <4>2 DEF PerlAfter, LF
      <4> QED
        BY <1>4, <2>2, <2>7, <3>1, <4>1, <4>2, <4>3 DEF InComment, BACKSLASH, LF
    <3>4. CASE ~inQuot
      <4>1. quoted /\ qc' = c
        BY <3>2, <3>4
      <4>2. m \in {"escape", "code"}
        BY <3>1, <3>4 DEF PerlMode
      <4>3. PerlAfter(m, c) = IF c = 34 THEN "quote" ELSE "apostrophe"
        BY <2>7, <4>2 DEF PerlAfter, HASH, LF, BACKSLASH
      <4> QED
        BY <1>4, <2>2, <2>7, <3>1, <4>1, <4>2, <4>3 DEF InComment, LF
    <3> QED
      BY <2>3, <3>3, <3>4
  <2>8. CASE c # LF /\ c \notin {34, 39}
    <3>1. m = PerlMode /\ (inQuot => qc # 0) /\ Chr # LF
      BY <1>1, <2>1, <2>8
    <3>2. quoted = inQuot /\ qc' = qc
      BY <1>4, <2>5, <2>8 DEF Quoting
    <3>3. CASE inQuot
      <4>1. m = IF qc = 34 THEN "quote" ELSE "apostrophe"
        BY <3>1, <3>3 DEF PerlMode
      <4>2. PerlAfter(m, c) = m
        BY <2>8, <4>1 DEF PerlAfter, LF
      <4> QED
        BY <1>4, <2>2, <3>1, <3>2, <3>3, <4>1, <4>2 DEF InComment
    <3>4. CASE ~inQuot
      <4>1. m = IF pd = BACKSLASH THEN "escape" ELSE "code"
        BY <3>1, <3>4 DEF PerlMode
      <4>2. PerlAfter(m, c) = IF c = BACKSLASH THEN "escape" ELSE "code"
        BY <2>4, <2>8, <3>4, <4>1 DEF PerlAfter, LF, HASH, BACKSLASH
      <4>3. Chr = BACKSLASH <=> c = BACKSLASH
        BY <1>1
      <4> QED
        BY <1>4, <2>2, <3>1, <3>2, <3>4, <4>1, <4>2, <4>3 DEF InComment
    <3> QED
      BY <2>3, <3>3, <3>4
  <2> QED
    BY <2>6, <2>7, <2>8
<1> QED
  BY <1>3, <1>4
(* No find of several bytes stands behind the file.                        *)
LEMMA HitAtEnd ==
  ASSUME TypeOK, NEW c, Hits(c, Size)
  PROVE  Len(find) = 1
<1>1. Size \in Nat /\ Len(ThisFind) \in Nat \ {0}
  BY Given
<1>2. Len(ThisFind) = Len(find)
  <2>1. find \in Seq(Byte \ {0, LF, CR}) \ {<<>>}
    BY Given
  <2> QED
    BY <2>1, Folded DEF ThisFind
<1>3. Len(ThisFind) = 1
  <2> SUFFICES ASSUME Len(ThisFind) # 1 PROVE FALSE
    OBVIOUS
  <2>1. Len(ThisFind) >= Size - Size
    BY <1>1
  <2> QED
    BY <2>1 DEF Hits, FullComp
<1> QED
  BY <1>2, <1>3

(* The turn for a find in code takes the scan to the end of the line, and  *)
(* to code behind it: no comment that opens on the way goes on there.      *)
LEMMA ModeBehindFind ==
  ASSUME TypeOK, Text, NoneOpensBehind, NoLoneCR(file), UNCHANGED inputs, dwi < Size,
         dwi \in InCode, NEW quoted \in BOOLEAN,
         LET e == EndOfLine(file, dwi + 1)
         IN  dwi' = e + 1 /\ (e < Size => pd' = At(e) /\ inQuot' = (quoted /\ At(e) # LF))
  PROVE  ModeKept'
<1> DEFINE e == EndOfLine(file, dwi + 1)
<1>1. /\ file' = file /\ sw' = sw /\ Size' = Size /\ Modes' = Modes /\ \A j : At(j)' = At(j)
  BY SameModes DEF At
<1>2. /\ dwi \in Nat /\ Size \in Nat /\ ~IsBreak(At(dwi)) /\ file \in Seq(Byte) /\ Size = Len(file)
  BY Given, CodeIs DEF TypeOK
<1>3. e \in (dwi + 1)..Size /\ (e < Size => At(e) \in Byte /\ IsBreak(At(e)))
  BY <1>2, LineEndType
<1>4. EndOfLine(file, dwi) = e
  BY <1>2, EndFromNext
<1>5. dwi' = e + 1 /\ (e < Size => pd' = At(e) /\ inQuot' = (quoted /\ At(e) # LF))
  OBVIOUS
<1>6. Modes[e] \notin {"block", "star"}
  BY <1>4 DEF NoneOpensBehind
<1> HIDE DEF e
<1> SUFFICES ASSUME e + 1 < Size
             PROVE  IF sw.perl
                    THEN At(e + 1) = LF
                         \/ (Modes[e + 1] = PerlMode' /\ (inQuot' => qc' # 0))
                    ELSE Modes[e + 1] = IF pd' = SLASH THEN "slash" ELSE "code"
  BY <1>1, <1>5 DEF ModeKept
<1>7. /\ e \in Nat /\ e < Size /\ IsBreak(At(e)) /\ pd' = At(e)
      /\ inQuot' = (quoted /\ At(e) # LF)
  BY <1>2, <1>3, <1>5
<1>8. Modes[e + 1] = After(Modes[e], At(e)) /\ Modes[e] \in Mode
  BY <1>7, NextMode
<1>9. CASE ~sw.perl
  <2>1. Modes[e + 1] = "code"
    BY <1>6, <1>7, <1>8, <1>9 DEF After, CAfter, IsBreak, CR, LF, STAR, SLASH
  <2> QED
    BY <1>7, <1>9, <2>1 DEF IsBreak, CR, LF, SLASH
<1>10. CASE sw.perl /\ At(e) = LF
  <2>1. Modes[e + 1] = "code"
    BY <1>8, <1>10 DEF After, PerlAfter, IsBreak
  <2>2. ~inQuot' /\ pd' # BACKSLASH
    <3>1. inQuot' = (quoted /\ At(e) # LF) /\ At(e) = LF
      BY <1>7, <1>10
    <3>2. ~inQuot'
      BY Zenon, <3>1
    <3>3. pd' = LF
      BY <1>7, <1>10
    <3> QED
      BY <3>2, <3>3 DEF LF, BACKSLASH
  <2>3. PerlMode' = "code"
    BY <2>2 DEF PerlMode
  <2> QED
    BY <1>10, <2>1, <2>2, <2>3
<1>11. CASE sw.perl /\ At(e) # LF
  <2>1. file[e + 1] = CR /\ e + 1 \in DOMAIN file
    BY <1>2, <1>7, <1>11 DEF IsBreak, At
  <2>2. At(e + 1) = LF
    BY <2>1 DEF NoLoneCR, At
  <2> QED
    BY <1>11, <2>2
<1> QED
  BY <1>9, <1>10, <1>11

(* A turn at whose byte no comment opens.                                  *)
LEMMA TurnHere ==
  ASSUME TypeOK, Text, NoneOpensBehind, NoLoneCR(file), ModeKept, ShownKept, Scanning,
         UNCHANGED inputs, ~OpensBlock, ~OpensLine, ~OpensPerl,
         NEW quoted \in BOOLEAN, Quoting(quoted), CompareAt(Chr, dwi, quoted)
  PROVE  ModeKept' /\ ShownKept'
<1>1. /\ dwi \in Nat /\ Size \in Nat /\ dwi < Size /\ At(dwi) \in Byte
      /\ \A x \in {STAR, SLASH, HASH, BACKSLASH, 34, 39, LF, CR} : Chr = x <=> At(dwi) = x
      /\ Hits(Chr, dwi) <=> FoundAt(sw, file, dwi, Size, ThisFind)
  BY ChrIs
<1>2. /\ sw.perl =>
           LET q == quoted /\ Chr # LF
           IN  /\ Modes[dwi + 1] = IF q THEN IF qc' = 34 THEN "quote" ELSE "apostrophe"
                                   ELSE IF Chr = BACKSLASH THEN "escape" ELSE "code"
               /\ q => qc' # 0
      /\ ~sw.perl => Modes[dwi + 1] = IF Chr = SLASH THEN "slash" ELSE "code"
      /\ At(dwi) # LF => Modes[dwi] \notin InComment
  BY AfterByte
<1>3. /\ file' = file /\ sw' = sw /\ Size' = Size /\ Modes' = Modes
  BY SameModes
<1>4. CASE ~Hits(Chr, dwi)
  <2>1. EndTurn(Chr, dwi, quoted) /\ shown' = shown
    BY <1>4 DEF CompareAt
  <2>2. dwi' = dwi + 1 /\ pd' = Chr /\ inQuot' = (quoted /\ Chr # LF)
    BY <2>1 DEF EndTurn
  <2>3. ModeKept'
    <3>1. CASE sw.perl
      <4>1. Modes[dwi + 1] = PerlMode' /\ (inQuot' => qc' # 0)
        BY <1>2, <2>2, <3>1 DEF PerlMode
      <4> QED
        BY <1>3, <2>2, <3>1, <4>1 DEF ModeKept
    <3>2. CASE ~sw.perl
      BY <1>2, <1>3, <2>2, <3>2 DEF ModeKept
    <3> QED
      BY <3>1, <3>2
  <2>4. \A o \in InCode : ~(dwi <= o /\ o < dwi')
    <3> SUFFICES ASSUME NEW o \in InCode, dwi <= o, o < dwi' PROVE FALSE
      OBVIOUS
    <3>1. o \in Nat /\ FoundAt(sw, file, o, Size, ThisFind)
      BY CodeIs
    <3>2. o = dwi
      BY <1>1, <2>2, <3>1
    <3> QED
      BY <1>1, <1>4, <3>1, <3>2
  <2>5. ShownKept'
    BY <1>1, <2>1, <2>2, <2>4, PassesOver
  <2> QED
    BY <2>3, <2>5
<1>5. CASE Hits(Chr, dwi)
  <2> DEFINE e == EndOfLine(file, dwi + 1)
             d == IF dwi + 1 >= Size THEN Chr
                  ELSE IF e < Size THEN At(e) ELSE file[Size]
             r == [off |-> dwi, begin |-> lpoff[0], line |-> dwl]
  <2>1. EndTurn(d, e, quoted) /\ shown' = Append(shown, r)
    BY <1>1, <1>5 DEF CompareAt, Show, Text
  <2>2. e \in (dwi + 1)..Size
    BY <1>1, LineEndType
  <2>3. dwi' = e + 1 /\ pd' = d /\ inQuot' = (quoted /\ d # LF)
    BY <2>1 DEF EndTurn
  <2>4. e < Size => d = At(e)
    BY <1>1, <2>2
  <2>5. r \in [off : Nat, begin : Nat, line : Nat] /\ r.off = dwi
    BY <1>1 DEF TypeOK, MXLPS
  <2> HIDE DEF e, d, r
  <2>6. dwi \in InCode
    <3>1. FoundAt(sw, file, dwi, Size, ThisFind) /\ dwi \in 0..(Size - 1)
      BY <1>1, <1>5
    <3>2. ~IsBreak(At(dwi))
      BY <3>1, Given, ReadsBreak DEF FoundAt, At
    <3>3. Modes[dwi] \notin InComment
      BY <1>2, <3>2 DEF IsBreak
    <3>4. Modes[dwi + 1] \notin {"line", "block"}
      BY <1>2
    <3> QED
      BY <3>1, <3>3, <3>4, CodeIs
  <2>7. ShownKept'
    BY <1>1, <2>1, <2>3, <2>5, <2>6, ShowsFind DEF e
  <2>8. ModeKept'
    BY <1>1, <2>3, <2>4, <2>6, ModeBehindFind DEF e
  <2> QED
    BY <2>7, <2>8
<1> QED
  BY <1>4, <1>5
(* A comment to the end of the line is passed, and no find in it shown;    *)
(* the one that the file ends in may pass for a find there.                *)
LEMMA LineCommentKept ==
  ASSUME TypeOK, Text, NoneOpensBehind, NoLoneCR(file), ModeKept, ShownKept, LineComment
  PROVE  ModeKept' /\ ShownKept'
<1> DEFINE e == EndOfLine(file, dwi + 1)
           d == IF dwi + 1 = Size THEN Chr
                ELSE IF e < Size THEN At(e) ELSE file[Size]
<1>1. /\ Scanning /\ (OpensLine \/ OpensPerl) /\ CompareAt(d, e, inQuot)
      /\ UNCHANGED inputs /\ qc' = qc
  BY DEF LineComment
<1>2. dwi \in Nat /\ Size \in Nat /\ dwi < Size
  BY <1>1, ChrIs
<1>3. /\ e \in (dwi + 1)..Size /\ (e < Size => At(e) \in Byte /\ IsBreak(At(e)))
      /\ \A j \in (dwi + 1)..(e - 1) : ~IsBreak(At(j))
  BY <1>2, LineEndType DEF At
<1>4. e < Size => d = At(e)
  BY <1>2, <1>3
<1> HIDE DEF e, d
<1>5. /\ file' = file /\ sw' = sw /\ Size' = Size /\ Modes' = Modes /\ \A j : At(j)' = At(j)
  BY <1>1, SameModes DEF At
<1>6. \A o \in (dwi + 1)..e : Modes[o] = "line"
  <2>1. Modes[dwi + 1] = "line"
    BY <1>1, OpensIs
  <2>2. dwi + 1 \in Nat
    BY <1>2
  <2> QED
    BY <1>3, <2>1, <2>2, LineGoesOn
<1>7. \A o \in InCode : o \in Nat /\ o < Size /\ ~(dwi <= o /\ o <= e)
  <2> TAKE o \in InCode
  <2>1. o \in Nat /\ o < Size /\ Modes[o] # "line" /\ Modes[o + 1] # "line"
    BY CodeIs DEF InComment
  <2>2. o # dwi
    BY <1>2, <1>3, <1>6, <2>1
  <2>3. o \notin (dwi + 1)..e
    BY <1>6, <2>1
  <2> QED
    BY <1>2, <1>3, <2>1, <2>2, <2>3
<1>8. CASE ~Hits(d, e)
  <2>1. EndTurn(d, e, inQuot) /\ shown' = shown
    BY <1>1, <1>8 DEF CompareAt
  <2>2. dwi' = e + 1 /\ pd' = d /\ inQuot' = (inQuot /\ d # LF)
    BY <2>1 DEF EndTurn
  <2>3. dwi' \in Nat /\ dwi < dwi' /\ \A o \in InCode : ~(dwi <= o /\ o < dwi')
    BY <1>2, <1>3, <1>7, <2>2
  <2>4. ShownKept'
    BY <1>1, <1>2, <2>1, <2>3, PassesOver
  <2>5. ModeKept'
    <3> SUFFICES ASSUME e + 1 < Size
                 PROVE  IF sw.perl
                        THEN Modes[e + 1] = PerlMode' /\ (inQuot' => qc' # 0)
                        ELSE Modes[e + 1] = IF pd' = SLASH THEN "slash" ELSE "code"
      BY <1>5, <2>2 DEF ModeKept
    <3>1. e \in Nat /\ e < Size /\ e \in (dwi + 1)..e
      BY <1>2, <1>3
    <3>2. IsBreak(At(e)) /\ d = At(e)
      BY <1>3, <1>4, <3>1
    <3>3. Modes[e + 1] = "code"
      BY <1>6, <3>1, <3>2, NextMode DEF After, PerlAfter, CAfter
    <3>4. pd' # SLASH /\ pd' # BACKSLASH
      BY <2>2, <3>2 DEF IsBreak, CR, LF, SLASH, BACKSLASH
    <3>5. ASSUME sw.perl PROVE ~inQuot'
      <4>1. ~inQuot
        BY <1>1, <3>5 DEF OpensLine, OpensPerl
      <4> QED
        BY Zenon, <2>2, <4>1
    <3>6. ASSUME sw.perl PROVE PerlMode' = "code"
      BY <3>4, <3>5, <3>6 DEF PerlMode
    <3> QED
      BY <3>3, <3>4, <3>5, <3>6
  <2> QED
    BY <2>4, <2>5
<1>9. CASE Hits(d, e) /\ e < Size
  <2>1. IsBreak(d)
    BY <1>3, <1>4, <1>9
  <2>2. d = ThisFind[1]
    BY <1>9 DEF Hits
  <2> QED
    BY <2>1, <2>2, Given
<1>10. CASE Hits(d, e) /\ ~(e < Size)
  <2>1. e = Size
    BY <1>2, <1>3, <1>10
  <2> DEFINE r == [off |-> e, begin |-> lpoff[0], line |-> dwl]
  <2>2. shown' = Append(shown, r)
    BY <1>1, <1>10 DEF CompareAt, Show
  <2>3. dwi' = e + 2
    <3>1. \E x : EndTurn(x, e + 1, inQuot)
      BY <1>1, <1>10, <2>1 DEF CompareAt, Text
    <3>2. dwi' = (e + 1) + 1
      BY <3>1 DEF EndTurn
    <3> QED
      BY <1>2, <2>1, <3>2
  <2>4. dwi' \in Nat /\ dwi' >= Size /\ ~(dwi' < Size')
    BY <1>2, <1>5, <2>1, <2>3
  <2>5. r \in [off : Nat, begin : Nat, line : Nat] /\ r.off = Size
    BY <1>2, <2>1 DEF TypeOK, MXLPS
  <2>6. \A o \in InCode : o < dwi
    BY <1>2, <1>7, <2>1
  <2>7. Len(find) = 1
    BY <1>10, <2>1, HitAtEnd
  <2>8. Modes[Size] \in InComment
    BY <1>3, <1>6, <2>1 DEF InComment
  <2> HIDE DEF r
  <2>9. ShownKept'
    BY <1>1, <1>2, <2>2, <2>4, <2>5, <2>6, <2>7, <2>8, ShowsAtEnd
  <2>10. ModeKept'
    BY <2>4 DEF ModeKept
  <2> QED
    BY <2>9, <2>10
<1> QED
  BY <1>8, <1>9, <1>10

(* No find in code stands in a block comment.                              *)
LEMMA NoneInBlock ==
  ASSUME TypeOK, Text, Scanning, ModeKept, OpensBlock
  PROVE  /\ BlockEnd \in (dwi + 1)..Size
         /\ \A o \in (dwi + 1)..BlockEnd : Modes[o] \in {"block", "star"}
         /\ BlockEnd < Size => Modes[BlockEnd + 1] = "code"
         /\ \A o \in InCode : o \in Nat /\ o < Size /\ ~(dwi <= o /\ o <= BlockEnd)
<1>1. ~sw.perl /\ Modes[dwi + 1] = "block"
  BY OpensIs DEF OpensBlock
<1>2. dwi \in Nat /\ Size \in Nat /\ dwi < Size
  BY ChrIs
<1>3. BlockEnd \in (dwi + 1)..Size
  BY BlockEndIs
<1>4. /\ \A o \in (dwi + 1)..BlockEnd : Modes[o] \in {"block", "star"}
      /\ BlockEnd < Size => Modes[BlockEnd + 1] = "code"
  BY <1>1, BlockGoesOn
<1>5. ASSUME NEW o \in InCode
      PROVE  o \in Nat /\ o < Size /\ ~(dwi <= o /\ o <= BlockEnd)
  <2>1. o \in Nat /\ o < Size /\ Modes[o] \notin {"block", "star"} /\ Modes[o + 1] # "block"
    BY CodeIs DEF InComment
  <2>2. o # dwi
    BY <1>1, <2>1
  <2>3. o \notin (dwi + 1)..BlockEnd
    BY <1>4, <2>1
  <2> QED
    BY <1>2, <1>3, <2>1, <2>2, <2>3
<1> QED
  BY <1>3, <1>4, <1>5

(* A block comment is passed.                                              *)
LEMMA BlockKept ==
  ASSUME TypeOK, Text, ModeKept, ShownKept, BlockComment
  PROVE  ModeKept' /\ ShownKept'
<1> DEFINE e == BlockEnd
<1>1. /\ Scanning /\ OpensBlock /\ e < Size /\ dwi' = e + 1 /\ pd' = 0
      /\ UNCHANGED inputs /\ shown' = shown
  BY DEF BlockComment
<1>2. dwi \in Nat /\ Size \in Nat /\ dwi < Size
  BY <1>1, ChrIs
<1>3. /\ e \in (dwi + 1)..Size /\ Modes[e + 1] = "code"
      /\ \A o \in InCode : o \in Nat /\ ~(dwi <= o /\ o <= e)
  BY <1>1, NoneInBlock
<1> HIDE DEF e
<1>4. sw' = sw /\ Modes' = Modes /\ Size' = Size
  BY <1>1, SameModes
<1>5. ModeKept'
  <2>1. ~sw.perl
    BY <1>1 DEF OpensBlock
  <2> QED
    BY <1>1, <1>3, <1>4, <2>1 DEF ModeKept, SLASH
<1>6. dwi' \in Nat /\ dwi < dwi' /\ \A o \in InCode : ~(dwi <= o /\ o < dwi')
  BY <1>1, <1>2, <1>3
<1>7. ShownKept'
  BY <1>1, <1>2, <1>6, PassesOver
<1> QED
  BY <1>5, <1>7

(* The file ends in a block comment, whose last byte may pass for a find.  *)
LEMMA BlockAtEndKept ==
  ASSUME TypeOK, Text, ModeKept, ShownKept, BlockCommentAtEnd
  PROVE  ModeKept' /\ ShownKept'
<1> DEFINE d == IF dwi + 1 < Size THEN file[Size] ELSE Chr
           lfs == LFsIn(dwi + 1, Size)
           offs == IncLines(lfs, lpoff)
           line == dwl + Cardinality(lfs)
           r == [off |-> Size, begin |-> offs[0], line |-> line]
<1>1. /\ Scanning /\ OpensBlock /\ BlockEnd = Size /\ dwi' = Size + 1 /\ UNCHANGED inputs
      /\ IF Hits(d, Size) THEN shown' = Append(shown, r) ELSE shown' = shown
  BY DEF BlockCommentAtEnd, Show
<1>2. dwi \in Nat /\ Size \in Nat /\ dwi < Size
  BY <1>1, ChrIs
<1>3. /\ Size \in (dwi + 1)..Size
      /\ \A o \in (dwi + 1)..Size : Modes[o] \in {"block", "star"}
      /\ \A o \in InCode : o \in Nat /\ o < Size /\ ~(dwi <= o /\ o <= Size)
  BY <1>1, NoneInBlock
<1>4. offs \in [0..MXLPS -> Nat] /\ line \in Nat
  <2>1. Cardinality(lfs) \in Nat /\ offs \in [0..MXLPS -> Nat]
    BY <1>1, <1>2, <1>3, BlockLines
  <2> HIDE DEF lfs, offs
  <2> QED
    BY <2>1 DEF TypeOK
<1> HIDE DEF d, offs, line
<1>5. r \in [off : Nat, begin : Nat, line : Nat] /\ r.off = Size
  BY <1>2, <1>4 DEF MXLPS
<1> HIDE DEF r
<1>6. Size' = Size
  BY <1>1, SameModes
<1>7. dwi' \in Nat /\ dwi < dwi' /\ dwi' >= Size /\ ~(dwi' < Size')
  BY <1>1, <1>2, <1>6
<1>8. ModeKept'
  BY <1>7 DEF ModeKept
<1>9. CASE Hits(d, Size)
  <2>1. Len(find) = 1
    BY <1>9, HitAtEnd
  <2>2. Modes[Size] \in InComment
    BY <1>3 DEF InComment
  <2>3. \A o \in InCode : o < dwi
    BY <1>2, <1>3
  <2>4. ShownKept'
    BY <1>1, <1>2, <1>5, <1>7, <1>9, <2>1, <2>2, <2>3, ShowsAtEnd
  <2> QED
    BY <1>8, <2>4
<1>10. CASE ~Hits(d, Size)
  <2>1. \A o \in InCode : ~(dwi <= o /\ o < dwi')
    BY <1>1, <1>2, <1>3
  <2>2. ShownKept'
    BY <1>1, <1>2, <1>7, <1>10, <2>1, PassesOver
  <2> QED
    BY <1>8, <2>2
<1> QED
  BY <1>9, <1>10

LEMMA NextSkip ==
  TypeOK /\ SkipKept /\ [Next]_vars => SkipKept'
<1> SUFFICES ASSUME TypeOK, SkipKept, [Next]_vars PROVE SkipKept'
  OBVIOUS
<1>1. UNCHANGED inputs
  BY DEF Next, BlockComment, BlockCommentAtEnd, LineComment, Quote, Code, vars
<1> SUFFICES ASSUME Text, NoneOpensBehind, NoLoneCR(file)
             PROVE  ModeKept' /\ ShownKept'
  <2>1. Text' = Text /\ NoneOpensBehind' = NoneOpensBehind /\ file' = file
    BY <1>1, SameModes
  <2> QED
    BY <2>1 DEF SkipKept
<1>2. ModeKept /\ ShownKept
  BY DEF SkipKept
<1>3. CASE BlockComment
  BY <1>2, <1>3, BlockKept
<1>4. CASE BlockCommentAtEnd
  BY <1>2, <1>4, BlockAtEndKept
<1>5. CASE LineComment
  BY <1>2, <1>5, LineCommentKept
<1>6. CASE Quote
  <2> DEFINE quoted == IF inQuot THEN Chr # qc ELSE TRUE
  <2>1. /\ Scanning /\ sw.perl /\ Chr \in Quotes /\ CompareAt(Chr, dwi, quoted)
        /\ qc' = IF inQuot THEN qc ELSE Chr
    BY <1>6 DEF Quote
  <2>2. ~OpensBlock /\ ~OpensLine /\ ~OpensPerl
    BY <2>1 DEF OpensBlock, OpensLine, OpensPerl, Quotes, HASH
  <2>3. quoted \in BOOLEAN
    BY DEF TypeOK
  <2>4. Quoting(quoted)
    BY <2>1 DEF Quoting
  <2> HIDE DEF quoted
  <2> QED
    BY <1>1, <1>2, <2>1, <2>2, <2>3, <2>4, TurnHere
<1>7. CASE Code
  <2>1. /\ Scanning /\ ~OpensBlock /\ ~OpensLine /\ ~OpensPerl
        /\ CompareAt(Chr, dwi, inQuot)
    BY <1>7 DEF Code
  <2>2. Quoting(inQuot)
    BY <1>7 DEF Code, Quoting
  <2>3. inQuot \in BOOLEAN
    BY DEF TypeOK
  <2> QED
    BY <1>1, <1>2, <2>1, <2>2, <2>3, TurnHere
<1>8. CASE UNCHANGED vars
  <2>1. UNCHANGED <<inputs, dwi, pd, inQuot, qc, shown>>
    BY <1>8 DEF vars
  <2>2. /\ file' = file /\ find' = find /\ sw' = sw /\ Size' = Size /\ Modes' = Modes
        /\ InCode' = InCode /\ At(dwi)' = At(dwi)
    BY <2>1, SameModes DEF At
  <2>3. ModeKept'
    BY <1>2, <2>1, <2>2 DEF ModeKept, PerlMode
  <2>4. ShownInCode' /\ ShownOnce'
    BY <1>2, <2>1, <2>2 DEF ShownKept, ShownInCode, ShownOnce
  <2>5. CodeShown'
    BY <1>2, <2>1, <2>2 DEF ShownKept, CodeShown, Covered
  <2>6. AtEndShown'
    BY <1>2, <2>1, <2>2 DEF ShownKept, AtEndShown
  <2> QED
    BY <2>3, <2>4, <2>5, <2>6 DEF ShownKept
<1> QED
  BY <1>3, <1>4, <1>5, <1>6, <1>7, <1>8 DEF Next

LEMMA InitSkip == TypeOK /\ Init => SkipKept
<1> SUFFICES ASSUME TypeOK, Init PROVE ModeKept /\ ShownKept
  BY DEF SkipKept
<1>1. dwi = 0 /\ pd = 0 /\ inQuot = FALSE /\ shown = <<>>
  BY DEF Init
<1>2. Modes[0] = "code"
  BY ModesAre
<1>3. ModeKept
  BY <1>1, <1>2 DEF ModeKept, PerlMode, SLASH, BACKSLASH
<1>4. \A o \in InCode : ~(o < dwi)
  BY <1>1, CodeIs
<1>5. ShownKept
  BY <1>1, <1>4 DEF ShownKept, ShownInCode, ShownOnce, CodeShown, AtEndShown
<1> QED
  BY <1>3, <1>5

(* When the text has been scanned, what was shown is what the property     *)
(* says.                                                                   *)
LEMMA CodeFindsAre == TypeOK /\ SkipKept => CodeFindsShown
<1> DEFINE of == {i \in DOMAIN shown : shown[i].off < Size}
           segs == {SegStart(file, shown[i].off) : i \in of}
           atEnd == DOMAIN shown \ of
<1> SUFFICES ASSUME TypeOK, SkipKept, Done, Text, NoneOpensBehind, NoLoneCR(file)
             PROVE  /\ segs = {SegStart(file, o) : o \in InCode}
                    /\ Cardinality(of) = Cardinality(segs)
                    /\ atEnd \subseteq {Len(shown)}
                    /\ atEnd # {} => Len(find) = 1 /\ Modes[Size] \in InComment
  BY DEF CodeFindsShown
<1>1. ShownInCode /\ ShownOnce /\ CodeShown /\ AtEndShown
  BY DEF SkipKept, ShownKept
<1>2. /\ Len(shown) \in Nat /\ DOMAIN shown = 1..Len(shown)
      /\ \A i \in DOMAIN shown : shown[i].off \in Nat
  BY ShownIs
<1>3. dwi \in Nat /\ Size \in Nat /\ Size <= dwi /\ file \in Seq(Byte) /\ Size = Len(file)
  BY Given DEF TypeOK, Done
<1>4. segs \subseteq {SegStart(file, o) : o \in InCode}
  BY <1>1 DEF ShownInCode
<1>5. ASSUME NEW o \in InCode PROVE SegStart(file, o) \in segs
  <2>1. o < dwi
    BY <1>3, CodeIs
  <2> QED
    BY <1>1, <2>1 DEF CodeShown, Covered
<1>6. Cardinality(of) = Cardinality(segs)
  <2> DEFINE f == [i \in of |-> SegStart(file, shown[i].off)]
  <2>1. IsFiniteSet(of)
    <3>1. IsFiniteSet(1..Len(shown))
      BY <1>2, FS_Interval
    <3>2. of \subseteq 1..Len(shown)
      BY <1>2
    <3> QED
      BY <3>1, <3>2, FS_Subset
  <2>2. \A i \in of : SegStart(file, shown[i].off) \in Nat
    <3> TAKE i \in of
    <3> DEFINE x == shown[i].off
    <3>1. x \in Nat /\ x < Size
      BY <1>2
    <3> HIDE DEF x
    <3>2. x \in 0..Len(file)
      BY <1>3, <3>1
    <3>3. SegStart(file, x) \in Nat
      BY <1>3, <3>2, SegStartIs
    <3> QED
      BY <3>3 DEF x
  <2>3. \A i, j \in of : SegStart(file, shown[i].off) = SegStart(file, shown[j].off) => i = j
    BY <1>1 DEF ShownOnce
  <2>4. f \in [of -> Nat] /\ \A i, j \in of : f[i] = f[j] => i = j
    <3> HIDE DEF of
    <3> QED
      BY <2>2, <2>3
  <2>5. {f[i] : i \in of} = segs
    <3> HIDE DEF of
    <3> QED
      OBVIOUS
  <2> HIDE DEF of, f, segs
  <2>6. Cardinality(of) = Cardinality({f[i] : i \in of})
    BY <2>1, <2>4, AsManyValues
  <2> QED
    BY <2>5, <2>6
<1>7. \A i \in atEnd : shown[i].off >= Size
  <2> TAKE i \in atEnd
  <2> DEFINE x == shown[i].off
  <2>1. x \in Nat /\ ~(x < Size)
    BY <1>2
  <2> HIDE DEF x
  <2>2. x >= Size
    BY <1>3, <2>1
  <2> QED
    BY <2>2 DEF x
<1>8. \A i \in atEnd : i = Len(shown) /\ Len(find) = 1 /\ Modes[Size] \in InComment
  BY <1>1, <1>7 DEF AtEndShown
<1> HIDE DEF atEnd, of
<1> QED
  BY <1>4, <1>5, <1>6, <1>8

(* Fa4Find.c:1067-1229: -I+ and -IP leave out the finds in comments and no *)
(* others, for every text, find and mix of switches.                       *)
THEOREM CodeFindsRight == Spec => []CodeFindsShown
<1>1. Init => TypeOK /\ SkipKept
  BY InitType, InitSkip
<1>2. TypeOK /\ SkipKept /\ [Next]_vars => TypeOK' /\ SkipKept'
  BY NextType, NextSkip
<1>3. TypeOK /\ SkipKept => CodeFindsShown
  BY CodeFindsAre
<1> QED
  BY <1>1, <1>2, <1>3, PTL DEF Spec
=============================================================================
