------------------------------ MODULE FindSkip ------------------------------
(***************************************************************************)
(* Find_Skip and Find_Skip_Perl (Fa4Find.c): the search of a mapped file   *)
(* for one find that passes over comments, C/C++ (-I+) or Perl (-IP).      *)
(* One action is one turn of the scan loop: a comment is passed in a turn, *)
(* and so is the rest of a line after a find.                              *)
(*                                                                         *)
(* The scan has one byte in hand, d, and the one before, pd.  The compare  *)
(* that follows in the same turn sees whatever d is then: after a comment  *)
(* that the file ends in, that is its last byte, at the offset dwfs.       *)
(***************************************************************************)
EXTENDS FA4Lines, FiniteSets

CONSTANTS
  Inputs      (* The searches that may be asked for: a file, a find and    *)
              (* the switches (CompOptions, and bin and perl).             *)

Switch == [case : BOOLEAN, parity : BOOLEAN, spacey : BOOLEAN,
           whole : BOOLEAN, whole2 : BOOLEAN, bin : BOOLEAN, perl : BOOLEAN]

(* GetFileMap maps no empty file, and no find holds an end of line.        *)
ASSUME InputsAssumption ==
  Inputs \subseteq [file : Seq(Byte) \ {<<>>},
                    find : Seq(Byte \ {0, LF, CR}) \ {<<>>},
                    sw : Switch]

VARIABLES
  file, find, sw,    (* The inputs: glpMapView, the find, the flags.       *)
  dwi, dwl, lpoff,   (* The scan: offset, lines counted, line offsets.     *)
  pd,                (* The byte before, 0 after a comment.                *)
  inQuot, qc,        (* In a Perl quote, and the character that opened it. *)
  shown              (* The calls of ShowLine, in order.                   *)

inputs == <<file, find, sw>>
vars == <<inputs, dwi, dwl, lpoff, pd, inQuot, qc, shown>>

STAR == 42
SLASH == 47
HASH == 35
BACKSLASH == 92
Quotes == {34, 39}

Size == Len(file)
ThisFind == Move2Find(sw, find)
At(o) == file[o + 1]

(* What GetChr gives at the offset of the scan, and what the first byte of *)
(* the find is compared with.                                              *)
Chr == GetChr(sw, At(dwi))

Hits(c, at) == c = ThisFind[1] /\ FullComp(sw, file, at, Size, ThisFind)

-----------------------------------------------------------------------------
Init ==
  /\ \E i \in Inputs : file = i.file /\ find = i.find /\ sw = i.sw
  /\ dwi = 0 /\ dwl = 0 /\ lpoff = [k \in 0..MXLPS |-> 0]
  /\ pd = 0 /\ inQuot = FALSE /\ qc = 0
  /\ shown = <<>>

Scanning == dwi < Size

(* The end of the turn, with the byte d in hand and dwi at the offset at:  *)
(* an LF counts a line and ends a quote.                                   *)
EndTurn(d, at, quoted) ==
  /\ dwl' = IF d = LF THEN dwl + 1 ELSE dwl
  /\ lpoff' = IF d = LF THEN IncLine(at, lpoff) ELSE lpoff
  /\ inQuot' = (quoted /\ d # LF)
  /\ pd' = d
  /\ dwi' = at + 1

Show(at, offs, line) ==
  shown' = Append(shown, [off |-> at, begin |-> offs[0], line |-> line])

(* The compare at the offset at with the byte c in hand, and the rest of   *)
(* the turn: a find is shown, and passed (binary) or its line is (text).   *)
CompareAt(c, at, quoted) ==
  IF ~Hits(c, at)
  THEN /\ EndTurn(c, at, quoted)
       /\ UNCHANGED shown
  ELSE /\ Show(at, lpoff, dwl)
       /\ IF sw.bin
          THEN EndTurn(c, at + Len(ThisFind), quoted)
          ELSE LET e == IF at < Size THEN EndOfLine(file, at + 1) ELSE at + 1
               IN  EndTurn(IF at + 1 >= Size THEN c
                           ELSE IF e < Size THEN At(e) ELSE file[Size],
                           e, quoted)

-----------------------------------------------------------------------------
(* Comments of C and C++.                                                  *)

OpensBlock == ~sw.perl /\ Chr = STAR /\ pd = SLASH
OpensLine == ~sw.perl /\ Chr = SLASH /\ pd = SLASH

(* A fault that the checks must notice: the star that opens a comment may  *)
(* close it.                                                               *)
BlockEndShort ==
  CHOOSE e \in (dwi + 1)..Size :
    /\ e = Size \/ (At(e) = SLASH /\ At(e - 1) = STAR)
    /\ \A j \in (dwi + 1)..(e - 1) : ~(At(j) = SLASH /\ At(j - 1) = STAR)

(* The slash that closes the comment opened by the star at dwi, or the end *)
(* of the file.                                                            *)
BlockEnd ==
  CHOOSE e \in (dwi + 1)..Size :
    /\ e = Size \/ (At(e) = SLASH /\ At(e - 1) = STAR /\ e - 1 > dwi)
    /\ \A j \in (dwi + 2)..(e - 1) : ~(At(j) = SLASH /\ At(j - 1) = STAR)

LFsIn(b, e) == {i \in b..(e - 1) : At(i) = LF}

(* A fault that the checks must notice: the lines of a comment are not     *)
(* counted.                                                                *)
CountBlockNot(e) == UNCHANGED <<dwl, lpoff>>

(* The lines of the comment up to e.                                       *)
CountBlock(e) ==
  /\ dwl' = dwl + Cardinality(LFsIn(dwi + 1, e))
  /\ lpoff' = IncLines(LFsIn(dwi + 1, e), lpoff)

(* d is set to 0 at the end of a comment, so that nothing is found there.  *)
BlockComment ==
  /\ Scanning /\ OpensBlock /\ BlockEnd < Size
  /\ CountBlock(BlockEnd)
  /\ dwi' = BlockEnd + 1 /\ pd' = 0
  /\ UNCHANGED <<inputs, inQuot, qc, shown>>

(* The file ends in the comment: its last byte is in hand, and an LF there *)
(* is counted twice.                                                       *)
BlockCommentAtEnd ==
  /\ Scanning /\ OpensBlock /\ BlockEnd = Size
  /\ LET d == IF dwi + 1 < Size THEN file[Size] ELSE Chr
         lfs == LFsIn(dwi + 1, Size)
     IN  /\ IF Hits(d, Size)
            THEN Show(Size, IncLines(lfs, lpoff), dwl + Cardinality(lfs))
            ELSE UNCHANGED shown
         /\ dwl' = dwl + Cardinality(lfs) + (IF d = LF THEN 1 ELSE 0)
         /\ lpoff' = IF d = LF THEN IncLine(Size, IncLines(lfs, lpoff))
                     ELSE IncLines(lfs, lpoff)
         /\ pd' = d
  /\ dwi' = Size + 1
  /\ UNCHANGED <<inputs, inQuot, qc>>

(* Comments to the end of the line, of C++ and of Perl.                    *)

OpensPerl == sw.perl /\ Chr = HASH /\ pd # BACKSLASH /\ ~inQuot

LineComment ==
  /\ Scanning
  /\ OpensLine \/ OpensPerl
  /\ LET e == EndOfLine(file, dwi + 1)
         d == IF dwi + 1 = Size THEN Chr
              ELSE IF e < Size THEN At(e) ELSE file[Size]
     IN  CompareAt(d, e, inQuot)
  /\ UNCHANGED <<inputs, qc>>

(* A Perl quote opens, or closes with the character that opened it.        *)
Quote ==
  /\ Scanning /\ sw.perl /\ Chr \in Quotes
  /\ CompareAt(Chr, dwi, IF inQuot THEN Chr # qc ELSE TRUE)
  /\ qc' = IF inQuot THEN qc ELSE Chr
  /\ UNCHANGED inputs

Code ==
  /\ Scanning
  /\ ~(OpensBlock \/ OpensLine \/ OpensPerl \/ (sw.perl /\ Chr \in Quotes))
  /\ CompareAt(Chr, dwi, inQuot)
  /\ UNCHANGED <<inputs, qc>>

Next == BlockComment \/ BlockCommentAtEnd \/ LineComment \/ Quote \/ Code

Spec == Init /\ [][Next]_vars /\ WF_vars(Next)

-----------------------------------------------------------------------------
(* The comments of a text, told by a machine that reads it byte by byte    *)
(* and knows of no find.  What it is in before the byte at offset o:       *)
(* code, after a slash or a backslash, in a quote (and which), or in a     *)
(* comment, and there after a star.                                        *)

CAfter(m, c) ==
  CASE m = "line" -> IF IsBreak(c) THEN "code" ELSE "line"
    [] m = "block" -> IF c = STAR THEN "star" ELSE "block"
    [] m = "star" -> IF c = SLASH THEN "code" ELSE IF c = STAR THEN "star" ELSE "block"
    [] m = "slash" /\ c = STAR -> "block"
    [] m = "slash" /\ c = SLASH -> "line"
    [] OTHER -> IF c = SLASH THEN "slash" ELSE "code"

PerlAfter(m, c) ==
  IF m = "line" THEN IF IsBreak(c) THEN "code" ELSE "line"
  ELSE IF c = LF THEN "code"
  ELSE IF m \in {"quote", "apostrophe"}
       THEN IF c = (IF m = "quote" THEN 34 ELSE 39) THEN "code" ELSE m
  ELSE CASE c = 34 -> "quote"
         [] c = 39 -> "apostrophe"
         [] c = HASH /\ m # "escape" -> "line"
         [] c = BACKSLASH -> "escape"
         [] OTHER -> "code"

Modes ==
  LET mode[o \in 0..Size] ==
        IF o = 0 THEN "code"
        ELSE IF sw.perl THEN PerlAfter(mode[o - 1], file[o])
             ELSE CAfter(mode[o - 1], file[o])
  IN  mode

InComment == {"line", "block", "star"}

(* The offsets where the find stands, and those of them outside comments.  *)
Stands == {o \in 0..(Size - 1) : FoundAt(sw, file, o, Size, ThisFind)}
InCode == {o \in Stands : Modes[o] \notin InComment
                          /\ (o < Size => Modes[o + 1] \notin {"line", "block"})}

(* No comment opens behind a find and goes on in the next line.            *)
NoneOpensBehind ==
  \A o \in InCode : Modes[EndOfLine(file, o)] \notin {"block", "star"}

(* With -p, a byte may read as an LF that is none.                         *)
Text == ~sw.bin /\ ~sw.parity
Done == dwi >= Size

-----------------------------------------------------------------------------
TypeOK ==
  /\ [file |-> file, find |-> find, sw |-> sw] \in Inputs
  /\ dwi \in Nat /\ dwl \in Nat /\ lpoff \in [0..MXLPS -> Nat]
  /\ pd \in Byte /\ inQuot \in BOOLEAN /\ qc \in Quotes \cup {0}
  /\ shown \in Seq([off : Nat, begin : Nat, line : Nat])

(* Fa4Find.c:1067-1229: in a text, the lines shown are those in which the  *)
(* find stands in code, each once, whatever comments and quotes there are, *)
(* so long as no comment that opens behind a find goes on in the next line *)
(* (its finds are shown).  Only the last byte of a comment that the file   *)
(* ends in may be taken for one find more, at the end of the file.         *)
CodeFindsShown ==
  Done /\ Text /\ NoneOpensBehind /\ NoLoneCR(file) =>
    LET of == {i \in DOMAIN shown : shown[i].off < Size}
        segs == {SegStart(file, shown[i].off) : i \in of}
        atEnd == DOMAIN shown \ of
    IN  /\ segs = {SegStart(file, o) : o \in InCode}
        /\ Cardinality(of) = Cardinality(segs)
        /\ atEnd \subseteq {Len(shown)}
        /\ atEnd # {} => Len(find) = 1 /\ Modes[Size] \in InComment

(* Fa4Find.c:1091-1094, 1152: lines are counted in comments and behind     *)
(* finds as in code: the line that ShowLine takes from the offset it is    *)
(* given is the one that holds the find, and its number is right.          *)
ShownLineRight ==
  \A i \in DOMAIN shown :
    LET r == shown[i] IN
      Text /\ NoLoneCR(file) /\ r.off < Size =>
        /\ r.off \in ShownText(file, r.begin)
        /\ r.line = Cardinality(LFsBefore(file, r.off))

=============================================================================
