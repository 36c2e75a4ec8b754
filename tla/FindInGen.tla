------------------------------ MODULE FindInGen ------------------------------
(***************************************************************************)
(* Find_In_Gen (Fa4Find.c): the search of the mapped files, one after the  *)
(* other, for each of the find strings in turn.  One action is one turn of *)
(* the find loop, or one turn of the scan loop: the scan of a plain find   *)
(* goes byte by byte and skips to the end of the line (text) or past the   *)
(* find (binary) once it has reported; the scan of a regular expression    *)
(* goes line by line.                                                      *)
(*                                                                         *)
(* What a call of ShowLine is given is recorded in shown; what ShowLine    *)
(* does with it is the matter of FindOutput.  The branches of -I+ and -IP  *)
(* are left out.  Those for directory lists and CVS entries are reached    *)
(* only by switches that are compiled for Windows alone.                   *)
(***************************************************************************)
EXTENDS FA4Lines, FiniteSets

CONSTANTS
  FileLists,        (* The sequences of files that may be searched.        *)
  FindLists,        (* The sequences of finds, as given on the command     *)
                    (* line: records with the text and whether it is a     *)
                    (* regular expression (-FR=).                          *)
  Switches,         (* The switches: CompOptions, and binary and -B.       *)
  PcreCompiles(_),  (* Whether pcre_compile accepts a text.                *)
  PcreExec(_, _)    (* Whether pcre_exec finds the pattern in a line.      *)

Find == [text : Seq(Byte \ {0, LF, CR}) \ {<<>>}, regex : BOOLEAN]

Switch == [case : BOOLEAN, parity : BOOLEAN, spacey : BOOLEAN,
           whole : BOOLEAN, whole2 : BOOLEAN, bin : BOOLEAN, begin : BOOLEAN]

(* Process_Finds is not entered without a find, GetFileMap maps no empty   *)
(* file, and no find string holds an end of line.                          *)
ASSUME FilesAssumption == FileLists \subseteq Seq(Seq(Byte) \ {<<>>})
ASSUME FindListsAssumption == FindLists \subseteq Seq(Find) \ {<<>>}
ASSUME SwitchesAssumption == Switches \subseteq Switch
ASSUME PcreAssumption ==
  \A L \in FindLists : \A k \in DOMAIN L : PcreCompiles(L[k].text) \in BOOLEAN

VARIABLES
  files, finds, sw,  (* The inputs: g_sFind is finds, the flags are sw.    *)
  n,                 (* g_dwFileNum, the number of the file searched.      *)
  fi,                (* g_dwItems, the number of the find searched for.    *)
  pc,                (* Where Find_In_Gen is.                              *)
  pre,               (* The finds whose pl->pre is set.                    *)
  dwi, dwl, lpoff,   (* The scan: offset, lines counted, line offsets.     *)
  g_dwFndFlg,        (* The finds found in this file, bits in the code.    *)
  g_dwFinds,         (* The count of finds in this file, ...               *)
  g_dwTotFinds,      (* ... in all the files, ...                          *)
  gdwFinds,          (* ... and FullComp's own count, over all the files.  *)
  shown              (* The calls of ShowLine, in order.                   *)

inputs == <<files, finds, sw>>
scan == <<dwi, dwl, lpoff>>
counts == <<g_dwFndFlg, g_dwFinds, gdwFinds, shown>>
vars == <<inputs, n, fi, pc, pre, scan, counts, g_dwTotFinds>>

File == files[n]
Size == Len(File)
ThisFind == Move2Find(sw, finds[fi].text)

(* A fault that the checks must notice: a CR counts as a line too.         *)
CountLineAtCR(d, at) ==
  /\ dwl' = IF IsBreak(d) THEN dwl + 1 ELSE dwl
  /\ lpoff' = IF IsBreak(d) THEN IncLine(at, lpoff) ELSE lpoff

(* The new line count and line offsets when the scan has met the byte d at *)
(* offset at.                                                              *)
CountLine(d, at) ==
  /\ dwl' = IF d = LF THEN dwl + 1 ELSE dwl
  /\ lpoff' = IF d = LF THEN IncLine(at, lpoff) ELSE lpoff

Show(off, offs, line) ==
  /\ shown' = Append(shown, [n |-> n, k |-> fi, off |-> off,
                             begin |-> offs[0], line |-> line])
  /\ g_dwFndFlg' = g_dwFndFlg \cup {fi}
  /\ g_dwFinds' = g_dwFinds + 1

-----------------------------------------------------------------------------
Init ==
  /\ files \in FileLists /\ finds \in FindLists /\ sw \in Switches
  /\ n = 0 /\ fi = 0 /\ pc = "open" /\ pre = {}
  /\ dwi = 0 /\ dwl = 0 /\ lpoff = [k \in 0..MXLPS |-> 0]
  /\ g_dwFndFlg = {} /\ g_dwFinds = 0 /\ gdwFinds = 0 /\ g_dwTotFinds = 0
  /\ shown = <<>>

(* A fault that the checks must notice: the flags of the file before stay. *)
OpenFileKeepsFlags ==
  /\ pc = "open" /\ n < Len(files)
  /\ n' = n + 1
  /\ fi' = 0 /\ pc' = "next"
  /\ g_dwFinds' = 0
  /\ UNCHANGED <<inputs, pre, scan, g_dwFndFlg, gdwFinds, shown, g_dwTotFinds>>

(* The entry of Find_In_Gen for the next file.                             *)
OpenFile ==
  /\ pc = "open" /\ n < Len(files)
  /\ n' = n + 1
  /\ fi' = 0 /\ pc' = "next"
  /\ g_dwFndFlg' = {} /\ g_dwFinds' = 0
  /\ UNCHANGED <<inputs, pre, scan, gdwFinds, shown, g_dwTotFinds>>

(* A fault that the checks must notice: the next find starts where the     *)
(* last one ended.                                                         *)
ResetScanNot ==
  /\ fi' = fi + 1
  /\ UNCHANGED <<inputs, n, scan, counts, g_dwTotFinds>>

ResetScan ==
  /\ fi' = fi + 1
  /\ dwi' = 0 /\ dwl' = 0 /\ lpoff' = [k \in 0..MXLPS |-> 0]
  /\ UNCHANGED <<inputs, n, counts, g_dwTotFinds>>

(* The loop over g_sFind: a plain find, or a regular expression that was   *)
(* compiled for an earlier file, is scanned for byte by byte.              *)
StartScan ==
  /\ pc = "next" /\ fi < Len(finds)
  /\ ~finds[fi + 1].regex \/ fi + 1 \in pre
  /\ pc' = "scan" /\ pre' = pre
  /\ ResetScan

(* doregex is set when, and only when, the pattern is compiled.            *)
StartRegex ==
  /\ pc = "next" /\ fi < Len(finds)
  /\ finds[fi + 1].regex /\ fi + 1 \notin pre
  /\ PcreCompiles(finds[fi + 1].text)
  /\ pc' = "regex" /\ pre' = pre \cup {fi + 1}
  /\ ResetScan

(* Err_Exit on a pattern that pcre_compile rejects.                        *)
RegexFails ==
  /\ pc = "next" /\ fi < Len(finds)
  /\ finds[fi + 1].regex /\ fi + 1 \notin pre
  /\ ~PcreCompiles(finds[fi + 1].text)
  /\ pc' = "exit"
  /\ UNCHANGED <<inputs, n, fi, pre, scan, counts, g_dwTotFinds>>

-----------------------------------------------------------------------------
(* The plain scan.                                                         *)

Scanning == pc = "scan" /\ dwi < Size
ScanChr == GetChr(sw, File[dwi + 1])
Hit == FoundAt(sw, File, dwi, Size, ThisFind)
ScanFrame == UNCHANGED <<inputs, n, fi, pc, pre, g_dwTotFinds>>

(* A fault that the checks must notice: the LF that ends the line is not   *)
(* counted.                                                                *)
GoToEndLineUncounted ==
  /\ dwi' = EndOfLine(File, dwi + 1) + 1
  /\ UNCHANGED <<dwl, lpoff>>

(* GO_TO_END_LINE, the test for LF that follows it, and the ++ of the loop.*)
GoToEndLine ==
  LET e == EndOfLine(File, dwi + 1)
  IN  /\ CountLine(IF e < Size THEN File[e + 1] ELSE 0, e)
      /\ dwi' = e + 1

FoundInText ==
  /\ Scanning /\ Hit /\ ~sw.bin
  /\ Show(dwi, lpoff, dwl)
  /\ gdwFinds' = gdwFinds + 1
  /\ GoToEndLine
  /\ ScanFrame

(* "Just bump past the FOUND", and the ++ of the loop.                     *)
FoundInBinary ==
  /\ Scanning /\ Hit /\ sw.bin
  /\ Show(dwi, lpoff, dwl)
  /\ gdwFinds' = gdwFinds + 1
  /\ dwi' = dwi + Len(ThisFind) + 1
  /\ UNCHANGED <<dwl, lpoff>>
  /\ ScanFrame

(* -B: a line that does not begin with the find is skipped.                *)
SkipLine ==
  /\ Scanning /\ ~Hit
  /\ sw.begin /\ ~sw.bin /\ ~IsBreak(ScanChr)
  /\ GoToEndLine
  /\ UNCHANGED counts
  /\ ScanFrame

NextByte ==
  /\ Scanning /\ ~Hit
  /\ ~sw.begin \/ sw.bin \/ IsBreak(ScanChr)
  /\ CountLine(ScanChr, dwi)
  /\ dwi' = dwi + 1
  /\ UNCHANGED counts
  /\ ScanFrame

-----------------------------------------------------------------------------
(* The scan of a regular expression: one line, and the ends of line that   *)
(* follow it.  Text after the last end of line is never given to pcre.     *)

InRegex == pc = "regex" /\ dwi < Size

LFsIn(b, e) == {i \in b..(e - 1) : File[i + 1] = LF}

RegexFrame == UNCHANGED <<inputs, n, fi, pc, pre, gdwFinds, g_dwTotFinds>>

(* A fault that the checks must notice: the line after is stepped into.    *)
PassBreaksTooFar(e, s) ==
  /\ dwl' = dwl + Cardinality(LFsIn(e, s))
  /\ lpoff' = IncLine(e, lpoff)
  /\ dwi' = s + 1

(* The counting of the lines from the end of line at e up to s.            *)
PassBreaks(e, s) ==
  /\ dwl' = dwl + Cardinality(LFsIn(e, s))
  /\ lpoff' = IncLines(LFsIn(e, s), lpoff)
  /\ dwi' = s

RegexLine ==
  /\ InRegex
  /\ LET e == EndOfLine(File, dwi)
         isLF == File[e + 1] = LF
     IN  /\ e < Size
         /\ IF e > dwi /\ PcreExec(finds[fi].text, SubSeq(File, dwi + 1, e))
            THEN Show(dwi, IF isLF THEN IncLine(e, lpoff) ELSE lpoff,
                      IF isLF THEN dwl + 1 ELSE dwl)
            ELSE UNCHANGED <<shown, g_dwFndFlg, g_dwFinds>>
         /\ PassBreaks(e, SkipBreaks(File, e + 1))
  /\ RegexFrame

(* A fault that the checks must notice: the last line is tried for ever.   *)
RegexLastLineStuck ==
  /\ InRegex
  /\ EndOfLine(File, dwi) = Size
  /\ UNCHANGED <<scan, shown, g_dwFndFlg, g_dwFinds>>
  /\ RegexFrame

RegexLastLine ==
  /\ InRegex
  /\ EndOfLine(File, dwi) = Size
  /\ dwi' = Size
  /\ UNCHANGED <<dwl, lpoff, shown, g_dwFndFlg, g_dwFinds>>
  /\ RegexFrame

-----------------------------------------------------------------------------
EndFind ==
  /\ pc \in {"scan", "regex"} /\ dwi >= Size
  /\ pc' = "next"
  /\ UNCHANGED <<inputs, n, fi, pre, scan, counts, g_dwTotFinds>>

EndFile ==
  /\ pc = "next" /\ fi = Len(finds)
  /\ g_dwTotFinds' = g_dwTotFinds + g_dwFinds
  /\ pc' = IF n < Len(files) THEN "open" ELSE "done"
  /\ UNCHANGED <<inputs, n, fi, pre, scan, counts>>

Scan == FoundInText \/ FoundInBinary \/ SkipLine \/ NextByte
Regex == RegexLine \/ RegexLastLine

Next ==
  \/ OpenFile \/ StartScan \/ StartRegex \/ RegexFails
  \/ Scan \/ Regex \/ EndFind \/ EndFile

(* One process runs, and nothing it waits for can fail to come.            *)
Spec == Init /\ [][Next]_vars /\ WF_vars(Next)

-----------------------------------------------------------------------------
(* What the properties speak of.                                           *)

Text == ~sw.bin /\ ~sw.parity

(* The find k stands at offset o of the file m, where a scan for it looks. *)
StandsAt(m, k, o) ==
  /\ FoundAt(sw, files[m], o, Len(files[m]), Move2Find(sw, finds[k].text))
  /\ sw.begin => SegStart(files[m], o) = o

(* The stretches of file m in which a scan is to find k.                   *)
HitSegs(m, k) ==
  {SegStart(files[m], o) :
     o \in {p \in 0..(Len(files[m]) - 1) : StandsAt(m, k, p)}}

Plain(k) == ~finds[k].regex

(* The find whose scan has come to its end in the file m.                  *)
Scanned(m, k) ==
  \/ m < n
  \/ m = n /\ (k < fi \/ (k = fi /\ pc \notin {"scan", "regex"}))

-----------------------------------------------------------------------------
TypeOK ==
  /\ files \in FileLists /\ finds \in FindLists /\ sw \in Switches
  /\ n \in 0..Len(files) /\ fi \in 0..Len(finds)
  /\ pc \in {"open", "next", "scan", "regex", "exit", "done"}
  /\ pc \in {"scan", "regex"} => n > 0 /\ fi > 0
  /\ pc = "next" => n > 0
  /\ pre \in SUBSET (1..Len(finds))
  /\ dwi \in Nat /\ dwl \in Nat /\ lpoff \in [0..MXLPS -> Nat]
  /\ g_dwFndFlg \in SUBSET (1..Len(finds))
  /\ g_dwFinds \in Nat /\ g_dwTotFinds \in Nat /\ gdwFinds \in Nat
  /\ shown \in Seq([n : Nat, k : Nat, off : Nat, begin : Nat, line : Nat])

(* Fa4Find.c:904-949: in a text file the scan's count of lines is the      *)
(* number of LFs behind it, and the last line offset is that of the last   *)
(* of them, though a scan that skips to an end of line passes over it with *)
(* two increments of dwi.                                                  *)
LinesCounted ==
  pc = "scan" /\ Text =>
    /\ dwl = Cardinality(LFsBefore(File, dwi))
    /\ lpoff[0] \in LFsBefore(File, dwi) \/ lpoff[0] = 0
    /\ \A i \in LFsBefore(File, dwi) : i <= lpoff[0]

(* Fa4Find.c:924, Fa4Show.c:448: the line that ShowLine takes from the     *)
(* offset it is given is the one that holds the find, and it is shown with *)
(* the number of that line (less one).                                     *)
ShownLineHoldsFind ==
  \A i \in DOMAIN shown :
    LET r == shown[i] IN
      Text /\ Plain(r.k) /\ NoLoneCR(files[r.n]) =>
        /\ r.off \in ShownText(files[r.n], r.begin)
        /\ r.line = Cardinality(LFsBefore(files[r.n], r.off))

(* Fa4Find.c:750-923, 1026-1042: when a file has been searched the flags   *)
(* of its finds, by which -F:1 decides whether it is shown, are those of   *)
(* the finds that stand in it.                                             *)
FlagsTellFinds ==
  pc = "next" /\ fi = Len(finds) /\ ~sw.begin =>
    \A k \in DOMAIN finds : Plain(k) =>
      (k \in g_dwFndFlg
        <=> \E o \in 0..(Size - 1) :
              FoundAt(sw, File, o, Size, Move2Find(sw, finds[k].text)))

(* The lines of f that an end of line ends and the pattern t matches.      *)
MatchedLines(f, t) ==
  {b \in 0..(Len(f) - 1) :
     LET e == EndOfLine(f, b)
     IN  /\ b = 0 \/ IsBreak(f[b])
         /\ b < e /\ e < Len(f)
         /\ PcreExec(t, SubSeq(f, b + 1, e))}

(* Fa4Find.c:815-901: in the file for which it was compiled, the first, a  *)
(* pattern is reported for the ended lines that it matches, each once; and *)
(* a line that CR LF ends is shown, with its own number.                   *)
RegexLinesReported ==
  \A k \in DOMAIN finds :
    finds[k].regex /\ n > 0 /\ Scanned(1, k) /\ pc # "exit" =>
      LET of == {i \in DOMAIN shown : shown[i].n = 1 /\ shown[i].k = k}
      IN  /\ {shown[i].off : i \in of} = MatchedLines(files[1], finds[k].text)
          /\ Cardinality(of) = Cardinality({shown[i].off : i \in of})
          /\ \A i \in of :
               LET r == shown[i] IN
                 files[1][EndOfLine(files[1], r.off) + 1] = CR
                   /\ NoLoneCR(files[1])
                   => /\ r.off \in ShownText(files[1], r.begin)
                      /\ r.line = Cardinality(LFsBefore(files[1], r.off))

(* Fa4Find.c:752-958: every scan ends, and with it the search.             *)
SearchEnds == <>(pc \in {"done", "exit"})

-----------------------------------------------------------------------------
(* The search as FindReport sees it: the places are those of the plain     *)
(* finds of text files; of binary files nothing is said.                   *)

Told == {i \in DOMAIN shown : Text /\ Plain(shown[i].k)}

Place(r) == <<r.n, r.k, SegStart(files[r.n], r.off)>>
Places == {Place(shown[i]) : i \in Told}

Wanted ==
  UNION {{<<m, k, s>> : s \in HitSegs(m, k)} :
           m \in {i \in DOMAIN files : Text}, k \in {i \in DOMAIN finds : Plain(i)}}

FilesLeft == IF pc \in {"open", "done"} THEN n ELSE n - 1

Report == INSTANCE FindReport WITH wanted <- Wanted, reported <- Places,
                                   reports <- Cardinality(Told), left <- FilesLeft

(* Fa4Find.c:700-1064: the search of text files for plain finds reports as *)
(* FindReport says.                                                        *)
ReportsInOrder == Report!Spec

-----------------------------------------------------------------------------
(* What a comment or the help says, and the code does not do.              *)

(* Fa4Help.c:117, "-FR=regex = Find using a pcre": a line that a pattern   *)
(* matches, and that an LF ends, is reported in whatever file it stands.   *)
RegexInEveryFile ==
  pc = "done" =>
    \A m \in DOMAIN files : \A k \in DOMAIN finds :
      finds[k].regex =>
        \A b \in MatchedLines(files[m], finds[k].text) :
          \E i \in DOMAIN shown : shown[i].n = m /\ shown[i].k = k
                                  /\ shown[i].off = b
=============================================================================
