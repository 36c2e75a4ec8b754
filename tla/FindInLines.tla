---------------------------- MODULE FindInLines ----------------------------
(***************************************************************************)
(* Find_In_Lines (Fa4Find.c), which Find_In_Type1 and Find_In_Type2 call   *)
(* instead of Find_In_Gen when -F:2 is given with more than one find: the  *)
(* mapped file is taken line by line, and a line is shown when every find  *)
(* of the list stands in it.  One action is one turn of the scan loop.     *)
(*                                                                         *)
(* A line is taken from the end of line before it, which it includes, up   *)
(* to the next CR or LF.                                                   *)
(***************************************************************************)
EXTENDS FA4Lines, FiniteSets

CONSTANTS
  FileLists,        (* The sequences of files that may be searched.        *)
  FindLists,        (* The sequences of finds: text, and whether it is a   *)
                    (* regular expression.                                 *)
  Switches,         (* The combinations of switches, of CompOptions.       *)
  PcreCompiles(_),  (* Whether pcre_compile accepts a text.                *)
  PcreExec(_, _)    (* Whether pcre_exec finds the pattern in a line.      *)

Find == [text : Seq(Byte \ {0, LF, CR}) \ {<<>>}, regex : BOOLEAN]

ASSUME FilesAssumption == FileLists \subseteq Seq(Seq(Byte) \ {<<>>})
ASSUME FindListsAssumption ==
  FindLists \subseteq {L \in Seq(Find) : Len(L) > 1}
ASSUME SwitchesAssumption == Switches \subseteq CompOptions
ASSUME PcreAssumption ==
  \A L \in FindLists : \A k \in DOMAIN L : PcreCompiles(L[k].text) \in BOOLEAN

VARIABLES
  files, finds, sw,  (* The inputs: g_sFind is finds, the flags are sw.    *)
  n,                 (* The number of the file searched.                   *)
  pc,                (* Where Find_In_Lines is.                            *)
  dwi, bgnoff,       (* The scan, and the start of the line.               *)
  dwl, lpoff,        (* The lines counted and the history of offsets.      *)
  g_dwFinds,         (* The lines shown in this file, ...                  *)
  g_dwTotFinds,      (* ... and in all the files.                          *)
  gdwFinds,          (* FullComp's own count, over all the files.          *)
  shown              (* The calls of ShowLine, in order.                   *)

inputs == <<files, finds, sw>>
lines == <<bgnoff, dwl, lpoff>>
counts == <<g_dwFinds, gdwFinds, shown>>
vars == <<inputs, n, pc, dwi, lines, counts, g_dwTotFinds>>

File == files[n]
Size == Len(File)

(* The largest length of a find, which Add2Finds keeps.                    *)
g_dwMinLen ==
  CHOOSE l \in {Len(finds[k].text) : k \in DOMAIN finds} :
    \A k \in DOMAIN finds : Len(finds[k].text) <= l

(* The find k stands between bgn and end: what the body of the loop in     *)
(* Process_Line_For_Finds looks for.                                       *)
FoundIn(f, k, bgn, end) ==
  IF finds[k].regex
  THEN bgn < end /\ PcreExec(finds[k].text, SubSeq(f, bgn + 1, end))
  ELSE \E o \in bgn..(end - 1) : FoundAt(sw, f, o, end, Move2Find(sw, finds[k].text))

Rejected(k) == finds[k].regex /\ ~PcreCompiles(finds[k].text)

(* A fault that the checks must notice: the last find alone decides.       *)
StopsAtLast(bgn, end) ==
  IF FoundIn(File, Len(finds), bgn, end) THEN Len(finds) + 1 ELSE Len(finds)

(* The find at which the loop stops: the first that is not in the line or  *)
(* that pcre_compile rejects; one more than their number when there is     *)
(* none.                                                                   *)
StopsAt(bgn, end) ==
  CHOOSE k \in 1..(Len(finds) + 1) :
    /\ k = Len(finds) + 1 \/ Rejected(k) \/ ~FoundIn(File, k, bgn, end)
    /\ \A j \in 1..(k - 1) : ~Rejected(j) /\ FoundIn(File, j, bgn, end)

-----------------------------------------------------------------------------
Init ==
  /\ files \in FileLists /\ finds \in FindLists /\ sw \in Switches
  /\ n = 0 /\ pc = "open"
  /\ dwi = 0 /\ bgnoff = 0 /\ dwl = 0 /\ lpoff = [k \in 0..MXLPS |-> 0]
  /\ g_dwFinds = 0 /\ gdwFinds = 0 /\ g_dwTotFinds = 0
  /\ shown = <<>>

OpenFile ==
  /\ pc = "open" /\ n < Len(files)
  /\ n' = n + 1 /\ pc' = "scan"
  /\ dwi' = 0 /\ bgnoff' = 0 /\ dwl' = 0 /\ lpoff' = [k \in 0..MXLPS |-> 0]
  /\ g_dwFinds' = 0
  /\ UNCHANGED <<inputs, gdwFinds, shown, g_dwTotFinds>>

Scanning == pc = "scan" /\ dwi < Size
AtBreak == Scanning /\ IsBreak(File[dwi + 1])
LongEnough == dwi - bgnoff >= g_dwMinLen
ScanFrame == UNCHANGED <<inputs, n, pc, g_dwTotFinds>>

NextByte ==
  /\ Scanning /\ ~IsBreak(File[dwi + 1])
  /\ dwi' = dwi + 1
  /\ UNCHANGED <<lines, counts>>
  /\ ScanFrame

(* A fault that the checks must notice: bgnoff stays when a line is done.  *)
NextLineKeepsStart ==
  /\ UNCHANGED bgnoff
  /\ dwi' = dwi + 1
  /\ dwl' = IF File[dwi + 1] = LF THEN dwl + 1 ELSE dwl
  /\ lpoff' = IF File[dwi + 1] = LF THEN IncLine(dwi, lpoff) ELSE lpoff

(* A fault that the checks must notice: the lines are counted at a CR too. *)
NextLineCountsCR ==
  /\ bgnoff' = dwi
  /\ dwi' = dwi + 1
  /\ dwl' = dwl + 1
  /\ lpoff' = IncLine(dwi, lpoff)

(* What follows the processing of a line.                                  *)
NextLine ==
  /\ bgnoff' = dwi
  /\ dwi' = dwi + 1
  /\ dwl' = IF File[dwi + 1] = LF THEN dwl + 1 ELSE dwl
  /\ lpoff' = IF File[dwi + 1] = LF THEN IncLine(dwi, lpoff) ELSE lpoff

ShortLine ==
  /\ AtBreak /\ ~LongEnough
  /\ NextLine
  /\ UNCHANGED counts
  /\ ScanFrame

(* FullComp has counted the finds up to the one that is missing.           *)
Counted(k) == Cardinality({j \in 1..(k - 1) : ~finds[j].regex})

LineLacksFind ==
  /\ AtBreak /\ LongEnough
  /\ LET k == StopsAt(bgnoff, dwi)
     IN  /\ k <= Len(finds) /\ ~Rejected(k)
         /\ gdwFinds' = gdwFinds + Counted(k)
  /\ NextLine
  /\ UNCHANGED <<g_dwFinds, shown>>
  /\ ScanFrame

LineHasAll ==
  /\ AtBreak /\ LongEnough
  /\ StopsAt(bgnoff, dwi) = Len(finds) + 1
  /\ gdwFinds' = gdwFinds + Counted(Len(finds) + 1)
  /\ g_dwFinds' = g_dwFinds + 1
  /\ shown' = Append(shown, [n |-> n, off |-> bgnoff, end |-> dwi,
                             begin |-> lpoff[0], line |-> dwl])
  /\ NextLine
  /\ ScanFrame

(* Err_Exit on a pattern that pcre_compile rejects.                        *)
RegexFails ==
  /\ AtBreak /\ LongEnough
  /\ LET k == StopsAt(bgnoff, dwi)
     IN  /\ k <= Len(finds) /\ Rejected(k)
         /\ gdwFinds' = gdwFinds + Counted(k)
  /\ pc' = "exit"
  /\ UNCHANGED <<inputs, n, dwi, lines, g_dwFinds, shown, g_dwTotFinds>>

EndFile ==
  /\ pc = "scan" /\ dwi >= Size
  /\ g_dwTotFinds' = g_dwTotFinds + g_dwFinds
  /\ pc' = IF n < Len(files) THEN "open" ELSE "done"
  /\ UNCHANGED <<inputs, n, dwi, lines, counts>>

Next ==
  \/ OpenFile \/ NextByte \/ ShortLine \/ LineLacksFind \/ LineHasAll
  \/ RegexFails \/ EndFile

(* One process runs, and nothing it waits for can fail to come.            *)
Spec == Init /\ [][Next]_vars /\ WF_vars(Next)

-----------------------------------------------------------------------------
(* The lines of f, as their first bytes, that an end of line ends and in   *)
(* which each find stands, as the compare sees it with the end of the line *)
(* as the end of the text.                                                 *)
Holding(f) ==
  {b \in 0..(Len(f) - 1) :
     LET e == EndOfLine(f, b) IN
       /\ b = 0 \/ IsBreak(f[b])
       /\ b < e /\ e < Len(f)
       /\ \A k \in DOMAIN finds : FoundIn(f, k, b, e)}

Plain == \A k \in DOMAIN finds : ~finds[k].regex

(* The stretch that a line shown holds, without the end of line before it. *)
Line(r) == SkipBreaks(files[r.n], r.off)

-----------------------------------------------------------------------------
TypeOK ==
  /\ files \in FileLists /\ finds \in FindLists /\ sw \in Switches
  /\ n \in 0..Len(files)
  /\ pc \in {"open", "scan", "exit", "done"} /\ (pc = "scan" => n > 0)
  /\ dwi \in Nat /\ bgnoff \in 0..dwi
  /\ dwl \in Nat /\ lpoff \in [0..MXLPS -> Nat]
  /\ g_dwFinds \in Nat /\ g_dwTotFinds \in Nat /\ gdwFinds \in Nat
  /\ shown \in Seq([n : Nat, off : Nat, end : Nat, begin : Nat, line : Nat])

(* Fa4Find.c:517-538: when a file is done, the lines shown of it are those *)
(* that hold every find, each shown once and in order, though the length   *)
(* that is tested includes the end of line before the line, and each find  *)
(* is looked for with the break that a CR LF leaves before it.             *)
HoldingLinesShown ==
  ((pc = "open" /\ n > 0) \/ pc = "done") /\ Plain =>
      LET of == {i \in DOMAIN shown : shown[i].n = n}
      IN  /\ {Line(shown[i]) : i \in of} = Holding(File)
          /\ \A i, j \in of : i < j => Line(shown[i]) < Line(shown[j])
          /\ g_dwFinds = Cardinality(of)

(* Fa4Find.c:524, Fa4Show.c:448: the line that ShowLine takes from the     *)
(* offset of the last LF is the one that was searched, and it is shown     *)
(* with its own number (less one).  A line that a plain find stands in is  *)
(* not empty; a regular expression may match the end of line before an     *)
(* empty one, and the line shown is then the next.                         *)
ShownIsSearched ==
  \A i \in DOMAIN shown :
    LET r == shown[i] IN
      NoLoneCR(files[r.n]) =>
        /\ (\E k \in DOMAIN finds : ~finds[k].regex) => Line(r) < r.end
        /\ Line(r) < r.end =>
             /\ SkipBreaks(files[r.n], r.begin) = Line(r)
             /\ r.line = Cardinality(LFsBefore(files[r.n], Line(r)))

-----------------------------------------------------------------------------
(* The search as FindReport sees it: the places are the lines that hold    *)
(* every find, which it takes for those of one find.                       *)
Place(r) == <<r.n, 1, Line(r)>>
Places == {Place(shown[i]) : i \in DOMAIN shown}

Wanted ==
  UNION {{<<m, 1, s>> : s \in Holding(files[m])} : m \in DOMAIN files}

FilesLeft == IF pc \in {"open", "done"} THEN n ELSE n - 1

Report == INSTANCE FindReport WITH wanted <- Wanted, reported <- Places,
                                   reports <- Len(shown), left <- FilesLeft

(* Fa4Find.c:497-577: the search by lines, too, reports as FindReport says *)
(* of the lines that hold every find.                                      *)
ReportsInOrder == Report!Spec
=============================================================================
