------------------------------ MODULE FA4Lines ------------------------------
(***************************************************************************)
(* The lines of a mapped file: where they end, and the history of their    *)
(* offsets that the scans keep (lpoff).  An end of line is a run of CRs    *)
(* and LFs for the scans, and an LF for the count of lines.                *)
(***************************************************************************)
EXTENDS FA4Bytes

(* lpoff[] of the code has MXLPS + 1 entries that are used.                *)
MXLPS == 10

(* What GO_TO_END_LINE and the regex loop do: the first offset from i on   *)
(* that holds a CR or an LF, or the end of the file.                       *)
EndOfLine(f, i) ==
  CHOOSE e \in i..Len(f) :
    /\ e = Len(f) \/ IsBreak(f[e + 1])
    /\ \A j \in i..(e - 1) : ~IsBreak(f[j + 1])

(* The first offset from i on that holds neither.                          *)
SkipBreaks(f, i) ==
  CHOOSE e \in i..Len(f) :
    /\ e = Len(f) \/ ~IsBreak(f[e + 1])
    /\ \A j \in i..(e - 1) : IsBreak(f[j + 1])

(* A fault that the checks must notice: an entry past the end of lpoff is  *)
(* written.                                                                *)
IncLineOverrun(at, offs) ==
  [k \in 0..(MXLPS + 1) |-> IF k = 0 THEN at ELSE offs[0]]

(* IncLine at offset at: the loop of the macro copies each entry of lpoff  *)
(* into the next one in ascending order.                                   *)
IncLine(at, offs) == [k \in 0..MXLPS |-> IF k = 0 THEN at ELSE offs[0]]

Top(S) == CHOOSE i \in S : \A j \in S : j <= i

(* IncLine at each of the offsets lfs, in ascending order: the last two    *)
(* leave their mark.                                                       *)
IncLines(lfs, offs) ==
  LET rest == lfs \ {Top(lfs)}
  IN  IF lfs = {} THEN offs
      ELSE IncLine(Top(lfs), IF rest = {} THEN offs
                             ELSE IncLine(Top(rest), offs))

-----------------------------------------------------------------------------
(* What the properties say of lines.                                       *)

(* A file whose lines end in LF or CR LF, and never in a CR alone.         *)
NoLoneCR(f) ==
  \A i \in DOMAIN f : f[i] = CR => i < Len(f) /\ f[i + 1] = LF

LFsBefore(f, o) == {i \in 0..(Len(f) - 1) : i < o /\ f[i + 1] = LF}

(* The start of the stretch between ends of line that holds offset o.      *)
SegStart(f, o) ==
  CHOOSE b \in 0..o : /\ b = 0 \/ IsBreak(f[b])
                      /\ \A j \in b..(o - 1) : ~IsBreak(f[j + 1])

(* ShowLine and GettheLine start at the offset they are given, pass over   *)
(* the ends of line there and take the text up to the next one.            *)
ShownText(f, begin) ==
  LET b == SkipBreaks(f, begin) IN b..(EndOfLine(f, b) - 1)
=============================================================================
