------------------------------ MODULE LineText ------------------------------
(***************************************************************************)
(* The text that ShowLine (Fa4Show.c) hands to OutALine, for each find of  *)
(* a file in turn: GettheLine (Fa4.c) collects the line in a buffer that   *)
(* grows, and notes where in it the find stands; then ShowLine cuts a      *)
(* piece out of that buffer (-LL), takes the printable text around a find  *)
(* in a binary file, or reads the line once more from the map, wrapping    *)
(* it, and as many lines after it as -L or a makefile asks for.            *)
(*                                                                         *)
(* One action is one turn of the loops over a line.  Which find is shown,  *)
(* and what becomes of the text, is in FindInGen and FindOutput.  The -m2  *)
(* substitution in makefiles (ChkMake2) is left out.                       *)
(***************************************************************************)
EXTENDS FA4Lines, SequencesExt, FiniteSets

CONSTANTS
  Inputs,       (* The searches: a file, a find, the switches.             *)
  MXLINEBUF,    (* What the line buffer starts with and grows by.          *)
  gdwMax1Line,  (* Where a line is wrapped at a space, ...                 *)
  gdwEnd1Line,  (* ... and where it is wrapped in any case.                *)
  g_dwBackup,   (* How much of a binary file is shown before a find, ...   *)
  g_dwForward,  (* ... and how much after it.                              *)
  DEF_MAX_LINES (* The most lines shown under -LF.                         *)

(* -L is off, or asks for lines more (n), a function (-LF) or a limit of   *)
(* left and right (-LL).                                                   *)
Switch == [bin : BOOLEAN, strip : BOOLEAN, make : BOOLEAN,
           L : {"off", "lines", "func", "limit"},
           n : Nat, left : Nat, right : Nat]

ASSUME InputsAssumption ==
  Inputs \subseteq [file : Seq(Byte) \ {<<>>},
                    find : Seq(Byte \ {0, LF, CR}) \ {<<>>},
                    sw : Switch]
ASSUME SizesAssumption ==
  /\ MXLINEBUF \in Nat /\ MXLINEBUF > 4
  /\ gdwMax1Line \in Nat /\ gdwEnd1Line \in Nat /\ gdwMax1Line <= gdwEnd1Line
  /\ g_dwBackup \in Nat \ {0} /\ g_dwForward \in Nat /\ DEF_MAX_LINES \in Nat

TAB == 9
AT == 64
CARET == 94
BACKSLASH == 92
CLOSE == 41

VARIABLES
  file, find, sw,    (* The inputs.                                        *)
  calls,             (* The finds ShowLine is still to be called for.       *)
  call,              (* The call that is served.                           *)
  pc,                (* Where it is.                                       *)
  dwo,               (* The offset in the file.                            *)
  gdwLBSize,         (* The size of the line buffer ...                    *)
  glpLineBuf,        (* ... and the characters in it.                      *)
  g_dwLBOffBgn,      (* Where in it the find begins ...                    *)
  g_dwLBOffEnd,      (* ... and ends.                                      *)
  lpVerb,            (* The text collected for output.                     *)
  dwtmax,            (* Where the line is wrapped now.                     *)
  dwOutCnt,          (* The lines still asked for, -1 under -LF.           *)
  dwDnCnt, bDnSome,  (* The lines done, and whether anything is.           *)
  shown              (* For each call, where its find is and the texts     *)
                     (* given to OutALine.                                 *)

inputs == <<file, find, sw>>
buffer == <<gdwLBSize, glpLineBuf, g_dwLBOffBgn, g_dwLBOffEnd>>
text == <<lpVerb, dwtmax, dwOutCnt, dwDnCnt, bDnSome>>
vars == <<inputs, calls, call, pc, dwo, buffer, text, shown>>

Size == Len(file)
At(o) == file[o + 1]

-----------------------------------------------------------------------------
(* What the search hands over: the first find of each line, and the last   *)
(* LF before it.  FullComp has left the ends of the find in g_dwOffBgn and *)
(* g_dwOffEnd; for a find of one byte they are the same.                   *)

Order == [case |-> TRUE, parity |-> FALSE, spacey |-> FALSE, whole |-> FALSE,
          whole2 |-> FALSE]

Found(f, t) == {o \in 0..(Len(f) - 1) : FoundAt(Order, f, o, Len(f), t)}

FirstInLine(f, t) ==
  {o \in Found(f, t) : \A p \in Found(f, t) : SegStart(f, p) = SegStart(f, o) => o <= p}

LineBegin(f, o) == IF LFsBefore(f, o) = {} THEN 0 ELSE Top(LFsBefore(f, o))

(* The call for the find at offset o.                                      *)
CallAt(o) ==
  [off |-> o, begin |-> LineBegin(file, o),
   end |-> IF Len(find) = 1 THEN o ELSE o + Len(find)]

Call == [off : Nat, begin : Nat, end : Nat]
NoCall == [off |-> 0, begin |-> 0, end |-> 0]

Init ==
  /\ \E i \in Inputs : file = i.file /\ find = i.find /\ sw = i.sw
  /\ calls = FirstInLine(file, find) /\ call = NoCall
  /\ pc = "next" /\ dwo = 0
  /\ gdwLBSize = MXLINEBUF /\ glpLineBuf = <<>>
  /\ g_dwLBOffBgn = 0 /\ g_dwLBOffEnd = 0
  /\ lpVerb = <<>> /\ dwtmax = gdwMax1Line /\ dwOutCnt = 0
  /\ dwDnCnt = 0 /\ bDnSome = FALSE
  /\ shown = <<>>

(* The reading of -L at the entry of ShowLine.                             *)
AskedFor ==
  CASE sw.L = "lines" -> sw.n
    [] sw.L = "func" -> -1
    [] OTHER -> 0

(* The next find of the search.                                            *)
NextCall ==
  /\ pc = "next"
  /\ \E o \in calls :
       /\ \A p \in calls : o <= p
       /\ call' = CallAt(o) /\ calls' = calls \ {o}
  /\ pc' = IF sw.bin THEN "getbin" ELSE "get"
  /\ dwo' = call'.begin
  /\ glpLineBuf' = <<>>
  /\ lpVerb' = <<>> /\ dwtmax' = gdwMax1Line /\ dwOutCnt' = AskedFor
  /\ dwDnCnt' = 0 /\ bDnSome' = FALSE
  /\ shown' = Append(shown, [off |-> call'.off, begin |-> call'.begin, out |-> <<>>])
  /\ UNCHANGED <<inputs, gdwLBSize, g_dwLBOffBgn, g_dwLBOffEnd>>

Frame == UNCHANGED <<inputs, calls, call>>

-----------------------------------------------------------------------------
(* GettheLine.                                                             *)

(* A fault that the checks must notice: every end of line is a pair.       *)
PastBreakPair(o) == o + 2

(* Ends of line are passed over while there is no text: a pair with LF in  *)
(* one turn.                                                               *)
PastBreak(o) == IF o + 1 < Size /\ At(o + 1) = LF THEN o + 2 ELSE o + 1

(* The marks before a character: a byte with the high bit is negative.     *)
GetMarks(c) == IF Signed(c) < SPACE /\ c # TAB THEN <<CARET>> ELSE <<>>
GetChar(c) == IF GetMarks(c) = <<>> THEN c ELSE (c + AT) % 256

(* A fault that the checks must notice: only the character just stored is  *)
(* thought of.                                                             *)
GrowFull(line) ==
  gdwLBSize' = IF Len(line) > gdwLBSize THEN gdwLBSize + MXLINEBUF ELSE gdwLBSize

(* ReAllocate_LineBuffer, when four characters are left.                   *)
Grow(line) ==
  gdwLBSize' = IF Len(line) >= gdwLBSize - 4 THEN gdwLBSize + MXLINEBUF ELSE gdwLBSize

(* One character is stored, and the find's ends in the buffer are noted.   *)
Store(marks, c) ==
  LET line == Append(glpLineBuf \o marks, c)
      dwk == Len(line) - 1
  IN  /\ glpLineBuf' = line
      /\ g_dwLBOffBgn' = IF dwo = call.off THEN dwk ELSE g_dwLBOffBgn
      /\ g_dwLBOffEnd' = IF dwo = call.end THEN dwk ELSE g_dwLBOffEnd
      /\ Grow(line)

Getting == dwo < Size /\ (IsBreak(At(dwo)) => glpLineBuf = <<>>)

GetBreak ==
  /\ pc = "get" /\ Getting /\ IsBreak(At(dwo))
  /\ dwo' = PastBreak(dwo)
  /\ UNCHANGED <<pc, buffer, text, shown>>
  /\ Frame

GetByte ==
  /\ pc = "get" /\ Getting /\ ~IsBreak(At(dwo))
  /\ Store(GetMarks(At(dwo)), GetChar(At(dwo)))
  /\ dwo' = dwo + 1
  /\ UNCHANGED <<pc, text, shown>>
  /\ Frame

GetDone ==
  /\ pc = "get" /\ ~Getting
  /\ pc' = IF sw.L = "limit" THEN "limit" ELSE "put"
  /\ dwo' = call.begin
  /\ UNCHANGED <<buffer, text, shown>>
  /\ Frame

-----------------------------------------------------------------------------
(* Binary files, in GettheLine and in ShowLine.                            *)

Printable(c) == c >= SPACE /\ c < 127

(* A fault that the checks must notice: the text starts with the byte that *)
(* is none.                                                                *)
BackUpOnto ==
  LET off == call.off
      stops == {b \in 0..(off - 1) : b = 0 \/ off - 1 - b = g_dwBackup \/ ~Printable(At(b))}
  IN  IF off = 0 THEN [dwo |-> 0, dwk |-> 0]
      ELSE [dwo |-> Top(stops), dwk |-> off - 1 - Top(stops)]

(* The loop backwards from the byte before the find: to an offset after an *)
(* unprintable byte, by g_dwBackup bytes, or to offset 0, whose byte is    *)
(* not looked at.                                                          *)
BackUp ==
  LET off == call.off
      stops == {b \in 0..(off - 1) : b = 0 \/ off - 1 - b = g_dwBackup \/ ~Printable(At(b))}
      b == Top(stops)
  IN  IF off = 0 THEN [dwo |-> 0, dwk |-> 0]
      ELSE [dwo |-> IF b > 0 /\ off - 1 - b < g_dwBackup THEN b + 1 ELSE b,
            dwk |-> off - 1 - b]

ForwardEnd ==
  LET e == call.off + BackUp.dwk + Len(find) + g_dwForward
  IN  IF e > Size THEN Size ELSE e

GetBinary ==
  /\ pc = "getbin"
  /\ dwo' = BackUp.dwo
  /\ pc' = "getbyte"
  /\ UNCHANGED <<buffer, text, shown>>
  /\ Frame

GetBinByte ==
  /\ pc = "getbyte" /\ dwo < ForwardEnd /\ Printable(At(dwo))
  /\ Store(<<>>, At(dwo))
  /\ dwo' = dwo + 1
  /\ UNCHANGED <<pc, text, shown>>
  /\ Frame

GetBinDone ==
  /\ pc = "getbyte" /\ ~(dwo < ForwardEnd /\ Printable(At(dwo)))
  /\ pc' = "putbin"
  /\ dwo' = BackUp.dwo
  /\ UNCHANGED <<buffer, text, shown>>
  /\ Frame

Out(t) == shown' = [shown EXCEPT ![Len(shown)].out = Append(@, t)]

(* Whether the text, dwk long, goes on to the end of its word.             *)
WordGoesOn(dwk) == dwk < dwtmax /\ ForwardEnd < Size

(* A byte goes to the text; the text is cut past gdwEnd1Line at once, and  *)
(* past gdwMax1Line at a space, when no more of it is shown.  The byte it  *)
(* is cut at is not passed.                                                *)
PutBinByte ==
  /\ pc = "putbin" /\ dwo < ForwardEnd /\ Printable(At(dwo))
  /\ LET line == Append(lpVerb, At(dwo))
         far == Len(line) > dwtmax /\ Len(line) > gdwEnd1Line
         space == Len(line) > dwtmax /\ At(dwo) = SPACE
     IN  IF far \/ space
         THEN /\ Out(line) /\ lpVerb' = <<>>
              /\ pc' = IF far /\ WordGoesOn(0) THEN "putword" ELSE "finish"
              /\ UNCHANGED dwo
         ELSE /\ lpVerb' = line /\ dwo' = dwo + 1
              /\ UNCHANGED <<pc, shown>>
  /\ UNCHANGED <<buffer, dwtmax, dwOutCnt, dwDnCnt, bDnSome>>
  /\ Frame

PutBinEnd ==
  /\ pc = "putbin" /\ ~(dwo < ForwardEnd /\ Printable(At(dwo)))
  /\ pc' = IF dwo >= ForwardEnd /\ WordGoesOn(Len(lpVerb)) THEN "putword" ELSE "finish"
  /\ UNCHANGED <<dwo, buffer, text, shown>>
  /\ Frame

(* To the end of the word, or to the full length.                          *)
InWord == dwo < Size /\ Printable(At(dwo)) /\ At(dwo) # SPACE

PutWordByte ==
  /\ pc = "putword" /\ InWord
  /\ lpVerb' = Append(lpVerb, At(dwo))
  /\ IF Len(lpVerb) >= dwtmax
     THEN pc' = "finish" /\ UNCHANGED dwo
     ELSE dwo' = dwo + 1 /\ UNCHANGED pc
  /\ UNCHANGED <<buffer, dwtmax, dwOutCnt, dwDnCnt, bDnSome, shown>>
  /\ Frame

PutWordEnd ==
  /\ pc = "putword" /\ ~InWord
  /\ pc' = "finish"
  /\ UNCHANGED <<dwo, buffer, text, shown>>
  /\ Frame

-----------------------------------------------------------------------------
(* -LL: a piece of the line buffer around the find.                        *)

dwMaxOut == sw.left + sw.right

(* The characters b to e - 1 of the buffer, as far as it goes.             *)
Cut(b, e) == SubSeq(glpLineBuf, b + 1, IF e < Len(glpLineBuf) THEN e ELSE Len(glpLineBuf))

HalfFind == IF Len(find) > 1 THEN Len(find) \div 2 ELSE 1

(* Where the piece begins, to the left of the find.                        *)
LimitBegin ==
  LET back == sw.left - HalfFind
  IN  IF g_dwLBOffBgn = 0 \/ back <= 0 THEN g_dwLBOffBgn
      ELSE IF back > g_dwLBOffBgn THEN 0 ELSE g_dwLBOffBgn - back

(* Up to the noted end of the find, and then to the right.                 *)
LimitPiece ==
  LET b == LimitBegin
      e == IF b < g_dwLBOffEnd THEN g_dwLBOffEnd ELSE b
      right == IF sw.right > HalfFind THEN sw.right - HalfFind ELSE 0
  IN  IF Len(find) > dwMaxOut THEN Cut(g_dwLBOffBgn, g_dwLBOffEnd)
      ELSE IF g_dwLBOffBgn < Len(glpLineBuf) THEN Cut(b, e + right)
      ELSE Cut(b, e)

Limit ==
  /\ pc = "limit"
  /\ IF dwMaxOut = 0
     THEN Out(glpLineBuf) /\ pc' = "next"
     ELSE IF Len(glpLineBuf) > dwMaxOut /\ LimitPiece # <<>>
     THEN Out(LimitPiece) /\ pc' = "next"
     ELSE pc' = "put" /\ UNCHANGED shown
  /\ UNCHANGED <<dwo, buffer, text>>
  /\ Frame

-----------------------------------------------------------------------------
(* The line read from the map (Rpt_Outs).                                  *)

Caret(c) == c % 128 < SPACE /\ c # TAB
PutMarks(c) == (IF c >= 128 THEN <<AT>> ELSE <<>>) \o (IF Caret(c) THEN <<CARET>> ELSE <<>>)

PutChar(c) == IF Caret(c) THEN (c % 128) + AT ELSE c % 128

AlphaNumeric(c) == ~NotAsciiRng(c)

(* The text with the byte c added; -S leaves letters and digits, and a     *)
(* space for each other character behind the first of them.                *)
WithByte(c) ==
  LET marked == lpVerb \o PutMarks(c)
  IN  IF ~sw.strip \/ AlphaNumeric(PutChar(c)) THEN Append(marked, PutChar(c))
      ELSE IF marked # <<>> \/ bDnSome THEN Append(marked, SPACE) ELSE marked

(* The bytes that come before the next CR.  When the line is to be wrapped *)
(* at a space and fewer than FEW letters come before gdwEnd1Line, it is    *)
(* not.                                                                    *)
FEW == 5
ToCR == {i \in (dwo + 1)..(Size - 1) : \A j \in (dwo + 1)..i : At(j) # CR}
FewLeft ==
  /\ Cardinality(ToCR) < gdwEnd1Line - dwtmax
  /\ Cardinality({i \in ToCR : Signed(At(i)) > SPACE}) < FEW

Putting == dwo < Size /\ (IsBreak(At(dwo)) => lpVerb = <<>>)

PutBreak ==
  /\ pc = "put" /\ Putting /\ IsBreak(At(dwo))
  /\ dwo' = PastBreak(dwo)
  /\ UNCHANGED <<pc, buffer, text, shown>>
  /\ Frame

PutByte ==
  /\ pc = "put" /\ Putting /\ ~IsBreak(At(dwo))
  /\ LET line == WithByte(At(dwo))
         long == Len(line) > dwtmax
         space == long /\ Len(line) <= gdwEnd1Line /\ PutChar(At(dwo)) = SPACE
         wraps == long /\ (Len(line) > gdwEnd1Line \/ (space /\ ~FewLeft))
     IN  /\ IF wraps
            THEN Out(line) /\ lpVerb' = <<>> /\ bDnSome' = TRUE
            ELSE lpVerb' = line /\ UNCHANGED <<shown, bDnSome>>
         /\ dwtmax' = IF space /\ FewLeft THEN dwtmax + Cardinality(ToCR) + 1 ELSE dwtmax
  /\ dwo' = dwo + 1
  /\ UNCHANGED <<pc, buffer, dwOutCnt, dwDnCnt>>
  /\ Frame

PutDone ==
  /\ pc = "put" /\ ~Putting
  /\ pc' = "finish"
  /\ UNCHANGED <<dwo, buffer, text, shown>>
  /\ Frame

-----------------------------------------------------------------------------
(* The end of the line: what is left is put out, and perhaps more lines.   *)

Visible(t) == {k \in DOMAIN t : t[k] > SPACE}

(* In a makefile a line that ends in a backslash goes on in the next one.  *)
Continued(t) == sw.make /\ Visible(t) # {} /\ t[Top(Visible(t))] = BACKSLASH

(* The search for its last character has left its index in dwk, the length *)
(* of the line: a line whose only character is its first is not put out.   *)
Dropped(t) == sw.make /\ Visible(t) = {1}

FinishNothing ==
  /\ pc = "finish" /\ lpVerb = <<>>
  /\ pc' = "next"
  /\ UNCHANGED <<dwo, buffer, text, shown>>
  /\ Frame

FinishLine ==
  /\ pc = "finish" /\ lpVerb # <<>>
  /\ IF Dropped(lpVerb)
     THEN UNCHANGED <<shown, dwDnCnt, bDnSome>>
     ELSE Out(lpVerb) /\ dwDnCnt' = dwDnCnt + 1 /\ bDnSome' = TRUE
  /\ lpVerb' = <<>>
  /\ pc' = CASE Continued(lpVerb) -> "put"
             [] ~Continued(lpVerb) /\ dwOutCnt # 0 /\ dwo < Size -> "more"
             [] OTHER -> "next"
  /\ UNCHANGED <<dwo, buffer, dwtmax, dwOutCnt>>
  /\ Frame

(* -L with a number: one line more.                                        *)
MoreLines ==
  /\ pc = "more" /\ dwOutCnt > 0
  /\ dwOutCnt' = dwOutCnt - 1
  /\ pc' = "put"
  /\ UNCHANGED <<dwo, buffer, lpVerb, dwtmax, dwDnCnt, bDnSome, shown>>
  /\ Frame

(* -LF: one line more, and it is the last if DEF_MAX_LINES are out or what *)
(* is left of the file has a closing parenthesis or an end of line: at the *)
(* first end of line the inner loop finds no text behind it.               *)
MoreOfFunction ==
  /\ pc = "more" /\ dwOutCnt < 0
  /\ dwOutCnt' = IF \/ dwDnCnt >= DEF_MAX_LINES
                    \/ \E i \in dwo..(Size - 1) : IsBreak(At(i)) \/ At(i) = CLOSE
                 THEN 0 ELSE dwOutCnt
  /\ pc' = "put"
  /\ UNCHANGED <<dwo, buffer, lpVerb, dwtmax, dwDnCnt, bDnSome, shown>>
  /\ Frame

GetLine == GetBreak \/ GetByte \/ GetDone \/ GetBinary \/ GetBinByte \/ GetBinDone
PutBin == PutBinByte \/ PutBinEnd \/ PutWordByte \/ PutWordEnd
PutLine == PutBreak \/ PutByte \/ PutDone
Finish == FinishNothing \/ FinishLine \/ MoreLines \/ MoreOfFunction

Next == NextCall \/ GetLine \/ PutBin \/ Limit \/ PutLine \/ Finish

Spec == Init /\ [][Next]_vars /\ WF_vars(Next)

-----------------------------------------------------------------------------
(* What the properties speak of.                                           *)

(* The calls that have been served.                                        *)
Served == {i \in DOMAIN shown : i < Len(shown) \/ pc = "next"}

(* What a byte looks like, and the bytes b to e - 1 with no end of line.   *)
Looks(c) == Append(PutMarks(c), PutChar(c))
LooksOf(b, e) ==
  FlattenSeq([k \in 1..(e - b) |-> IF IsBreak(At(b + k - 1)) THEN <<>> ELSE Looks(At(b + k - 1))])

(* The lines with text, by the offset behind them, from b on.              *)
LineEnds(b) == {e \in (b + 1)..Size : ~IsBreak(At(e - 1)) /\ (e = Size \/ IsBreak(At(e)))}

ShortLines ==
  \A e \in LineEnds(0) : Len(LooksOf(SegStart(file, e - 1), e)) <= gdwMax1Line

LastSeen(e) == Visible(LooksOf(SegStart(file, e - 1), e))

(* The lines that a call is to show, when none of them is wrapped: the     *)
(* line of the find and those asked for, each with the lines on which it   *)
(* goes on, as far as the file has them.                                   *)
Asked == IF sw.L = "lines" THEN sw.n ELSE IF sw.L = "func" THEN 1 ELSE 0
Whole(b, e) ==
  {d \in LineEnds(b) : d <= e /\ ~Continued(LooksOf(SegStart(file, d - 1), d))}
AsAsked(e, b) ==
  \/ e \in Whole(b, e) /\ Cardinality(Whole(b, e)) = Asked + 1
  \/ e = Top(LineEnds(b)) /\ Cardinality(Whole(b, e)) <= Asked + 1

-----------------------------------------------------------------------------
(* Each variable has its type, the buffers hold bytes.                     *)
TypeOK ==
  /\ file \in Seq(Byte) /\ find \in Seq(Byte) /\ sw \in Switch
  /\ calls \subseteq 0..(Len(file) - 1) /\ call \in Call
  /\ pc \in {"next", "get", "getbin", "getbyte", "limit", "put", "putbin",
             "putword", "finish", "more"}
  /\ dwo \in Nat /\ gdwLBSize \in Nat /\ glpLineBuf \in Seq(Byte)
  /\ g_dwLBOffBgn \in Nat /\ g_dwLBOffEnd \in Nat
  /\ lpVerb \in Seq(Byte) /\ dwtmax \in Nat /\ dwOutCnt \in Int
  /\ dwDnCnt \in Nat /\ bDnSome \in BOOLEAN

(* Fa4.c:2685, 2759: the line and the NUL behind it fit in the buffer,     *)
(* though a byte may take two characters, and it may grow at any of them.  *)
LineFits == Len(glpLineBuf) < gdwLBSize

(* Fa4Show.c:448-563: what is shown of a text is the text of whole lines,  *)
(* from that of the find on, with nothing lost or added where it wraps, in *)
(* pieces not longer than the end of the line allows; and when no line is  *)
(* wrapped they are the lines asked for.  Of a makefile this holds if no   *)
(* line is wrapped or has its first character as its only one.             *)
TextKept ==
  \A i \in Served :
    LET b == SkipBreaks(file, shown[i].begin)
        out == shown[i].out
    IN  /\ ~sw.bin /\ ~sw.strip /\ sw.L # "limit"
        /\ sw.make => ShortLines /\ \A e \in LineEnds(0) : LastSeen(e) # {1}
        => \E e \in LineEnds(b) :
             /\ FlattenSeq(out) = LooksOf(b, e)
             /\ ShortLines => AsAsked(e, b)
             /\ \A k \in DOMAIN out : Len(out[k]) <= gdwEnd1Line + 3

(* The find, in what is shown.                                             *)
ShowsFind(t) == \E o \in 0..(Len(t) - Len(find)) : SubSeq(t, o + 1, o + Len(find)) = find

(* An unprintable byte that the backing up comes to and does not look at:  *)
(* the one at which it has gone back far enough, or that at offset 0.      *)
Unseen(off) ==
  LET b == IF off > g_dwBackup THEN off - 1 - g_dwBackup ELSE 0
  IN  off > 0 /\ ~Printable(At(b)) /\ \A j \in (b + 1)..(off - 1) : Printable(At(j))

EndsLine(off) == off + Len(find) >= Size \/ IsBreak(At(off + Len(find)))

(* Fa4Show.c:270-446: what is shown for a find contains it: of a binary    *)
(* file, unless the backing up ends at an unprintable byte without looking *)
(* at it; of a line that is cut to the left and right of the find, unless  *)
(* it ends the line or has only one byte.                                  *)
FindShown ==
  \A i \in Served :
    /\ (\A k \in DOMAIN find : AlphaNumeric(find[k])) /\ NoLoneCR(file)
    /\ ~sw.make /\ g_dwBackup + Len(find) <= gdwMax1Line
    /\ sw.bin => ~Unseen(shown[i].off)
    /\ sw.L = "limit" /\ ~sw.bin =>
         sw.left + sw.right = 0 \/ (Len(find) > 1 /\ ~EndsLine(shown[i].off))
    => ShowsFind(FlattenSeq(shown[i].out))

=============================================================================
