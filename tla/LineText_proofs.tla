--------------------------- MODULE LineText_proofs ---------------------------
(***************************************************************************)
(* Proofs about the text of the lines shown, for all inputs and sizes: the *)
(* types, that the line buffer always has room for the NUL, that the text  *)
(* shown is that of the lines asked for, and that the find is in it.  The  *)
(* second holds because at the head of the loop of GettheLine five         *)
(* characters are free: one turn stores at most two.  The third because    *)
(* what is put out, with what is collected, is always what the bytes       *)
(* behind the scan look like.  The last because the part of the find       *)
(* behind the scan always ends that text.                                  *)
(***************************************************************************)
EXTENDS LineText, FA4Lemmas, SequenceTheorems

(* A buffer with nothing in it holds only bytes.                           *)
LEMMA EmptyType == <<>> \in Seq(Byte)
OBVIOUS

(* A byte of the file is a byte.                                           *)
LEMMA AtType ==
  ASSUME file \in Seq(Byte), NEW o \in Nat, o < Size
  PROVE  At(o) \in Byte
BY DEF At, Size

LEMMA LineBeginType ==
  ASSUME file \in Seq(Byte), NEW o \in Nat
  PROVE  LineBegin(file, o) \in Nat
<1>1. LFsBefore(file, o) \in SUBSET Nat /\ \A s \in LFsBefore(file, o) : s <= o
  BY DEF LFsBefore
<1> QED
  BY <1>1, TopIs DEF LineBegin

(* Where the text of a binary file begins, and how far back that is.       *)
LEMMA BackUpType ==
  ASSUME TypeOK
  PROVE  BackUp.dwo \in Nat /\ BackUp.dwk \in Nat
<1> DEFINE off == call.off
           stops == {b \in 0..(off - 1) : b = 0 \/ off - 1 - b = g_dwBackup \/ ~Printable(At(b))}
<1>1. off \in Nat
  BY DEF TypeOK, Call
<1>2. CASE off = 0
  BY <1>2 DEF BackUp
<1>3. CASE off # 0
  <2>1. stops \in SUBSET Nat /\ (\A s \in stops : s <= off) /\ 0 \in stops
    BY <1>1, <1>3
  <2>2. Top(stops) \in 0..(off - 1)
    <3>1. Top(stops) \in stops
      BY <1>1, <2>1, TopIs
    <3> QED
      BY <3>1
  <2> QED
    BY <1>1, <1>3, <2>2 DEF BackUp
<1> QED
  BY <1>2, <1>3

LEMMA ForwardEndType ==
  ASSUME TypeOK
  PROVE  ForwardEnd \in Nat /\ ForwardEnd <= Size
<1>1. BackUp.dwo \in Nat /\ BackUp.dwk \in Nat
  BY BackUpType
<1>2. call.off \in Nat /\ Len(find) \in Nat /\ Size \in Nat
  BY DEF TypeOK, Call, Size
<1> QED
  BY <1>1, <1>2, SizesAssumption DEF ForwardEnd

(* A turn of the loop adds at most two characters to the line, and the     *)
(* buffer does not shrink.                                                 *)
LEMMA StoreType ==
  ASSUME TypeOK, NEW marks \in {<<>>, <<CARET>>}, NEW c \in Byte, Store(marks, c)
  PROVE  /\ glpLineBuf' \in Seq(Byte) /\ Len(glpLineBuf') <= Len(glpLineBuf) + 2
         /\ g_dwLBOffBgn' \in Nat /\ g_dwLBOffEnd' \in Nat
         /\ gdwLBSize' \in Nat
         /\ gdwLBSize' = IF Len(glpLineBuf') >= gdwLBSize - 4
                         THEN gdwLBSize + MXLINEBUF ELSE gdwLBSize
<1>1. marks \in Seq(Byte) /\ Len(marks) <= 1
  <2>1. CARET \in Byte
    BY DEF CARET, Byte
  <2>2. CASE marks = <<>>
    BY <2>2
  <2>3. CASE marks = <<CARET>>
    BY <2>1, <2>3
  <2> QED
    BY <2>2, <2>3
<1>2. glpLineBuf \o marks \in Seq(Byte) /\ Len(glpLineBuf \o marks) <= Len(glpLineBuf) + 1
  BY <1>1 DEF TypeOK
<1>3. /\ glpLineBuf' \in Seq(Byte)
      /\ Len(glpLineBuf') = Len(glpLineBuf \o marks) + 1
      /\ glpLineBuf' = Append(glpLineBuf \o marks, c)
  BY <1>2 DEF Store
<1>4. g_dwLBOffBgn' \in Nat /\ g_dwLBOffEnd' \in Nat
  BY <1>2, <1>3 DEF Store, TypeOK
<1> QED
  BY <1>2, <1>3, <1>4, SizesAssumption DEF Store, Grow, TypeOK

(* The bytes ahead of the next CR can be counted.                          *)
LEMMA ToCRType ==
  ASSUME TypeOK
  PROVE  Cardinality(ToCR) \in Nat
<1>1. ToCR \in SUBSET Nat /\ \A s \in ToCR : s <= Size
  BY DEF TypeOK, ToCR, Size
<1>2. Size \in Nat
  BY DEF TypeOK, Size
<1> QED
  BY <1>1, <1>2, CountGrows

LEMMA WithByteType ==
  ASSUME TypeOK, NEW c \in Byte
  PROVE  WithByte(c) \in Seq(Byte)
<1>1. PutMarks(c) \in Seq(Byte)
  <2> DEFINE high == IF c >= 128 THEN <<AT>> ELSE <<>>
             control == IF Caret(c) THEN <<CARET>> ELSE <<>>
  <2>1. AT \in Byte /\ CARET \in Byte
    BY DEF AT, CARET, Byte
  <2>2. high \in Seq(Byte)
    BY <2>1
  <2>3. control \in Seq(Byte)
    BY <2>1
  <2> HIDE DEF high, control
  <2>4. high \o control \in Seq(Byte)
    BY <2>2, <2>3
  <2> QED
    BY <2>4 DEF PutMarks, high, control
<1>2. PutChar(c) \in Byte
  BY DEF PutChar, Caret, Byte, AT, SPACE
<1>3. lpVerb \o PutMarks(c) \in Seq(Byte) /\ SPACE \in Byte
  BY <1>1 DEF TypeOK, SPACE, Byte
<1> QED
  BY <1>2, <1>3 DEF WithByte

LEMMA InitType == Init => TypeOK
<1> SUFFICES ASSUME Init PROVE TypeOK
  OBVIOUS
<1>1. file \in Seq(Byte) /\ find \in Seq(Byte) /\ sw \in Switch
  <2>1. \A S, T : Seq(S \ T) \subseteq Seq(S)
    OBVIOUS
  <2> QED
    BY <2>1, InputsAssumption DEF Init
<1>2. calls \subseteq 0..(Len(file) - 1) /\ call \in Call
  BY DEF Init, FirstInLine, Found, NoCall, Call
<1>3. lpVerb \in Seq(Byte) /\ glpLineBuf \in Seq(Byte)
  BY EmptyType DEF Init
<1>4. /\ pc = "next" /\ dwo = 0 /\ gdwLBSize \in Nat
      /\ g_dwLBOffBgn = 0 /\ g_dwLBOffEnd = 0 /\ dwtmax \in Nat
      /\ dwOutCnt = 0 /\ dwDnCnt = 0
  BY SizesAssumption DEF Init
<1>5. bDnSome \in BOOLEAN
  BY Zenon DEF Init
<1> QED
  BY <1>1, <1>2, <1>3, <1>4, <1>5 DEF TypeOK

LEMMA NextType == TypeOK /\ [Next]_vars => TypeOK'
<1> SUFFICES ASSUME TypeOK, [Next]_vars PROVE TypeOK'
  OBVIOUS
<1> USE SizesAssumption DEF Frame, inputs
<1>1. CASE NextCall
  <2>1. PICK o \in calls : call' = CallAt(o) /\ calls' = calls \ {o}
    BY <1>1 DEF NextCall
  <2>2. o \in Nat /\ LineBegin(file, o) \in Nat
    BY <2>1, LineBeginType DEF TypeOK
  <2>3. call' \in Call /\ call'.begin \in Nat
    BY <2>1, <2>2 DEF CallAt, Call, TypeOK
  <2>4. AskedFor \in Int
    BY DEF AskedFor, TypeOK, Switch
  <2>5. lpVerb' \in Seq(Byte) /\ glpLineBuf' \in Seq(Byte)
    BY <1>1, EmptyType DEF NextCall
  <2> QED
    BY <1>1, <2>1, <2>3, <2>4, <2>5 DEF NextCall, TypeOK
<1>2. CASE GetBreak
  BY <1>2 DEF GetBreak, PastBreak, TypeOK, buffer, text
<1>3. CASE GetByte
  <2>1. At(dwo) \in Byte
    BY <1>3, AtType DEF GetByte, Getting, TypeOK
  <2>2. GetMarks(At(dwo)) \in {<<>>, <<CARET>>} /\ GetChar(At(dwo)) \in Byte
    BY <2>1 DEF GetMarks, GetChar, AT, Byte
  <2> QED
    BY <1>3, <2>2, StoreType DEF GetByte, TypeOK, text
<1>4. CASE GetDone
  BY <1>4 DEF GetDone, TypeOK, Call, buffer, text
<1>5. CASE GetBinary
  BY <1>5, BackUpType DEF GetBinary, TypeOK, buffer, text
<1>6. CASE GetBinByte
  <2>1. At(dwo) \in Byte
    BY <1>6, AtType, ForwardEndType DEF GetBinByte, TypeOK, Size
  <2> QED
    BY <1>6, <2>1, StoreType DEF GetBinByte, TypeOK, text
<1>7. CASE GetBinDone
  BY <1>7, BackUpType DEF GetBinDone, TypeOK, buffer, text
<1>8. CASE PutBinByte
  <2>1. At(dwo) \in Byte
    BY <1>8, AtType, ForwardEndType DEF PutBinByte, TypeOK, Size
  <2>2. Append(lpVerb, At(dwo)) \in Seq(Byte)
    BY <2>1 DEF TypeOK
  <2>3. lpVerb' \in Seq(Byte)
    BY <1>8, <2>2, EmptyType DEF PutBinByte
  <2> QED
    BY <1>8, <2>3 DEF PutBinByte, TypeOK, buffer
<1>9. CASE PutBinEnd
  BY <1>9 DEF PutBinEnd, TypeOK, buffer, text
<1>10. CASE PutWordByte
  <2>1. At(dwo) \in Byte
    BY <1>10, AtType DEF PutWordByte, InWord, TypeOK
  <2>2. Append(lpVerb, At(dwo)) \in Seq(Byte)
    BY <2>1 DEF TypeOK
  <2> QED
    BY <1>10, <2>2 DEF PutWordByte, TypeOK, buffer
<1>11. CASE PutWordEnd
  BY <1>11 DEF PutWordEnd, TypeOK, buffer, text
<1>12. CASE Limit
  BY <1>12 DEF Limit, TypeOK, buffer, text
<1>13. CASE PutBreak
  BY <1>13 DEF PutBreak, PastBreak, TypeOK, buffer, text
<1>14. CASE PutByte
  <2>1. At(dwo) \in Byte
    BY <1>14, AtType DEF PutByte, Putting, TypeOK
  <2>2. WithByte(At(dwo)) \in Seq(Byte) /\ Cardinality(ToCR) \in Nat
    BY <2>1, WithByteType, ToCRType
  <2>3. lpVerb' \in Seq(Byte)
    BY <1>14, <2>2, EmptyType DEF PutByte
  <2>4. dwtmax' \in Nat
    BY <1>14, <2>2 DEF PutByte, TypeOK
  <2>5. bDnSome' \in BOOLEAN
    BY <1>14, Zenon DEF PutByte, TypeOK
  <2>6. /\ dwo' \in Nat
        /\ UNCHANGED <<file, find, sw, calls, call, pc, gdwLBSize, glpLineBuf,
                      g_dwLBOffBgn, g_dwLBOffEnd, dwOutCnt, dwDnCnt>>
    BY <1>14 DEF PutByte, TypeOK, buffer
  <2>7. call' \in Call /\ glpLineBuf' \in Seq(Byte) /\ file' \in Seq(Byte)
          /\ find' \in Seq(Byte) /\ sw' \in Switch
    BY <2>6 DEF TypeOK
  <2>8. calls' \subseteq 0..(Len(file') - 1)
    BY <2>6 DEF TypeOK
  <2> QED
    BY <2>3, <2>4, <2>5, <2>6, <2>7, <2>8 DEF TypeOK
<1>15. CASE PutDone
  BY <1>15 DEF PutDone, TypeOK, buffer, text
<1>16. CASE FinishNothing
  BY <1>16 DEF FinishNothing, TypeOK, buffer, text
<1>17. CASE FinishLine
  <2>1. lpVerb' \in Seq(Byte)
    BY <1>17, EmptyType DEF FinishLine
  <2>2. dwDnCnt' \in Nat
    <3>1. dwDnCnt \in Nat
      BY DEF TypeOK
    <3>2. dwDnCnt' = dwDnCnt \/ dwDnCnt' = dwDnCnt + 1
      <4> HIDE DEF Frame, inputs
      <4> QED
        BY <1>17, Zenon DEF FinishLine
    <3> QED
      BY <3>1, <3>2
  <2>3. bDnSome' \in BOOLEAN
    BY <1>17, Zenon DEF FinishLine, TypeOK
  <2>4. pc' \in {"put", "more", "next"}
    <3> HIDE DEF Frame, inputs
    <3> QED
      BY <1>17 DEF FinishLine
  <2>5. UNCHANGED <<file, find, sw, calls, call, dwo, gdwLBSize, glpLineBuf,
                    g_dwLBOffBgn, g_dwLBOffEnd, dwtmax, dwOutCnt>>
    BY <1>17 DEF FinishLine, buffer
  <2>6. call' \in Call /\ glpLineBuf' \in Seq(Byte) /\ file' \in Seq(Byte)
          /\ find' \in Seq(Byte) /\ sw' \in Switch
    BY <2>5 DEF TypeOK
  <2>7. calls' \subseteq 0..(Len(file') - 1)
    BY <2>5 DEF TypeOK
  <2> QED
    BY <2>1, <2>2, <2>3, <2>4, <2>5, <2>6, <2>7 DEF TypeOK
<1>18. CASE MoreLines
  BY <1>18 DEF MoreLines, TypeOK, buffer
<1>19. CASE MoreOfFunction
  BY <1>19 DEF MoreOfFunction, TypeOK, buffer
<1>20. CASE UNCHANGED vars
  BY <1>20 DEF vars, buffer, text, TypeOK
<1> QED
  BY <1>1, <1>2, <1>3, <1>4, <1>5, <1>6, <1>7, <1>8, <1>9, <1>10, <1>11, <1>12,
     <1>13, <1>14, <1>15, <1>16, <1>17, <1>18, <1>19, <1>20
     DEF Next, GetLine, PutBin, PutLine, Finish

(* Each variable keeps its type (Fa4.c:2621-2783, Fa4Show.c:152-656).      *)
THEOREM TypeCorrect == Spec => []TypeOK
<1>1. Init => TypeOK
  BY InitType
<1>2. TypeOK /\ [Next]_vars => TypeOK'
  BY NextType
<1> QED
  BY <1>1, <1>2, PTL DEF Spec

-----------------------------------------------------------------------------
(* At the head of the loop five characters of the buffer are free.         *)
RoomLeft == Len(glpLineBuf) + 5 <= gdwLBSize

LEMMA InitRoom == Init => RoomLeft
BY SizesAssumption DEF Init, RoomLeft

(* The lines that are stored through Store keep the room.                  *)
LEMMA StoreRoom ==
  ASSUME TypeOK, RoomLeft, NEW marks \in {<<>>, <<CARET>>}, NEW c \in Byte, Store(marks, c)
  PROVE  RoomLeft'
<1>1. /\ glpLineBuf' \in Seq(Byte) /\ Len(glpLineBuf') <= Len(glpLineBuf) + 2
      /\ gdwLBSize' = IF Len(glpLineBuf') >= gdwLBSize - 4
                      THEN gdwLBSize + MXLINEBUF ELSE gdwLBSize
  BY StoreType
<1>2. Len(glpLineBuf') \in Nat /\ Len(glpLineBuf) \in Nat /\ gdwLBSize \in Nat
  BY <1>1 DEF TypeOK
<1> QED
  BY <1>1, <1>2, SizesAssumption DEF RoomLeft

LEMMA NextRoom == TypeOK /\ RoomLeft /\ [Next]_vars => RoomLeft'
<1> SUFFICES ASSUME TypeOK, RoomLeft, [Next]_vars PROVE RoomLeft'
  OBVIOUS
<1>1. CASE NextCall
  BY <1>1 DEF NextCall, RoomLeft, TypeOK
<1>2. CASE GetByte
  <2>1. At(dwo) \in Byte
    BY <1>2, AtType DEF GetByte, Getting, TypeOK
  <2>2. GetMarks(At(dwo)) \in {<<>>, <<CARET>>} /\ GetChar(At(dwo)) \in Byte
    BY <2>1 DEF GetMarks, GetChar, AT, Byte
  <2> QED
    BY <1>2, <2>2, StoreRoom DEF GetByte
<1>3. CASE GetBinByte
  <2>1. At(dwo) \in Byte
    BY <1>3, AtType, ForwardEndType DEF GetBinByte, TypeOK, Size
  <2> QED
    BY <1>3, <2>1, StoreRoom DEF GetBinByte
<1>4. CASE UNCHANGED buffer
  BY <1>4 DEF RoomLeft, buffer
<1>5. Next \/ UNCHANGED vars => NextCall \/ GetByte \/ GetBinByte \/ UNCHANGED buffer
  BY DEF Next, GetLine, PutBin, PutLine, Finish, GetBreak, GetDone, GetBinary,
         GetBinDone, PutBinByte, PutBinEnd, PutWordByte, PutWordEnd, Limit,
         PutBreak, PutByte, PutDone, FinishNothing, FinishLine, MoreLines,
         MoreOfFunction, vars, buffer
<1> QED
  BY <1>1, <1>2, <1>3, <1>4, <1>5

(* However long the line and whatever its bytes, the line buffer has room  *)
(* for them and for the NUL behind them (Fa4.c:2685, 2759, 2778).          *)
THEOREM LineAlwaysFits == Spec => []LineFits
<1>1. TypeOK /\ RoomLeft => LineFits
  BY DEF TypeOK, RoomLeft, LineFits
<1>2. Init => RoomLeft
  BY InitRoom
<1>3. TypeOK /\ RoomLeft /\ [Next]_vars => RoomLeft'
  BY NextRoom
<1> QED
  BY <1>1, <1>2, <1>3, TypeCorrect, PTL DEF Spec
-----------------------------------------------------------------------------
(* FlattenSeq: its recursion defines a function, ...                       *)
Flattens(f, s, T) ==
  /\ FlattenSeq(s) = f[Len(s)] /\ f[1] = s[1]
  /\ \A i \in 1..Len(s) : f[i] \in Seq(T)
  /\ \A i \in 2..Len(s) : f[i] = f[i - 1] \o s[i]

LEMMA FlattenIs ==
  ASSUME NEW T, NEW s \in Seq(Seq(T)), s # <<>>
  PROVE  \E f : Flattens(f, s, T)
<1> DEFINE n == Len(s)
           Q == Seq(T)
           Right(g) == g = [i \in 1..n |-> IF i = 1 THEN s[1] ELSE g[i - 1] \o s[i]]
           f == CHOOSE g : Right(g)
           step == [x \in Q \X (1..n) |-> x[1] \o s[x[2]]]
<1>1. FlattenSeq(s) = f[n]
  <2>1. Len(s) # 0
    OBVIOUS
  <2>2. \A i \in 1..n : i = 1 => s[i] = s[1]
    OBVIOUS
  <2>3. \A g : [i \in 1..n |-> IF i = 1 THEN s[i] ELSE g[i - 1] \o s[i]]
             = [i \in 1..n |-> IF i = 1 THEN s[1] ELSE g[i - 1] \o s[i]]
    BY <2>2
  <2> QED
    BY <2>1, <2>3 DEF FlattenSeq
<1>2. n \in Nat /\ n # 0 /\ <<>> \in Q /\ \A i \in 1..n : s[i] \in Q
  OBVIOUS
<1>3. \A u \in Q, i \in 1..n : u \o s[i] \in Q
  BY <1>2, ConcatProperties
<1> HIDE DEF Q, n
<1>4. step \in [Q \X (1..n) -> Q] /\ \A u \in Q, i \in 1..n : step[<<u, i>>] = u \o s[i]
  BY <1>3
<1> HIDE DEF step
<1>5. PICK g \in [0..n -> Q] : Steps(g, <<>>, step, n)
  BY <1>2, <1>4, StepsExist
<1>6. \A i \in 1..n : i - 1 \in 0..n /\ i \in 0..n /\ g[i] = g[i - 1] \o s[i]
  <2> TAKE i \in 1..n
  <2>1. i - 1 \in 0..n /\ i \in 0..n
    BY <1>2
  <2> QED
    BY <1>4, <1>5, <2>1 DEF Steps
<1>7. g[1] = s[1] /\ 1 \in 1..n
  <2>1. 1 \in 1..n /\ 1 - 1 = 0
    BY <1>2
  <2>2. g[1] = <<>> \o s[1]
    BY <1>5, <1>6, <2>1 DEF Steps
  <2>3. s[1] \in Seq(T)
    BY <1>2, <2>1 DEF Q
  <2>4. <<>> \o s[1] = s[1]
    BY <2>3, ConcatEmptySeq
  <2> QED
    BY <2>1, <2>2, <2>4
<1>8. Right([i \in 1..n |-> g[i]])
  <2> DEFINE h == [i \in 1..n |-> g[i]]
  <2>1. \A i \in 1..n : i # 1 => i - 1 \in 1..n
    BY <1>2
  <2>2. \A i \in 1..n : h[i] = IF i = 1 THEN s[1] ELSE h[i - 1] \o s[i]
    BY <1>6, <1>7, <2>1
  <2> QED
    BY <2>2
<1>9. Right(f)
  <2> HIDE DEF Right
  <2> QED
    BY <1>8
<1>10. \A i \in 1..n : f[i] = IF i = 1 THEN s[1] ELSE f[i - 1] \o s[i]
  <2> HIDE DEF f
  <2> QED
    BY <1>9
<1> HIDE DEF f
<1>11. f[1] = s[1] /\ \A i \in 2..n : i \in 1..n /\ i - 1 \in 1..n /\ f[i] = f[i - 1] \o s[i]
  <2>1. \A i \in 2..n : i \in 1..n /\ i - 1 \in 1..n /\ i # 1
    BY <1>2
  <2> QED
    BY <1>7, <1>10, <2>1
<1>12. ASSUME NEW k \in 1..n, f[k] \notin Q PROVE FALSE
  <2> DEFINE Wrong == {i \in 1..n : f[i] \notin Q}
  <2>0. k \in Wrong
    BY <1>12, Zenon
  <2>1. Wrong \in SUBSET Nat /\ Wrong # {}
    <3>1. 1..n \in SUBSET Nat
      BY <1>2
    <3> QED
      BY <2>0, <3>1, Zenon
  <2>2. PICK i \in Wrong : \A j \in Wrong : i <= j
    <3> HIDE DEF Wrong
    <3> QED
      BY <2>1, Least
  <2>3. i \in 2..n
    <3>1. i # 1
      BY <1>2, <1>7, <1>11, <2>2
    <3> QED
      BY <1>2, <2>2, <3>1
  <2>4. f[i] = f[i - 1] \o s[i] /\ i \in 1..n /\ i - 1 \in 1..n
    BY <1>11, <2>3
  <2>5. ~(i <= i - 1)
    BY <1>2, <2>4
  <2>6. f[i - 1] \in Q
    BY <2>2, <2>4, <2>5
  <2>7. f[i] \in Q
    BY <1>3, <2>4, <2>6
  <2> QED
    BY <2>2, <2>7
<1>13. Flattens(f, s, T)
  BY <1>1, <1>11, <1>12 DEF Flattens, Q, n
<1> QED
  BY <1>13

(* ... and one sequence more is put behind the others.                     *)
LEMMA FlattenMore ==
  ASSUME NEW T, NEW s \in Seq(Seq(T)), NEW x \in Seq(T)
  PROVE  /\ FlattenSeq(<<>>) = <<>> /\ FlattenSeq(s) \in Seq(T)
         /\ Append(s, x) \in Seq(Seq(T))
         /\ FlattenSeq(Append(s, x)) = FlattenSeq(s) \o x
<1> DEFINE n == Len(s)
           r == Append(s, x)
<1>1. n \in Nat /\ r \in Seq(Seq(T)) /\ r # <<>> /\ Len(r) = n + 1 /\ r[n + 1] = x
      /\ \A i \in 1..n : r[i] = s[i]
  BY AppendProperties
<1>2. FlattenSeq(<<>>) = <<>>
  BY DEF FlattenSeq
<1> HIDE DEF r
<1>0. PICK g : Flattens(g, r, T)
  BY <1>1, FlattenIs
<1>3. /\ FlattenSeq(r) = g[Len(r)] /\ g[1] = r[1]
      /\ \A i \in 1..Len(r) : g[i] \in Seq(T)
      /\ \A i \in 2..Len(r) : g[i] = g[i - 1] \o r[i]
  BY <1>0 DEF Flattens
<1>4. CASE s = <<>>
  <2>1. n = 0 /\ FlattenSeq(s) = <<>>
    BY <1>2, <1>4
  <2>2. FlattenSeq(r) = x
    BY <1>1, <1>3, <2>1
  <2>3. <<>> \o x = x /\ <<>> \in Seq(T)
    BY ConcatEmptySeq
  <2> QED
    BY <1>1, <1>2, <2>1, <2>2, <2>3 DEF r
<1>5. CASE s # <<>>
  <2>0. PICK f : Flattens(f, s, T)
    BY <1>5, FlattenIs
  <2>1. /\ FlattenSeq(s) = f[Len(s)] /\ f[1] = s[1]
        /\ \A i \in 1..Len(s) : f[i] \in Seq(T)
        /\ \A i \in 2..Len(s) : f[i] = f[i - 1] \o s[i]
    BY <2>0 DEF Flattens
  <2>2. n \in 1..n /\ n # 0
    BY <1>1, <1>5
  <2>3. ASSUME NEW k \in 1..n, g[k] # f[k] PROVE FALSE
    <3> DEFINE Wrong == {i \in 1..n : g[i] # f[i]}
    <3>1. Wrong \in SUBSET Nat /\ Wrong # {}
      BY <2>3
    <3>2. PICK i \in Wrong : \A j \in Wrong : i <= j
      <4> HIDE DEF Wrong
      <4> QED
        BY <3>1, Least
    <3>3. i # 1
      <4>1. r[1] = s[1]
        BY <1>1, <2>2
      <4> QED
        BY <1>3, <2>1, <3>2, <4>1
    <3>4. i \in 2..n /\ i - 1 \in 1..n /\ i \in 2..Len(r) /\ i \in 1..n /\ ~(i <= i - 1)
      <4>1. PICK m : m = n
        OBVIOUS
      <4>2. m \in Nat /\ Len(r) = m + 1 /\ i \in 1..m /\ i # 1
        BY <1>1, <3>2, <3>3, <4>1
      <4>3. i \in 2..m /\ i - 1 \in 1..m /\ i \in 2..(m + 1) /\ ~(i <= i - 1)
        BY ONLY <4>2
      <4> QED
        BY <4>1, <4>2, <4>3
    <3>5. g[i - 1] = f[i - 1] /\ r[i] = s[i]
      BY <1>1, <3>2, <3>4
    <3>6. g[i] = g[i - 1] \o r[i] /\ f[i] = f[i - 1] \o s[i]
      BY <1>3, <2>1, <3>4
    <3> QED
      BY <3>2, <3>5, <3>6
  <2>4. g[n] = f[n] /\ f[n] \in Seq(T)
    BY <2>1, <2>2, <2>3
  <2>5. n + 1 \in 2..Len(r) /\ (n + 1) - 1 = n
    BY <1>1, <2>2
  <2>6. g[n + 1] = g[n] \o r[n + 1]
    BY <1>3, <2>5
  <2> QED
    BY <1>1, <1>2, <1>3, <2>1, <2>4, <2>6 DEF r
<1> QED
  BY <1>4, <1>5
(* What a byte looks like.                                                 *)
LEMMA LooksType ==
  ASSUME NEW c \in Byte
  PROVE  /\ PutMarks(c) \in Seq(Byte) /\ Len(PutMarks(c)) <= 2 /\ PutChar(c) \in Byte
         /\ Looks(c) \in Seq(Byte) /\ Len(Looks(c)) \in 1..3
<1> DEFINE high == IF c >= 128 THEN <<AT>> ELSE <<>>
           control == IF Caret(c) THEN <<CARET>> ELSE <<>>
<1>1. AT \in Byte /\ CARET \in Byte
  BY DEF AT, CARET, Byte
<1>2. high \in Seq(Byte) /\ Len(high) <= 1 /\ Len(high) \in Nat
  BY <1>1
<1>3. control \in Seq(Byte) /\ Len(control) <= 1 /\ Len(control) \in Nat
  BY <1>1
<1> HIDE DEF high, control
<1>4. high \o control \in Seq(Byte) /\ Len(high \o control) = Len(high) + Len(control)
  BY <1>2, <1>3, ConcatProperties
<1>5. PutMarks(c) = high \o control
  BY DEF PutMarks, high, control
<1>6. PutChar(c) \in Byte
  BY DEF PutChar, Caret, Byte, AT, SPACE
<1>7. PICK m, x : m = PutMarks(c) /\ x = PutChar(c)
  OBVIOUS
<1>8. m \in Seq(Byte) /\ Len(m) <= 2 /\ Len(m) \in Nat /\ x \in Byte
  BY <1>2, <1>3, <1>4, <1>5, <1>6, <1>7
<1>9. Append(m, x) \in Seq(Byte) /\ Len(Append(m, x)) = Len(m) + 1
  BY <1>8, AppendProperties
<1> QED
  BY <1>7, <1>8, <1>9 DEF Looks

(* The bytes b to e - 1, byte by byte.                                     *)
LookAt(o) == IF IsBreak(At(o)) THEN <<>> ELSE Looks(At(o))
Chunks(b, e) == [k \in 1..(e - b) |-> LookAt(b + k - 1)]

LEMMA ChunksAre ==
  ASSUME file \in Seq(Byte), NEW b \in Nat, NEW e \in Nat, b <= e, e <= Size
  PROVE  /\ Chunks(b, e) \in Seq(Seq(Byte)) /\ LooksOf(b, e) = FlattenSeq(Chunks(b, e))
         /\ b = e => Chunks(b, e) = <<>>
         /\ e < Size => /\ LookAt(e) \in Seq(Byte)
                        /\ Chunks(b, e + 1) = Append(Chunks(b, e), LookAt(e))
<1>1. LooksOf(b, e) = FlattenSeq(Chunks(b, e))
  BY DEF LooksOf, Chunks, LookAt
<1>2. ASSUME NEW o \in Nat, o < Size PROVE LookAt(o) \in Seq(Byte)
  BY <1>2, AtType, LooksType, EmptyType DEF LookAt
<1>3. PICK n : n = e - b
  OBVIOUS
<1>4. n \in Nat /\ Size \in Nat
  BY <1>3 DEF Size
<1>5. \A k \in 1..n : b + k - 1 \in Nat /\ b + k - 1 < Size
  BY <1>3, <1>4
<1>6. Chunks(b, e) = [k \in 1..n |-> LookAt(b + k - 1)]
  BY <1>3 DEF Chunks
<1>7. Chunks(b, e) \in Seq(Seq(Byte)) /\ Len(Chunks(b, e)) = n
      /\ \A k \in 1..n : Chunks(b, e)[k] = LookAt(b + k - 1)
  <2>1. \A k \in 1..n : LookAt(b + k - 1) \in Seq(Byte)
    BY <1>2, <1>5
  <2>2. [k \in 1..n |-> LookAt(b + k - 1)] \in [1..n -> Seq(Byte)]
    BY <2>1
  <2>3. PICK s : s = Chunks(b, e)
    OBVIOUS
  <2>4. s \in [1..n -> Seq(Byte)]
    BY <1>6, <2>2, <2>3
  <2>5. s \in Seq(Seq(Byte)) /\ Len(s) = n
    BY <1>4, <2>4
  <2> QED
    BY <1>6, <2>3, <2>5
<1>8. ASSUME b = e PROVE Chunks(b, e) = <<>>
  <2>1. n = 0
    BY <1>3, <1>8
  <2> QED
    BY <1>7, <2>1
<1>9. ASSUME e < Size PROVE Chunks(b, e + 1) = Append(Chunks(b, e), LookAt(e))
  <2>1. PICK s, x : s = Chunks(b, e) /\ x = LookAt(e)
    OBVIOUS
  <2>2. (e + 1) - b = n + 1 /\ b + (n + 1) - 1 = e
    BY <1>3
  <2>3. Chunks(b, e + 1) = [k \in 1..(n + 1) |-> LookAt(b + k - 1)]
    BY <2>2 DEF Chunks
  <2>4. s \in Seq(Seq(Byte)) /\ Len(s) = n /\ \A k \in 1..n : s[k] = LookAt(b + k - 1)
    BY <1>7, <2>1
  <2>5. x \in Seq(Byte)
    BY <1>2, <1>9, <2>1
  <2>6. Append(s, x) = [k \in 1..(n + 1) |-> IF k = n + 1 THEN x ELSE s[k]]
    <3>1. PICK y : y = Append(s, x)
      OBVIOUS
    <3>2. /\ y \in Seq(Seq(Byte)) /\ Len(y) = n + 1 /\ y[n + 1] = x
          /\ \A k \in 1..n : y[k] = s[k]
      BY <2>4, <2>5, <3>1, AppendProperties
    <3>3. y \in [1..(n + 1) -> Seq(Byte)]
      BY <1>4, <3>2
    <3>4. \A k \in 1..(n + 1) : y[k] = IF k = n + 1 THEN x ELSE s[k]
      <4>1. \A k \in 1..(n + 1) : k = n + 1 \/ k \in 1..n
        BY <1>4
      <4> QED
        BY <3>2, <4>1
    <3> QED
      BY <3>1, <3>3, <3>4
  <2>7. \A k \in 1..(n + 1) : (IF k = n + 1 THEN x ELSE s[k]) = LookAt(b + k - 1)
    <3> TAKE k \in 1..(n + 1)
    <3>1. CASE k = n + 1
      BY <2>1, <2>2, <3>1
    <3>2. CASE k # n + 1
      <4>1. k \in 1..n
        BY <1>4, <3>2
      <4> QED
        BY <2>4, <3>2, <4>1
    <3> QED
      BY <3>1, <3>2
  <2> QED
    BY <2>1, <2>3, <2>6, <2>7
<1> QED
  BY <1>1, <1>2, <1>7, <1>8, <1>9

(* One byte more.                                                          *)
LEMMA LooksMore ==
  ASSUME file \in Seq(Byte), NEW b \in Nat, NEW e \in Nat, b <= e, e <= Size
  PROVE  /\ LooksOf(b, b) = <<>> /\ LooksOf(b, e) \in Seq(Byte)
         /\ e < Size /\ IsBreak(At(e)) => LooksOf(b, e + 1) = LooksOf(b, e)
         /\ e < Size /\ ~IsBreak(At(e)) => LooksOf(b, e + 1) = LooksOf(b, e) \o Looks(At(e))
<1>1. Size \in Nat /\ b <= Size
  BY DEF Size
<1>2. PICK s : s = Chunks(b, e)
  OBVIOUS
<1>3. s \in Seq(Seq(Byte)) /\ LooksOf(b, e) = FlattenSeq(s)
  BY <1>2, ChunksAre
<1>4. FlattenSeq(s) \in Seq(Byte) /\ FlattenSeq(<<>>) = <<>>
  BY <1>3, EmptyType, FlattenMore
<1>5. LooksOf(b, b) = <<>>
  <2>1. b <= b
    OBVIOUS
  <2> QED
    BY <1>1, <1>4, <2>1, ChunksAre
<1>6. ASSUME e < Size PROVE LooksOf(b, e + 1) = LooksOf(b, e) \o LookAt(e)
  <2>1. e + 1 \in Nat /\ b <= e + 1 /\ e + 1 <= Size
    BY <1>1, <1>6
  <2>2. LooksOf(b, e + 1) = FlattenSeq(Append(s, LookAt(e))) /\ LookAt(e) \in Seq(Byte)
    BY <1>2, <1>6, <2>1, ChunksAre
  <2> QED
    BY <1>3, <2>2, FlattenMore
<1>7. LooksOf(b, e) \o <<>> = LooksOf(b, e)
  BY <1>3, <1>4, ConcatEmptySeq
<1> QED
  BY <1>3, <1>4, <1>5, <1>6, <1>7 DEF LookAt
(* Ends of line look like nothing, behind a text ...                       *)
LEMMA LooksSkipBack ==
  ASSUME file \in Seq(Byte), NEW b \in Nat, NEW c \in Nat, NEW e \in Nat,
         b <= c, c <= e, e <= Size, \A j \in c..(e - 1) : IsBreak(At(j))
  PROVE  LooksOf(b, e) = LooksOf(b, c)
<1> DEFINE Wrong == {i \in c..e : LooksOf(b, i) # LooksOf(b, c)}
<1>1. SUFFICES ASSUME Wrong # {} PROVE FALSE
  <2>1. e \in c..e
    OBVIOUS
  <2> QED
    BY <2>1
<1>2. Wrong \in SUBSET Nat
  OBVIOUS
<1>3. PICK i \in Wrong : \A j \in Wrong : i <= j
  <2> HIDE DEF Wrong
  <2> QED
    BY <1>1, <1>2, Least
<1>4. i \in c..e /\ i # c
  BY <1>3
<1>5. i - 1 \in Nat /\ b <= i - 1 /\ i - 1 \in c..(e - 1) /\ i - 1 \in c..e
      /\ i - 1 < e /\ ~(i <= i - 1) /\ (i - 1) + 1 = i
  BY <1>4
<1>6. Size \in Nat
  BY DEF Size
<1>7. i - 1 <= Size /\ i - 1 < Size /\ IsBreak(At(i - 1))
  BY <1>5, <1>6
<1>8. LooksOf(b, i) = LooksOf(b, i - 1)
  <2>1. LooksOf(b, (i - 1) + 1) = LooksOf(b, i - 1)
    BY <1>5, <1>7, LooksMore
  <2> QED
    BY <1>5, <2>1
<1>9. LooksOf(b, i - 1) = LooksOf(b, c)
  BY <1>3, <1>5
<1> QED
  BY <1>3, <1>8, <1>9

(* ... and before it.                                                      *)
LEMMA LooksSkipFront ==
  ASSUME file \in Seq(Byte), NEW b \in Nat, NEW c \in Nat, NEW e \in Nat,
         b <= c, c <= e, e <= Size, \A j \in b..(c - 1) : IsBreak(At(j))
  PROVE  LooksOf(b, e) = LooksOf(c, e)
<1> DEFINE Wrong == {i \in c..e : LooksOf(b, i) # LooksOf(c, i)}
<1>0. Size \in Nat
  BY DEF Size
<1>1. SUFFICES ASSUME Wrong # {} PROVE FALSE
  <2>1. e \in c..e
    OBVIOUS
  <2> QED
    BY <2>1
<1>2. Wrong \in SUBSET Nat
  OBVIOUS
<1>3. PICK i \in Wrong : \A j \in Wrong : i <= j
  <2> HIDE DEF Wrong
  <2> QED
    BY <1>1, <1>2, Least
<1>4. LooksOf(b, c) = LooksOf(c, c)
  <2>1. c <= Size /\ c <= c /\ b <= b
    BY <1>0
  <2>2. LooksOf(b, c) = LooksOf(b, b)
    BY <2>1, LooksSkipBack
  <2>3. LooksOf(b, b) = <<>> /\ LooksOf(c, c) = <<>>
    BY <2>1, LooksMore
  <2> QED
    BY <2>2, <2>3
<1>5. i \in c..e /\ i # c
  BY <1>3, <1>4
<1>6. i - 1 \in Nat /\ b <= i - 1 /\ c <= i - 1 /\ i - 1 \in c..e
      /\ i - 1 <= Size /\ i - 1 < Size /\ ~(i <= i - 1) /\ (i - 1) + 1 = i
  BY <1>0, <1>5
<1>7. LooksOf(b, i - 1) = LooksOf(c, i - 1)
  BY <1>3, <1>6
<1>8. LooksOf(b, i) = LooksOf(c, i)
  <2>1. PICK k : k = i - 1
    OBVIOUS
  <2>2. k \in Nat /\ b <= k /\ c <= k /\ k <= Size /\ k < Size /\ k + 1 = i
    BY <1>6, <2>1
  <2>3. LooksOf(b, k) = LooksOf(c, k)
    BY <1>7, <2>1
  <2>4. CASE IsBreak(At(k))
    BY <2>2, <2>3, <2>4, LooksMore
  <2>5. CASE ~IsBreak(At(k))
    <3>1. LooksOf(b, k + 1) = LooksOf(b, k) \o Looks(At(k))
      BY <2>2, <2>5, LooksMore
    <3>2. LooksOf(c, k + 1) = LooksOf(c, k) \o Looks(At(k))
      BY <2>2, <2>5, LooksMore
    <3> QED
      BY <2>2, <2>3, <3>1, <3>2
  <2> QED
    BY <2>4, <2>5
<1> QED
  BY <1>3, <1>8

(* A text grows with its bytes.                                            *)
LEMMA LooksGrow ==
  ASSUME file \in Seq(Byte), NEW b \in Nat, NEW c \in Nat, NEW e \in Nat,
         b <= c, c <= e, e <= Size
  PROVE  Len(LooksOf(b, c)) <= Len(LooksOf(b, e))
<1> DEFINE Wrong == {i \in c..e : ~(Len(LooksOf(b, c)) <= Len(LooksOf(b, i)))}
<1>0. Size \in Nat /\ c <= Size
  BY DEF Size
<1>1. SUFFICES ASSUME Wrong # {} PROVE FALSE
  <2>1. e \in c..e
    OBVIOUS
  <2> QED
    BY <2>1
<1>2. Wrong \in SUBSET Nat
  OBVIOUS
<1>3. PICK i \in Wrong : \A j \in Wrong : i <= j
  <2> HIDE DEF Wrong
  <2> QED
    BY <1>1, <1>2, Least
<1>4. Len(LooksOf(b, c)) \in Nat
  BY <1>0, LooksMore, LenProperties
<1>5. i \in c..e /\ i # c
  BY <1>3, <1>4
<1>6. i - 1 \in Nat /\ b <= i - 1 /\ i - 1 \in c..e
      /\ i - 1 <= Size /\ i - 1 < Size /\ ~(i <= i - 1) /\ (i - 1) + 1 = i
  BY <1>0, <1>5
<1>7. Len(LooksOf(b, c)) <= Len(LooksOf(b, i - 1))
  BY <1>3, <1>6
<1>8. Len(LooksOf(b, i - 1)) \in Nat /\ LooksOf(b, i - 1) \in Seq(Byte)
  BY <1>6, LooksMore, LenProperties
<1>9. CASE IsBreak(At(i - 1))
  <2>1. LooksOf(b, (i - 1) + 1) = LooksOf(b, i - 1)
    BY <1>6, <1>9, LooksMore
  <2> QED
    BY <1>3, <1>6, <1>7, <2>1
<1>10. CASE ~IsBreak(At(i - 1))
  <2>1. LooksOf(b, (i - 1) + 1) = LooksOf(b, i - 1) \o Looks(At(i - 1))
    BY <1>6, <1>10, LooksMore
  <2>2. Looks(At(i - 1)) \in Seq(Byte) /\ Len(Looks(At(i - 1))) \in Nat
    BY <1>6, AtType, LooksType, LenProperties
  <2>3. Len(LooksOf(b, i)) = Len(LooksOf(b, i - 1)) + Len(Looks(At(i - 1)))
    BY <1>6, <1>8, <2>1, <2>2, ConcatProperties
  <2>4. Len(LooksOf(b, c)) <= Len(LooksOf(b, i))
    BY <1>4, <1>7, <1>8, <2>2, <2>3
  <2> QED
    BY <1>3, <2>4
<1> QED
  BY <1>9, <1>10
LEMMA LineEndsType ==
  ASSUME file \in Seq(Byte), NEW b \in Nat
  PROVE  /\ LineEnds(b) \in SUBSET Nat /\ Size \in Nat
         /\ \A e \in LineEnds(b) : e <= Size /\ b < e /\ ~IsBreak(At(e - 1))
                                   /\ (e = Size \/ IsBreak(At(e)))
         /\ \A e \in Nat : /\ e <= Size /\ b < e /\ ~IsBreak(At(e - 1))
                           /\ e = Size \/ IsBreak(At(e))
                           => e \in LineEnds(b)
<1>1. Size \in Nat
  BY DEF Size
<1> QED
  BY <1>1 DEF LineEnds

(* A byte of a line has the line's end behind it, and with it the text up  *)
(* to the byte.                                                            *)
LEMMA LineEndBehind ==
  ASSUME file \in Seq(Byte), NEW o \in Nat, o < Size, ~IsBreak(At(o))
  PROVE  \E e \in Nat : /\ o < e /\ \A b \in 0..o : e \in LineEnds(b)
                        /\ SegStart(file, e - 1) = SegStart(file, o)
<1> DEFINE e == EndOfLine(file, o)
<1>1. Size = Len(file) /\ Size \in Nat /\ o \in 0..Len(file)
  BY DEF Size
<1>2. e \in o..Len(file) /\ (e = Len(file) \/ IsBreak(file[e + 1]))
      /\ \A j \in o..(e - 1) : ~IsBreak(file[j + 1])
  BY <1>1, EndOfLineIs
<1> HIDE DEF e
<1>3. e # o
  BY <1>1, <1>2 DEF At
<1>4. e \in Nat /\ o < e /\ e <= Size /\ o <= e - 1 /\ e - 1 \in Nat /\ e - 1 <= Len(file)
      /\ e - 1 \in o..(e - 1) /\ (e - 1) + 1 = e
  BY <1>1, <1>2, <1>3
<1>5. ~IsBreak(At(e - 1)) /\ (e = Size \/ IsBreak(At(e)))
  <2>1. ~IsBreak(file[(e - 1) + 1])
    BY <1>2, <1>4
  <2> QED
    BY <1>1, <1>2, <2>1 DEF At
<1>6. ASSUME NEW b \in 0..o PROVE e \in LineEnds(b)
  <2>1. b \in Nat /\ b < e
    BY <1>4
  <2> QED
    BY <1>4, <1>5, <2>1, LineEndsType
<1>7. SegStart(file, e - 1) = SegStart(file, o)
  <2>1. \A j \in o..((e - 1) - 1) : ~IsBreak(file[j + 1])
    <3>1. \A j \in o..((e - 1) - 1) : j \in o..(e - 1)
      BY <1>4
    <3> QED
      BY <1>2, <3>1
  <2> QED
    BY <1>4, <2>1, SegTogether
<1> QED
  BY <1>4, <1>6, <1>7

(* The ends of line at the place a call gives are passed over: that makes  *)
(* no difference to what is to be shown.                                   *)
LEMMA BreaksSkipped ==
  ASSUME file \in Seq(Byte), NEW b \in Nat, b <= Size
  PROVE  /\ LineEnds(SkipBreaks(file, b)) = LineEnds(b)
         /\ \A e \in LineEnds(b) : LooksOf(SkipBreaks(file, b), e) = LooksOf(b, e)
<1> DEFINE c == SkipBreaks(file, b)
<1>1. Size = Len(file) /\ Size \in Nat /\ b \in 0..Len(file)
  BY DEF Size
<1>2. c \in b..Len(file) /\ \A j \in b..(c - 1) : IsBreak(file[j + 1])
  BY <1>1, SkipBreaksIs
<1> HIDE DEF c
<1>3. c \in Nat /\ b <= c /\ c <= Size /\ \A j \in b..(c - 1) : IsBreak(At(j))
  BY <1>1, <1>2 DEF At
<1>4. ASSUME NEW e \in LineEnds(b) PROVE e \in Nat /\ c < e /\ e <= Size
  <2>1. e \in Nat /\ e <= Size /\ b < e /\ ~IsBreak(At(e - 1))
    BY <1>4, LineEndsType
  <2>2. ~(e - 1 \in b..(c - 1))
    BY <1>3, <2>1
  <2> QED
    BY <1>3, <2>1, <2>2
<1>5. LineEnds(c) = LineEnds(b)
  <2>1. ASSUME NEW e \in LineEnds(b) PROVE e \in LineEnds(c)
    BY <1>3, <1>4, <2>1, LineEndsType
  <2>2. ASSUME NEW e \in LineEnds(c) PROVE e \in LineEnds(b)
    <3>1. e \in Nat /\ c < e /\ e <= Size
      BY <1>3, <2>2, LineEndsType
    <3>2. b < e
      BY <1>3, <3>1
    <3> QED
      BY <1>3, <2>2, <3>1, <3>2, LineEndsType
  <2> QED
    BY <2>1, <2>2
<1>6. ASSUME NEW e \in LineEnds(b) PROVE LooksOf(c, e) = LooksOf(b, e)
  <2>1. e \in Nat /\ c <= e /\ e <= Size
    BY <1>3, <1>4
  <2> QED
    BY <1>3, <2>1, LooksSkipFront
<1> QED
  BY <1>5, <1>6 DEF c
-----------------------------------------------------------------------------
(* Why the text is kept.  The calls of which TextKept speaks, ...          *)
Asks == /\ ~sw.bin /\ ~sw.strip /\ sw.L # "limit"
        /\ sw.make => ShortLines /\ \A e \in LineEnds(0) : LastSeen(e) # {1}

(* ... what it says of one of them, ...                                    *)
Kept(begin, out) ==
  LET b == SkipBreaks(file, begin)
  IN  \E e \in LineEnds(b) :
        /\ FlattenSeq(out) = LooksOf(b, e)
        /\ ShortLines => AsAsked(e, b)
        /\ \A k \in DOMAIN out : Len(out[k]) <= gdwEnd1Line + 3

(* ... and what a call gives: a byte of a line, and the last LF before it. *)
Place(off, begin) ==
  /\ off < Size /\ ~IsBreak(At(off)) /\ begin <= off
  /\ begin = 0 \/ IsBreak(At(begin))

LineOf(e) == LooksOf(SegStart(file, e - 1), e)
ToCome(cnt) == IF cnt < 0 THEN 1 ELSE cnt

(* The scan from b on is at o; t is collected, to be wrapped at max, and   *)
(* out is put out.  When no line is too long, the lines with their ends    *)
(* behind the scan, but for that of t, are counted.                        *)
ByLine(b, o, t, max, cnt, p) ==
  /\ max = gdwMax1Line
  /\ t = <<>> => o = 0 \/ o = Size \/ IsBreak(At(o - 1)) \/ IsBreak(At(o))
  /\ t # <<>> => t = LineOf(o)
  /\ IF sw.L = "func" THEN cnt \in {-1, 0} ELSE cnt >= 0
  /\ p = "more" => cnt # 0
  /\ Cardinality(Whole(b, IF t = <<>> THEN o ELSE o - 1)) + ToCome(cnt)
       = Asked + (IF p = "more" THEN 1 ELSE 0)

(* What is put out and what is collected is the text from b to o.          *)
Way(b, o, t, max, cnt, out, p) ==
  /\ b <= o /\ o <= Size
  /\ FlattenSeq(out) \o t = LooksOf(b, o)
  /\ \A k \in DOMAIN out : Len(out[k]) <= gdwEnd1Line + 3
  /\ max <= gdwEnd1Line /\ Len(t) <= gdwEnd1Line
  /\ t # <<>> => b < o /\ ~IsBreak(At(o - 1))
  /\ p = "finish" => o = Size \/ (IsBreak(At(o)) /\ t # <<>>)
  /\ p = "more" => t = <<>> /\ o < Size /\ IsBreak(At(o))
  /\ ShortLines => ByLine(b, o, t, max, cnt, p)

(* The types of these, and of what is shown.                               *)
WayType(b, o, t, max, cnt, out) ==
  /\ file \in Seq(Byte) /\ sw \in Switch /\ b \in Nat /\ o \in Nat /\ t \in Seq(Byte)
  /\ max \in Nat /\ cnt \in Int /\ out \in Seq(Seq(Byte))

Shows == [off : Nat, begin : Nat, out : Seq(Seq(Byte))]

OnTheWay == Way(call.begin, dwo, lpVerb, dwtmax, dwOutCnt, Last(shown).out, pc)

Fresh == /\ lpVerb = <<>> /\ Last(shown).out = <<>>
         /\ dwtmax = gdwMax1Line /\ dwOutCnt = AskedFor

TextInv ==
  Asks => /\ \A o \in calls : ~IsBreak(At(o))
          /\ shown \in Seq(Shows) /\ pc \in {"next", "get", "put", "finish", "more"}
          /\ \A i \in Served : Kept(shown[i].begin, shown[i].out)
          /\ pc # "next" => /\ shown # <<>> /\ Last(shown).begin = call.begin
                            /\ Place(Last(shown).off, call.begin)
          /\ pc = "get" => Fresh
          /\ pc \in {"put", "finish", "more"} => OnTheWay

(* The file and the switches stand, and what is said of them with them.    *)
LEMMA Unmoved ==
  ASSUME file' = file, sw' = sw
  PROVE  /\ Size' = Size /\ \A o : At(o)' = At(o)
         /\ Asks' <=> Asks
         /\ \A b, o : Place(b, o)' <=> Place(b, o)
         /\ \A b, o : Kept(b, o)' <=> Kept(b, o)
<1>1. Size' = Size /\ \A o : At(o)' = At(o)
  BY DEF Size, At
<1>2. \A b, e : LooksOf(b, e)' = LooksOf(b, e)
  BY DEF LooksOf, At
<1>3. \A b : LineEnds(b)' = LineEnds(b)
  BY DEF LineEnds, At, Size
<1>4. ShortLines' <=> ShortLines
  BY <1>2, <1>3 DEF ShortLines
<1>5. \A e : LastSeen(e)' = LastSeen(e)
  BY <1>2 DEF LastSeen
<1>6. Asks' <=> Asks
  BY <1>3, <1>4, <1>5 DEF Asks
<1>7. \A b, o : Place(b, o)' <=> Place(b, o)
  BY <1>1 DEF Place
<1>8. \A b, e : Whole(b, e)' = Whole(b, e)
  BY DEF Whole, LineEnds, LooksOf, At, Size, Continued
<1>9. Asked' = Asked
  BY DEF Asked
<1>10. \A b, e : AsAsked(e, b)' <=> AsAsked(e, b)
  BY <1>3, <1>8, <1>9 DEF AsAsked
<1>11. \A b, o : Kept(b, o)' <=> Kept(b, o)
  BY <1>2, <1>3, <1>4, <1>10 DEF Kept
<1> QED
  BY <1>1, <1>6, <1>7, <1>11

LEMMA WayUnmoved ==
  ASSUME file' = file, sw' = sw
  PROVE  \A b, o, t, max, cnt, out, p :
           Way(b, o, t, max, cnt, out, p)' <=> Way(b, o, t, max, cnt, out, p)
<1>1. Size' = Size /\ \A o : At(o)' = At(o)
  BY DEF Size, At
<1>2. \A b, e : LooksOf(b, e)' = LooksOf(b, e)
  BY DEF LooksOf, At
<1>3. \A e : LineOf(e)' = LineOf(e)
  BY <1>2 DEF LineOf
<1>4. ShortLines' <=> ShortLines
  BY DEF ShortLines, LineEnds, LooksOf, At, Size
<1>5. \A b, e : Whole(b, e)' = Whole(b, e)
  BY DEF Whole, LineEnds, LooksOf, At, Size, Continued
<1>6. Asked' = Asked
  BY DEF Asked
<1>7. \A b, o, t, max, cnt, p : ByLine(b, o, t, max, cnt, p)' <=> ByLine(b, o, t, max, cnt, p)
  BY <1>1, <1>3, <1>5, <1>6 DEF ByLine
<1> QED
  BY <1>1, <1>2, <1>4, <1>7 DEF Way
(* The lines with their ends up to e, by one more.                         *)
LEMMA WholeMore ==
  ASSUME file \in Seq(Byte), NEW b \in Nat, NEW e \in Nat
  PROVE  /\ Cardinality(Whole(b, e)) \in Nat /\ Whole(b, b) = {}
         /\ e + 1 \in LineEnds(b) /\ ~Continued(LineOf(e + 1)) =>
              Cardinality(Whole(b, e + 1)) = Cardinality(Whole(b, e)) + 1
         /\ ~(e + 1 \in LineEnds(b) /\ ~Continued(LineOf(e + 1))) =>
              Whole(b, e + 1) = Whole(b, e)
<1>1. /\ LineEnds(b) \in SUBSET Nat /\ \A d \in LineEnds(b) : b < d
  BY LineEndsType
<1>2. \A f : Whole(b, f) = {d \in LineEnds(b) : d <= f /\ ~Continued(LineOf(d))}
  BY DEF Whole, LineOf
<1>3. Whole(b, e) \in SUBSET Nat /\ (\A d \in Whole(b, e) : d <= e) /\ e + 1 \notin Whole(b, e)
  BY <1>1, <1>2
<1>4. /\ Cardinality(Whole(b, e)) \in Nat
      /\ Cardinality(Whole(b, e) \cup {e + 1}) = Cardinality(Whole(b, e)) + 1
  BY <1>3, CountGrows
<1>5. Whole(b, b) = {}
  BY <1>1, <1>2
<1>6. \A d \in LineEnds(b) : d <= e + 1 <=> d <= e \/ d = e + 1
  BY <1>1
<1>7. ASSUME e + 1 \in LineEnds(b), ~Continued(LineOf(e + 1))
      PROVE  Whole(b, e + 1) = Whole(b, e) \cup {e + 1}
  BY <1>2, <1>6, <1>7
<1>8. ASSUME ~(e + 1 \in LineEnds(b) /\ ~Continued(LineOf(e + 1)))
      PROVE  Whole(b, e + 1) = Whole(b, e)
  BY <1>2, <1>6, <1>8
<1> QED
  BY <1>4, <1>5, <1>7, <1>8

(* The way begins at a call.                                               *)
LEMMA WayStart ==
  ASSUME Asks, NEW off \in Nat, NEW b \in Nat, Place(off, b),
         WayType(b, b, <<>>, gdwMax1Line, AskedFor, <<>>)
  PROVE  Way(b, b, <<>>, gdwMax1Line, AskedFor, <<>>, "put")
<1>1. file \in Seq(Byte) /\ Size \in Nat /\ b <= Size /\ b <= b
      /\ (b = 0 \/ IsBreak(At(b)))
  BY DEF WayType, Place, Size
<1>2. LooksOf(b, b) = <<>>
  BY <1>1, LooksMore
<1>3. FlattenSeq(<<>>) \o <<>> = <<>>
  <2>1. FlattenSeq(<<>>) = <<>>
    BY DEF FlattenSeq
  <2> QED
    BY <2>1, EmptyType, ConcatEmptySeq
<1>4. Whole(b, b) = {} /\ Cardinality(Whole(b, b)) = 0
  BY <1>1, WholeMore, FS_EmptySet
<1>5. AskedFor \in Int /\ ToCome(AskedFor) = Asked
      /\ IF sw.L = "func" THEN AskedFor \in {-1, 0} ELSE AskedFor >= 0
  BY DEF AskedFor, ToCome, Asked, WayType, Switch
<1>6. Asked \in Nat
  BY DEF Asked, WayType, Switch
<1>7. ByLine(b, b, <<>>, gdwMax1Line, AskedFor, "put")
  <2>1. PICK z, n, m, k : /\ z = <<>> /\ n = AskedFor /\ m = ToCome(AskedFor)
                          /\ k = Cardinality(Whole(b, b))
    OBVIOUS
  <2>2. k + m = Asked + 0
    BY <1>4, <1>5, <1>6, <2>1
  <2>3. IF sw.L = "func" THEN n \in {-1, 0} ELSE n >= 0
    BY <1>5, <2>1
  <2>4. ByLine(b, b, z, gdwMax1Line, n, "put")
    BY <1>1, <2>1, <2>2, <2>3 DEF ByLine
  <2> QED
    BY <2>1, <2>4
<1>8. Len(<<>>) = 0 /\ DOMAIN <<>> = {}
  OBVIOUS
<1> QED
  BY <1>1, <1>2, <1>3, <1>7, <1>8, SizesAssumption DEF Way

(* Ends of line are passed over.                                           *)
LEMMA WayBreak ==
  ASSUME NEW b, NEW o, NEW max, NEW cnt, NEW out,
         WayType(b, o, <<>>, max, cnt, out), Way(b, o, <<>>, max, cnt, out, "put"),
         o < Size, IsBreak(At(o))
  PROVE  Way(b, o + 1, <<>>, max, cnt, out, "put")
<1>1. file \in Seq(Byte) /\ Size \in Nat /\ b \in Nat /\ o \in Nat /\ b <= o
      /\ b <= o + 1 /\ o + 1 <= Size /\ o + 1 \in Nat /\ (o + 1) - 1 = o
  BY DEF WayType, Way, Size
<1>2. LooksOf(b, o + 1) = LooksOf(b, o)
  BY <1>1, LooksMore
<1>3. ASSUME ShortLines PROVE ByLine(b, o + 1, <<>>, max, cnt, "put")
  <2>1. ByLine(b, o, <<>>, max, cnt, "put")
    BY <1>3 DEF Way
  <2>2. o + 1 \notin LineEnds(b)
    BY <1>1, LineEndsType
  <2>3. Whole(b, o + 1) = Whole(b, o)
    BY <1>1, <2>2, WholeMore
  <2>4. IsBreak(At((o + 1) - 1))
    BY <1>1
  <2> QED
    BY <2>1, <2>3, <2>4 DEF ByLine
<1> QED
  BY <1>1, <1>2, <1>3 DEF Way

(* A line that is not too long is not while it is read.                    *)
LEMMA ShortSoFar ==
  ASSUME ShortLines, file \in Seq(Byte), NEW o \in Nat, o < Size, ~IsBreak(At(o))
  PROVE  Len(LineOf(o + 1)) <= gdwMax1Line
<1> DEFINE s == SegStart(file, o)
<1>1. s \in 0..o /\ Size \in Nat /\ s \in Nat /\ s <= o + 1 /\ o \in Nat
  <2>1. o \in 0..Len(file) /\ Size \in Nat
    BY DEF Size
  <2> QED
    BY <2>1, SegStartIs
<1>2. PICK e \in Nat : /\ o < e /\ \A b \in 0..o : e \in LineEnds(b)
                       /\ SegStart(file, e - 1) = s
  BY LineEndBehind
<1>3. e \in LineEnds(0) /\ e <= Size /\ o + 1 <= e
  <2>1. e \in LineEnds(0)
    BY <1>2
  <2> QED
    BY <1>2, <2>1, LineEndsType
<1>4. Len(LooksOf(s, e)) <= gdwMax1Line
  BY <1>2, <1>3 DEF ShortLines
<1>5. Len(LooksOf(s, o + 1)) <= Len(LooksOf(s, e))
  <2>1. PICK c : c = o + 1
    OBVIOUS
  <2>2. c \in Nat /\ s <= c /\ c <= e /\ e <= Size /\ s \in Nat
    BY <1>1, <1>3, <2>1
  <2> HIDE DEF s
  <2>3. Len(LooksOf(s, c)) <= Len(LooksOf(s, e))
    BY <2>2, LooksGrow
  <2> QED
    BY <2>1, <2>3
<1>6. LineOf(o + 1) = LooksOf(s, o + 1)
  <2>1. (o + 1) - 1 = o
    OBVIOUS
  <2> QED
    BY <2>1 DEF LineOf
<1>7. Len(LooksOf(s, o + 1)) \in Nat /\ Len(LooksOf(s, e)) \in Nat
  <2>1. LooksOf(s, o + 1) \in Seq(Byte) /\ LooksOf(s, e) \in Seq(Byte)
    BY <1>1, <1>2, <1>3, LooksMore
  <2> QED
    BY <2>1, LenProperties
<1> QED
  BY <1>4, <1>5, <1>6, <1>7, SizesAssumption
(* The text of a line, by one byte more.                                   *)
LEMMA LineOfMore ==
  ASSUME file \in Seq(Byte), NEW o \in Nat, o < Size, ~IsBreak(At(o))
  PROVE  /\ Looks(At(o)) \in Seq(Byte)
         /\ o # 0 /\ ~IsBreak(At(o - 1)) => LineOf(o + 1) = LineOf(o) \o Looks(At(o))
         /\ o = 0 \/ IsBreak(At(o - 1)) => LineOf(o + 1) = Looks(At(o))
<1>1. Looks(At(o)) \in Seq(Byte)
  BY AtType, LooksType
<1>2. o \in 0..Len(file) /\ o <= Size /\ Size = Len(file) /\ Len(file) \in Nat /\ (o + 1) - 1 = o
  BY DEF Size
<1>3. LineOf(o + 1) = LooksOf(SegStart(file, o), o + 1)
  BY <1>2 DEF LineOf
<1>4. SegStart(file, o) \in Nat /\ SegStart(file, o) <= o
  BY <1>2, SegStartIs
<1>5. LineOf(o + 1) = LooksOf(SegStart(file, o), o) \o Looks(At(o))
  BY <1>2, <1>3, <1>4, LooksMore
<1>6. ASSUME o # 0, ~IsBreak(At(o - 1))
      PROVE  LineOf(o + 1) = LineOf(o) \o Looks(At(o))
  <2>1. o - 1 \in Nat /\ o - 1 <= o /\ \A j \in (o - 1)..(o - 1) : j = o - 1
    BY <1>2, <1>6
  <2>2. \A j \in (o - 1)..(o - 1) : ~IsBreak(file[j + 1])
    BY <1>6, <2>1 DEF At
  <2>3. SegStart(file, o) = SegStart(file, o - 1)
    BY <1>2, <2>1, <2>2, SegTogether
  <2> QED
    BY <1>5, <2>3 DEF LineOf
<1>7. ASSUME o = 0 \/ IsBreak(At(o - 1)) PROVE LineOf(o + 1) = Looks(At(o))
  <2>1. o = 0 \/ IsBreak(file[o])
    <3>1. (o - 1) + 1 = o
      OBVIOUS
    <3> QED
      BY <1>7, <3>1 DEF At
  <2>2. o \in 0..o /\ \A j \in o..(o - 1) : ~IsBreak(file[j + 1])
    OBVIOUS
  <2>3. SegStart(file, o) = o
    BY <1>2, <2>1, <2>2, SegStartUnique
  <2>4. LooksOf(o, o) = <<>>
    BY <1>2, LooksMore
  <2> QED
    BY <1>1, <1>5, <2>3, <2>4, ConcatEmptySeq
<1> QED
  BY <1>1, <1>6, <1>7

AddsByte(o, t, line) == o < Size /\ ~IsBreak(At(o)) /\ line = t \o Looks(At(o))

(* A byte is collected; when no line is too long, it needs no wrapping.    *)
LEMMA WayByte ==
  ASSUME NEW b, NEW o, NEW t, NEW max, NEW cnt, NEW out, NEW line,
         WayType(b, o, t, max, cnt, out), Way(b, o, t, max, cnt, out, "put"),
         AddsByte(o, t, line)
  PROVE  /\ line \in Seq(Byte) /\ line # <<>> /\ Len(line) <= gdwEnd1Line + 3
         /\ FlattenSeq(out) \o line = LooksOf(b, o + 1)
         /\ ShortLines => Len(line) <= max
         /\ \A m \in Nat :
              Len(line) <= gdwEnd1Line /\ m <= gdwEnd1Line /\ (ShortLines => m = max) =>
                Way(b, o + 1, line, m, cnt, out, "put")
<1>0. o < Size /\ ~IsBreak(At(o)) /\ line = t \o Looks(At(o))
  BY DEF AddsByte
<1>1. /\ file \in Seq(Byte) /\ Size \in Nat /\ b \in Nat /\ o \in Nat /\ b <= o /\ o <= Size
      /\ b <= o + 1 /\ o + 1 <= Size /\ o + 1 \in Nat /\ (o + 1) - 1 = o /\ b < o + 1
      /\ t \in Seq(Byte) /\ out \in Seq(Seq(Byte))
  BY <1>0 DEF WayType, Way, Size
<1>2. PICK x : x = Looks(At(o))
  OBVIOUS
<1>3. x \in Seq(Byte) /\ Len(x) \in 1..3
  BY <1>0, <1>1, <1>2, AtType, LooksType
<1>4. /\ line \in Seq(Byte) /\ Len(line) = Len(t) + Len(x) /\ Len(t) \in Nat
      /\ line = t \o x
  BY <1>0, <1>1, <1>2, <1>3, ConcatProperties, LenProperties
<1>5. line # <<>> /\ Len(line) <= gdwEnd1Line + 3
  <2>1. Len(t) <= gdwEnd1Line
    BY DEF Way
  <2>0. PICK n, k, l : n = Len(t) /\ k = Len(x) /\ l = Len(line)
    OBVIOUS
  <2>2. l # 0 /\ l <= gdwEnd1Line + 3
    <3>1. n \in Nat /\ k \in 1..3 /\ l = n + k /\ n <= gdwEnd1Line /\ gdwEnd1Line \in Nat
      BY <1>3, <1>4, <2>0, <2>1, SizesAssumption
    <3> QED
      BY ONLY <3>1
  <2>3. Len(line) <= gdwEnd1Line + 3 /\ Len(line) # 0
    BY <2>0, <2>2
  <2> QED
    BY <2>3
<1>6. FlattenSeq(out) \o line = LooksOf(b, o + 1)
  <2>1. PICK f : f = FlattenSeq(out)
    OBVIOUS
  <2>2. f \in Seq(Byte)
    BY <1>1, <2>1, EmptyType, FlattenMore
  <2>3. f \o t = LooksOf(b, o)
    BY <2>1 DEF Way
  <2>4. LooksOf(b, o + 1) = LooksOf(b, o) \o x
    BY <1>0, <1>1, <1>2, LooksMore
  <2>5. (f \o t) \o x = f \o (t \o x)
    BY <1>1, <1>3, <2>2, ConcatAssociative
  <2> QED
    BY <1>4, <2>1, <2>3, <2>4, <2>5
<1>7. ASSUME ShortLines
      PROVE  /\ ByLine(b, o, t, max, cnt, "put")
             /\ line = LineOf(o + 1) /\ Len(line) <= max
  <2>1. ByLine(b, o, t, max, cnt, "put")
    BY <1>7 DEF Way
  <2>2. line = LineOf(o + 1)
    <3>1. CASE t = <<>>
      <4>1. o = 0 \/ IsBreak(At(o - 1))
        BY <1>0, <1>1, <2>1, <3>1 DEF ByLine
      <4>2. LineOf(o + 1) = x
        BY <1>1, <1>2, <4>1, <1>0, LineOfMore
      <4> QED
        BY <1>3, <1>4, <3>1, <4>2, ConcatEmptySeq
    <3>2. CASE t # <<>>
      <4>1. t = LineOf(o) /\ b < o /\ ~IsBreak(At(o - 1))
        BY <2>1, <3>2 DEF ByLine, Way
      <4>2. o # 0
        BY <1>1, <4>1
      <4>3. LineOf(o + 1) = LineOf(o) \o x
        BY <1>1, <1>2, <4>1, <4>2, <1>0, LineOfMore
      <4> QED
        BY <1>4, <4>1, <4>3
    <3> QED
      BY <3>1, <3>2
  <2>3. Len(LineOf(o + 1)) <= gdwMax1Line
    BY <1>1, <1>0, <1>7, ShortSoFar
  <2> QED
    BY <2>1, <2>2, <2>3 DEF ByLine
<1>8. ASSUME NEW m \in Nat, Len(line) <= gdwEnd1Line, m <= gdwEnd1Line, ShortLines => m = max
      PROVE  Way(b, o + 1, line, m, cnt, out, "put")
  <2>1. ASSUME ShortLines PROVE ByLine(b, o + 1, line, m, cnt, "put")
    <3>1. ByLine(b, o, t, max, cnt, "put") /\ line = LineOf(o + 1) /\ m = max
      BY <1>7, <1>8, <2>1
    <3>2. Whole(b, IF t = <<>> THEN o ELSE o - 1) = Whole(b, o)
      <4>1. CASE t = <<>>
        BY <4>1
      <4>2. CASE t # <<>>
        <5>1. o - 1 \in Nat /\ (o - 1) + 1 = o
          <6>1. b < o
            BY <4>2 DEF Way
          <6> QED
            BY <1>1, <6>1
        <5>2. (o - 1) + 1 \notin LineEnds(b)
          BY <1>0, <1>1, <5>1, LineEndsType
        <5>3. Whole(b, (o - 1) + 1) = Whole(b, o - 1)
          BY <1>1, <5>1, <5>2, WholeMore
        <5> QED
          BY <4>2, <5>1, <5>3
      <4> QED
        BY <4>1, <4>2
    <3>3. (IF line = <<>> THEN o + 1 ELSE (o + 1) - 1) = o
      BY <1>1, <1>5
    <3> QED
      BY <1>5, <3>1, <3>2, <3>3 DEF ByLine
  <2>2. ~IsBreak(At((o + 1) - 1))
    BY <1>0, <1>1
  <2>3. \A k \in DOMAIN out : Len(out[k]) <= gdwEnd1Line + 3
    BY DEF Way
  <2> QED
    BY <1>1, <1>5, <1>6, <1>8, <2>1, <2>2, <2>3 DEF Way
<1> QED
  BY <1>4, <1>5, <1>6, <1>7, <1>8
(* A byte is collected and the text is wrapped behind it: some line is too *)
(* long.                                                                   *)
LEMMA WayWrapped ==
  ASSUME NEW b, NEW o, NEW t, NEW max, NEW cnt, NEW out, NEW line, NEW m \in Nat,
         WayType(b, o, t, max, cnt, out), Way(b, o, t, max, cnt, out, "put"),
         AddsByte(o, t, line), Len(line) > max, m <= gdwEnd1Line
  PROVE  /\ Append(out, line) \in Seq(Seq(Byte))
         /\ Way(b, o + 1, <<>>, m, cnt, Append(out, line), "put")
<1>1. /\ line \in Seq(Byte) /\ Len(line) <= gdwEnd1Line + 3 /\ ~ShortLines
      /\ FlattenSeq(out) \o line = LooksOf(b, o + 1)
  <2>1. /\ line \in Seq(Byte) /\ Len(line) <= gdwEnd1Line + 3
        /\ FlattenSeq(out) \o line = LooksOf(b, o + 1)
        /\ ShortLines => Len(line) <= max
    BY WayByte
  <2>2. PICK l : l = Len(line)
    OBVIOUS
  <2>3. l \in Nat /\ max \in Nat /\ l > max
    BY <2>1, <2>2, LenProperties DEF WayType
  <2>4. ~(l <= max)
    BY ONLY <2>3
  <2> QED
    BY <2>1, <2>2, <2>4
<1>2. /\ Size \in Nat /\ b \in Nat /\ o \in Nat /\ b <= o
      /\ b <= o + 1 /\ o + 1 <= Size /\ out \in Seq(Seq(Byte))
  BY DEF WayType, Way, Size, AddsByte
<1>3. /\ Append(out, line) \in Seq(Seq(Byte))
      /\ FlattenSeq(Append(out, line)) = FlattenSeq(out) \o line
      /\ FlattenSeq(Append(out, line)) \in Seq(Byte)
  BY <1>1, <1>2, FlattenMore
<1>4. FlattenSeq(Append(out, line)) \o <<>> = LooksOf(b, o + 1)
  BY <1>1, <1>3, ConcatEmptySeq
<1>5. PICK s : s = Append(out, line)
  OBVIOUS
<1>6. ASSUME NEW k \in DOMAIN s PROVE Len(s[k]) <= gdwEnd1Line + 3
  <2>1. \A j \in DOMAIN out : Len(out[j]) <= gdwEnd1Line + 3
    BY DEF Way
  <2>2. PICK n : n = Len(out)
    OBVIOUS
  <2>3. n \in Nat /\ DOMAIN out = 1..n
    BY <1>2, <2>2, LenProperties
  <2>4. /\ Len(s) = n + 1 /\ s[n + 1] = line /\ \A j \in 1..n : s[j] = out[j]
    BY <1>1, <1>2, <1>5, <2>2, AppendProperties
  <2>5. DOMAIN s = 1..(n + 1)
    BY <1>3, <1>5, <2>4, LenProperties
  <2>6. k \in 1..n \/ k = n + 1
    BY <1>6, <2>3, <2>5
  <2> QED
    BY <1>1, <2>1, <2>3, <2>4, <2>6
<1>7. PICK z : z = <<>> /\ Len(z) = 0
  OBVIOUS
<1>8. FlattenSeq(s) \o z = LooksOf(b, o + 1) /\ Len(z) <= gdwEnd1Line
  BY <1>4, <1>5, <1>7, SizesAssumption
<1>9. Way(b, o + 1, z, m, cnt, s, "put")
  BY <1>1, <1>2, <1>6, <1>7, <1>8 DEF Way
<1> QED
  BY <1>3, <1>5, <1>7, <1>9

(* The line is at its end.                                                 *)
LEMMA WayDone ==
  ASSUME NEW b, NEW o, NEW t, NEW max, NEW cnt, NEW out,
         WayType(b, o, t, max, cnt, out), Way(b, o, t, max, cnt, out, "put"),
         ~(o < Size /\ (IsBreak(At(o)) => t = <<>>))
  PROVE  Way(b, o, t, max, cnt, out, "finish")
<1>1. o = Size \/ (IsBreak(At(o)) /\ t # <<>>)
  BY DEF Way, WayType, Size
<1>2. ShortLines => ByLine(b, o, t, max, cnt, "finish")
  BY DEF Way, ByLine
<1> QED
  BY <1>1, <1>2 DEF Way

(* When what is shown is the text up to the end of a line, it is kept.     *)
LEMMA KeptIf ==
  ASSUME file \in Seq(Byte), NEW b \in Nat, b <= Size, NEW out, NEW e \in LineEnds(b),
         FlattenSeq(out) = LooksOf(b, e),
         \A k \in DOMAIN out : Len(out[k]) <= gdwEnd1Line + 3,
         ShortLines =>
           \/ e \in Whole(b, e) /\ Cardinality(Whole(b, e)) = Asked + 1
           \/ e = Top(LineEnds(b)) /\ Cardinality(Whole(b, e)) <= Asked + 1
  PROVE  Kept(b, out)
<1>1. /\ LineEnds(SkipBreaks(file, b)) = LineEnds(b)
      /\ LooksOf(SkipBreaks(file, b), e) = LooksOf(b, e)
  BY BreaksSkipped
<1>2. Whole(SkipBreaks(file, b), e) = Whole(b, e)
  BY <1>1 DEF Whole
<1>3. ShortLines => AsAsked(e, SkipBreaks(file, b))
  BY <1>1, <1>2 DEF AsAsked
<1> QED
  BY <1>1, <1>3 DEF Kept

(* The file has no more lines.                                             *)
LEMMA KeptAtEnd ==
  ASSUME NEW b, NEW o, NEW max, NEW cnt, NEW out, NEW off \in Nat, Place(off, b),
         WayType(b, o, <<>>, max, cnt, out), Way(b, o, <<>>, max, cnt, out, "finish")
  PROVE  Kept(b, out)
<1>1. file \in Seq(Byte) /\ Size \in Nat /\ b \in Nat /\ o = Size /\ b <= Size
      /\ out \in Seq(Seq(Byte)) /\ cnt \in Int
  BY DEF WayType, Way, Size
<1> DEFINE e == Top(LineEnds(b))
<1>2. e \in LineEnds(b) /\ e \in Nat /\ e <= Size /\ b < e /\ \A d \in LineEnds(b) : d <= e
  <2>1. off < Size /\ ~IsBreak(At(off)) /\ b \in 0..off
    BY <1>1 DEF Place
  <2>2. LineEnds(b) # {}
    BY <1>1, <2>1, LineEndBehind
  <2>3. LineEnds(b) \in SUBSET Nat /\ \A d \in LineEnds(b) : d <= Size /\ b < d
    BY <1>1, LineEndsType
  <2> QED
    BY <1>1, <2>2, <2>3, TopIs
<1> HIDE DEF e
<1>3. ASSUME NEW j \in e..(Size - 1) PROVE IsBreak(At(j))
  <2>1. SUFFICES ASSUME ~IsBreak(At(j)) PROVE FALSE
    OBVIOUS
  <2>2. j \in Nat /\ j < Size /\ b \in 0..j
    BY <1>1, <1>2
  <2>3. PICK d \in Nat : j < d /\ d \in LineEnds(b)
    BY <1>1, <2>1, <2>2, LineEndBehind
  <2> QED
    BY <1>2, <2>2, <2>3
<1>4. LooksOf(b, Size) = LooksOf(b, e)
  <2>1. b <= e /\ Size <= Size
    BY <1>1, <1>2
  <2> QED
    BY <1>1, <1>2, <1>3, <2>1, LooksSkipBack
<1>5. FlattenSeq(out) = LooksOf(b, e)
  <2>1. FlattenSeq(out) \in Seq(Byte)
    BY <1>1, EmptyType, FlattenMore
  <2>2. FlattenSeq(out) \o <<>> = LooksOf(b, Size)
    BY <1>1 DEF Way
  <2> QED
    BY <1>4, <2>1, <2>2, ConcatEmptySeq
<1>6. ASSUME ShortLines PROVE Cardinality(Whole(b, e)) <= Asked + 1
  <2>1. Whole(b, e) = Whole(b, Size)
    BY <1>1, <1>2, LineEndsType DEF Whole
  <2>2. Cardinality(Whole(b, Size)) + ToCome(cnt) = Asked + 0
    BY <1>1, <1>6 DEF Way, ByLine
  <2>3. Cardinality(Whole(b, Size)) \in Nat
    BY <1>1, WholeMore
  <2>4. ToCome(cnt) \in Nat
    BY <1>1 DEF ToCome
  <2>5. Asked \in Nat
    BY DEF Asked, WayType, Switch
  <2>6. PICK n, m : n = Cardinality(Whole(b, Size)) /\ m = ToCome(cnt)
    OBVIOUS
  <2>7. n <= Asked + 1
    BY <2>2, <2>3, <2>4, <2>5, <2>6
  <2> QED
    BY <2>1, <2>6, <2>7
<1>7. \A k \in DOMAIN out : Len(out[k]) <= gdwEnd1Line + 3
  BY DEF Way
<1> QED
  BY <1>1, <1>2, <1>5, <1>6, <1>7, KeptIf DEF e
(* At the end of a line, the line is one of those to be counted, and it is *)
(* not dropped.                                                            *)
LEMMA LineFinished ==
  ASSUME Asks, NEW b, NEW o, NEW t, NEW max, NEW cnt, NEW out, t # <<>>,
         WayType(b, o, t, max, cnt, out), Way(b, o, t, max, cnt, out, "finish")
  PROVE  /\ o \in LineEnds(b) /\ ~Dropped(t)
         /\ ShortLines => t = LineOf(o)
         /\ ShortLines /\ ~Continued(t) =>
              /\ o \in Whole(b, o)
              /\ Cardinality(Whole(b, o)) + ToCome(cnt) = Asked + 1
         /\ ShortLines /\ Continued(t) =>
              Cardinality(Whole(b, o)) + ToCome(cnt) = Asked
<1>1. /\ file \in Seq(Byte) /\ Size \in Nat /\ b \in Nat /\ o \in Nat /\ b < o /\ o <= Size
      /\ ~IsBreak(At(o - 1)) /\ (o = Size \/ IsBreak(At(o))) /\ cnt \in Int
  BY DEF WayType, Way, Size
<1>2. o \in LineEnds(b) /\ o \in LineEnds(0)
  <2>1. 0 < o
    BY <1>1
  <2> QED
    BY <1>1, <2>1, LineEndsType
<1>3. ASSUME ShortLines
      PROVE  t = LineOf(o) /\ Cardinality(Whole(b, o - 1)) + ToCome(cnt) = Asked
  <2>1. t = LineOf(o) /\ Cardinality(Whole(b, o - 1)) + ToCome(cnt) = Asked + 0
    BY <1>3 DEF Way, ByLine
  <2>2. Asked \in Nat
    BY DEF Asked, WayType, Switch
  <2> QED
    BY <2>1, <2>2
<1>4. ~Dropped(t)
  <2>1. SUFFICES ASSUME sw.make, Visible(t) = {1} PROVE FALSE
    BY DEF Dropped
  <2>2. ShortLines /\ LastSeen(o) # {1}
    BY <1>2, <2>1 DEF Asks
  <2>3. LastSeen(o) = Visible(t)
    BY <1>3, <2>2 DEF LastSeen, LineOf
  <2> QED
    BY <2>1, <2>2, <2>3
<1>5. o - 1 \in Nat /\ (o - 1) + 1 = o
  BY <1>1
<1>6. ASSUME ShortLines, ~Continued(t)
      PROVE  /\ o \in Whole(b, o)
             /\ Cardinality(Whole(b, o)) + ToCome(cnt) = Asked + 1
  <2>1. ~Continued(LineOf(o)) /\ o <= o
    BY <1>1, <1>3, <1>6
  <2>2. Cardinality(Whole(b, (o - 1) + 1)) = Cardinality(Whole(b, o - 1)) + 1
    BY <1>1, <1>2, <1>5, <2>1, WholeMore
  <2>3. Cardinality(Whole(b, o - 1)) \in Nat
    BY <1>1, <1>5, WholeMore
  <2>4. ToCome(cnt) \in Nat
    BY <1>1 DEF ToCome
  <2>5. PICK n, m, k : /\ n = Cardinality(Whole(b, o)) /\ m = Cardinality(Whole(b, o - 1))
                       /\ k = ToCome(cnt)
    OBVIOUS
  <2>6. n = m + 1 /\ m \in Nat /\ k \in Nat /\ m + k = Asked
    BY <1>3, <1>5, <1>6, <2>2, <2>3, <2>4, <2>5
  <2>7. n + k = Asked + 1
    BY ONLY <2>6
  <2>8. o \in Whole(b, o)
    BY <1>2, <2>1 DEF Whole, LineOf
  <2> QED
    BY <2>5, <2>7, <2>8
<1>7. ASSUME ShortLines, Continued(t)
      PROVE  Cardinality(Whole(b, o)) + ToCome(cnt) = Asked
  <2>1. Continued(LineOf(o))
    BY <1>3, <1>7
  <2>2. Whole(b, (o - 1) + 1) = Whole(b, o - 1)
    BY <1>1, <1>5, <2>1, WholeMore
  <2> QED
    BY <1>3, <1>5, <1>7, <2>2
<1> QED
  BY <1>2, <1>3, <1>4, <1>6, <1>7

(* The line is put out ...                                                 *)
LEMMA LinePutOut ==
  ASSUME NEW b, NEW o, NEW t, NEW max, NEW cnt, NEW out,
         WayType(b, o, t, max, cnt, out), Way(b, o, t, max, cnt, out, "finish")
  PROVE  /\ Append(out, t) \in Seq(Seq(Byte))
         /\ FlattenSeq(Append(out, t)) = LooksOf(b, o)
         /\ FlattenSeq(Append(out, t)) \o <<>> = LooksOf(b, o)
         /\ \A k \in DOMAIN Append(out, t) : Len(Append(out, t)[k]) <= gdwEnd1Line + 3
<1>1. out \in Seq(Seq(Byte)) /\ t \in Seq(Byte)
  BY DEF WayType
<1>2. PICK s : s = Append(out, t)
  OBVIOUS
<1>3. /\ s \in Seq(Seq(Byte)) /\ FlattenSeq(s) = FlattenSeq(out) \o t
      /\ FlattenSeq(s) \in Seq(Byte)
  BY <1>1, <1>2, FlattenMore
<1>4. FlattenSeq(s) = LooksOf(b, o)
  BY <1>3 DEF Way
<1>5. FlattenSeq(s) \o <<>> = LooksOf(b, o)
  BY <1>3, <1>4, ConcatEmptySeq
<1>6. ASSUME NEW k \in DOMAIN s PROVE Len(s[k]) <= gdwEnd1Line + 3
  <2>1. \A j \in DOMAIN out : Len(out[j]) <= gdwEnd1Line + 3
    BY DEF Way
  <2>2. PICK n : n = Len(out)
    OBVIOUS
  <2>3. n \in Nat /\ DOMAIN out = 1..n
    BY <1>1, <2>2, LenProperties
  <2>4. /\ Len(s) = n + 1 /\ s[n + 1] = t /\ \A j \in 1..n : s[j] = out[j]
    BY <1>1, <1>2, <2>2, AppendProperties
  <2>5. DOMAIN s = 1..(n + 1)
    BY <1>3, <2>4, LenProperties
  <2>6. k \in 1..n \/ k = n + 1
    BY <1>6, <2>3, <2>5
  <2>7. Len(t) <= gdwEnd1Line + 3
    <3>1. Len(t) <= gdwEnd1Line /\ Len(t) \in Nat
      BY <1>1, LenProperties DEF Way
    <3> QED
      BY <3>1, SizesAssumption
  <2> QED
    BY <2>1, <2>3, <2>4, <2>6, <2>7
<1> QED
  BY <1>2, <1>3, <1>4, <1>5, <1>6

(* ... and goes on in the next one, or is followed by others, ...          *)
LEMMA WayGoesOn ==
  ASSUME Asks, NEW b, NEW o, NEW t, NEW max, NEW cnt, NEW out, t # <<>>,
         WayType(b, o, t, max, cnt, out), Way(b, o, t, max, cnt, out, "finish")
  PROVE  /\ Continued(t) => Way(b, o, <<>>, max, cnt, Append(out, t), "put")
         /\ ~Continued(t) /\ cnt # 0 /\ o < Size =>
              Way(b, o, <<>>, max, cnt, Append(out, t), "more")
<1>1. PICK s : s = Append(out, t)
  OBVIOUS
<1>2. PICK z : z = <<>> /\ Len(z) = 0
  OBVIOUS
<1>3. FlattenSeq(s) \o z = LooksOf(b, o) /\ \A k \in DOMAIN s : Len(s[k]) <= gdwEnd1Line + 3
  BY <1>1, <1>2, LinePutOut
<1>4. /\ b <= o /\ o <= Size /\ max <= gdwEnd1Line /\ Len(z) <= gdwEnd1Line
      /\ o = Size \/ IsBreak(At(o))
  BY <1>2, SizesAssumption DEF Way
<1>5. ShortLines => ByLine(b, o, t, max, cnt, "finish")
  BY DEF Way
<1>6. Asked \in Nat
  BY DEF Asked, WayType, Switch
<1>7. ASSUME Continued(t) PROVE Way(b, o, z, max, cnt, s, "put")
  <2>1. ASSUME ShortLines PROVE ByLine(b, o, z, max, cnt, "put")
    <3>1. Cardinality(Whole(b, o)) + ToCome(cnt) = Asked
      BY <1>7, <2>1, LineFinished
    <3>2. Cardinality(Whole(b, o)) + ToCome(cnt) = Asked + 0
      BY <1>6, <3>1
    <3> QED
      BY <1>2, <1>4, <1>5, <2>1, <3>2 DEF ByLine
  <2> QED
    BY <1>2, <1>3, <1>4, <2>1 DEF Way
<1>8. ASSUME ~Continued(t), cnt # 0, o < Size PROVE Way(b, o, z, max, cnt, s, "more")
  <2>1. ASSUME ShortLines PROVE ByLine(b, o, z, max, cnt, "more")
    <3>1. Cardinality(Whole(b, o)) + ToCome(cnt) = Asked + 1
      BY <1>8, <2>1, LineFinished
    <3> QED
      BY <1>2, <1>4, <1>5, <1>8, <2>1, <3>1 DEF ByLine
  <2>2. IsBreak(At(o))
    BY <1>4, <1>8 DEF Size, WayType
  <2> QED
    BY <1>2, <1>3, <1>4, <1>8, <2>1, <2>2 DEF Way
<1> QED
  BY <1>1, <1>2, <1>7, <1>8

(* ... or is the last.                                                     *)
LEMMA KeptWithLine ==
  ASSUME Asks, NEW b, NEW o, NEW t, NEW max, NEW cnt, NEW out, t # <<>>,
         WayType(b, o, t, max, cnt, out), Way(b, o, t, max, cnt, out, "finish"),
         ~Continued(t), cnt = 0 \/ ~(o < Size)
  PROVE  Kept(b, Append(out, t))
<1>1. PICK s : s = Append(out, t)
  OBVIOUS
<1>2. FlattenSeq(s) = LooksOf(b, o) /\ \A k \in DOMAIN s : Len(s[k]) <= gdwEnd1Line + 3
  BY <1>1, LinePutOut
<1>3. /\ file \in Seq(Byte) /\ Size \in Nat /\ b \in Nat /\ o \in Nat /\ b <= Size /\ o <= Size
      /\ cnt \in Int
  BY DEF WayType, Way, Size
<1>4. o \in LineEnds(b)
  BY LineFinished
<1>5. ASSUME ShortLines
      PROVE  \/ o \in Whole(b, o) /\ Cardinality(Whole(b, o)) = Asked + 1
             \/ o = Top(LineEnds(b)) /\ Cardinality(Whole(b, o)) <= Asked + 1
  <2>1. o \in Whole(b, o) /\ Cardinality(Whole(b, o)) + ToCome(cnt) = Asked + 1
    BY <1>5, LineFinished
  <2>2. Cardinality(Whole(b, o)) \in Nat
    BY <1>3, WholeMore
  <2>3. ToCome(cnt) \in Nat /\ (cnt = 0 => ToCome(cnt) = 0)
    BY <1>3 DEF ToCome
  <2>4. Asked \in Nat
    BY DEF Asked, WayType, Switch
  <2>5. PICK n, k : n = Cardinality(Whole(b, o)) /\ k = ToCome(cnt)
    OBVIOUS
  <2>6. n \in Nat /\ k \in Nat /\ n + k = Asked + 1 /\ Asked \in Nat
    BY <2>1, <2>2, <2>3, <2>4, <2>5
  <2>7. n <= Asked + 1 /\ (k = 0 => n = Asked + 1)
    BY ONLY <2>6
  <2>8. CASE cnt = 0
    BY <2>1, <2>3, <2>5, <2>7, <2>8
  <2>9. CASE ~(o < Size)
    <3>1. o = Size
      BY <1>3, <2>9
    <3>2. LineEnds(b) \in SUBSET Nat /\ (\A d \in LineEnds(b) : d <= Size) /\ LineEnds(b) # {}
      BY <1>3, <1>4, LineEndsType
    <3>3. Top(LineEnds(b)) \in LineEnds(b) /\ \A d \in LineEnds(b) : d <= Top(LineEnds(b))
      BY <1>3, <3>2, TopIs
    <3>4. Top(LineEnds(b)) = o
      BY <1>3, <1>4, <3>1, <3>2, <3>3
    <3> QED
      BY <2>5, <2>7, <3>4
  <2> QED
    BY <2>8, <2>9
<1> QED
  BY <1>1, <1>2, <1>3, <1>4, <1>5, KeptIf

(* One of the lines asked for is begun.                                    *)
LEMMA WayMore ==
  ASSUME NEW b, NEW o, NEW t, NEW max, NEW cnt, NEW out, NEW c,
         WayType(b, o, t, max, cnt, out), Way(b, o, t, max, cnt, out, "more"),
         \/ cnt > 0 /\ c = cnt - 1
         \/ cnt < 0 /\ c = 0
  PROVE  t = <<>> /\ o < Size /\ IsBreak(At(o)) /\ Way(b, o, t, max, c, out, "put")
<1>1. t = <<>> /\ o < Size /\ IsBreak(At(o)) /\ cnt \in Int
  BY DEF Way, WayType
<1>2. ASSUME ShortLines PROVE ByLine(b, o, t, max, c, "put")
  <2>1. ByLine(b, o, t, max, cnt, "more")
    BY <1>2 DEF Way
  <2>2. IF sw.L = "func" THEN c \in {-1, 0} ELSE c >= 0
    BY <1>1, <2>1 DEF ByLine
  <2>3. PICK n : n = Cardinality(Whole(b, o))
    OBVIOUS
  <2>4. n \in Nat /\ Asked \in Nat
    <3>1. file \in Seq(Byte) /\ b \in Nat /\ o \in Nat /\ Asked \in Nat
      BY DEF WayType, Asked, Switch
    <3> QED
      BY <2>3, <3>1, WholeMore
  <2>5. n + ToCome(cnt) = Asked + 1
    BY <1>1, <2>1, <2>3 DEF ByLine
  <2>6. n + ToCome(c) = Asked + 0
    BY <1>1, <2>4, <2>5 DEF ToCome
  <2> QED
    BY <1>1, <2>1, <2>2, <2>3, <2>6 DEF ByLine
<1> QED
  BY <1>1, <1>2 DEF Way
(* What is shown of one call more, and of the others.                      *)
Following(s) ==
  /\ s \in Seq(Shows) /\ Len(s) = Len(shown)
  /\ \A i \in 1..(Len(shown) - 1) : s[i] = shown[i]
  /\ Last(s).off = Last(shown).off /\ Last(s).begin = Last(shown).begin

LEMMA ShownMore ==
  ASSUME shown \in Seq(Shows), shown # <<>>, NEW t,
         Append(Last(shown).out, t) \in Seq(Seq(Byte)), Out(t)
  PROVE  Following(shown') /\ Last(shown').out = Append(Last(shown).out, t)
<1>1. PICK n, u : n = Len(shown) /\ u = Append(Last(shown).out, t)
  OBVIOUS
<1>2. n \in Nat \ {0} /\ n \in 1..n /\ DOMAIN shown = 1..n /\ shown[n] \in Shows
      /\ Last(shown) = shown[n] /\ \A i \in 1..(n - 1) : i \in 1..n /\ i # n
  BY <1>1 DEF Last
<1>3. PICK r : r = [shown[n] EXCEPT !.out = u]
  OBVIOUS
<1>4. r \in Shows /\ r.off = shown[n].off /\ r.begin = shown[n].begin /\ r.out = u
  BY <1>1, <1>2, <1>3 DEF Shows
<1>5. shown' = [shown EXCEPT ![n] = r]
  BY <1>1, <1>2, <1>3 DEF Out
<1>6. shown' \in Seq(Shows) /\ Len(shown') = n /\ shown'[n] = r
      /\ \A i \in 1..n : i # n => shown'[i] = shown[i]
  BY <1>1, <1>2, <1>4, <1>5
<1>7. Last(shown') = r
  BY <1>6 DEF Last
<1> QED
  BY <1>1, <1>2, <1>4, <1>6, <1>7 DEF Following

(* A step of a call that is served.                                        *)
LEMMA TextStep ==
  ASSUME Asks, TextInv, pc # "next", file' = file, sw' = sw, calls' = calls, call' = call,
         Following(shown'),
         \/ pc' = "get" /\ Fresh'
         \/ /\ pc' \in {"put", "finish", "more"}
            /\ Way(call.begin, dwo', lpVerb', dwtmax', dwOutCnt', Last(shown').out, pc')
         \/ pc' = "next" /\ Kept(call.begin, Last(shown').out)
  PROVE  TextInv'
<1>1. /\ \A o \in calls : ~IsBreak(At(o))
      /\ shown \in Seq(Shows) /\ shown # <<>>
      /\ Last(shown).begin = call.begin /\ Place(Last(shown).off, call.begin)
      /\ \A i \in Served : Kept(shown[i].begin, shown[i].out)
  BY DEF TextInv
<1>2. PICK n : n = Len(shown)
  OBVIOUS
<1>3. n \in Nat \ {0} /\ DOMAIN shown = 1..n
  BY <1>1, <1>2
<1>4. /\ shown' \in Seq(Shows) /\ Len(shown') = n /\ DOMAIN (shown') = 1..n
      /\ \A i \in 1..(n - 1) : shown'[i] = shown[i]
      /\ Last(shown').off = Last(shown).off /\ Last(shown').begin = Last(shown).begin
      /\ Last(shown') = shown'[n] /\ shown' # <<>>
  <2>1. /\ shown' \in Seq(Shows) /\ Len(shown') = n
        /\ \A i \in 1..(n - 1) : shown'[i] = shown[i]
        /\ Last(shown').off = Last(shown).off /\ Last(shown').begin = Last(shown).begin
    BY <1>2 DEF Following
  <2> QED
    BY <1>3, <2>1 DEF Last
<1>5. ASSUME NEW i \in Served' PROVE Kept(shown'[i].begin, shown'[i].out)
  <2>1. i \in 1..n /\ (i < n \/ pc' = "next")
    BY <1>4, <1>5 DEF Served
  <2>2. CASE i < n
    <3>1. i \in Served /\ i \in 1..(n - 1)
      BY <1>2, <1>3, <2>1, <2>2 DEF Served
    <3> QED
      BY <1>1, <1>4, <3>1
  <2>3. CASE ~(i < n)
    <3>1. i = n /\ pc' = "next"
      BY <1>3, <2>1, <2>3
    <3>2. Kept(call.begin, Last(shown').out)
      BY <3>1
    <3> QED
      BY <1>1, <1>4, <3>1, <3>2
  <2> QED
    BY <2>2, <2>3
<1>6. \A i \in Served' : Kept(shown[i].begin, shown[i].out)'
  BY <1>5, Unmoved
<1>7. \A o \in calls' : ~IsBreak(At(o))'
  BY <1>1, Unmoved
<1>8. Place(Last(shown).off, call.begin)' /\ Last(shown').begin = call'.begin
  BY <1>1, <1>4, Unmoved
<1>9. pc' \in {"put", "finish", "more"} => OnTheWay'
  <2> SUFFICES ASSUME pc' \in {"put", "finish", "more"} PROVE OnTheWay'
    OBVIOUS
  <2>1. Way(call.begin, dwo', lpVerb', dwtmax', dwOutCnt', Last(shown').out, pc')
    OBVIOUS
  <2> QED
    BY <2>1, WayUnmoved DEF OnTheWay
<1>10. pc' = "get" => Fresh'
  OBVIOUS
<1>11. pc' \in {"next", "get", "put", "finish", "more"}
  OBVIOUS
<1> QED
  BY <1>4, <1>6, <1>7, <1>8, <1>9, <1>10, <1>11 DEF TextInv
(* The calls are for bytes of lines.                                       *)
LEMMA FoundInLine ==
  ASSUME NEW f \in Seq(Byte), NEW t \in Seq(Byte \ {0, LF, CR}) \ {<<>>},
         NEW o \in FirstInLine(f, t)
  PROVE  ~IsBreak(f[o + 1])
<1>1. o \in 0..(Len(f) - 1) /\ FoundAt(Order, f, o, Len(f), t)
  BY DEF FirstInLine, Found
<1>2. ~IsBreak(t[1])
  <2>1. t[1] \in Byte \ {0, LF, CR}
    OBVIOUS
  <2> QED
    BY <2>1 DEF IsBreak
<1>3. GetChr(Order, f[o + 1]) = t[1]
  BY <1>1 DEF FoundAt
<1> QED
  BY <1>2, <1>3, ReadsBreak

LEMMA InitText == Init => TextInv
<1> SUFFICES ASSUME Init PROVE TextInv
  OBVIOUS
<1>1. PICK i \in Inputs : file = i.file /\ find = i.find
  BY DEF Init
<1>2. file \in Seq(Byte) /\ find \in Seq(Byte \ {0, LF, CR}) \ {<<>>}
  BY <1>1, InputsAssumption
<1>3. \A o \in calls : ~IsBreak(At(o))
  BY <1>2, FoundInLine DEF Init, At
<1>4. shown = <<>> /\ pc = "next" /\ shown \in Seq(Shows)
  BY DEF Init
<1>5. Served = {}
  BY <1>4 DEF Served
<1> QED
  BY <1>3, <1>4, <1>5 DEF TextInv

(* A call is begun.                                                        *)
LEMMA NextCallText ==
  ASSUME TypeOK, Asks, TextInv, NextCall
  PROVE  TextInv'
<1>1. PICK o \in calls : call' = CallAt(o) /\ calls' = calls \ {o}
  BY DEF NextCall
<1>2. /\ \A q \in calls : ~IsBreak(At(q))
      /\ shown \in Seq(Shows) /\ pc = "next"
      /\ \A i \in Served : Kept(shown[i].begin, shown[i].out)
  BY DEF TextInv, NextCall
<1>3. o \in Nat /\ o < Size /\ file \in Seq(Byte) /\ Len(file) = Size /\ Size \in Nat
  BY <1>1 DEF TypeOK, Size
<1> DEFINE b == LineBegin(file, o)
<1>4. b \in Nat /\ Place(o, b)
  <2>1. LFsBefore(file, o) \in SUBSET Nat /\ \A s \in LFsBefore(file, o) : s <= o
    BY <1>3 DEF LFsBefore
  <2>2. CASE LFsBefore(file, o) = {}
    BY <1>1, <1>2, <1>3, <2>2 DEF LineBegin, Place
  <2>3. CASE LFsBefore(file, o) # {}
    <3>1. b \in LFsBefore(file, o)
      BY <1>3, <2>1, <2>3, TopIs DEF LineBegin
    <3>2. b \in Nat /\ b <= o /\ file[b + 1] = LF
      BY <2>1, <3>1 DEF LFsBefore
    <3>3. IsBreak(At(b))
      BY <3>2 DEF At, IsBreak
    <3> QED
      BY <1>1, <1>2, <1>3, <3>2, <3>3 DEF Place
  <2> QED
    BY <2>2, <2>3
<1> HIDE DEF b
<1>5. PICK r : r = [off |-> o, begin |-> b, out |-> <<>>]
  OBVIOUS
<1>6. r \in Shows /\ r.off = o /\ r.begin = b /\ r.out = <<>>
  <2>1. <<>> \in Seq(Seq(Byte))
    OBVIOUS
  <2> QED
    BY <1>3, <1>4, <1>5, <2>1 DEF Shows
<1>7. call'.off = o /\ call'.begin = b
  BY <1>1 DEF CallAt, b
<1>8. shown' = Append(shown, r)
  BY <1>5, <1>7 DEF NextCall
<1>9. PICK n : n = Len(shown)
  OBVIOUS
<1>10. /\ n \in Nat /\ DOMAIN shown = 1..n /\ shown' \in Seq(Shows) /\ shown' # <<>>
       /\ Len(shown') = n + 1 /\ DOMAIN (shown') = 1..(n + 1) /\ shown'[n + 1] = r
       /\ \A i \in 1..n : shown'[i] = shown[i]
  <2>1. /\ shown' \in Seq(Shows) /\ shown' # <<>>
        /\ Len(shown') = n + 1 /\ shown'[n + 1] = r
        /\ \A i \in 1..n : shown'[i] = shown[i]
    BY <1>2, <1>6, <1>8, <1>9, AppendProperties
  <2> QED
    BY <1>2, <1>9, <2>1, LenProperties
<1>11. Last(shown') = r
  BY <1>10 DEF Last
<1>12. pc' = "get" /\ file' = file /\ sw' = sw
  BY DEF NextCall, inputs, Asks
<1>13. ASSUME NEW i \in Served' PROVE Kept(shown'[i].begin, shown'[i].out)
  <2>1. i \in 1..(n + 1) /\ i < n + 1
    BY <1>10, <1>12, <1>13 DEF Served
  <2>2. i \in 1..n
    BY <1>10, <2>1
  <2>3. i \in Served
    BY <1>2, <1>10, <2>2 DEF Served
  <2> QED
    BY <1>2, <1>10, <2>2, <2>3
<1>14. \A i \in Served' : Kept(shown[i].begin, shown[i].out)'
  BY <1>12, <1>13, Unmoved
<1>15. \A q \in calls' : ~IsBreak(At(q))'
  BY <1>1, <1>2, <1>12, Unmoved
<1>16. Place(Last(shown).off, call.begin)' /\ Last(shown').begin = call'.begin
  BY <1>4, <1>6, <1>7, <1>11, <1>12, Unmoved
<1>17. Fresh'
  <2>1. AskedFor' = AskedFor
    BY <1>12 DEF AskedFor
  <2>2. lpVerb' = <<>> /\ dwtmax' = gdwMax1Line /\ dwOutCnt' = AskedFor
    BY DEF NextCall
  <2> QED
    BY <1>6, <1>11, <2>1, <2>2 DEF Fresh
<1> QED
  BY <1>10, <1>12, <1>14, <1>15, <1>16, <1>17 DEF TextInv
(* Under way, with its type.                                               *)
LEMMA TextTypes ==
  ASSUME TypeOK, Asks, TextInv, pc \in {"get", "put", "finish", "more"}
  PROVE  /\ shown \in Seq(Shows) /\ shown # <<>> /\ Following(shown)
         /\ Last(shown).off \in Nat /\ Place(Last(shown).off, call.begin)
         /\ WayType(call.begin, dwo, lpVerb, dwtmax, dwOutCnt, Last(shown).out)
         /\ pc # "get" =>
              Way(call.begin, dwo, lpVerb, dwtmax, dwOutCnt, Last(shown).out, pc)
<1>1. shown \in Seq(Shows) /\ shown # <<>> /\ Place(Last(shown).off, call.begin)
  BY DEF TextInv
<1>2. Last(shown) \in Shows
  BY <1>1 DEF Last
<1>3. WayType(call.begin, dwo, lpVerb, dwtmax, dwOutCnt, Last(shown).out)
  BY <1>2 DEF WayType, TypeOK, Call, Shows
<1>4. Following(shown)
  BY <1>1 DEF Following
<1>5. pc # "get" => Way(call.begin, dwo, lpVerb, dwtmax, dwOutCnt, Last(shown).out, pc)
  BY DEF TextInv, OnTheWay
<1> QED
  BY <1>1, <1>2, <1>3, <1>4, <1>5 DEF Shows

(* Without -S a byte is shown as it looks.                                 *)
LEMMA WithByteIs ==
  ASSUME TypeOK, ~sw.strip, NEW c \in Byte
  PROVE  WithByte(c) = lpVerb \o Looks(c)
<1>1. PICK m, x : m = PutMarks(c) /\ x = PutChar(c)
  OBVIOUS
<1>2. m \in Seq(Byte) /\ x \in Byte /\ lpVerb \in Seq(Byte)
  BY <1>1, LooksType DEF TypeOK
<1>3. Append(lpVerb \o m, x) = lpVerb \o Append(m, x)
  <2>1. \A u \in Seq(Byte) : Append(u, x) = u \o <<x>>
    BY <1>2
  <2>2. <<x>> \in Seq(Byte) /\ lpVerb \o m \in Seq(Byte)
    BY <1>2, ConcatProperties
  <2>3. (lpVerb \o m) \o <<x>> = lpVerb \o (m \o <<x>>)
    BY <1>2, <2>2, ConcatAssociative
  <2> QED
    BY <1>2, <2>1, <2>2, <2>3
<1> QED
  BY <1>1, <1>3 DEF WithByte, Looks

(* The line is collected.                                                  *)
LEMMA GetText ==
  ASSUME TypeOK, Asks, TextInv, GetBreak \/ GetByte \/ GetDone
  PROVE  TextInv'
<1>1. pc = "get" /\ UNCHANGED <<file, sw, calls, call, lpVerb, dwtmax, dwOutCnt, shown>>
  BY DEF GetBreak, GetByte, GetDone, text, Frame, inputs
<1>2. Following(shown') /\ Fresh /\ Place(Last(shown).off, call.begin)
      /\ Last(shown).off \in Nat
      /\ WayType(call.begin, dwo, lpVerb, dwtmax, dwOutCnt, Last(shown).out)
  BY <1>1, TextTypes DEF TextInv
<1>3. CASE pc' = "get"
  <2>1. AskedFor' = AskedFor
    BY <1>1 DEF AskedFor
  <2>2. Fresh'
    BY <1>1, <1>2, <2>1 DEF Fresh
  <2> QED
    BY <1>1, <1>2, <1>3, <2>2, TextStep
<1>4. CASE pc' # "get"
  <2>1. pc' = "put" /\ dwo' = call.begin
    BY <1>1, <1>4 DEF GetBreak, GetByte, GetDone, Asks
  <2>2. lpVerb = <<>> /\ dwtmax = gdwMax1Line /\ dwOutCnt = AskedFor /\ Last(shown).out = <<>>
    BY <1>2 DEF Fresh
  <2>3. WayType(call.begin, call.begin, <<>>, gdwMax1Line, AskedFor, <<>>)
    BY <1>2, <2>2 DEF WayType
  <2>4. Way(call.begin, call.begin, <<>>, gdwMax1Line, AskedFor, <<>>, "put")
    <3>1. call.begin \in Nat
      BY <2>3 DEF WayType
    <3> QED
      BY <1>2, <2>3, <3>1, WayStart
  <2>5. Way(call.begin, dwo', lpVerb', dwtmax', dwOutCnt', Last(shown').out, pc')
    BY <1>1, <2>1, <2>2, <2>4
  <2> QED
    BY <1>1, <1>2, <2>1, <2>5, TextStep
<1> QED
  BY <1>3, <1>4

(* The line is read once more.                                             *)
LEMMA PutText ==
  ASSUME TypeOK, TypeOK', Asks, TextInv, PutLine
  PROVE  TextInv'
<1>1. pc = "put" /\ UNCHANGED <<file, sw, calls, call, dwOutCnt>>
  BY DEF PutLine, PutBreak, PutByte, PutDone, text, Frame, inputs
<1> DEFINE b == call.begin
           out == Last(shown).out
<1>2. /\ shown \in Seq(Shows) /\ shown # <<>> /\ Following(shown)
      /\ WayType(b, dwo, lpVerb, dwtmax, dwOutCnt, out)
      /\ Way(b, dwo, lpVerb, dwtmax, dwOutCnt, out, "put")
  BY <1>1, TextTypes
<1> HIDE DEF b, out
<1>3. CASE PutBreak
  <2>1. /\ dwo < Size /\ IsBreak(At(dwo)) /\ lpVerb = <<>> /\ dwo' = PastBreak(dwo)
        /\ UNCHANGED <<pc, lpVerb, dwtmax, shown>>
    BY <1>3 DEF PutBreak, Putting, text
  <2>2. Way(b, dwo + 1, <<>>, dwtmax, dwOutCnt, out, "put")
    BY <1>2, <2>1, WayBreak
  <2>3. Way(b, dwo', <<>>, dwtmax, dwOutCnt, out, "put")
    <3>1. CASE dwo + 1 < Size /\ At(dwo + 1) = LF
      <4>1. WayType(b, dwo + 1, <<>>, dwtmax, dwOutCnt, out) /\ IsBreak(At(dwo + 1))
        BY <1>2, <2>1, <3>1 DEF WayType, IsBreak
      <4>2. Way(b, (dwo + 1) + 1, <<>>, dwtmax, dwOutCnt, out, "put")
        <5>1. PICK o : o = dwo + 1
          OBVIOUS
        <5> QED
          BY <2>2, <3>1, <4>1, <5>1, WayBreak
      <4>3. dwo' = (dwo + 1) + 1
        BY <2>1, <3>1 DEF PastBreak, TypeOK
      <4> QED
        BY <4>2, <4>3
    <3>2. CASE ~(dwo + 1 < Size /\ At(dwo + 1) = LF)
      <4>1. dwo' = dwo + 1
        BY <2>1, <3>2 DEF PastBreak
      <4> QED
        BY <2>2, <4>1
    <3> QED
      BY <3>1, <3>2
  <2>4. Way(call.begin, dwo', lpVerb', dwtmax', dwOutCnt', Last(shown').out, pc')
    BY <1>1, <2>1, <2>3 DEF b, out
  <2> QED
    BY <1>1, <1>2, <2>1, <2>4, TextStep
<1>4. CASE PutByte
  <2> DEFINE line == WithByte(At(dwo))
             long == Len(line) > dwtmax
             space == long /\ Len(line) <= gdwEnd1Line /\ PutChar(At(dwo)) = SPACE
             wraps == long /\ (Len(line) > gdwEnd1Line \/ (space /\ ~FewLeft))
  <2>1. /\ dwo < Size /\ ~IsBreak(At(dwo)) /\ dwo' = dwo + 1 /\ pc' = "put"
        /\ wraps => Out(line) /\ lpVerb' = <<>>
        /\ ~wraps => lpVerb' = line /\ shown' = shown
        /\ dwtmax' = IF space /\ FewLeft THEN dwtmax + Cardinality(ToCR) + 1 ELSE dwtmax
    BY <1>1, <1>4 DEF PutByte, Putting
  <2>2. line = lpVerb \o Looks(At(dwo))
    <3>1. dwo \in Nat /\ file \in Seq(Byte) /\ ~sw.strip
      BY DEF TypeOK, Asks
    <3>2. At(dwo) \in Byte
      BY <2>1, <3>1, AtType
    <3> QED
      BY <3>1, <3>2, WithByteIs
  <2> HIDE DEF line
  <2>3. AddsByte(dwo, lpVerb, line)
    BY <2>1, <2>2 DEF AddsByte
  <2>4. /\ line \in Seq(Byte) /\ Len(line) \in Nat
        /\ ShortLines => Len(line) <= dwtmax
        /\ \A m \in Nat :
             Len(line) <= gdwEnd1Line /\ m <= gdwEnd1Line /\ (ShortLines => m = dwtmax) =>
               Way(b, dwo + 1, line, m, dwOutCnt, out, "put")
    BY <1>2, <2>3, WayByte, LenProperties
  <2>5. dwtmax \in Nat /\ dwtmax <= gdwEnd1Line /\ gdwEnd1Line \in Nat /\ dwtmax' \in Nat
    BY <1>2, SizesAssumption DEF Way, TypeOK
  <2>6. dwtmax' <= gdwEnd1Line /\ (ShortLines => dwtmax' = dwtmax)
    <3>1. CASE space /\ FewLeft
      <4>1. Cardinality(ToCR) \in Nat /\ Cardinality(ToCR) < gdwEnd1Line - dwtmax
        BY <3>1, ToCRType DEF FewLeft
      <4>2. dwtmax' = dwtmax + Cardinality(ToCR) + 1
        BY <2>1, <3>1
      <4>3. dwtmax' <= gdwEnd1Line
        BY <2>5, <4>1, <4>2
      <4>4. ~ShortLines
        BY <2>4, <2>5, <3>1
      <4> QED
        BY <4>3, <4>4
    <3>2. CASE ~(space /\ FewLeft)
      BY <2>1, <2>5, <3>2
    <3> QED
      BY <3>1, <3>2
  <2>7. CASE wraps
    <3>1. Out(line) /\ lpVerb' = <<>> /\ Len(line) > dwtmax
      BY <2>1, <2>7
    <3>2. /\ Append(out, line) \in Seq(Seq(Byte))
          /\ Way(b, dwo + 1, <<>>, dwtmax', dwOutCnt, Append(out, line), "put")
      BY <1>2, <2>3, <2>5, <2>6, <3>1, WayWrapped
    <3>3. Following(shown') /\ Last(shown').out = Append(out, line)
      BY <1>2, <3>1, <3>2, ShownMore DEF out
    <3>4. Way(call.begin, dwo', lpVerb', dwtmax', dwOutCnt', Last(shown').out, pc')
      BY <1>1, <2>1, <3>1, <3>2, <3>3 DEF b
    <3> QED
      BY <1>1, <2>1, <3>3, <3>4, TextStep
  <2>8. CASE ~wraps
    <3>1. lpVerb' = line /\ shown' = shown
      BY <2>1, <2>8
    <3>2. Len(line) <= gdwEnd1Line
      BY <2>4, <2>5, <2>8
    <3>3. Way(b, dwo + 1, line, dwtmax', dwOutCnt, out, "put")
      BY <2>4, <2>5, <2>6, <3>2
    <3>4. Way(call.begin, dwo', lpVerb', dwtmax', dwOutCnt', Last(shown').out, pc')
      BY <1>1, <2>1, <3>1, <3>3 DEF b, out
    <3> QED
      BY <1>1, <1>2, <2>1, <3>1, <3>4, TextStep
  <2> QED
    BY <2>7, <2>8
<1>5. CASE PutDone
  <2>1. /\ ~(dwo < Size /\ (IsBreak(At(dwo)) => lpVerb = <<>>)) /\ pc' = "finish"
        /\ UNCHANGED <<dwo, lpVerb, dwtmax, shown>>
    BY <1>5 DEF PutDone, Putting, text
  <2>2. Way(b, dwo, lpVerb, dwtmax, dwOutCnt, out, "finish")
    BY <1>2, <2>1, WayDone
  <2>3. Way(call.begin, dwo', lpVerb', dwtmax', dwOutCnt', Last(shown').out, pc')
    BY <1>1, <2>1, <2>2 DEF b, out
  <2> QED
    BY <1>1, <1>2, <2>1, <2>3, TextStep
<1> QED
  BY <1>3, <1>4, <1>5 DEF PutLine
(* The line is put out, and others are begun.                              *)
LEMMA FinishText ==
  ASSUME TypeOK, TypeOK', Asks, TextInv, Finish
  PROVE  TextInv'
<1>1. /\ pc \in {"finish", "more"}
      /\ UNCHANGED <<file, sw, calls, call, dwo, dwtmax>>
  BY DEF Finish, FinishNothing, FinishLine, MoreLines, MoreOfFunction, text, Frame, inputs
<1> DEFINE b == call.begin
           out == Last(shown).out
<1>2. /\ shown \in Seq(Shows) /\ shown # <<>> /\ Following(shown)
      /\ Last(shown).off \in Nat /\ Place(Last(shown).off, b)
      /\ WayType(b, dwo, lpVerb, dwtmax, dwOutCnt, out)
      /\ Way(b, dwo, lpVerb, dwtmax, dwOutCnt, out, pc)
  BY <1>1, TextTypes
<1> HIDE DEF b, out
<1>3. CASE FinishNothing
  <2>1. pc = "finish" /\ lpVerb = <<>> /\ pc' = "next" /\ shown' = shown
    BY <1>3 DEF FinishNothing
  <2>2. Kept(b, out)
    BY <1>2, <2>1, KeptAtEnd
  <2>3. Kept(call.begin, Last(shown').out)
    BY <2>1, <2>2 DEF b, out
  <2> QED
    BY <1>1, <1>2, <2>1, <2>3, TextStep
<1>4. CASE FinishLine
  <2>1. pc = "finish" /\ lpVerb # <<>> /\ lpVerb' = <<>> /\ dwOutCnt' = dwOutCnt
    BY <1>4 DEF FinishLine
  <2>2. ~Dropped(lpVerb) /\ Append(out, lpVerb) \in Seq(Seq(Byte))
    BY <1>2, <2>1, LineFinished, LinePutOut
  <2>3. Out(lpVerb)
    BY <1>4, <2>2 DEF FinishLine
  <2>4. Following(shown') /\ Last(shown').out = Append(out, lpVerb)
    BY <1>2, <2>2, <2>3, ShownMore DEF out
  <2>5. /\ Continued(lpVerb) => Way(b, dwo, <<>>, dwtmax, dwOutCnt, Append(out, lpVerb), "put")
        /\ ~Continued(lpVerb) /\ dwOutCnt # 0 /\ dwo < Size =>
             Way(b, dwo, <<>>, dwtmax, dwOutCnt, Append(out, lpVerb), "more")
    BY <1>2, <2>1, WayGoesOn
  <2>6. CASE Continued(lpVerb)
    <3>1. pc' = "put"
      BY <1>4, <2>6 DEF FinishLine
    <3>2. Way(call.begin, dwo', lpVerb', dwtmax', dwOutCnt', Last(shown').out, pc')
      BY <1>1, <2>1, <2>4, <2>5, <2>6, <3>1 DEF b
    <3> QED
      BY <1>1, <2>4, <3>1, <3>2, TextStep
  <2>7. CASE ~Continued(lpVerb) /\ dwOutCnt # 0 /\ dwo < Size
    <3>1. pc' = "more"
      BY <1>4, <2>7 DEF FinishLine
    <3>2. Way(call.begin, dwo', lpVerb', dwtmax', dwOutCnt', Last(shown').out, pc')
      BY <1>1, <2>1, <2>4, <2>5, <2>7, <3>1 DEF b
    <3> QED
      BY <1>1, <2>4, <3>1, <3>2, TextStep
  <2>8. CASE ~Continued(lpVerb) /\ ~(dwOutCnt # 0 /\ dwo < Size)
    <3>1. pc' = "next"
      BY <1>4, <2>8 DEF FinishLine
    <3>2. Kept(b, Append(out, lpVerb))
      BY <1>2, <2>1, <2>8, KeptWithLine
    <3>3. Kept(call.begin, Last(shown').out)
      BY <2>4, <3>2 DEF b
    <3> QED
      BY <1>1, <2>4, <3>1, <3>3, TextStep
  <2> QED
    BY <2>6, <2>7, <2>8
<1>5. CASE MoreLines \/ MoreOfFunction
  <2>1. /\ pc = "more" /\ pc' = "put" /\ lpVerb' = lpVerb /\ shown' = shown
        /\ dwo < Size /\ IsBreak(At(dwo))
    <3>1. pc = "more" /\ pc' = "put" /\ lpVerb' = lpVerb /\ shown' = shown
      BY <1>5 DEF MoreLines, MoreOfFunction
    <3> QED
      BY <1>2, <3>1 DEF Way
  <2>2. \/ dwOutCnt > 0 /\ dwOutCnt' = dwOutCnt - 1
        \/ dwOutCnt < 0 /\ dwOutCnt' = 0
    <3>1. dwo \in dwo..(Size - 1)
      BY <2>1 DEF TypeOK, Size
    <3> QED
      BY <1>5, <2>1, <3>1 DEF MoreLines, MoreOfFunction
  <2>3. Way(b, dwo, lpVerb, dwtmax, dwOutCnt', out, "put")
    BY <1>2, <2>1, <2>2, WayMore
  <2>4. Way(call.begin, dwo', lpVerb', dwtmax', dwOutCnt', Last(shown').out, pc')
    BY <1>1, <2>1, <2>3 DEF b, out
  <2> QED
    BY <1>1, <1>2, <2>1, <2>4, TextStep
<1> QED
  BY <1>3, <1>4, <1>5 DEF Finish

LEMMA NextText == TypeOK /\ TypeOK' /\ TextInv /\ [Next]_vars => TextInv'
<1> SUFFICES ASSUME TypeOK, TypeOK', TextInv, [Next]_vars PROVE TextInv'
  OBVIOUS
<1>1. file' = file /\ sw' = sw
  BY DEF Next, NextCall, GetLine, PutBin, PutLine, Finish, GetBreak, GetByte, GetDone,
         GetBinary, GetBinByte, GetBinDone, PutBinByte, PutBinEnd, PutWordByte,
         PutWordEnd, Limit, PutBreak, PutByte, PutDone, FinishNothing, FinishLine,
         MoreLines, MoreOfFunction, Frame, inputs, vars
<1>2. CASE ~Asks
  BY <1>1, <1>2, Unmoved DEF TextInv
<1>3. CASE Asks
  <2>1. pc \in {"next", "get", "put", "finish", "more"}
    BY <1>3 DEF TextInv
  <2>2. CASE NextCall
    BY <1>3, <2>2, NextCallText
  <2>3. CASE GetLine
    BY <1>3, <2>1, <2>3, GetText DEF GetLine, GetBinary, GetBinByte, GetBinDone
  <2>4. CASE PutLine
    BY <1>3, <2>4, PutText
  <2>5. CASE Finish
    BY <1>3, <2>5, FinishText
  <2>6. CASE UNCHANGED vars
    <3>1. UNCHANGED <<pc, calls, call, dwo, lpVerb, dwtmax, dwOutCnt, shown>>
      BY <2>6 DEF vars, text
    <3>2. Served' = Served /\ AskedFor' = AskedFor
      BY <1>1, <3>1 DEF Served, AskedFor
    <3>3. Fresh' <=> Fresh
      BY <3>1, <3>2 DEF Fresh
    <3>4. OnTheWay' <=> OnTheWay
      BY <1>1, <3>1, WayUnmoved DEF OnTheWay
    <3>5. /\ \A o : At(o)' = At(o) /\ \A x, y : Place(x, y)' <=> Place(x, y)
          /\ \A x, y : Kept(x, y)' <=> Kept(x, y)
      BY <1>1, Unmoved
    <3>6. \A o \in calls' : ~IsBreak(At(o))'
      BY <1>3, <3>1, <3>5 DEF TextInv
    <3>7. \A i \in Served' : Kept(shown[i].begin, shown[i].out)'
      BY <1>3, <3>1, <3>2, <3>5 DEF TextInv
    <3>8. pc' # "next" => /\ (shown # <<>>)' /\ (Last(shown).begin = call.begin)'
                          /\ Place(Last(shown).off, call.begin)'
      BY <1>3, <3>1, <3>5 DEF TextInv
    <3> QED
      BY <1>3, <3>1, <3>3, <3>4, <3>6, <3>7, <3>8 DEF TextInv
  <2> QED
    BY <2>1, <2>2, <2>3, <2>4, <2>5, <2>6
       DEF Next, PutBin, PutBinByte, PutBinEnd, PutWordByte, PutWordEnd, Limit
<1> QED
  BY <1>2, <1>3

(* What is shown of a text is the text of whole lines, from that of the    *)
(* find on, with nothing lost or added where it wraps, and if none wraps   *)
(* they are the lines asked for (Fa4Show.c:448-563).                       *)
THEOREM TextIsKept == Spec => []TextKept
<1>1. TextInv => TextKept
  BY DEF TextInv, TextKept, Asks, Kept
<1>2. TypeOK /\ TypeOK' /\ TextInv /\ [Next]_vars => TextInv'
  BY NextText
<1> QED
  BY <1>1, <1>2, InitText, TypeCorrect, PTL DEF Spec

-----------------------------------------------------------------------------
(* Why the find is shown.  Of which files and finds FindShown speaks, ...  *)
Finds == /\ \A k \in DOMAIN find : AlphaNumeric(find[k])
         /\ NoLoneCR(file) /\ ~sw.make /\ g_dwBackup + Len(find) <= gdwMax1Line

(* ... and of which calls.                                                 *)
Promised(off) ==
  /\ sw.bin => ~Unseen(off)
  /\ sw.L = "limit" /\ ~sw.bin =>
       sw.left + sw.right = 0 \/ (Len(find) > 1 /\ ~EndsLine(off))

(* The first k bytes of the find are in a text, behind the first lo of it. *)
Holds(t, lo, k) == lo + k <= Len(t) /\ \A i \in 1..k : t[lo + i] = find[i]

(* The find is in a text, or its first k bytes end it.                     *)
Has(t) == \E lo \in Nat : Holds(t, lo, Len(find))
UpTo(t, k) == k > 0 => k <= Len(t) /\ Holds(t, Len(t) - k, k)

(* The find is in the file at off, in one line with what a call gives.     *)
StandsHere(off) == Holds(file, off, Len(find))
InOneLine(off, begin) ==
  /\ begin <= off
  /\ \A j \in (begin + 1)..(off - 1) : ~IsBreak(At(j))

(* Where the find is in the line buffer: when the scan is at o, and when   *)
(* it is at the end of the line.                                           *)
FindGot(o, buf, lo, hi) ==
  LET off == call.off
  IN  /\ call.begin <= o /\ (o = call.begin => buf = <<>>)
      /\ off < o /\ o <= off + Len(find) => Holds(buf, lo, o - off) /\ lo + (o - off) = Len(buf)
      /\ off + Len(find) < o =>
           /\ Holds(buf, lo, Len(find))
           /\ Len(find) > 1 => lo + Len(find) <= hi /\ hi <= Len(buf)

LineGot(buf, lo, hi) ==
  /\ Holds(buf, lo, Len(find))
  /\ Len(find) > 1 /\ ~EndsLine(call.off) => lo + Len(find) <= hi /\ hi <= Len(buf)

(* What is put out, with what is collected, has the find, or what of it    *)
(* the scan is past.                                                       *)
Joined(out, t) == FlattenSeq(out) \o t

FindComes(p, o, t, out) ==
  \/ Has(Joined(out, t))
  \/ /\ o < call.off + Len(find)
     /\ UpTo(Joined(out, t), o - call.off)
     /\ \/ p = "put" /\ call.begin <= o /\ (o = call.begin => t = <<>>)
        \/ p = "putbin" /\ out = <<>> /\ BackUp.dwo <= o /\ Len(t) = o - BackUp.dwo

FindOnWay(p, o, buf, lo, hi, t, max, out) ==
  /\ p \in {"get", "limit", "getbin", "getbyte"} => t = <<>> /\ out = <<>>
  /\ p \in {"get", "limit"} => ~sw.bin
  /\ p \in {"getbin", "getbyte", "putbin"} => sw.bin /\ max = gdwMax1Line
  /\ p = "get" => FindGot(o, buf, lo, hi)
  /\ p = "limit" => sw.L = "limit" /\ o = call.begin /\ LineGot(buf, lo, hi)
  /\ p \in {"putbin", "put", "putword", "finish", "more"} => FindComes(p, o, t, out)

Honoured(off, out) == Promised(off) => Has(FlattenSeq(out))

CallRight ==
  /\ call.end = IF Len(find) = 1 THEN call.off ELSE call.off + Len(find)
  /\ StandsHere(call.off) /\ InOneLine(call.off, call.begin)

FindInv ==
  /\ find # <<>> /\ \A o \in calls : StandsHere(o)
  /\ Finds =>
       /\ shown \in Seq(Shows)
       /\ \A i \in Served : Honoured(shown[i].off, shown[i].out)
       /\ pc # "next" =>
            /\ shown # <<>> /\ Last(shown).off = call.off /\ Last(shown).begin = call.begin
            /\ CallRight
            /\ Promised(call.off) =>
                 FindOnWay(pc, dwo, glpLineBuf, g_dwLBOffBgn, g_dwLBOffEnd, lpVerb, dwtmax,
                           Last(shown).out)

(* What is said of the file and the find stays while they do, ...          *)
LEMMA FileUnmoved ==
  ASSUME file' = file, find' = find, sw' = sw
  PROVE  /\ Finds' <=> Finds
         /\ \A t : Has(t)' <=> Has(t)
         /\ \A t, lo, k : Holds(t, lo, k)' <=> Holds(t, lo, k)
         /\ \A o : StandsHere(o)' <=> StandsHere(o)
         /\ \A o, b : InOneLine(o, b)' <=> InOneLine(o, b)
         /\ \A o : EndsLine(o)' <=> EndsLine(o)
         /\ \A o : Promised(o)' <=> Promised(o)
         /\ \A off, out : Honoured(off, out)' <=> Honoured(off, out)
<1>1. Size' = Size /\ \A o : At(o)' = At(o)
  BY DEF Size, At
<1>2. \A t, lo, k : Holds(t, lo, k)' <=> Holds(t, lo, k)
  BY DEF Holds
<1>3. \A t : Has(t)' <=> Has(t)
  BY <1>2 DEF Has
<1>4. Finds' <=> Finds
  BY DEF Finds
<1>5. \A o : StandsHere(o)' <=> StandsHere(o)
  BY <1>2 DEF StandsHere
<1>6. \A o : EndsLine(o)' <=> EndsLine(o)
  BY <1>1 DEF EndsLine
<1>7. \A o : Promised(o)' <=> Promised(o)
  <2>1. \A o : Unseen(o)' <=> Unseen(o)
    BY <1>1 DEF Unseen
  <2> QED
    BY <1>6, <2>1 DEF Promised
<1>8. \A o, b : InOneLine(o, b)' <=> InOneLine(o, b)
  BY <1>1 DEF InOneLine
<1>9. \A off, out : Honoured(off, out)' <=> Honoured(off, out)
  BY <1>3, <1>7 DEF Honoured
<1> QED
  BY <1>2, <1>3, <1>4, <1>5, <1>6, <1>7, <1>8, <1>9

(* ... and what is said of the call with the call.                         *)
LEMMA FindUnmoved ==
  ASSUME file' = file, find' = find, sw' = sw, call' = call
  PROVE  /\ CallRight' <=> CallRight
         /\ \A p, o, buf, lo, hi, t, max, out :
              FindOnWay(p, o, buf, lo, hi, t, max, out)' <=>
                FindOnWay(p, o, buf, lo, hi, t, max, out)
<1>1. CallRight' <=> CallRight
  BY FileUnmoved DEF CallRight
<1>2. BackUp' = BackUp
  <2>1. \A o : At(o)' = At(o)
    BY DEF At
  <2> QED
    BY <2>1 DEF BackUp
<1>3. \A t, k : UpTo(t, k)' <=> UpTo(t, k)
  BY FileUnmoved DEF UpTo
<1>4. \A o, buf, lo, hi : FindGot(o, buf, lo, hi)' <=> FindGot(o, buf, lo, hi)
  BY FileUnmoved DEF FindGot
<1>5. \A buf, lo, hi : LineGot(buf, lo, hi)' <=> LineGot(buf, lo, hi)
  BY FileUnmoved DEF LineGot
<1>6. \A p, o, t, out : FindComes(p, o, t, out)' <=> FindComes(p, o, t, out)
  BY <1>2, <1>3, FileUnmoved DEF FindComes
<1>7. \A p, o, buf, lo, hi, t, max, out :
        FindOnWay(p, o, buf, lo, hi, t, max, out)' <=> FindOnWay(p, o, buf, lo, hi, t, max, out)
  BY <1>4, <1>5, <1>6 DEF FindOnWay
<1> QED
  BY <1>1, <1>7

(* What a text holds it holds with more behind it, ...                     *)
LEMMA HoldsMore ==
  ASSUME NEW t \in Seq(Byte), NEW x \in Seq(Byte), NEW lo \in Nat, NEW k \in Nat
  PROVE  Holds(t, lo, k) => Holds(t \o x, lo, k)
<1> SUFFICES ASSUME Holds(t, lo, k) PROVE Holds(t \o x, lo, k)
  OBVIOUS
<1>1. PICK n, m, u : n = Len(t) /\ m = Len(x) /\ u = t \o x
  OBVIOUS
<1>2. n \in Nat /\ m \in Nat /\ Len(u) = n + m /\ \A i \in 1..n : u[i] = t[i]
  BY <1>1, ConcatProperties
<1>3. lo + k <= n /\ \A i \in 1..k : t[lo + i] = find[i]
  BY <1>1 DEF Holds
<1>4. lo + k <= Len(u)
  BY <1>2, <1>3
<1>5. ASSUME NEW i \in 1..k PROVE u[lo + i] = find[i]
  <2>1. PICK j : j = lo + i
    OBVIOUS
  <2>2. j \in 1..n
    BY <1>2, <1>3, <2>1
  <2> QED
    BY <1>2, <1>3, <2>1, <2>2
<1> QED
  BY <1>1, <1>4, <1>5 DEF Holds

(* ... and with the next byte of the find it holds one byte more of it.    *)
LEMMA HoldsNext ==
  ASSUME NEW t \in Seq(Byte), NEW lo \in Nat, NEW k \in Nat, NEW c \in Byte,
         c = find[k + 1], lo + k = Len(t), k = 0 \/ Holds(t, lo, k)
  PROVE  Holds(t \o <<c>>, lo, k + 1) /\ lo + k + 1 = Len(t \o <<c>>)
<1>1. PICK x : x = <<c>>
  OBVIOUS
<1>2. x \in Seq(Byte) /\ Len(x) = 1 /\ x[1] = c
  BY <1>1
<1>3. PICK n, u : n = Len(t) /\ u = t \o x
  OBVIOUS
<1>4. /\ n \in Nat /\ Len(u) = n + 1 /\ u[n + 1] = c /\ n = lo + k
      /\ \A i \in 1..n : u[i] = t[i]
  <2>0. n \in Nat
    BY <1>3
  <2>1. PICK m : m = n + Len(x)
    OBVIOUS
  <2>2. /\ Len(u) = m
        /\ \A i \in 1..m : u[i] = IF i <= n THEN t[i] ELSE x[i - n]
    <3>1. /\ Len(t \o x) = Len(t) + Len(x)
          /\ \A i \in 1..(Len(t) + Len(x)) :
               (t \o x)[i] = IF i <= Len(t) THEN t[i] ELSE x[i - Len(t)]
      BY <1>2, ConcatProperties
    <3> QED
      BY <1>3, <2>1, <3>1
  <2>3. m = n + 1 /\ n + 1 \in 1..m /\ ~(n + 1 <= n) /\ (n + 1) - n = 1
    BY <1>2, <2>0, <2>1
  <2>4. \A i \in 1..n : i \in 1..m /\ i <= n
    BY <2>0, <2>3
  <2> QED
    BY <1>2, <1>3, <2>0, <2>2, <2>3, <2>4
<1>5. ASSUME NEW i \in 1..(k + 1) PROVE u[lo + i] = find[i]
  <2>1. CASE i = k + 1
    <3>1. lo + i = n + 1
      BY <1>4, <2>1
    <3> QED
      BY <1>4, <2>1, <3>1
  <2>2. CASE i # k + 1
    <3>1. PICK j : j = lo + i
      OBVIOUS
    <3>2. i \in 1..k /\ k # 0 /\ j \in 1..n
      BY <1>4, <2>2, <3>1
    <3>3. t[lo + i] = find[i]
      BY <3>2 DEF Holds
    <3> QED
      BY <1>4, <3>1, <3>2, <3>3
  <2> QED
    BY <2>1, <2>2
<1>6. lo + (k + 1) <= Len(u) /\ lo + k + 1 = Len(u)
  BY <1>4
<1> QED
  BY <1>1, <1>3, <1>5, <1>6 DEF Holds

LEMMA HasMore ==
  ASSUME NEW t \in Seq(Byte), NEW x \in Seq(Byte), Len(find) \in Nat, Has(t)
  PROVE  Has(t \o x)
BY HoldsMore DEF Has

(* The find grows at the end of a text, until all of it is there.          *)
LEMMA UpToMore ==
  ASSUME NEW t \in Seq(Byte), NEW k \in Nat, NEW c \in Byte, c = find[k + 1], UpTo(t, k)
  PROVE  UpTo(t \o <<c>>, k + 1) /\ (k + 1 = Len(find) => Has(t \o <<c>>))
<1>1. PICK n, u : n = Len(t) /\ u = t \o <<c>>
  OBVIOUS
<1>2. n \in Nat
  BY <1>1
<1>3. k <= n /\ (k = 0 \/ Holds(t, n - k, k))
  BY <1>1, <1>2 DEF UpTo
<1>4. PICK lo : lo = n - k
  OBVIOUS
<1>5. lo \in Nat /\ lo + k = Len(t) /\ (k = 0 \/ Holds(t, lo, k))
  BY <1>1, <1>2, <1>3, <1>4
<1>6. Holds(u, lo, k + 1) /\ lo + k + 1 = Len(u)
  BY <1>1, <1>5, HoldsNext
<1>7. Len(u) - (k + 1) = lo /\ k + 1 <= Len(u)
  BY <1>5, <1>6
<1> QED
  BY <1>1, <1>5, <1>6, <1>7 DEF UpTo, Has

(* A text that has the find shows it.                                      *)
LEMMA HasShows ==
  ASSUME find \in Seq(Byte), NEW t \in Seq(Byte), Has(t)
  PROVE  ShowsFind(t)
<1>1. PICK lo \in Nat : Holds(t, lo, Len(find))
  BY DEF Has
<1>2. PICK n, m : n = Len(find) /\ m = Len(t)
  OBVIOUS
<1>3. n \in Nat /\ m \in Nat /\ lo + n <= m /\ \A i \in 1..n : t[lo + i] = find[i]
  BY <1>1, <1>2 DEF Holds
<1>4. lo \in 0..(m - n)
  BY <1>3
<1>5. PICK s : s = SubSeq(t, lo + 1, lo + n)
  OBVIOUS
<1>6. s \in Seq(Byte) /\ Len(s) = n /\ \A i \in 1..n : s[i] = t[lo + i]
  <2>1. PICK x, y : x = lo + 1 /\ y = lo + n
    OBVIOUS
  <2>2. x \in 1..(m + 1) /\ y \in (x - 1)..m /\ y - x + 1 = n
    BY <1>3, <2>1
  <2>3. /\ s \in Seq(Byte)
        /\ Len(s) = IF x <= y THEN y - x + 1 ELSE 0
        /\ \A i \in 1..(y - x + 1) : s[i] = t[x + i - 1]
    BY <1>2, <1>5, <2>1, <2>2, SubSeqProperties
  <2>4. \A i \in 1..n : x + i - 1 = lo + i
    BY <1>3, <2>1
  <2> QED
    BY <1>3, <2>2, <2>3, <2>4
<1>7. s = find
  BY <1>2, <1>3, <1>6, SeqEqual
<1> QED
  BY <1>2, <1>4, <1>5, <1>7 DEF ShowsFind

(* What is put out moves nothing of what is joined.                        *)
LEMMA JoinedMore ==
  ASSUME NEW out \in Seq(Seq(Byte)), NEW t \in Seq(Byte), NEW x \in Seq(Byte)
  PROVE  /\ Joined(out, t) \in Seq(Byte) /\ FlattenSeq(out) \in Seq(Byte)
         /\ Joined(out, t \o x) = Joined(out, t) \o x
         /\ Append(out, t) \in Seq(Seq(Byte))
         /\ Joined(Append(out, t), <<>>) = Joined(out, t)
         /\ FlattenSeq(Append(out, t)) = Joined(out, t)
         /\ Joined(out, <<>>) = FlattenSeq(out)
         /\ Joined(<<>>, t) = t /\ FlattenSeq(Append(<<>>, t)) = t
<1>1. PICK f : f = FlattenSeq(out)
  OBVIOUS
<1>2. /\ f \in Seq(Byte) /\ Append(out, t) \in Seq(Seq(Byte))
      /\ FlattenSeq(Append(out, t)) = f \o t /\ FlattenSeq(<<>>) = <<>>
  BY <1>1, FlattenMore
<1>3. f \o t \in Seq(Byte) /\ f \o (t \o x) = (f \o t) \o x
  BY <1>2, ConcatProperties, ConcatAssociative
<1>4. (f \o t) \o <<>> = f \o t /\ f \o <<>> = f /\ <<>> \o t = t
  BY <1>2, <1>3, ConcatEmptySeq
<1>5. FlattenSeq(Append(<<>>, t)) = t
  <2>1. <<>> \in Seq(Seq(Byte))
    OBVIOUS
  <2>2. FlattenSeq(Append(<<>>, t)) = FlattenSeq(<<>>) \o t
    BY <2>1, FlattenMore
  <2> QED
    BY <1>2, <1>4, <2>2
<1> QED
  BY <1>1, <1>2, <1>3, <1>4, <1>5 DEF Joined

(* Letters and digits are shown as they are, also in a binary file.        *)
LEMMA LettersShown ==
  ASSUME NEW c \in Byte, AlphaNumeric(c)
  PROVE  /\ ~IsBreak(c) /\ Printable(c) /\ c # SPACE
         /\ GetMarks(c) = <<>> /\ GetChar(c) = c
         /\ PutMarks(c) = <<>> /\ PutChar(c) = c
<1>1. c \in 48..122
  BY DEF AlphaNumeric, NotAsciiRng
<1>2. c % 128 = c /\ c # 10 /\ c # 13 /\ c # 32 /\ ~(c >= 128) /\ ~(c < 32)
  BY <1>1
<1>3. ~(c < SPACE) /\ c # SPACE /\ c # LF /\ c # CR /\ Signed(c) = c
  BY <1>2 DEF SPACE, LF, CR, Signed
<1>4. ~Caret(c)
  BY <1>2, <1>3 DEF Caret
<1>5. GetMarks(c) = <<>>
  BY <1>3 DEF GetMarks
<1>6. PutMarks(c) = <<>> \o <<>> /\ PutChar(c) = c
  BY <1>2, <1>4, Zenon DEF PutMarks, PutChar
<1>7. PutMarks(c) = <<>>
  BY <1>6
<1> QED
  BY <1>1, <1>3, <1>5, <1>6, <1>7 DEF IsBreak, Printable, GetChar, SPACE

(* Where the search finds it, the find is in the file.                     *)
LEMMA FoundHere ==
  ASSUME NEW f \in Seq(Byte), NEW t \in Seq(Byte \ {0, LF, CR}) \ {<<>>}, NEW o \in Found(f, t)
  PROVE  o + Len(t) <= Len(f) /\ \A i \in 1..Len(t) : f[o + i] = t[i]
<1>1. Order \in CompOptions /\ ~Order.spacey /\ ~Order.whole /\ Order.case /\ ~Order.parity
  BY DEF Order, CompOptions
<1>2. Move2Find(Order, t) = t
  BY <1>1 DEF Move2Find
<1>3. t \in Seq(Byte \ {0}) \ {<<>>}
  OBVIOUS
<1>4. o \in 0..(Len(f) - 1) /\ FoundAt(Order, f, o, Len(f), t)
  BY DEF Found
<1>5. FindStands(Order, f, o, t)
  BY <1>1, <1>2, <1>3, <1>4, FoundStands
<1>6. \A c : CompChr(Order, c) = c
  BY <1>1 DEF CompChr, Mask
<1>7. DOMAIN t = 1..Len(t)
  OBVIOUS
<1> QED
  BY <1>5, <1>6, <1>7 DEF FindStands

(* No end of line stands between what a call gives and its find.           *)
LEMMA CallInLine ==
  ASSUME file \in Seq(Byte), NoLoneCR(file), NEW o \in 0..(Len(file) - 1), ~IsBreak(At(o))
  PROVE  LineBegin(file, o) \in Nat /\ InOneLine(o, LineBegin(file, o))
<1> DEFINE b == LineBegin(file, o)
           lfs == LFsBefore(file, o)
<1>1. o \in Nat /\ Len(file) \in Nat /\ o < Len(file) /\ DOMAIN file = 1..Len(file)
  OBVIOUS
<1>2. lfs \in SUBSET Nat /\ \A s \in lfs : s <= o /\ s < o
  BY <1>1 DEF LFsBefore
<1>3. b \in Nat /\ b <= o /\ \A s \in lfs : s <= b
  <2>1. CASE lfs = {}
    BY <1>1, <2>1 DEF LineBegin
  <2>2. CASE lfs # {}
    BY <1>1, <1>2, <2>2, TopIs DEF LineBegin
  <2> QED
    BY <2>1, <2>2
<1> HIDE DEF b
<1>4. ASSUME NEW j \in (b + 1)..(o - 1) PROVE ~IsBreak(At(j))
  <2>1. j \in Nat /\ j < o /\ b < j /\ j \in 0..(Len(file) - 1) /\ j + 1 \in DOMAIN file
    BY <1>1, <1>3
  <2>2. file[j + 1] # LF
    BY <1>3, <2>1 DEF LFsBefore
  <2>3. ASSUME file[j + 1] = CR PROVE FALSE
    <3>1. PICK i : i = j + 1
      OBVIOUS
    <3>2. i < Len(file) /\ file[i + 1] = LF
      BY <2>1, <2>3, <3>1 DEF NoLoneCR
    <3>3. i \in Nat /\ i <= o /\ b < i /\ i \in 0..(Len(file) - 1)
      BY <1>1, <1>3, <2>1, <3>1, <3>2
    <3>4. i # o
      BY <3>2 DEF At, IsBreak
    <3>5. i < o
      BY <1>1, <3>3, <3>4
    <3> QED
      BY <1>3, <3>2, <3>3, <3>5 DEF LFsBefore
  <2> QED
    BY <2>2, <2>3 DEF At, IsBreak
<1> QED
  BY <1>3, <1>4 DEF InOneLine, b

(* How far back the text of a binary file goes, if it does not begin with  *)
(* a byte not looked at.                                                   *)
LEMMA BackUpIs ==
  ASSUME TypeOK, call.off < Size, ~Unseen(call.off)
  PROVE  /\ BackUp.dwo \in Nat /\ BackUp.dwo <= call.off
         /\ call.off - BackUp.dwo <= g_dwBackup + 1
         /\ \A j \in BackUp.dwo..(call.off - 1) : Printable(At(j))
<1> DEFINE off == call.off
           stops == {b \in 0..(off - 1) : b = 0 \/ off - 1 - b = g_dwBackup \/ ~Printable(At(b))}
           b == Top(stops)
<1>1. off \in Nat /\ g_dwBackup \in Nat
  BY SizesAssumption DEF TypeOK, Call
<1>2. CASE off = 0
  <2>1. BackUp.dwo = 0
    BY <1>2 DEF BackUp
  <2> QED
    BY <1>1, <1>2, <2>1
<1>3. CASE off # 0
  <2>1. stops \in SUBSET Nat /\ (\A s \in stops : s <= off) /\ 0 \in stops
    BY <1>1, <1>3
  <2>2. b \in stops /\ \A s \in stops : s <= b
    <3> HIDE DEF stops
    <3> QED
      BY <1>1, <2>1, TopIs
  <2>3. BackUp.dwo = IF b > 0 /\ off - 1 - b < g_dwBackup THEN b + 1 ELSE b
    BY <1>3 DEF BackUp
  <2> HIDE DEF b
  <2>4. b \in Nat /\ b < off
    BY <1>1, <2>2
  <2>5. \A j \in (b + 1)..(off - 1) : Printable(At(j))
    BY <1>1, <2>2, <2>4
  <2>6. off - 1 - b <= g_dwBackup
    <3>1. SUFFICES ASSUME off - 1 - b > g_dwBackup PROVE FALSE
      BY <1>1, <2>4
    <3>2. PICK s : s = off - 1 - g_dwBackup
      OBVIOUS
    <3>3. s \in 0..(off - 1) /\ off - 1 - s = g_dwBackup /\ s > b
      BY <1>1, <2>4, <3>1, <3>2
    <3> QED
      BY <2>2, <2>4, <3>3
  <2> HIDE DEF stops
  <2>7. CASE b > 0 /\ off - 1 - b < g_dwBackup
    <3>1. BackUp.dwo = b + 1
      BY <2>3, <2>7
    <3> QED
      BY <1>1, <2>4, <2>5, <2>7, <3>1
  <2>8. CASE ~(b > 0 /\ off - 1 - b < g_dwBackup)
    <3>1. b = IF off > g_dwBackup THEN off - 1 - g_dwBackup ELSE 0
      BY <1>1, <2>4, <2>6, <2>8
    <3>2. Printable(At(b))
      BY <1>1, <1>3, <2>5, <3>1 DEF Unseen
    <3>3. \A j \in b..(off - 1) : j = b \/ j \in (b + 1)..(off - 1)
      BY <1>1, <2>4
    <3>4. \A j \in b..(off - 1) : Printable(At(j))
      BY <2>5, <3>2, <3>3
    <3>5. off - b <= g_dwBackup + 1 /\ b <= off
      BY <1>1, <2>4, <2>6
    <3>6. BackUp.dwo = b
      BY <2>3, <2>8
    <3> QED
      BY <2>4, <3>4, <3>5, <3>6
  <2> QED
    BY <2>7, <2>8
<1> QED
  BY <1>2, <1>3

(* The bytes of a find where it stands.                                    *)
LEMMA FindBytes ==
  ASSUME TypeOK, Finds, find # <<>>, NEW off \in Nat, StandsHere(off)
  PROVE  /\ Len(find) \in Nat \ {0} /\ off + Len(find) <= Size /\ off < Size /\ Size \in Nat
         /\ \A o \in off..(off + Len(find) - 1) :
              /\ At(o) = find[(o - off) + 1] /\ At(o) \in Byte /\ AlphaNumeric(At(o))
<1>1. find \in Seq(Byte) /\ Len(find) \in Nat \ {0} /\ DOMAIN find = 1..Len(find) /\ Size \in Nat
  BY DEF TypeOK, Size
<1>2. PICK n : n = Len(find)
  OBVIOUS
<1>3. off + n <= Size /\ \A i \in 1..n : file[off + i] = find[i]
  BY <1>2 DEF StandsHere, Holds, Size
<1>4. \A i \in 1..n : find[i] \in Byte /\ AlphaNumeric(find[i])
  BY <1>1, <1>2 DEF Finds
<1>5. ASSUME NEW o \in off..(off + n - 1)
      PROVE  At(o) = find[(o - off) + 1] /\ At(o) \in Byte /\ AlphaNumeric(At(o))
  <2>1. PICK i : i = (o - off) + 1
    OBVIOUS
  <2>2. i \in 1..n /\ off + i = o + 1
    BY <1>1, <1>2, <2>1
  <2> QED
    BY <1>3, <1>4, <2>1, <2>2 DEF At
<1> QED
  BY <1>1, <1>2, <1>3, <1>5

(* What is known of the call that is served.                               *)
CallKnown ==
  /\ CallRight /\ call.off \in Nat /\ call.begin \in Nat
  /\ find \in Seq(Byte) /\ file \in Seq(Byte) /\ Len(find) \in Nat \ {0}
  /\ call.off + Len(find) <= Size /\ Size \in Nat
  /\ \A o \in call.off..(call.off + Len(find) - 1) :
       At(o) = find[(o - call.off) + 1] /\ At(o) \in Byte /\ AlphaNumeric(At(o))

(* Under way, with its type.                                               *)
LEMMA FindTypes ==
  ASSUME TypeOK, Finds, FindInv, pc # "next"
  PROVE  /\ shown \in Seq(Shows) /\ shown # <<>> /\ Following(shown)
         /\ Last(shown).out \in Seq(Seq(Byte)) /\ CallKnown
         /\ glpLineBuf \in Seq(Byte) /\ lpVerb \in Seq(Byte)
         /\ dwo \in Nat /\ g_dwLBOffBgn \in Nat /\ g_dwLBOffEnd \in Nat
         /\ Promised(call.off) =>
              FindOnWay(pc, dwo, glpLineBuf, g_dwLBOffBgn, g_dwLBOffEnd, lpVerb, dwtmax,
                        Last(shown).out)
<1>1. /\ shown \in Seq(Shows) /\ shown # <<>> /\ CallRight /\ find # <<>>
      /\ Promised(call.off) =>
           FindOnWay(pc, dwo, glpLineBuf, g_dwLBOffBgn, g_dwLBOffEnd, lpVerb, dwtmax,
                     Last(shown).out)
  BY DEF FindInv
<1>2. Last(shown).out \in Seq(Seq(Byte)) /\ Following(shown)
  <2>1. Last(shown) \in Shows
    BY <1>1 DEF Last
  <2> QED
    BY <1>1, <2>1 DEF Following, Shows
<1>3. call.off \in Nat /\ call.begin \in Nat
  BY DEF TypeOK, Call
<1>4. StandsHere(call.off)
  BY <1>1 DEF CallRight
<1>5. /\ find \in Seq(Byte) /\ file \in Seq(Byte)
      /\ glpLineBuf \in Seq(Byte) /\ lpVerb \in Seq(Byte)
      /\ dwo \in Nat /\ g_dwLBOffBgn \in Nat /\ g_dwLBOffEnd \in Nat
  BY DEF TypeOK
<1>6. CallKnown
  BY <1>1, <1>3, <1>4, <1>5, FindBytes DEF CallKnown
<1> QED
  BY <1>1, <1>2, <1>5, <1>6

(* A step of a call that is served.                                        *)
LEMMA FindStep ==
  ASSUME Finds, FindInv, pc # "next", file' = file, find' = find, sw' = sw,
         calls' = calls, call' = call, Following(shown'),
         Promised(call.off) =>
           \/ /\ pc' # "next"
              /\ FindOnWay(pc', dwo', glpLineBuf', g_dwLBOffBgn', g_dwLBOffEnd', lpVerb',
                           dwtmax', Last(shown').out)
           \/ pc' = "next" /\ Has(FlattenSeq(Last(shown').out))
  PROVE  FindInv'
<1>1. /\ find # <<>> /\ \A o \in calls : StandsHere(o)
      /\ shown \in Seq(Shows) /\ shown # <<>> /\ CallRight
      /\ Last(shown).off = call.off /\ Last(shown).begin = call.begin
      /\ \A i \in Served : Honoured(shown[i].off, shown[i].out)
  BY DEF FindInv
<1>2. PICK n : n = Len(shown)
  OBVIOUS
<1>3. n \in Nat \ {0} /\ DOMAIN shown = 1..n
  BY <1>1, <1>2
<1>4. /\ shown' \in Seq(Shows) /\ Len(shown') = n /\ DOMAIN (shown') = 1..n
      /\ \A i \in 1..(n - 1) : shown'[i] = shown[i]
      /\ Last(shown').off = Last(shown).off /\ Last(shown').begin = Last(shown).begin
      /\ Last(shown') = shown'[n] /\ shown' # <<>>
  <2>1. /\ shown' \in Seq(Shows) /\ Len(shown') = n
        /\ \A i \in 1..(n - 1) : shown'[i] = shown[i]
        /\ Last(shown').off = Last(shown).off /\ Last(shown').begin = Last(shown).begin
    BY <1>2 DEF Following
  <2> QED
    BY <1>3, <2>1 DEF Last
<1>5. ASSUME NEW i \in Served' PROVE Honoured(shown'[i].off, shown'[i].out)
  <2>1. i \in 1..n /\ (i < n \/ pc' = "next")
    BY <1>4, <1>5 DEF Served
  <2>2. CASE i < n
    <3>1. i \in Served /\ i \in 1..(n - 1)
      BY <1>2, <1>3, <2>1, <2>2 DEF Served
    <3> QED
      BY <1>1, <1>4, <3>1
  <2>3. CASE ~(i < n)
    <3>1. i = n /\ pc' = "next"
      BY <1>3, <2>1, <2>3
    <3>2. Honoured(call.off, Last(shown').out)
      BY <3>1 DEF Honoured
    <3> QED
      BY <1>1, <1>4, <3>1, <3>2
  <2> QED
    BY <2>2, <2>3
<1>6. \A i \in Served' : Honoured(shown[i].off, shown[i].out)'
  BY <1>5, FileUnmoved
<1>7. \A o \in calls' : StandsHere(o)'
  BY <1>1, FileUnmoved
<1>8. CallRight' /\ (find # <<>>)'
  BY <1>1, FindUnmoved
<1>9. (Last(shown).off = call.off)' /\ (Last(shown).begin = call.begin)' /\ (shown # <<>>)'
  BY <1>1, <1>4
<1>10. pc' # "next" /\ Promised(call.off)' =>
         FindOnWay(pc, dwo, glpLineBuf, g_dwLBOffBgn, g_dwLBOffEnd, lpVerb, dwtmax,
                   Last(shown).out)'
  <2> SUFFICES ASSUME pc' # "next", Promised(call.off)'
               PROVE  FindOnWay(pc, dwo, glpLineBuf, g_dwLBOffBgn, g_dwLBOffEnd, lpVerb, dwtmax,
                                Last(shown).out)'
    OBVIOUS
  <2>1. Promised(call.off)
    BY FileUnmoved
  <2>2. FindOnWay(pc', dwo', glpLineBuf', g_dwLBOffBgn', g_dwLBOffEnd', lpVerb',
                  dwtmax', Last(shown').out)
    BY <2>1
  <2> QED
    BY <2>2, FindUnmoved
<1> QED
  BY <1>4, <1>6, <1>7, <1>8, <1>9, <1>10 DEF FindInv

LEMMA InitFind == Init => FindInv
<1> SUFFICES ASSUME Init PROVE FindInv
  OBVIOUS
<1>1. PICK i \in Inputs : file = i.file /\ find = i.find
  BY DEF Init
<1>2. file \in Seq(Byte) /\ find \in Seq(Byte \ {0, LF, CR}) \ {<<>>}
  BY <1>1, InputsAssumption
<1>3. \A o \in calls : StandsHere(o)
  <2>1. calls \subseteq Found(file, find)
    BY DEF Init, FirstInLine
  <2> QED
    BY <1>2, <2>1, FoundHere DEF StandsHere, Holds
<1>4. shown = <<>> /\ pc = "next" /\ shown \in Seq(Shows)
  BY DEF Init
<1>5. Served = {}
  BY <1>4 DEF Served
<1> QED
  BY <1>2, <1>3, <1>4, <1>5 DEF FindInv

(* A call is begun.                                                        *)
LEMMA NextCallFind ==
  ASSUME TypeOK, Finds, FindInv, NextCall
  PROVE  FindInv'
<1>1. PICK o \in calls : call' = CallAt(o) /\ calls' = calls \ {o}
  BY DEF NextCall
<1>2. /\ find # <<>> /\ \A q \in calls : StandsHere(q)
      /\ shown \in Seq(Shows) /\ pc = "next"
      /\ \A i \in Served : Honoured(shown[i].off, shown[i].out)
  BY DEF FindInv, NextCall
<1>3. file \in Seq(Byte) /\ NoLoneCR(file) /\ o \in 0..(Len(file) - 1) /\ o \in Nat
  BY <1>1 DEF TypeOK, Finds
<1>4. ~IsBreak(At(o)) /\ Len(find) \in Nat \ {0}
  <2>1. o \in o..(o + Len(find) - 1) /\ Len(find) \in Nat \ {0}
    BY <1>1, <1>2, <1>3, FindBytes
  <2> QED
    BY <1>1, <1>2, <1>3, <2>1, FindBytes, LettersShown
<1>5. PICK b : b = LineBegin(file, o) /\ b \in Nat /\ InOneLine(o, b)
  BY <1>3, <1>4, CallInLine
<1>6. call'.off = o /\ call'.begin = b
      /\ call'.end = IF Len(find) = 1 THEN o ELSE o + Len(find)
  BY <1>1, <1>5 DEF CallAt
<1>7. PICK r : r = [off |-> o, begin |-> b, out |-> <<>>]
  OBVIOUS
<1>8. r \in Shows /\ r.off = o /\ r.begin = b /\ r.out = <<>>
  <2>1. <<>> \in Seq(Seq(Byte))
    OBVIOUS
  <2> QED
    BY <1>3, <1>5, <1>7, <2>1 DEF Shows
<1>9. shown' = Append(shown, r)
  BY <1>6, <1>7 DEF NextCall
<1>10. PICK n : n = Len(shown)
  OBVIOUS
<1>11. /\ n \in Nat /\ DOMAIN shown = 1..n /\ shown' \in Seq(Shows) /\ shown' # <<>>
       /\ Len(shown') = n + 1 /\ DOMAIN (shown') = 1..(n + 1) /\ shown'[n + 1] = r
       /\ \A i \in 1..n : shown'[i] = shown[i]
  <2>1. /\ shown' \in Seq(Shows) /\ shown' # <<>>
        /\ Len(shown') = n + 1 /\ shown'[n + 1] = r
        /\ \A i \in 1..n : shown'[i] = shown[i]
    BY <1>2, <1>8, <1>9, <1>10, AppendProperties
  <2> QED
    BY <1>2, <1>10, <2>1, LenProperties
<1>12. Last(shown') = r
  BY <1>11 DEF Last
<1>13. /\ pc' = (IF sw.bin THEN "getbin" ELSE "get") /\ file' = file /\ find' = find /\ sw' = sw
       /\ dwo' = b /\ glpLineBuf' = <<>> /\ lpVerb' = <<>> /\ dwtmax' = gdwMax1Line
  BY <1>6 DEF NextCall, inputs
<1>15. \A i \in Served' : Honoured(shown[i].off, shown[i].out)'
  <2>1. ASSUME NEW i \in Served' PROVE Honoured(shown'[i].off, shown'[i].out)
    <3>1. i \in 1..(n + 1) /\ i < n + 1
      BY <1>11, <1>13, <2>1 DEF Served
    <3>2. i \in 1..n
      BY <1>11, <3>1
    <3>3. i \in Served
      BY <1>2, <1>11, <3>2 DEF Served
    <3> QED
      BY <1>2, <1>11, <3>2, <3>3
  <2> QED
    BY <1>13, <2>1, FileUnmoved
<1>16. (find # <<>>)' /\ \A q \in calls' : StandsHere(q)'
  BY <1>1, <1>2, <1>13, FileUnmoved
<1>17. CallRight'
  <2>1. StandsHere(call.off)' /\ InOneLine(call.off, call.begin)'
    BY <1>1, <1>2, <1>5, <1>6, <1>13, FileUnmoved
  <2>2. (call.end = IF Len(find) = 1 THEN call.off ELSE call.off + Len(find))'
    BY <1>6, <1>13
  <2> QED
    BY <2>1, <2>2 DEF CallRight
<1>18. FindOnWay(pc, dwo, glpLineBuf, g_dwLBOffBgn, g_dwLBOffEnd, lpVerb, dwtmax,
                 Last(shown).out)'
  <2>1. b <= o /\ o \in Nat /\ Len(find) \in Nat
    BY <1>3, <1>4, <1>5 DEF InOneLine
  <2>2. ~(o < b) /\ ~(o + Len(find) < b)
    BY <1>5, <2>1
  <2>3. FindGot(dwo, glpLineBuf, g_dwLBOffBgn, g_dwLBOffEnd)'
    <3>1. call'.begin <= dwo' /\ glpLineBuf' = <<>>
      BY <1>5, <1>6, <1>13
    <3>2. ~(call'.off < dwo') /\ ~(call'.off + Len(find') < dwo')
      BY <1>6, <1>13, <2>2
    <3> QED
      BY <3>1, <3>2 DEF FindGot
  <2>4. pc' \in {"getbin", "get"} /\ (pc' = "get" => ~sw'.bin) /\ (pc' = "getbin" => sw'.bin)
    BY <1>13
  <2> QED
    BY <1>8, <1>12, <1>13, <2>3, <2>4 DEF FindOnWay
<1>19. (Last(shown).off = call.off)' /\ (Last(shown).begin = call.begin)'
  BY <1>6, <1>8, <1>12
<1> QED
  BY <1>11, <1>15, <1>16, <1>17, <1>18, <1>19 DEF FindInv

-----------------------------------------------------------------------------
(* GettheLine: a byte goes into the line buffer, ...                       *)
LEMMA GotByte ==
  ASSUME CallKnown, NEW o \in Nat, NEW buf \in Seq(Byte), NEW lo \in Nat, NEW hi \in Nat,
         NEW x \in Seq(Byte), Len(x) >= 1, FindGot(o, buf, lo, hi),
         o \in call.off..(call.off + Len(find) - 1) => x = <<At(o)>>
  PROVE  \A lo2, hi2 :
           /\ lo2 = IF o = call.off THEN Len(buf \o x) - 1 ELSE lo
           /\ hi2 = IF o = call.end THEN Len(buf \o x) - 1 ELSE hi
           => FindGot(o + 1, buf \o x, lo2, hi2)
<1> SUFFICES ASSUME NEW lo2, NEW hi2,
                    lo2 = IF o = call.off THEN Len(buf \o x) - 1 ELSE lo,
                    hi2 = IF o = call.end THEN Len(buf \o x) - 1 ELSE hi
             PROVE  FindGot(o + 1, buf \o x, lo2, hi2)
  OBVIOUS
<1>1. PICK u, n, off, m, w : u = buf \o x /\ n = Len(find) /\ off = call.off /\ m = Len(buf)
                             /\ w = Len(u)
  OBVIOUS
<1>2. u \in Seq(Byte) /\ w \in Nat /\ w >= m + 1 /\ m \in Nat
  <2>1. u \in Seq(Byte) /\ w = Len(buf) + Len(x)
    BY <1>1, ConcatProperties
  <2> QED
    BY <1>1, <2>1, LenProperties
<1>3. n \in Nat \ {0} /\ off \in Nat /\ call.begin \in Nat /\ call.begin <= o
      /\ call.end = IF n = 1 THEN off ELSE off + n
  BY <1>1 DEF CallKnown, CallRight, FindGot
<1>4. /\ off < o /\ o <= off + n => Holds(buf, lo, o - off) /\ lo + (o - off) = m
      /\ off + n < o => Holds(buf, lo, n) /\ (n > 1 => lo + n <= hi /\ hi <= m)
  BY <1>1 DEF FindGot
<1>5. /\ lo2 = (IF o = off THEN w - 1 ELSE lo)
      /\ hi2 = (IF o = call.end THEN w - 1 ELSE hi)
      /\ lo \in Nat /\ hi \in Nat /\ o \in Nat
  BY <1>1
<1>6. call.begin <= o + 1 /\ o + 1 # call.begin
  BY ONLY <1>3, <1>5
<1>7. ASSUME off <= o, o < off + n
      PROVE  Holds(u, lo2, (o + 1) - off) /\ lo2 + ((o + 1) - off) = w
  <2>1. PICK k, c : k = o - off /\ c = At(o)
    OBVIOUS
  <2>2. o \in off..(off + n - 1) /\ k \in Nat /\ (o + 1) - off = k + 1
    BY ONLY <1>3, <1>5, <1>7, <2>1
  <2>3. x = <<c>> /\ c = find[k + 1] /\ c \in Byte
    <3>1. At(o) = find[(o - off) + 1] /\ At(o) \in Byte
      BY <1>1, <2>2 DEF CallKnown
    <3> QED
      BY <1>1, <2>1, <2>2, <3>1
  <2>4. ASSUME NEW l \in Nat, l + k = m, k = 0 \/ Holds(buf, l, k)
        PROVE  Holds(u, l, k + 1) /\ l + k + 1 = w
    BY <1>1, <2>2, <2>3, <2>4, HoldsNext
  <2>5. CASE o = off
    <3>1. k = 0 /\ m + k = m
      BY ONLY <1>2, <1>3, <2>1, <2>5
    <3>2. Holds(u, m, k + 1) /\ m + k + 1 = w
      BY <1>2, <2>4, <3>1
    <3>3. lo2 = m /\ lo2 + (k + 1) = w
      BY ONLY <1>2, <1>5, <2>2, <2>5, <3>1, <3>2
    <3> QED
      BY <2>2, <3>2, <3>3
  <2>6. CASE o # off
    <3>1. off < o /\ o <= off + n /\ lo2 = lo
      BY ONLY <1>3, <1>5, <1>7, <2>6
    <3>2. Holds(buf, lo, k) /\ lo + k = m
      BY <1>4, <2>1, <3>1
    <3>3. Holds(u, lo, k + 1) /\ lo + k + 1 = w
      BY <2>4, <3>2
    <3>4. lo2 + (k + 1) = w
      BY ONLY <1>2, <1>5, <2>2, <3>1, <3>3
    <3> QED
      BY <2>2, <3>1, <3>3, <3>4
  <2> QED
    BY <2>5, <2>6
<1>8. ASSUME off + n <= o
      PROVE  Holds(u, lo2, n) /\ (n > 1 => lo2 + n <= hi2 /\ hi2 <= w)
  <2>1. lo2 = lo
    BY ONLY <1>3, <1>5, <1>8
  <2>2. o = off + n => off < o /\ o <= off + n /\ o - off = n
    BY ONLY <1>3, <1>5
  <2>3. o # off + n => off + n < o
    BY ONLY <1>3, <1>5, <1>8
  <2>4. Holds(buf, lo, n)
    BY <1>4, <2>2, <2>3
  <2>5. Holds(u, lo, n)
    BY <1>1, <1>3, <2>4, HoldsMore
  <2>6. ASSUME n > 1 PROVE lo2 + n <= hi2 /\ hi2 <= w
    <3>1. call.end = off + n
      BY ONLY <1>3, <2>6
    <3>2. CASE o = off + n
      <4>1. hi2 = w - 1 /\ lo + n = m
        BY <1>4, <1>5, <2>2, <3>1, <3>2
      <4> QED
        BY ONLY <1>2, <1>3, <1>5, <2>1, <4>1
    <3>3. CASE o # off + n
      <4>1. hi2 = hi /\ lo + n <= hi /\ hi <= m
        BY <1>4, <1>5, <2>3, <2>6, <3>1, <3>3
      <4> QED
        BY ONLY <1>2, <1>3, <1>5, <2>1, <4>1
    <3> QED
      BY <3>2, <3>3
  <2> QED
    BY <2>1, <2>5, <2>6
<1>9. off < o + 1 /\ o + 1 <= off + n =>
        Holds(u, lo2, (o + 1) - off) /\ lo2 + ((o + 1) - off) = w
  <2>1. off < o + 1 /\ o + 1 <= off + n => off <= o /\ o < off + n
    BY ONLY <1>3, <1>5
  <2> QED
    BY <1>7, <2>1
<1>10. off + n < o + 1 => Holds(u, lo2, n) /\ (n > 1 => lo2 + n <= hi2 /\ hi2 <= w)
  <2>1. off + n < o + 1 => off + n <= o
    BY ONLY <1>3, <1>5
  <2> QED
    BY <1>8, <2>1
<1> QED
  BY <1>1, <1>6, <1>9, <1>10 DEF FindGot

(* ... an end of line stands only where the call begins, ...               *)
LEMMA BreakBefore ==
  ASSUME CallKnown, NEW o \in Nat, call.begin <= o, o < call.off + Len(find), IsBreak(At(o))
  PROVE  o = call.begin /\ o < call.off /\ PastBreak(o) = o + 1
<1>1. PICK n, off, b : n = Len(find) /\ off = call.off /\ b = call.begin
  OBVIOUS
<1>2. /\ n \in Nat \ {0} /\ off \in Nat /\ b \in Nat /\ b <= o /\ o < off + n
      /\ \A j \in (b + 1)..(off - 1) : ~IsBreak(At(j))
      /\ \A j \in off..(off + n - 1) : At(j) \in Byte /\ AlphaNumeric(At(j))
  BY <1>1 DEF CallKnown, CallRight, InOneLine
<1>3. \A j \in off..(off + n - 1) : ~IsBreak(At(j))
  BY <1>2, LettersShown
<1>4. o < off
  <2>1. ~(o < off) => o \in off..(off + n - 1)
    BY ONLY <1>2, o \in Nat
  <2> QED
    BY <1>3, <2>1
<1>5. o = b
  <2>1. o # b => o \in (b + 1)..(off - 1)
    BY ONLY <1>2, <1>4, o \in Nat
  <2> QED
    BY <1>2, <2>1
<1>6. ~IsBreak(At(o + 1))
  <2>1. o + 1 \in (b + 1)..(off - 1) \/ o + 1 \in off..(off + n - 1)
    BY ONLY <1>2, <1>4, <1>5, o \in Nat
  <2> QED
    BY <1>2, <1>3, <2>1
<1> QED
  BY <1>1, <1>4, <1>5, <1>6 DEF PastBreak, IsBreak

(* ... and at the end of the line the find is in the buffer.               *)
LEMMA GotLine ==
  ASSUME CallKnown, NEW o \in Nat, NEW buf, NEW lo, NEW hi, FindGot(o, buf, lo, hi),
         ~(o < Size) \/ (IsBreak(At(o)) /\ buf # <<>>)
  PROVE  LineGot(buf, lo, hi)
<1>1. PICK n, off : n = Len(find) /\ off = call.off
  OBVIOUS
<1>2. n \in Nat \ {0} /\ off \in Nat /\ off + n <= Size /\ Size \in Nat
  BY <1>1 DEF CallKnown
<1>3. /\ call.begin <= o /\ (o = call.begin => buf = <<>>)
      /\ off < o /\ o <= off + n => Holds(buf, lo, o - off)
      /\ off + n < o => Holds(buf, lo, n) /\ (n > 1 => lo + n <= hi /\ hi <= Len(buf))
  BY <1>1 DEF FindGot
<1>4. ~(o < off + n)
  <2>1. SUFFICES ASSUME o < off + n PROVE FALSE
    OBVIOUS
  <2>2. o < Size
    BY ONLY <1>2, <2>1, o \in Nat
  <2> QED
    BY <1>1, <1>3, <2>1, <2>2, BreakBefore
<1>5. CASE o = off + n
  <2>1. off < o /\ o <= off + n /\ o - off = n
    BY ONLY <1>2, <1>5
  <2>2. EndsLine(off)
    <3>1. ~(o < Size) => off + n >= Size
      BY ONLY <1>2, <1>5
    <3> QED
      BY <1>1, <1>5, <3>1 DEF EndsLine
  <2> QED
    BY <1>1, <1>3, <2>1, <2>2 DEF LineGot
<1>6. CASE o # off + n
  <2>1. off + n < o
    BY ONLY <1>2, <1>4, <1>6, o \in Nat
  <2> QED
    BY <1>1, <1>3, <2>1 DEF LineGot
<1> QED
  BY <1>5, <1>6

LEMMA GetFind ==
  ASSUME TypeOK, Finds, FindInv, GetBreak \/ GetByte \/ GetDone
  PROVE  FindInv'
<1>1. /\ pc = "get" /\ pc # "next" /\ file' = file /\ find' = find /\ sw' = sw
      /\ calls' = calls /\ call' = call /\ shown' = shown /\ lpVerb' = lpVerb
      /\ dwtmax' = dwtmax
  BY DEF GetBreak, GetByte, GetDone, Frame, inputs, text
<1>2. /\ Following(shown) /\ CallKnown
      /\ glpLineBuf \in Seq(Byte) /\ dwo \in Nat
      /\ g_dwLBOffBgn \in Nat /\ g_dwLBOffEnd \in Nat
      /\ Promised(call.off) =>
           FindOnWay(pc, dwo, glpLineBuf, g_dwLBOffBgn, g_dwLBOffEnd, lpVerb, dwtmax,
                     Last(shown).out)
  BY <1>1, FindTypes
<1> DEFINE Goal == FindOnWay(pc', dwo', glpLineBuf', g_dwLBOffBgn', g_dwLBOffEnd', lpVerb',
                             dwtmax', Last(shown').out)
<1>3. SUFFICES ASSUME Promised(call.off) PROVE pc' # "next" /\ Goal
  <2>1. (Promised(call.off) => pc' # "next" /\ Goal) => FindInv'
    BY <1>1, <1>2, FindStep
  <2> QED
    BY <2>1
<1>4. /\ lpVerb = <<>> /\ Last(shown).out = <<>> /\ ~sw.bin
      /\ FindGot(dwo, glpLineBuf, g_dwLBOffBgn, g_dwLBOffEnd)
  BY <1>1, <1>2, <1>3 DEF FindOnWay
<1>5. CASE GetBreak
  <2>1. /\ IsBreak(At(dwo)) /\ glpLineBuf = <<>> /\ dwo' = PastBreak(dwo) /\ pc' = pc
        /\ glpLineBuf' = glpLineBuf /\ g_dwLBOffBgn' = g_dwLBOffBgn
        /\ g_dwLBOffEnd' = g_dwLBOffEnd
    BY <1>5 DEF GetBreak, Getting, buffer
  <2>2. PICK n, off, lo : n = Len(find) /\ off = call.off /\ lo = g_dwLBOffBgn
    OBVIOUS
  <2>3. /\ n \in Nat \ {0} /\ off \in Nat /\ call.begin <= dwo /\ call.begin \in Nat
        /\ lo \in Nat /\ dwo \in Nat
        /\ off < dwo /\ dwo <= off + n => lo + (dwo - off) = 0
        /\ off + n < dwo => lo + n <= 0
    <3>1. Len(glpLineBuf) = 0
      BY <2>1
    <3> QED
      BY <1>2, <1>4, <2>2, <3>1 DEF CallKnown, FindGot, Holds
  <2>4. dwo < off + n
    BY ONLY <2>3
  <2>5. dwo = call.begin /\ dwo < off /\ dwo' = dwo + 1
    BY <1>2, <2>1, <2>2, <2>3, <2>4, BreakBefore
  <2>6. call.begin <= dwo' /\ dwo' # call.begin /\ ~(off < dwo') /\ ~(off + n < dwo')
    BY <1>2, <2>3, <2>5
  <2>7. FindGot(dwo', glpLineBuf', g_dwLBOffBgn', g_dwLBOffEnd')
    BY <2>1, <2>2, <2>6 DEF FindGot
  <2> QED
    BY <1>1, <1>4, <2>1, <2>7 DEF FindOnWay
<1>6. CASE GetByte
  <2>1. PICK c, marks, x : /\ c = GetChar(At(dwo)) /\ marks = GetMarks(At(dwo))
                           /\ x = Append(marks, c)
    OBVIOUS
  <2>2. /\ dwo < Size /\ pc' = pc /\ dwo' = dwo + 1
        /\ glpLineBuf' = Append(glpLineBuf \o marks, c)
        /\ g_dwLBOffBgn' = IF dwo = call.off THEN Len(glpLineBuf') - 1 ELSE g_dwLBOffBgn
        /\ g_dwLBOffEnd' = IF dwo = call.end THEN Len(glpLineBuf') - 1 ELSE g_dwLBOffEnd
    BY <1>6, <2>1 DEF GetByte, Getting, Store
  <2>3. marks \in Seq(Byte) /\ c \in Byte /\ x \in Seq(Byte) /\ Len(x) >= 1
    <3>1. At(dwo) \in Byte
      BY <1>2, <2>2, AtType DEF TypeOK
    <3>2. marks \in Seq(Byte) /\ c \in Byte
      <4>1. <<>> \in Seq(Byte) /\ <<CARET>> \in Seq(Byte)
        BY DEF Byte, CARET
      <4>2. marks \in Seq(Byte)
        BY <2>1, <4>1 DEF GetMarks
      <4>3. c \in Byte
        <5>1. PICK d : d = At(dwo) /\ d \in 0..255
          BY <3>1 DEF Byte
        <5>2. (d + AT) % 256 \in 0..255
          BY ONLY <5>1 DEF AT
        <5>3. c = d \/ c = (d + AT) % 256
          BY <2>1, <5>1 DEF GetChar
        <5> QED
          BY <5>1, <5>2, <5>3 DEF Byte
      <4> QED
        BY <4>2, <4>3
    <3>3. x \in Seq(Byte) /\ Len(x) = Len(marks) + 1 /\ Len(marks) \in Nat
      BY <2>1, <3>2, AppendProperties
    <3> QED
      BY <3>2, <3>3
  <2>4. glpLineBuf' = glpLineBuf \o x
    <3>1. glpLineBuf \o marks \in Seq(Byte) /\ <<c>> \in Seq(Byte)
      BY <1>2, <2>3, ConcatProperties
    <3>2. Append(glpLineBuf \o marks, c) = (glpLineBuf \o marks) \o <<c>>
      BY <2>3, <3>1, AppendIsConcat
    <3>3. x = marks \o <<c>>
      BY <2>1, <2>3, AppendIsConcat
    <3> QED
      BY <1>2, <2>2, <2>3, <3>1, <3>2, <3>3, ConcatAssociative
  <2>5. dwo \in call.off..(call.off + Len(find) - 1) => x = <<At(dwo)>>
    <3> SUFFICES ASSUME dwo \in call.off..(call.off + Len(find) - 1) PROVE x = <<At(dwo)>>
      OBVIOUS
    <3>1. At(dwo) \in Byte /\ AlphaNumeric(At(dwo))
      BY <1>2 DEF CallKnown
    <3>2. marks = <<>> /\ c = At(dwo)
      BY <2>1, <3>1, LettersShown
    <3> QED
      BY <2>1, <3>2
  <2>6. FindGot(dwo', glpLineBuf', g_dwLBOffBgn', g_dwLBOffEnd')
    BY <1>2, <1>4, <2>2, <2>3, <2>4, <2>5, GotByte
  <2> QED
    BY <1>1, <1>4, <2>2, <2>6 DEF FindOnWay
<1>7. CASE GetDone
  <2>1. /\ pc' = (IF sw.L = "limit" THEN "limit" ELSE "put") /\ dwo' = call.begin
        /\ ~(dwo < Size) \/ (IsBreak(At(dwo)) /\ glpLineBuf # <<>>)
        /\ glpLineBuf' = glpLineBuf /\ g_dwLBOffBgn' = g_dwLBOffBgn
        /\ g_dwLBOffEnd' = g_dwLBOffEnd
    BY <1>7 DEF GetDone, Getting, buffer
  <2>2. LineGot(glpLineBuf, g_dwLBOffBgn, g_dwLBOffEnd)
    BY <1>2, <1>4, <2>1, GotLine
  <2>3. FindComes("put", call.begin, <<>>, <<>>)
    <3>1. PICK n, off, b : n = Len(find) /\ off = call.off /\ b = call.begin
      OBVIOUS
    <3>2. n \in Nat \ {0} /\ off \in Nat /\ b \in Nat /\ b <= off
      BY <1>2, <3>1 DEF CallKnown, CallRight, InOneLine
    <3>3. b < off + n /\ ~(b - off > 0) /\ b <= b
      BY ONLY <3>2
    <3> QED
      BY <3>1, <3>3 DEF FindComes, UpTo
  <2>4. CASE sw.L = "limit"
    BY <1>1, <1>4, <2>1, <2>2, <2>4 DEF FindOnWay
  <2>5. CASE sw.L # "limit"
    BY <1>1, <1>4, <2>1, <2>3, <2>5 DEF FindOnWay
  <2> QED
    BY <2>4, <2>5
<1> QED
  BY <1>5, <1>6, <1>7

-----------------------------------------------------------------------------
(* A piece of the line buffer around the find has it.                      *)
LEMMA CutHas ==
  ASSUME NEW n, n = Len(find), n \in Nat, glpLineBuf \in Seq(Byte), NEW b \in Nat, NEW e \in Nat
  PROVE  /\ Cut(b, e) \in Seq(Byte)
         /\ \A lo \in Nat : Holds(glpLineBuf, lo, n) /\ b <= lo /\ lo + n <= e => Has(Cut(b, e))
<1>1. PICK m, y, x, t : m = Len(glpLineBuf) /\ y = (IF e < m THEN e ELSE m) /\ x = b + 1
                        /\ t = SubSeq(glpLineBuf, x, y)
  OBVIOUS
<1>2. m \in Nat /\ x \in Int /\ y \in Int /\ y <= m
  BY <1>1
<1>3. /\ t \in Seq(Byte)
      /\ Len(t) = (IF x <= y THEN y - x + 1 ELSE 0)
      /\ \A i \in 1..(y - x + 1) : t[i] = glpLineBuf[x + i - 1]
  <2>1. \A i \in x..y : i \in 1..m
    BY <1>1, <1>2
  <2>2. \A i \in 1..m : glpLineBuf[i] \in Byte
    BY <1>1
  <2> QED
    BY <1>1, <1>2, <2>1, <2>2, SubSeqProperties
<1>4. ASSUME NEW lo \in Nat, Holds(glpLineBuf, lo, n), b <= lo, lo + n <= e PROVE Has(t)
  <2>1. lo + n <= m /\ \A i \in 1..n : glpLineBuf[lo + i] = find[i]
    BY <1>1, <1>4 DEF Holds
  <2>2. lo + n <= y
    BY <1>1, <1>2, <1>4, <2>1
  <2>3. PICK l, k : l = lo - b /\ k = y - x + 1
    OBVIOUS
  <2>4. n \in Nat /\ b \in Nat /\ b <= lo /\ x = b + 1 /\ lo \in Nat /\ y \in Int
    BY <1>1, <1>2, <1>4
  <2>5. l \in Nat /\ l + n <= k /\ (x <= y \/ k = 0 \/ n = 0)
    BY ONLY <2>2, <2>3, <2>4
  <2>6. l + n <= Len(t)
    <3>1. CASE x <= y
      BY <1>3, <2>3, <2>5, <3>1
    <3>2. CASE ~(x <= y)
      <4>1. l + n <= 0
        BY ONLY <2>2, <2>3, <2>4, <3>2
      <4> QED
        BY <1>3, <3>2, <4>1
    <3> QED
      BY <3>1, <3>2
  <2>7. ASSUME NEW i \in 1..n PROVE t[l + i] = find[i]
    <3>1. PICK j : j = l + i
      OBVIOUS
    <3>2. j \in 1..k /\ x + j - 1 = lo + i
      BY ONLY <2>3, <2>4, <2>5, <3>1, i \in 1..n
    <3> QED
      BY <1>3, <2>1, <2>3, <3>1, <3>2
  <2> QED
    BY <1>1, <2>5, <2>6, <2>7 DEF Holds, Has
<1> QED
  BY <1>1, <1>3, <1>4 DEF Cut

LEMMA PieceHas ==
  ASSUME TypeOK, NEW n, n = Len(find), n \in Nat
  PROVE  /\ LimitPiece \in Seq(Byte)
         /\ n > 1 /\ Holds(glpLineBuf, g_dwLBOffBgn, n) /\ g_dwLBOffBgn + n <= g_dwLBOffEnd =>
              Has(LimitPiece)
<1>1. PICK lo, hi, half, b, left, to, right :
        /\ lo = g_dwLBOffBgn /\ hi = g_dwLBOffEnd /\ half = HalfFind
        /\ b = LimitBegin /\ left = sw.left /\ to = sw.right
        /\ right = IF to > half THEN to - half ELSE 0
  OBVIOUS
<1>2. /\ n \in Nat /\ lo \in Nat /\ hi \in Nat /\ left \in Nat /\ to \in Nat
      /\ glpLineBuf \in Seq(Byte)
  BY <1>1 DEF TypeOK, Switch
<1>3. half \in Nat
  BY <1>1 DEF HalfFind
<1>4. b \in Nat /\ b <= lo
  <2>1. PICK back : back = left - half
    OBVIOUS
  <2>2. b = IF lo = 0 \/ back <= 0 THEN lo ELSE IF back > lo THEN 0 ELSE lo - back
    BY <1>1, <2>1 DEF LimitBegin
  <2> QED
    BY ONLY <1>2, <1>3, <2>1, <2>2
<1>5. right \in Nat
  <2>1. right = IF to > half THEN to - half ELSE 0
    BY <1>1
  <2> QED
    BY ONLY <1>2, <1>3, <2>1
<1>6. PICK e : e = IF b < hi THEN hi ELSE b
  OBVIOUS
<1>7. e \in Nat /\ e + right \in Nat
  BY <1>2, <1>4, <1>5, <1>6
<1>8. LimitPiece \in {Cut(lo, hi), Cut(b, e + right), Cut(b, e)}
  BY <1>1, <1>6 DEF LimitPiece
<1>9. \A c \in Nat, d \in Nat :
        /\ Cut(c, d) \in Seq(Byte)
        /\ Holds(glpLineBuf, lo, n) /\ c <= lo /\ lo + n <= d => Has(Cut(c, d))
  BY <1>2, CutHas
<1>10. ASSUME n > 1, Holds(glpLineBuf, lo, n), lo + n <= hi PROVE Has(LimitPiece)
  <2>1. lo <= lo /\ lo + n <= e /\ lo + n <= e + right
    BY ONLY <1>2, <1>4, <1>5, <1>6, <1>10
  <2>2. Has(Cut(lo, hi)) /\ Has(Cut(b, e + right)) /\ Has(Cut(b, e))
    BY <1>2, <1>4, <1>7, <1>9, <1>10, <2>1
  <2> QED
    BY <1>8, <2>2
<1>11. LimitPiece \in Seq(Byte)
  BY <1>2, <1>4, <1>7, <1>8, <1>9
<1> QED
  BY <1>1, <1>10, <1>11

LEMMA LimitFind ==
  ASSUME TypeOK, Finds, FindInv, Limit
  PROVE  FindInv'
<1>1. /\ pc = "limit" /\ pc # "next" /\ file' = file /\ find' = find /\ sw' = sw
      /\ calls' = calls /\ call' = call /\ lpVerb' = lpVerb /\ dwo' = dwo
      /\ dwtmax' = dwtmax
  BY DEF Limit, Frame, inputs, text
<1>2. /\ shown \in Seq(Shows) /\ shown # <<>> /\ Last(shown).out \in Seq(Seq(Byte))
      /\ Following(shown) /\ CallKnown
      /\ glpLineBuf \in Seq(Byte) /\ dwo \in Nat
      /\ g_dwLBOffBgn \in Nat /\ g_dwLBOffEnd \in Nat
      /\ Promised(call.off) =>
           FindOnWay(pc, dwo, glpLineBuf, g_dwLBOffBgn, g_dwLBOffEnd, lpVerb, dwtmax,
                     Last(shown).out)
  BY <1>1, FindTypes
<1>3. PICK n, off, b : n = Len(find) /\ off = call.off /\ b = call.begin
  OBVIOUS
<1>4. n \in Nat \ {0} /\ off \in Nat /\ b \in Nat /\ b <= off
  BY <1>2, <1>3 DEF CallKnown, CallRight, InOneLine
<1>5. Promised(call.off) =>
        /\ lpVerb = <<>> /\ Last(shown).out = <<>> /\ ~sw.bin /\ sw.L = "limit"
        /\ dwo = call.begin
        /\ Holds(glpLineBuf, g_dwLBOffBgn, n)
        /\ dwMaxOut = 0 \/ (n > 1 /\ g_dwLBOffBgn + n <= g_dwLBOffEnd)
  BY <1>1, <1>2, <1>3 DEF FindOnWay, LineGot, Promised, dwMaxOut
<1>6. ASSUME NEW t \in Seq(Byte), Out(t), pc' = "next", Promised(call.off) => Has(t)
      PROVE  FindInv'
  <2>1. Append(Last(shown).out, t) \in Seq(Seq(Byte))
    BY <1>2, AppendProperties
  <2>2. Following(shown') /\ Last(shown').out = Append(Last(shown).out, t)
    BY <1>2, <1>6, <2>1, ShownMore
  <2>3. FlattenSeq(Append(<<>>, t)) = t
    <3>1. <<>> \in Seq(Seq(Byte))
      OBVIOUS
    <3> QED
      BY <3>1, JoinedMore
  <2>4. Promised(call.off) => Has(FlattenSeq(Last(shown').out))
    BY <1>5, <1>6, <2>2, <2>3
  <2> QED
    BY <1>1, <1>6, <2>2, <2>4, FindStep
<1>7. CASE dwMaxOut = 0
  <2>1. Out(glpLineBuf) /\ pc' = "next"
    BY <1>7 DEF Limit
  <2>2. Promised(call.off) => Has(glpLineBuf)
    BY <1>2, <1>3, <1>5 DEF Has
  <2> QED
    BY <1>2, <1>6, <2>1, <2>2
<1>8. CASE dwMaxOut # 0 /\ Len(glpLineBuf) > dwMaxOut /\ LimitPiece # <<>>
  <2>1. Out(LimitPiece) /\ pc' = "next"
    BY <1>8 DEF Limit
  <2>2. LimitPiece \in Seq(Byte) /\ (Promised(call.off) => Has(LimitPiece))
    BY <1>3, <1>4, <1>5, <1>8, PieceHas
  <2> QED
    BY <1>6, <2>1, <2>2
<1>9. CASE dwMaxOut # 0 /\ ~(Len(glpLineBuf) > dwMaxOut /\ LimitPiece # <<>>)
  <2>1. pc' = "put" /\ shown' = shown /\ glpLineBuf' = glpLineBuf
        /\ g_dwLBOffBgn' = g_dwLBOffBgn /\ g_dwLBOffEnd' = g_dwLBOffEnd
    BY <1>9 DEF Limit, buffer
  <2>2. FindComes("put", call.begin, <<>>, <<>>)
    <3>1. b < off + n /\ ~(b - off > 0) /\ b <= b
      BY ONLY <1>4
    <3> QED
      BY <1>3, <3>1 DEF FindComes, UpTo
  <2>3. Promised(call.off) =>
          FindOnWay(pc', dwo', glpLineBuf', g_dwLBOffBgn', g_dwLBOffEnd', lpVerb', dwtmax',
                    Last(shown').out)
    BY <1>1, <1>5, <2>1, <2>2 DEF FindOnWay
  <2> QED
    BY <1>1, <1>2, <2>1, <2>3, FindStep
<1> QED
  BY <1>7, <1>8, <1>9

-----------------------------------------------------------------------------
(* ShowLine: what one more byte adds to the text, ...                      *)
LEMMA ComesMore ==
  ASSUME CallKnown, NEW out \in Seq(Seq(Byte)), NEW t \in Seq(Byte), NEW x \in Seq(Byte),
         NEW o \in Nat, NEW p, FindComes(p, o, t, out),
         o \in call.off..(call.off + Len(find) - 1) => x = <<At(o)>>
  PROVE  \/ Has(Joined(out, t) \o x)
         \/ /\ o + 1 < call.off + Len(find)
            /\ UpTo(Joined(out, t) \o x, (o + 1) - call.off)
<1>1. PICK n, off, j : n = Len(find) /\ off = call.off /\ j = Joined(out, t)
  OBVIOUS
<1>2. n \in Nat \ {0} /\ off \in Nat /\ j \in Seq(Byte)
  BY <1>1, JoinedMore DEF CallKnown
<1>3. CASE Has(j)
  BY <1>1, <1>2, <1>3, HasMore
<1>4. CASE o < off + n /\ UpTo(j, o - off) /\ o < off
  <2>1. o + 1 < off + n \/ (o + 1 = off + n /\ o + 1 <= off)
    BY ONLY <1>2, <1>4, o \in Nat
  <2>2. o + 1 < off + n /\ ~((o + 1) - off > 0)
    BY ONLY <1>2, <1>4, o \in Nat
  <2> QED
    BY <1>1, <2>2 DEF UpTo
<1>5. CASE o < off + n /\ UpTo(j, o - off) /\ ~(o < off)
  <2>1. PICK k, c : k = o - off /\ c = At(o)
    OBVIOUS
  <2>2. /\ o \in off..(off + n - 1) /\ k \in Nat /\ (o + 1) - off = k + 1
        /\ o + 1 < off + n \/ k + 1 = n
    BY ONLY <1>2, <1>5, <2>1, o \in Nat
  <2>3. x = <<c>> /\ c = find[k + 1] /\ c \in Byte
    <3>1. At(o) = find[(o - off) + 1] /\ At(o) \in Byte
      BY <1>1, <2>2 DEF CallKnown
    <3> QED
      BY <1>1, <2>1, <2>2, <3>1
  <2>4. UpTo(j \o x, k + 1) /\ (k + 1 = n => Has(j \o x))
    BY <1>1, <1>2, <1>5, <2>1, <2>2, <2>3, UpToMore
  <2> QED
    BY <1>1, <2>2, <2>4
<1> QED
  BY <1>1, <1>3, <1>4, <1>5 DEF FindComes

(* ... whether it is put out or kept.                                      *)
LEMMA JoinedGrows ==
  ASSUME shown \in Seq(Shows), shown # <<>>, Last(shown).out \in Seq(Seq(Byte)),
         lpVerb \in Seq(Byte), NEW x \in Seq(Byte),
         \/ Out(lpVerb \o x) /\ lpVerb' = <<>>
         \/ shown' = shown /\ lpVerb' = lpVerb \o x
  PROVE  /\ Following(shown')
         /\ Joined(Last(shown').out, lpVerb') = Joined(Last(shown).out, lpVerb) \o x
<1>1. PICK t, out : t = lpVerb \o x /\ out = Last(shown).out
  OBVIOUS
<1>2. t \in Seq(Byte) /\ Joined(out, t) = Joined(out, lpVerb) \o x
  BY <1>1, ConcatProperties, JoinedMore
<1>3. CASE Out(t) /\ lpVerb' = <<>>
  <2>1. Append(out, t) \in Seq(Seq(Byte)) /\ Joined(Append(out, t), <<>>) = Joined(out, t)
    BY <1>1, <1>2, JoinedMore
  <2>2. Following(shown') /\ Last(shown').out = Append(out, t)
    BY <1>1, <1>3, <2>1, ShownMore
  <2> QED
    BY <1>1, <1>2, <1>3, <2>1, <2>2
<1>4. CASE shown' = shown /\ lpVerb' = t
  BY <1>1, <1>2, <1>4 DEF Following
<1> QED
  BY <1>1, <1>3, <1>4

(* A byte goes behind the text, with its marks; under -S at least the text *)
(* stays.                                                                  *)
LEMMA BytePutBehind ==
  ASSUME lpVerb \in Seq(Byte), NEW c \in Byte
  PROVE  \E x \in Seq(Byte) : WithByte(c) = lpVerb \o x /\ (AlphaNumeric(c) => x = <<c>>)
<1>1. PICK marks, d : marks = PutMarks(c) /\ d = PutChar(c)
  OBVIOUS
<1>2. marks \in Seq(Byte) /\ d \in Byte
  BY <1>1, LooksType
<1>3. PICK marked : marked = lpVerb \o marks /\ marked \in Seq(Byte)
  BY <1>2, ConcatProperties
<1>4. WithByte(c) \in {Append(marked, d), Append(marked, SPACE), marked}
  BY <1>1, <1>3 DEF WithByte
<1>5. ASSUME NEW e \in Byte
      PROVE  \E x \in Seq(Byte) : Append(marked, e) = lpVerb \o x
  <2>1. <<e>> \in Seq(Byte) /\ Append(marked, e) = marked \o <<e>>
    BY <1>3, AppendIsConcat
  <2>2. marks \o <<e>> \in Seq(Byte) /\ marked \o <<e>> = lpVerb \o (marks \o <<e>>)
    BY <1>2, <1>3, <2>1, ConcatProperties, ConcatAssociative
  <2> QED
    BY <2>1, <2>2
<1>6. CASE AlphaNumeric(c)
  <2>1. marks = <<>> /\ d = c /\ AlphaNumeric(d)
    BY <1>1, <1>6, LettersShown
  <2>2. marked = lpVerb
    BY <1>3, <2>1, ConcatEmptySeq
  <2>3. WithByte(c) = Append(lpVerb, c)
    BY <1>1, <1>3, <2>1, <2>2 DEF WithByte
  <2>4. <<c>> \in Seq(Byte) /\ Append(lpVerb, c) = lpVerb \o <<c>>
    BY AppendIsConcat
  <2> QED
    BY <2>3, <2>4
<1>7. CASE ~AlphaNumeric(c)
  <2>1. SPACE \in Byte
    BY DEF SPACE, Byte
  <2>2. \E x \in Seq(Byte) : WithByte(c) = lpVerb \o x
    BY <1>2, <1>3, <1>4, <1>5, <2>1
  <2> QED
    BY <1>7, <2>2
<1> QED
  BY <1>6, <1>7

-----------------------------------------------------------------------------
(* A binary file: the text is begun, ...                                   *)
LEMMA GetBinFind ==
  ASSUME TypeOK, Finds, FindInv, GetBinary \/ GetBinByte \/ GetBinDone
  PROVE  FindInv'
<1>1. /\ pc \in {"getbin", "getbyte"} /\ pc # "next" /\ file' = file /\ find' = find /\ sw' = sw
      /\ calls' = calls /\ call' = call /\ shown' = shown /\ lpVerb' = lpVerb
      /\ dwtmax' = dwtmax
  BY DEF GetBinary, GetBinByte, GetBinDone, Frame, inputs, text
<1>2. /\ Following(shown) /\ CallKnown
      /\ Promised(call.off) =>
           FindOnWay(pc, dwo, glpLineBuf, g_dwLBOffBgn, g_dwLBOffEnd, lpVerb, dwtmax,
                     Last(shown).out)
  BY <1>1, FindTypes
<1> DEFINE Goal == FindOnWay(pc', dwo', glpLineBuf', g_dwLBOffBgn', g_dwLBOffEnd', lpVerb',
                             dwtmax', Last(shown').out)
<1>3. SUFFICES ASSUME Promised(call.off) PROVE pc' # "next" /\ Goal
  <2>1. (Promised(call.off) => pc' # "next" /\ Goal) => FindInv'
    BY <1>1, <1>2, FindStep
  <2> QED
    BY <2>1
<1>4. lpVerb = <<>> /\ Last(shown).out = <<>> /\ sw.bin /\ dwtmax = gdwMax1Line
  BY <1>1, <1>2, <1>3 DEF FindOnWay
<1>5. CASE GetBinary \/ GetBinByte
  <2>1. pc' = "getbyte"
    BY <1>5 DEF GetBinary, GetBinByte
  <2> QED
    BY <1>1, <1>4, <2>1 DEF FindOnWay
<1>6. CASE GetBinDone
  <2>1. pc' = "putbin" /\ dwo' = BackUp.dwo
    BY <1>6 DEF GetBinDone
  <2>2. PICK n, off, d : n = Len(find) /\ off = call.off /\ d = BackUp.dwo
    OBVIOUS
  <2>3. n \in Nat \ {0} /\ off \in Nat /\ off + n <= Size /\ Size \in Nat
    BY <1>2, <2>2 DEF CallKnown
  <2>4. d \in Nat /\ d <= off
    <3>1. call.off < Size /\ ~Unseen(call.off)
      BY <1>3, <1>4, <2>2, <2>3 DEF Promised
    <3> QED
      BY <2>2, <3>1, BackUpIs
  <2>5. d < off + n /\ ~(d - off > 0) /\ d <= d /\ 0 = d - d
    BY ONLY <2>3, <2>4
  <2>6. FindComes("putbin", BackUp.dwo, <<>>, <<>>)
    BY <2>2, <2>5 DEF FindComes, UpTo
  <2> QED
    BY <1>1, <1>4, <2>1, <2>6 DEF FindOnWay
<1> QED
  BY <1>5, <1>6

(* ... bytes are put behind it, which cannot cut it before the find, ...   *)
LEMMA PutBinByteFind ==
  ASSUME TypeOK, Finds, FindInv, PutBinByte
  PROVE  FindInv'
<1>1. /\ pc = "putbin" /\ pc # "next" /\ file' = file /\ find' = find /\ sw' = sw
      /\ calls' = calls /\ call' = call /\ dwtmax' = dwtmax
      /\ dwo < ForwardEnd /\ Printable(At(dwo))
  BY DEF PutBinByte, Frame, inputs
<1>2. /\ shown \in Seq(Shows) /\ shown # <<>> /\ Last(shown).out \in Seq(Seq(Byte))
      /\ CallKnown /\ lpVerb \in Seq(Byte) /\ dwo \in Nat
      /\ Promised(call.off) =>
           FindOnWay(pc, dwo, glpLineBuf, g_dwLBOffBgn, g_dwLBOffEnd, lpVerb, dwtmax,
                     Last(shown).out)
  BY <1>1, FindTypes
<1>3. PICK x, line : x = <<At(dwo)>> /\ line = Append(lpVerb, At(dwo))
  OBVIOUS
<1>4. x \in Seq(Byte) /\ line = lpVerb \o x /\ Len(line) = Len(lpVerb) + 1
  <2>1. At(dwo) \in Byte
    <3>1. ForwardEnd \in Nat /\ ForwardEnd <= Size /\ Size \in Nat
      BY <1>2, ForwardEndType DEF CallKnown
    <3>2. dwo < Size
      BY <1>1, <1>2, <3>1
    <3> QED
      BY <1>2, <3>2, AtType DEF CallKnown
  <2> QED
    BY <1>2, <1>3, <2>1, AppendIsConcat, AppendProperties
<1>5. \/ /\ Out(line) /\ lpVerb' = <<>> /\ pc' \in {"putword", "finish"}
         /\ Len(line) > dwtmax /\ (Len(line) > gdwEnd1Line \/ At(dwo) = SPACE)
      \/ shown' = shown /\ lpVerb' = line /\ dwo' = dwo + 1 /\ pc' = pc
  BY <1>3 DEF PutBinByte
<1>6. /\ Following(shown')
      /\ Joined(Last(shown').out, lpVerb') = Joined(Last(shown).out, lpVerb) \o x
  BY <1>2, <1>4, <1>5, JoinedGrows
<1> DEFINE Goal == FindOnWay(pc', dwo', glpLineBuf', g_dwLBOffBgn', g_dwLBOffEnd', lpVerb',
                             dwtmax', Last(shown').out)
<1>7. SUFFICES ASSUME Promised(call.off) PROVE pc' # "next" /\ Goal
  <2>1. (Promised(call.off) => pc' # "next" /\ Goal) => FindInv'
    BY <1>1, <1>6, FindStep
  <2> QED
    BY <2>1
<1>8. sw.bin /\ dwtmax = gdwMax1Line /\ FindComes(pc, dwo, lpVerb, Last(shown).out)
  BY <1>1, <1>2, <1>7 DEF FindOnWay
<1>9. CASE Has(Joined(Last(shown).out, lpVerb) \o x)
  BY <1>1, <1>5, <1>6, <1>8, <1>9 DEF FindOnWay, FindComes
<1>10. CASE ~Has(Joined(Last(shown).out, lpVerb) \o x)
  <2>1. PICK n, off, d, l, o : /\ n = Len(find) /\ off = call.off /\ d = BackUp.dwo
                               /\ l = Len(line) /\ o = dwo
    OBVIOUS
  <2>2. ~Has(Joined(Last(shown).out, lpVerb))
    <3>1. Joined(Last(shown).out, lpVerb) \in Seq(Byte) /\ Len(find) \in Nat
      BY <1>2, JoinedMore DEF CallKnown
    <3> QED
      BY <1>4, <1>10, <3>1, HasMore
  <2>3. /\ Last(shown).out = <<>> /\ d <= o /\ l = (o - d) + 1
    <3>1. /\ Last(shown).out = <<>> /\ BackUp.dwo <= dwo /\ Len(lpVerb) = dwo - BackUp.dwo
      BY <1>1, <1>8, <2>2 DEF FindComes
    <3> QED
      BY <1>4, <2>1, <3>1
  <2>4. /\ o + 1 < off + n
        /\ UpTo(Joined(Last(shown).out, lpVerb) \o x, (o + 1) - off)
    BY <1>2, <1>3, <1>4, <1>8, <1>10, <2>1, ComesMore
  <2>5. /\ n \in Nat \ {0} /\ off \in Nat /\ off + n <= Size /\ Size \in Nat /\ o \in Nat
        /\ d \in Nat /\ d <= off /\ off - d <= g_dwBackup + 1
        /\ g_dwBackup \in Nat /\ gdwMax1Line \in Nat /\ g_dwBackup + n <= gdwMax1Line
    <3>1. n \in Nat \ {0} /\ off \in Nat /\ off + n <= Size /\ Size \in Nat /\ o \in Nat
      BY <1>2, <2>1 DEF CallKnown
    <3>2. call.off < Size /\ ~Unseen(call.off)
      BY <1>7, <1>8, <2>1, <3>1 DEF Promised
    <3>3. d \in Nat /\ d <= off /\ off - d <= g_dwBackup + 1
      BY <2>1, <3>2, BackUpIs
    <3> QED
      BY <2>1, <3>1, <3>3, SizesAssumption DEF Finds
  <2>6. l <= gdwMax1Line /\ d <= o + 1 /\ l = (o + 1) - d
    BY ONLY <2>3, <2>4, <2>5
  <2>7. ~(Len(line) > dwtmax)
    BY <1>8, <2>1, <2>3, <2>5, <2>6
  <2>8. shown' = shown /\ lpVerb' = line /\ dwo' = dwo + 1 /\ pc' = pc
    BY <1>5, <2>7
  <2>9. FindComes("putbin", dwo', lpVerb', Last(shown').out)
    BY <1>6, <2>1, <2>3, <2>4, <2>6, <2>8 DEF FindComes
  <2> QED
    BY <1>1, <1>8, <2>8, <2>9 DEF FindOnWay
<1> QED
  BY <1>9, <1>10

(* ... and it does not end before the find.                                *)
LEMMA PutBinEndFind ==
  ASSUME TypeOK, Finds, FindInv, PutBinEnd \/ PutWordByte \/ PutWordEnd
  PROVE  FindInv'
<1>1. /\ pc \in {"putbin", "putword"} /\ pc # "next"
      /\ file' = file /\ find' = find /\ sw' = sw
      /\ calls' = calls /\ call' = call /\ dwtmax' = dwtmax /\ shown' = shown
  BY DEF PutBinEnd, PutWordByte, PutWordEnd, Frame, inputs, text
<1>2. /\ shown \in Seq(Shows) /\ shown # <<>> /\ Last(shown).out \in Seq(Seq(Byte))
      /\ Following(shown) /\ CallKnown /\ lpVerb \in Seq(Byte) /\ dwo \in Nat
      /\ Promised(call.off) =>
           FindOnWay(pc, dwo, glpLineBuf, g_dwLBOffBgn, g_dwLBOffEnd, lpVerb, dwtmax,
                     Last(shown).out)
  BY <1>1, FindTypes
<1> DEFINE Goal == FindOnWay(pc', dwo', glpLineBuf', g_dwLBOffBgn', g_dwLBOffEnd', lpVerb',
                             dwtmax', Last(shown').out)
<1>3. SUFFICES ASSUME Promised(call.off) PROVE pc' # "next" /\ Goal
  <2>1. (Promised(call.off) => pc' # "next" /\ Goal) => FindInv'
    BY <1>1, <1>2, FindStep
  <2> QED
    BY <2>1
<1>4. FindComes(pc, dwo, lpVerb, Last(shown).out) /\ (pc = "putbin" => sw.bin)
  BY <1>1, <1>2, <1>3 DEF FindOnWay
<1>5. CASE PutBinEnd
  <2>1. /\ pc = "putbin" /\ pc' \in {"putword", "finish"} /\ lpVerb' = lpVerb
        /\ ~(dwo < ForwardEnd /\ Printable(At(dwo)))
    BY <1>5 DEF PutBinEnd, text
  <2>2. CASE Has(Joined(Last(shown).out, lpVerb))
    BY <1>1, <2>1, <2>2 DEF FindOnWay, FindComes
  <2>3. CASE ~Has(Joined(Last(shown).out, lpVerb))
    <3>1. PICK n, off, d, k, o : /\ n = Len(find) /\ off = call.off /\ d = BackUp.dwo
                                 /\ k = BackUp.dwk /\ o = dwo
      OBVIOUS
    <3>2. o < off + n /\ d <= o
      BY <1>4, <2>1, <2>3, <3>1 DEF FindComes
    <3>3. n \in Nat \ {0} /\ off \in Nat /\ off + n <= Size /\ Size \in Nat /\ o \in Nat
      BY <1>2, <3>1 DEF CallKnown
    <3>4. d \in Nat /\ k \in Nat /\ \A j \in d..(off - 1) : Printable(At(j))
      <4>1. call.off < Size /\ ~Unseen(call.off)
        BY <1>3, <1>4, <2>1, <3>1, <3>3 DEF Promised
      <4> QED
        BY <3>1, <4>1, BackUpIs, BackUpType
    <3>5. o < ForwardEnd
      <4>1. PICK e : e = off + k + n + g_dwForward
        OBVIOUS
      <4>2. g_dwForward \in Nat
        BY SizesAssumption
      <4>3. ForwardEnd = IF e > Size THEN Size ELSE e
        BY <3>1, <4>1 DEF ForwardEnd
      <4> QED
        BY ONLY <3>2, <3>3, <3>4, <4>1, <4>2, <4>3
    <3>6. Printable(At(o))
      <4>1. o \in d..(off - 1) \/ o \in off..(off + n - 1)
        BY ONLY <3>2, <3>3, <3>4
      <4>2. o \in off..(off + n - 1) => Printable(At(o))
        BY <1>2, <3>1, LettersShown DEF CallKnown
      <4> QED
        BY <3>4, <4>1, <4>2
    <3> QED
      BY <2>1, <3>1, <3>5, <3>6
  <2> QED
    BY <2>2, <2>3
<1>6. CASE PutWordByte
  <2>1. /\ pc = "putword" /\ pc' \in {"putword", "finish"} /\ dwo < Size
        /\ lpVerb' = Append(lpVerb, At(dwo))
    BY <1>6 DEF PutWordByte, InWord
  <2>2. PICK x : x = <<At(dwo)>>
    OBVIOUS
  <2>3. x \in Seq(Byte) /\ lpVerb' = lpVerb \o x
    <3>1. At(dwo) \in Byte
      BY <1>2, <2>1, AtType DEF CallKnown
    <3> QED
      BY <1>2, <2>1, <2>2, <3>1, AppendIsConcat
  <2>4. Joined(Last(shown').out, lpVerb') = Joined(Last(shown).out, lpVerb) \o x
    BY <1>1, <1>2, <2>3, JoinedGrows
  <2>5. Has(Joined(Last(shown).out, lpVerb) \o x)
    <3>1. Has(Joined(Last(shown).out, lpVerb))
      BY <1>4, <2>1 DEF FindComes
    <3>2. Joined(Last(shown).out, lpVerb) \in Seq(Byte) /\ Len(find) \in Nat
      BY <1>2, JoinedMore DEF CallKnown
    <3> QED
      BY <2>3, <3>1, <3>2, HasMore
  <2> QED
    BY <2>1, <2>4, <2>5 DEF FindOnWay, FindComes
<1>7. CASE PutWordEnd
  <2>1. pc = "putword" /\ pc' = "finish" /\ lpVerb' = lpVerb
    BY <1>7 DEF PutWordEnd, text
  <2> QED
    BY <1>1, <1>4, <2>1 DEF FindOnWay, FindComes
<1> QED
  BY <1>5, <1>6, <1>7

-----------------------------------------------------------------------------
(* The line read from the map, wrapped or not.                             *)
LEMMA PutFind ==
  ASSUME TypeOK, Finds, FindInv, PutLine
  PROVE  FindInv'
<1>1. /\ pc = "put" /\ pc # "next" /\ file' = file /\ find' = find /\ sw' = sw
      /\ calls' = calls /\ call' = call
  BY DEF PutLine, PutBreak, PutByte, PutDone, Frame, inputs
<1>2. /\ shown \in Seq(Shows) /\ shown # <<>> /\ Last(shown).out \in Seq(Seq(Byte))
      /\ Following(shown) /\ CallKnown /\ lpVerb \in Seq(Byte) /\ dwo \in Nat
      /\ Promised(call.off) =>
           FindOnWay(pc, dwo, glpLineBuf, g_dwLBOffBgn, g_dwLBOffEnd, lpVerb, dwtmax,
                     Last(shown).out)
  BY <1>1, FindTypes
<1> DEFINE Goal == FindOnWay(pc', dwo', glpLineBuf', g_dwLBOffBgn', g_dwLBOffEnd', lpVerb',
                             dwtmax', Last(shown').out)
<1>3. Promised(call.off) => FindComes("put", dwo, lpVerb, Last(shown).out)
  BY <1>1, <1>2 DEF FindOnWay
<1>4. PICK n, off, b, o : n = Len(find) /\ off = call.off /\ b = call.begin /\ o = dwo
  OBVIOUS
<1>5. n \in Nat \ {0} /\ off \in Nat /\ b \in Nat /\ o \in Nat /\ off + n <= Size /\ Size \in Nat
  BY <1>2, <1>4 DEF CallKnown
<1>6. \/ Has(Joined(Last(shown).out, lpVerb))
      \/ ~Promised(call.off)
      \/ o < off + n /\ b <= o /\ (o = b => lpVerb = <<>>)
         /\ UpTo(Joined(Last(shown).out, lpVerb), o - off)
  BY <1>3, <1>4 DEF FindComes
<1>7. CASE PutBreak
  <2>1. /\ IsBreak(At(dwo)) /\ lpVerb = <<>> /\ dwo' = PastBreak(dwo) /\ pc' = pc
        /\ lpVerb' = lpVerb /\ shown' = shown
    BY <1>7 DEF PutBreak, Putting, text
  <2>2. Promised(call.off) => pc' # "next" /\ Goal
    <3> SUFFICES ASSUME Promised(call.off) PROVE pc' # "next" /\ Goal
      OBVIOUS
    <3>1. CASE Has(Joined(Last(shown).out, lpVerb))
      BY <1>1, <2>1, <3>1 DEF FindOnWay, FindComes
    <3>2. CASE o < off + n /\ b <= o
      <4>1. o = b /\ o < off /\ dwo' = o + 1
        BY <1>1, <1>2, <1>4, <1>5, <2>1, <3>2, BreakBefore
      <4>2. o + 1 < off + n /\ b <= o + 1 /\ ~((o + 1) - off > 0)
        BY ONLY <1>5, <4>1
      <4>3. FindComes("put", dwo', lpVerb', Last(shown').out)
        BY <1>4, <2>1, <4>1, <4>2 DEF FindComes, UpTo
      <4> QED
        BY <1>1, <2>1, <4>3 DEF FindOnWay
    <3> QED
      BY <1>6, <3>1, <3>2
  <2> QED
    BY <1>1, <1>2, <2>1, <2>2, FindStep
<1>8. CASE PutByte
  <2>1. /\ dwo < Size /\ dwo' = dwo + 1 /\ pc' = pc
        /\ \/ Out(WithByte(At(dwo))) /\ lpVerb' = <<>>
           \/ shown' = shown /\ lpVerb' = WithByte(At(dwo))
    BY <1>8 DEF PutByte, Putting
  <2>2. At(dwo) \in Byte
    BY <1>2, <2>1, AtType DEF CallKnown
  <2>3. PICK x \in Seq(Byte) : /\ WithByte(At(dwo)) = lpVerb \o x
                               /\ AlphaNumeric(At(dwo)) => x = <<At(dwo)>>
    BY <1>2, <2>2, BytePutBehind
  <2>4. /\ Following(shown')
        /\ Joined(Last(shown').out, lpVerb') = Joined(Last(shown).out, lpVerb) \o x
    BY <1>2, <2>1, <2>3, JoinedGrows
  <2>5. Promised(call.off) => pc' # "next" /\ Goal
    <3> SUFFICES ASSUME Promised(call.off) PROVE pc' # "next" /\ Goal
      OBVIOUS
    <3>1. dwo \in call.off..(call.off + Len(find) - 1) => x = <<At(dwo)>>
      BY <1>2, <2>3 DEF CallKnown
    <3>2. \/ Has(Joined(Last(shown).out, lpVerb) \o x)
          \/ /\ dwo + 1 < call.off + Len(find)
             /\ UpTo(Joined(Last(shown).out, lpVerb) \o x, (dwo + 1) - call.off)
      BY <1>2, <1>3, <3>1, ComesMore
    <3>3. CASE Has(Joined(Last(shown).out, lpVerb) \o x)
      BY <1>1, <2>1, <2>4, <3>3 DEF FindOnWay, FindComes
    <3>4. CASE ~Has(Joined(Last(shown).out, lpVerb) \o x)
      <4>1. ~Has(Joined(Last(shown).out, lpVerb))
        <5>1. Joined(Last(shown).out, lpVerb) \in Seq(Byte)
          BY <1>2, JoinedMore
        <5> QED
          BY <1>4, <1>5, <3>4, <5>1, HasMore
      <4>2. b <= o
        BY <1>6, <4>1
      <4>3. b <= o + 1 /\ o + 1 # b
        BY ONLY <1>5, <4>2
      <4>4. FindComes("put", dwo', lpVerb', Last(shown').out)
        BY <1>4, <2>1, <2>4, <3>2, <3>4, <4>3 DEF FindComes
      <4> QED
        BY <1>1, <2>1, <4>4 DEF FindOnWay
    <3> QED
      BY <3>3, <3>4
  <2> QED
    BY <1>1, <2>4, <2>5, FindStep
<1>9. CASE PutDone
  <2>1. /\ ~(dwo < Size) \/ (IsBreak(At(dwo)) /\ lpVerb # <<>>)
        /\ pc' = "finish" /\ lpVerb' = lpVerb /\ shown' = shown
    BY <1>9 DEF PutDone, Putting, text
  <2>2. Promised(call.off) => pc' # "next" /\ Goal
    <3> SUFFICES ASSUME Promised(call.off) PROVE pc' # "next" /\ Goal
      OBVIOUS
    <3>1. CASE Has(Joined(Last(shown).out, lpVerb))
      BY <2>1, <3>1 DEF FindOnWay, FindComes
    <3>2. CASE o < off + n /\ b <= o /\ (o = b => lpVerb = <<>>)
      <4>1. o < Size
        BY ONLY <1>5, <3>2
      <4>2. IsBreak(At(o)) /\ lpVerb # <<>>
        BY <1>4, <2>1, <4>1
      <4>3. o = b
        BY <1>2, <1>4, <1>5, <3>2, <4>2, BreakBefore
      <4> QED
        BY <3>2, <4>2, <4>3
    <3> QED
      BY <1>6, <3>1, <3>2
  <2> QED
    BY <1>1, <1>2, <2>1, <2>2, FindStep
<1> QED
  BY <1>7, <1>8, <1>9 DEF PutLine

-----------------------------------------------------------------------------
(* At the end of the line the find is put out.                             *)
LEMMA FinishFind ==
  ASSUME TypeOK, Finds, FindInv, Finish
  PROVE  FindInv'
<1>1. /\ pc \in {"finish", "more"} /\ pc # "next" /\ file' = file /\ find' = find /\ sw' = sw
      /\ calls' = calls /\ call' = call /\ dwtmax' = dwtmax
  BY DEF Finish, FinishNothing, FinishLine, MoreLines, MoreOfFunction, Frame, inputs, text
<1>2. /\ shown \in Seq(Shows) /\ shown # <<>> /\ Last(shown).out \in Seq(Seq(Byte))
      /\ Following(shown) /\ CallKnown /\ lpVerb \in Seq(Byte)
      /\ Promised(call.off) =>
           FindOnWay(pc, dwo, glpLineBuf, g_dwLBOffBgn, g_dwLBOffEnd, lpVerb, dwtmax,
                     Last(shown).out)
  BY <1>1, FindTypes
<1>3. Promised(call.off) => Has(Joined(Last(shown).out, lpVerb))
  BY <1>1, <1>2 DEF FindOnWay, FindComes
<1>4. ~sw.make
  BY DEF Finds
<1>5. CASE FinishNothing
  <2>1. lpVerb = <<>> /\ pc' = "next" /\ shown' = shown
    BY <1>5 DEF FinishNothing
  <2>2. Joined(Last(shown).out, lpVerb) = FlattenSeq(Last(shown).out)
    BY <1>2, <2>1, JoinedMore
  <2> QED
    BY <1>1, <1>2, <1>3, <2>1, <2>2, FindStep
<1>6. CASE FinishLine
  <2>1. Out(lpVerb) /\ lpVerb' = <<>> /\ pc' \in {"more", "next"}
    BY <1>4, <1>6 DEF FinishLine, Dropped, Continued
  <2>2. PICK t, out : t = lpVerb /\ out = Last(shown).out
    OBVIOUS
  <2>3. /\ Append(out, t) \in Seq(Seq(Byte))
        /\ Joined(Append(out, t), <<>>) = Joined(out, t)
        /\ FlattenSeq(Append(out, t)) = Joined(out, t)
    <3>1. out \in Seq(Seq(Byte)) /\ t \in Seq(Byte)
      BY <1>2, <2>2
    <3> QED
      BY ONLY <3>1, EmptyType, JoinedMore
  <2>4. Following(shown') /\ Last(shown').out = Append(out, t)
    BY <1>2, <2>1, <2>2, <2>3, ShownMore
  <2>5. Promised(call.off) =>
          /\ Has(Joined(Last(shown').out, lpVerb'))
          /\ Has(FlattenSeq(Last(shown').out))
    BY <1>3, <2>1, <2>2, <2>3, <2>4
  <2>6. pc' = "more" /\ Promised(call.off) =>
          FindOnWay(pc', dwo', glpLineBuf', g_dwLBOffBgn', g_dwLBOffEnd', lpVerb', dwtmax',
                    Last(shown').out)
    BY <2>5 DEF FindOnWay, FindComes
  <2> QED
    BY <1>1, <2>1, <2>4, <2>5, <2>6, FindStep
<1>7. CASE MoreLines \/ MoreOfFunction
  <2>1. pc' = "put" /\ lpVerb' = lpVerb /\ shown' = shown
    BY <1>7 DEF MoreLines, MoreOfFunction
  <2>2. Promised(call.off) =>
          FindOnWay(pc', dwo', glpLineBuf', g_dwLBOffBgn', g_dwLBOffEnd', lpVerb', dwtmax',
                    Last(shown').out)
    BY <1>3, <2>1 DEF FindOnWay, FindComes
  <2> QED
    BY <1>1, <1>2, <2>1, <2>2, FindStep
<1> QED
  BY <1>5, <1>6, <1>7 DEF Finish

LEMMA NextFind == TypeOK /\ FindInv /\ [Next]_vars => FindInv'
<1> SUFFICES ASSUME TypeOK, FindInv, [Next]_vars PROVE FindInv'
  OBVIOUS
<1>1. file' = file /\ find' = find /\ sw' = sw /\ calls' \subseteq calls
  BY DEF Next, NextCall, GetLine, PutBin, PutLine, Finish, GetBreak, GetByte, GetDone,
         GetBinary, GetBinByte, GetBinDone, PutBinByte, PutBinEnd, PutWordByte,
         PutWordEnd, Limit, PutBreak, PutByte, PutDone, FinishNothing, FinishLine,
         MoreLines, MoreOfFunction, Frame, inputs, vars
<1>2. (find # <<>>)' /\ \A o \in calls' : StandsHere(o)'
  BY <1>1, FileUnmoved DEF FindInv
<1>3. CASE ~Finds
  BY <1>1, <1>2, <1>3, FileUnmoved DEF FindInv
<1>4. CASE Finds
  <2>1. CASE NextCall
    BY <1>4, <2>1, NextCallFind
  <2>2. CASE GetLine
    BY <1>4, <2>2, GetFind, GetBinFind DEF GetLine
  <2>3. CASE PutBin
    BY <1>4, <2>3, PutBinByteFind, PutBinEndFind DEF PutBin
  <2>4. CASE Limit
    BY <1>4, <2>4, LimitFind
  <2>5. CASE PutLine
    BY <1>4, <2>5, PutFind
  <2>6. CASE Finish
    BY <1>4, <2>6, FinishFind
  <2>7. CASE UNCHANGED vars
    <3>1. UNCHANGED <<pc, call, dwo, buffer, lpVerb, dwtmax, shown>>
      BY <2>7 DEF vars, text
    <3>2. Served' = Served
      BY <3>1 DEF Served
    <3>3. \A i \in Served' : Honoured(shown[i].off, shown[i].out)'
      BY <1>1, <1>4, <3>1, <3>2, FileUnmoved DEF FindInv
    <3>4. pc' # "next" =>
            /\ (shown # <<>>)' /\ (Last(shown).off = call.off)'
            /\ (Last(shown).begin = call.begin)' /\ CallRight'
      BY <1>1, <1>4, <3>1, FindUnmoved DEF FindInv
    <3>5. pc' # "next" /\ Promised(call.off)' =>
            FindOnWay(pc, dwo, glpLineBuf, g_dwLBOffBgn, g_dwLBOffEnd, lpVerb, dwtmax,
                      Last(shown).out)'
      <4> SUFFICES ASSUME pc' # "next", Promised(call.off)'
                   PROVE  FindOnWay(pc, dwo, glpLineBuf, g_dwLBOffBgn, g_dwLBOffEnd, lpVerb,
                                    dwtmax, Last(shown).out)'
        OBVIOUS
      <4>1. pc # "next" /\ Promised(call.off)
        BY <1>1, <3>1, FileUnmoved
      <4>2. FindOnWay(pc, dwo, glpLineBuf, g_dwLBOffBgn, g_dwLBOffEnd, lpVerb, dwtmax,
                      Last(shown).out)
        BY <1>4, <4>1 DEF FindInv
      <4> QED
        BY <1>1, <3>1, <4>2, FindUnmoved DEF buffer
    <3>6. (shown \in Seq(Shows))'
      BY <1>4, <3>1 DEF FindInv, Shows
    <3> QED
      BY <1>2, <3>3, <3>4, <3>5, <3>6 DEF FindInv
  <2> QED
    BY <2>1, <2>2, <2>3, <2>4, <2>5, <2>6, <2>7 DEF Next
<1> QED
  BY <1>3, <1>4

(* What is shown for a find contains it: of a binary file, unless the      *)
(* backing up ends at a byte it does not look at; of a line that is cut    *)
(* around the find, unless it ends the line or has only one byte           *)
(* (Fa4Show.c:270-446).                                                    *)
THEOREM FindIsShown == Spec => []FindShown
<1>1. TypeOK /\ FindInv => FindShown
  <2> SUFFICES ASSUME TypeOK, FindInv, NEW i \in Served, Finds, Promised(shown[i].off)
               PROVE  ShowsFind(FlattenSeq(shown[i].out))
    BY DEF FindShown, Finds, Promised
  <2>1. find \in Seq(Byte) /\ shown \in Seq(Shows)
    BY DEF TypeOK, FindInv
  <2>2. Has(FlattenSeq(shown[i].out))
    BY DEF FindInv, Honoured
  <2>3. shown[i] \in Shows
    BY <2>1 DEF Served
  <2>4. shown[i].out \in Seq(Seq(Byte))
    BY <2>3 DEF Shows
  <2>5. FlattenSeq(shown[i].out) \in Seq(Byte)
    BY <2>4, JoinedMore, EmptyType
  <2> QED
    BY <2>1, <2>2, <2>5, HasShows
<1>2. TypeOK /\ FindInv /\ [Next]_vars => FindInv'
  BY NextFind
<1> QED
  BY <1>1, <1>2, InitFind, TypeCorrect, PTL DEF Spec
=============================================================================
