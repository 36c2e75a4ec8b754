------------------------------ MODULE FA4Bytes ------------------------------
(***************************************************************************)
(* The byte level of FA4: the character readers (GetChr), the case folding *)
(* of a find string (Move2Find) and the full compare that decides whether  *)
(* a find string stands at an offset of the mapped file (FullComp).        *)
(*                                                                         *)
(* A file and a find string are sequences of byte values.  Offsets are     *)
(* those of the code: 0-based, so the byte at offset i is file[i + 1].     *)
(***************************************************************************)
EXTENDS Integers, Sequences

Byte == 0..255

LF == 10
CR == 13
SPACE == 32

(* The switches the compare reads: -c, -p, -i, -w and -w2.                 *)
CompOptions == [case : BOOLEAN, parity : BOOLEAN, spacey : BOOLEAN,
                whole : BOOLEAN, whole2 : BOOLEAN]

IsBreak(c) == c \in {CR, LF}

(* A char is signed in the builds modelled.                                *)
Signed(c) == IF c >= 128 THEN c - 256 ELSE c

ToUpper(c) == IF c \in 97..122 THEN c - 32 ELSE c

(* cm, the mask of FullComp: 0x7f under -p.                                *)
Mask(o, c) == IF o.parity THEN c % 128 ELSE c

(* getachar, getacharpar, getupchar and getupcharpar, one of which         *)
(* Find_In_Type1 or Find_In_Type2 installs as GetChr.  The upper-casing    *)
(* comes before the stripping of the 8th bit.                              *)
GetChr(o, c) == Mask(o, IF o.case THEN c ELSE ToUpper(c))

(* The byte FullComp compares with every find byte after the first: the    *)
(* 8th bit is stripped before the upper-casing.                            *)
CompChr(o, c) == IF o.case THEN Mask(o, c) ELSE ToUpper(Mask(o, c))

(* A fault that the checks must notice: the find is never folded.          *)
Move2FindAsGiven(o, find) == find

Move2Find(o, find) ==
  IF o.case THEN find ELSE [k \in DOMAIN find |-> ToUpper(find[k])]

NotAsciiRng(c) == c \notin (97..122 \cup 65..90 \cup 48..57)

(* The test of the byte on either side of a whole word.                    *)
Delimits(o, c) ==
  IF o.whole2 THEN Signed(Mask(o, c)) <= SPACE ELSE NotAsciiRng(Mask(o, c))

Spacey(c) == Signed(c) <= SPACE

(* The first offset from l on where the find string has no space; its      *)
(* length when there is none.                                              *)
SkipFindSpaces(find, l) ==
  CHOOSE k \in l..Len(find) :
    /\ k = Len(find) \/ ~Spacey(find[k + 1])
    /\ \A j \in l..(k - 1) : Spacey(find[j + 1])

(* The first offset from b on, and below rem, where the file has no space  *)
(* (a NUL byte stops the code's loop too).                                 *)
SkipFileSpaces(file, b, rem) ==
  CHOOSE k \in b..rem :
    /\ k = rem \/ ~Spacey(file[k + 1]) \/ file[k + 1] = 0
    /\ \A j \in b..(k - 1) : Spacey(file[j + 1]) /\ file[j + 1] # 0

(* The loop of -i (gfSpacey), from offset 1 of the find and off + 1 of the *)
(* file.  The code tests its index i, an offset of the FILE, against rem,  *)
(* the number of bytes that REMAIN.                                        *)
SpaceyComp(o, file, off, rem, find) ==
  LET flen == Len(find)
      comp[l \in 0..flen] == [b \in Nat |->
        IF l = flen \/ b >= rem THEN [suc |-> l = flen, i |-> b]
        ELSE IF ~Spacey(find[l + 1])
             THEN IF Signed(find[l + 1]) = CompChr(o, file[b + 1])
                  THEN comp[l + 1][b + 1]
                  ELSE [suc |-> FALSE, i |-> b]
             ELSE IF ~Spacey(file[b + 1]) THEN [suc |-> FALSE, i |-> b]
                  ELSE LET k == SkipFindSpaces(find, l)
                       IN  IF k = flen THEN [suc |-> TRUE, i |-> b]
                           ELSE comp[k][SkipFileSpaces(file, b, rem)]]
  IN  comp[1][off + 1]

(* A fault that the checks must notice: the last byte is not compared.     *)
PlainCompShort(o, file, off, find) ==
  [suc |-> \A k \in 1..(Len(find) - 2) :
             Signed(find[k + 1]) = CompChr(o, file[off + k + 1]),
   i   |-> Len(find)]

(* The loop without -i: every byte after the first.                        *)
PlainComp(o, file, off, find) ==
  [suc |-> \A k \in 1..(Len(find) - 1) :
             Signed(find[k + 1]) = CompChr(o, file[off + k + 1]),
   i   |-> Len(find)]

(* FullComp, called once the first byte of find (already folded by         *)
(* Move2Find) has been seen at off.  max is the end of the text compared:  *)
(* a find of several bytes must be SHORTER than what remains.  A find of   *)
(* one byte leaves the index i at 0, which is where -w then looks for the  *)
(* following byte.                                                         *)
FullComp(o, file, off, max, find) ==
  LET rem == max - off
      r == IF Len(find) = 1 THEN [suc |-> TRUE, i |-> 0]
           ELSE IF Len(find) >= rem THEN [suc |-> FALSE, i |-> 0]
           ELSE IF o.spacey THEN SpaceyComp(o, file, off, rem, find)
           ELSE PlainComp(o, file, off, find)
  IN  /\ r.suc
      /\ o.whole => /\ off > 0 => Delimits(o, file[off])
                    /\ off + r.i < max => Delimits(o, file[off + r.i + 1])

(* A find starts at off: the test of the scan loops, first byte then rest. *)
FoundAt(o, file, off, max, find) ==
  /\ GetChr(o, file[off + 1]) = find[1]
  /\ FullComp(o, file, off, max, find)

-----------------------------------------------------------------------------
(* What the switches say a find is: the find t stands in f at the offset   *)
(* at, byte for byte, folded as they ask ...                               *)
FindStands(o, f, at, t) ==
  /\ at + Len(t) <= Len(f)
  /\ \A k \in DOMAIN t : CompChr(o, f[at + k]) = CompChr(o, t[k])

(* ... and its neighbours delimit it, when -w asks for that.               *)
FindAlone(o, f, at, t) ==
  o.whole =>
    /\ at > 0 => Delimits(o, f[at])
    /\ at + Len(t) < Len(f) => Delimits(o, f[at + Len(t) + 1])

(* A string as -i reads it: folded, and every run of white space is one    *)
(* space.  White space is what the code takes for it: a signed char up to  *)
(* ' ', which every byte with its 8th bit set is.                          *)
Squeeze(o, s) ==
  LET out[n \in 0..Len(s)] ==
        IF n = 0 THEN <<>>
        ELSE IF ~Spacey(s[n]) THEN Append(out[n - 1], CompChr(o, s[n]))
        ELSE IF n > 1 /\ Spacey(s[n - 1]) THEN out[n - 1]
        ELSE Append(out[n - 1], SPACE)
  IN  out[Len(s)]

(* The find stands there when runs of white space are all alike.           *)
StandsSpacey(o, f, at, t) ==
  \E e \in (at + 1)..Len(f) : Squeeze(o, SubSeq(f, at + 1, e)) = Squeeze(o, t)

(* No byte of a string has its 8th bit set.                                *)
SevenBit(s) == \A k \in DOMAIN s : s[k] < 128
=============================================================================
