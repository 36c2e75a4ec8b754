------------------------------ MODULE WildMatch ------------------------------
(***************************************************************************)
(* Which names the walk takes: the compare of a name with a mask           *)
(* (MatchFiles and what it calls in grmLib.c), the lists of excluded files *)
(* and directories that -X builds (Do_X_Switch in Fa4Help.c), and the      *)
(* compare of a name with them (InExclude and InExcludeD in Fa4.c).        *)
(*                                                                         *)
(* A string is the sequence of its bytes, with no NUL.  The four buffers   *)
(* of MatchFiles are static: what strcpy does not overwrite stays in them  *)
(* from one call to the next, and WildComp2 may read it.  An action is the *)
(* switch read, or one question of the walk, of the file search or of a    *)
(* list of directories.                                                    *)
(***************************************************************************)
EXTENDS FA4Bytes, SequencesExt

CONSTANTS
  XSwitches,   (* What may stand behind -X, and in the file that @... names *)
               (* (no file is told by exists).                             *)
  Turns,             (* The number of questions asked (a bound).           *)
  Questions(_, _)    (* Those that may be asked with a switch on each turn. *)

String == Seq(Byte \ {0})

SwitchType == [text : String, infile : Seq(Byte), exists : BOOLEAN]

QuestionType ==
  [op : {"match", "file", "dir", "path"}, mask : String, name : String]

ASSUME TurnsAssumption == Turns \in Nat
ASSUME SwitchesTyped == \A sw \in XSwitches : sw \in SwitchType
ASSUME QuestionsAssumption ==
  \A sw \in XSwitches : \A t \in 1..Turns : \A q \in Questions(sw, t) :
    q \in QuestionType /\ q.name # <<>> /\ (q.op = "match" => q.mask # <<>>)

DOT == 46
STAR == 42
ANY == 63
COLON == 58
SEMI == 59
SLASH == 47
BACKSLASH == 92
ATSIGN == 64

VARIABLES
  switch,         (* What stands behind -X, and the file it names.         *)
  g_sExclList,    (* The names and masks of excluded files, ...            *)
  g_sExclListD,   (* ... and of excluded directories.                      *)
  glpError,       (* Whether the switch was refused.                       *)
  body1, ext1,    (* The buffers of MatchFiles for the mask ...            *)
  body2, ext2,    (* ... and for the name.                                 *)
  turn,           (* 0 until the switch is read, then the next question.   *)
  asked           (* The last question, and the answer.                    *)

lists == <<g_sExclList, g_sExclListD, glpError>>
buffers == <<body1, ext1, body2, ext2>>
matchVars == <<switch, lists, buffers, turn, asked>>

NoQuestion == [op |-> "none", mask |-> <<>>, name |-> <<>>, answer |-> FALSE]

MatchInit ==
  /\ switch \in XSwitches
  /\ g_sExclList = <<>> /\ g_sExclListD = <<>> /\ glpError = FALSE
  /\ body1 = <<>> /\ ext1 = <<>> /\ body2 = <<>> /\ ext2 = <<>>
  /\ turn = 0
  /\ asked = NoQuestion

-----------------------------------------------------------------------------
(* Do_X_Switch.                                                            *)

NoItems == [list |-> <<>>, item |-> <<>>]

Collect(items) ==
  IF items.item = <<>> THEN items ELSE [list |-> Append(items.list, items.item), item |-> <<>>]

(* One character of a text: it is passed over before an item has begun, it *)
(* ends the item, or it goes on with it.                                   *)
Take(items, c, skipped, ends) ==
  IF items.item = <<>> /\ c \in skipped THEN items
  ELSE IF c \in ends THEN Collect(items)
  ELSE [items EXCEPT !.item = Append(@, c)]

Taken(t, skipped, ends) ==
  LET taken[k \in 0..Len(t)] ==
        IF k = 0 THEN NoItems ELSE Take(taken[k - 1], t[k], skipped, ends)
  IN  taken

Split(t, skipped, ends) == Collect(Taken(t, skipped, ends)[Len(t)]).list

(* A fault that the checks must notice: the last item is not added.        *)
SemicolonsButLast(t) == Taken(t, {}, {SEMI})[Len(t)].list

(* The items of a list, with a semicolon between two.                      *)
Semicolons(t) == Split(t, {}, {SEMI})

(* The items of a file: each starts at a visible character and goes on to  *)
(* the next control character (as a char, one of 128 or more is less).     *)
Blanks == {c \in Byte : Signed(c) <= SPACE}
Controls == {c \in Byte : Signed(c) < SPACE}

LinesOf(t) == Split(t, Blanks, Controls)

(* Add_FP_Directories and Add_CVSSVN_Directories add four names each: one  *)
(* of "_p" and ".g" stands for them.                                       *)
FrontPage == <<95, 112>>
CVSSVN == <<46, 103>>

StartsWith(t, c) == t # <<>> /\ Head(t) = c

(* The items behind -X, or behind the colon of -X: for directories.        *)
Items(t) ==
  IF StartsWith(t, ATSIGN) THEN IF switch.exists THEN LinesOf(switch.infile) ELSE <<>>
  ELSE Semicolons(t)

DirItems(t) ==
  CASE t = <<COLON>> -> <<FrontPage>>
    [] t = <<COLON, COLON>> -> <<CVSSVN>>
    [] StartsWith(t, COLON) /\ t \notin {<<COLON>>, <<COLON, COLON>>} -> <<>>
    [] OTHER -> Items(t)

Do_X_Switch ==
  LET cp == switch.text
      dirs == StartsWith(cp, COLON)
      list == IF dirs THEN Tail(cp) ELSE cp
  IN  /\ turn = 0
      /\ turn' = 1
      /\ g_sExclListD' = IF dirs THEN DirItems(list) ELSE g_sExclListD
      /\ g_sExclList' = IF dirs THEN g_sExclList ELSE Items(list)
      /\ glpError' = \/ StartsWith(list, ATSIGN) /\ ~switch.exists
                     \/ dirs /\ StartsWith(list, COLON)
                             /\ list \notin {<<COLON>>, <<COLON, COLON>>}
      /\ UNCHANGED <<switch, buffers, asked>>

-----------------------------------------------------------------------------
(* MatchFiles.                                                             *)

GotWild(s) == \E k \in DOMAIN s : s[k] \in {STAR, ANY}

Upper(s) == [k \in DOMAIN s |-> ToUpper(s[k])]

(* What a buffer holds after strcpy: a NUL stands behind the string, and   *)
(* what was there behind that.                                             *)
Copied(buf, s) == s \o <<0>> \o SubSeq(buf, Len(s) + 2, Len(buf))

(* A fault that the checks must notice: a name is split at its first dot.  *)
FirstIndexOf(s, c) == SelectInSeq(s, LAMBDA e : e = c)

LastIndexOf(s, c) == SelectLastInSeq(s, LAMBDA e : e = c)

(* SplitExt: the buffer of the body gets the whole name, cut at the last   *)
(* dot; a name with no dot that ends in * has the extension *.             *)
BodyBuf(buf, s) ==
  LET p == LastIndexOf(s, DOT)
  IN  IF p = 0 THEN Copied(buf, s) ELSE [Copied(buf, s) EXCEPT ![p] = 0]

ExtOf(s) ==
  LET p == LastIndexOf(s, DOT)
  IN  IF p > 0 THEN SubSeq(s, p, Len(s))
      ELSE IF s[Len(s)] = STAR THEN <<STAR>> ELSE <<>>

(* The character at index j of a buffer, zero where nothing was written,   *)
(* and the length of the string in it.                                     *)
Char(buf, j) == IF j < Len(buf) THEN ToUpper(buf[j + 1]) ELSE 0
StrLen(buf) == SelectInSeq(buf, LAMBDA c : c = 0) - 1

(* Where the search for c from j on, and below ilen, ends: at c or the NUL. *)
SearchEnd(buf, c, j, ilen) ==
  LET hits == {k \in j..(ilen - 1) : Char(buf, k) \in {c, 0}}
  IN  IF hits = {} THEN Max({j, ilen}) ELSE Min(hits)

(* Whether it ends at c; d was read before it, and is what is compared when *)
(* there is nothing to search.                                             *)
Found(buf, c, d, j, ilen) ==
  IF j >= ilen THEN c = d
  ELSE LET at == SearchEnd(buf, c, j, ilen) IN at < ilen /\ Char(buf, at) = c

(* The loop of WildComp2, at j1 of the first buffer and j2 of the second,  *)
(* ends at j1 = ilen, which is a match, or at a break.  A * that more      *)
(* follows takes at least one character: the character behind it is        *)
(* searched for in the other buffer, once.                                 *)
WildLoop(lp1, lp2, ilen) ==
  LET loop[j1 \in Nat] == [j2 \in Nat |->
        LET c == Char(lp1, j1)
            d == Char(lp2, j2)
            c1 == Char(lp1, j1 + 1)
            d1 == Char(lp2, j2 + 1)
        IN  CASE j1 >= ilen -> j1 = ilen
              [] j1 < ilen /\ c = d -> loop[j1 + 1][j2 + 1]
              [] j1 < ilen /\ c = 0 /\ d # 0 -> d = STAR /\ d1 = 0
              [] j1 < ilen /\ c # 0 /\ d = 0 -> c = STAR /\ (c1 = 0 \/ j1 + 1 = ilen)
              [] j1 < ilen /\ c = STAR /\ d \notin {STAR, 0} ->
                   IF c1 = 0 THEN TRUE
                   ELSE IF d1 # 0 /\ Found(lp2, c1, d, j2 + 1, ilen)
                   THEN loop[j1 + 2][SearchEnd(lp2, c1, j2 + 1, ilen) + 1]
                   ELSE j1 + 1 = ilen
              [] j1 < ilen /\ c \notin {STAR, 0} /\ d = STAR ->
                   IF d1 = 0 THEN TRUE
                   ELSE IF c1 = 0 THEN j1 + 1 = ilen
                   ELSE IF Found(lp1, d1, c, j1 + 1, ilen)
                   THEN loop[SearchEnd(lp1, d1, j1 + 1, ilen) + 1][j2 + 2]
                   ELSE SearchEnd(lp1, d1, j1 + 1, ilen) = ilen
              [] OTHER -> ANY \in {c, d} /\ loop[j1 + 1][j2 + 1]]
  IN  loop

WildComp2(lp1, lp2) ==
  LET i1 == StrLen(lp1)
      i2 == StrLen(lp2)
      Alone(lp) == SubSeq(lp, 1, StrLen(lp)) \in {<<STAR>>, <<DOT, STAR>>}
  IN  IF i1 # 0 /\ i2 # 0 THEN WildLoop(lp1, lp2, IF i1 < i2 THEN i2 ELSE i1)[0][0]
      ELSE IF i1 = 0 THEN Alone(lp2) ELSE Alone(lp1)

Answer(q, a) == asked' = [op |-> q.op, mask |-> q.mask, name |-> q.name, answer |-> a]

(* The extensions are compared only if the bodies match.                   *)
MatchFiles(q) ==
  IF GotWild(q.mask) \/ GotWild(q.name)
  THEN /\ body1' = BodyBuf(body1, q.mask) /\ ext1' = Copied(ext1, ExtOf(q.mask))
       /\ body2' = BodyBuf(body2, q.name) /\ ext2' = Copied(ext2, ExtOf(q.name))
       /\ Answer(q, WildComp2(body1', body2') /\ WildComp2(ext1', ext2'))
  ELSE /\ Answer(q, Upper(q.mask) = Upper(q.name))
       /\ UNCHANGED buffers

-----------------------------------------------------------------------------
(* The compare with an excluded name.                                      *)

(* The first character from i on that is no star.                          *)
PastStars(lpex, i) ==
  CHOOSE r \in i..(Len(lpex) + 1) : /\ r = Len(lpex) + 1 \/ lpex[r] # STAR
                                    /\ \A k \in i..(r - 1) : lpex[k] = STAR

(* The compare of KindofCompare, from character i of the mask and j of the *)
(* name on.  It tells upper from lower case.  Of the two tests for a name  *)
(* that is at its end only that of the mask's rest can hold.               *)
KindLoop(lpex, lpfn) ==
  LET n == Len(lpex)
      m == Len(lpfn)
      Rest(i) == SubSeq(lpex, i, n)
      loop[i \in 1..(n + 1)] == [j \in 1..(m + 1) |->
        LET r == PastStars(lpex, i)
        IN  IF i > n \/ j > m THEN FALSE
            ELSE IF lpex[i] \in {lpfn[j], ANY}
            THEN \/ i = n /\ j = m
                 \/ i = n /\ SubSeq(lpfn, j + 1, m) = <<STAR>>
                 \/ j = m /\ Rest(i + 1) \in {<<STAR>>, <<STAR, DOT, STAR>>}
                 \/ loop[i + 1][j + 1]
            ELSE IF lpex[i] # STAR THEN FALSE
            ELSE \/ i = n
                 \/ r <= n /\ \E k \in j..m : /\ lpfn[k] = lpex[r]
                                              /\ Rest(r) = SubSeq(lpfn, k, m) \/ loop[r][k]
                 \/ Rest(r) = <<DOT, STAR>>]
  IN  loop

KindofCompare(lpex, lpfn) == lpex = lpfn \/ KindLoop(lpex, lpfn)[1][1]

Separator(c) == c \in {SLASH, BACKSLASH}

(* SplitFN: what follows the last colon or separator.                      *)
FileName(s) == SubSeq(s, SelectLastInSeq(s, LAMBDA c : c = COLON \/ Separator(c)) + 1, Len(s))

CompKind(lpact, lpex) ==
  Upper(lpact) = Upper(lpex) \/ KindofCompare(lpex, FileName(lpact))

(* InExclude and InExcludeD.                                               *)
Excluded(act) == \E i \in DOMAIN g_sExclList : CompKind(act, g_sExclList[i])

ExcludedDir(name) == \E i \in DOMAIN g_sExclListD : KindofCompare(g_sExclListD[i], name)

(* Check4ExcludedDir: whether no directory of a path is excluded.          *)
Check4ExcludedDir(path) ==
  \A i \in 0..Len(path), j \in 1..Len(path) :
    /\ i < j /\ Separator(path[j])
    /\ i = 0 \/ Separator(path[i])
    /\ \A k \in (i + 1)..(j - 1) : ~Separator(path[k])
    => ~ExcludedDir(SubSeq(path, i + 1, j - 1))

-----------------------------------------------------------------------------
(* A question: is the entry of a directory taken by the mask; is the file  *)
(* at a path, or the directory of a name, excluded; has the path that a    *)
(* list of directories gives an excluded one.                              *)
Ask ==
  /\ turn \in 1..Turns /\ ~glpError
  /\ turn' = turn + 1
  /\ \E q \in Questions(switch, turn) :
       \/ q.op = "match" /\ MatchFiles(q)
       \/ q.op = "file" /\ Answer(q, Excluded(q.name)) /\ UNCHANGED buffers
       \/ q.op = "dir" /\ Answer(q, ExcludedDir(q.name)) /\ UNCHANGED buffers
       \/ q.op = "path" /\ Answer(q, ~Check4ExcludedDir(q.name)) /\ UNCHANGED buffers
  /\ UNCHANGED <<switch, lists>>

MatchNext == Do_X_Switch \/ Ask

MatchSpec == MatchInit /\ [][MatchNext]_matchVars

-----------------------------------------------------------------------------
(* What a mask means.                                                      *)

(* Whether a string is in the shape of a mask, from character i of the     *)
(* mask and j of the string on: a * is any run of characters, a ? any one. *)
Fits(mask, s) ==
  LET n == Len(mask)
      m == Len(s)
      fits[i \in 1..(n + 1)] == [j \in 1..(m + 1) |->
        IF i > n THEN j > m
        ELSE IF mask[i] = STAR THEN \E k \in j..(m + 1) : fits[i + 1][k]
        ELSE j <= m /\ mask[i] \in {s[j], ANY} /\ fits[i + 1][j + 1]]
  IN  fits

Glob(mask, s) == Fits(mask, s)[1][1]

(* The part before the last dot, and the rest with the dot.                *)
Dots(s) == {k \in DOMAIN s : s[k] = DOT}
Body(s) == IF Dots(s) = {} THEN s ELSE SubSeq(s, 1, Max(Dots(s)) - 1)
Ext(s) == IF Dots(s) = {} THEN <<>> ELSE SubSeq(s, Max(Dots(s)), Len(s))

AnyExt(mask) == Ext(mask) = <<DOT, STAR>> \/ (Dots(mask) = {} /\ mask[Len(mask)] = STAR)

(* WildComp2 takes a part .* for a blank one, too.                         *)
GlobName(mask, name) ==
  LET m == Upper(mask)
      s == Upper(name)
  IN  /\ Glob(Body(m), Body(s)) \/ (Body(m) = <<DOT, STAR>> /\ Body(s) = <<>>)
      /\ AnyExt(m) \/ Glob(Ext(m), Ext(s))

(* A * may stand at the end of the body and of the extension only.  A mask *)
(* with a wild card and no body, or with a ? and no extension, fits        *)
(* nothing: WildComp2 has no match for two blanks.                         *)
StarsAtEnd(s) == \A k \in DOMAIN s : s[k] = STAR => k = Len(s)
Simple(mask) ==
  /\ StarsAtEnd(Body(mask)) /\ StarsAtEnd(Ext(mask))
  /\ GotWild(mask) => Body(mask) # <<>> /\ (Dots(mask) = {} => AnyExt(mask))

(* The walk searches no file that the mask does not stand for: whatever    *)
(* was compared before, and is left in the buffers of MatchFiles, a name   *)
(* is taken only if its body and its extension, split at the last dot, are *)
(* in the shape of the mask's; and every such name is taken when the       *)
(* mask's stars end its parts.  (A name with a wild card in it is compared *)
(* as a mask itself.)                                                      *)
MatchedAsMasked ==
  asked.op = "match" /\ ~GotWild(asked.name) =>
    /\ asked.answer => GlobName(asked.mask, asked.name)
    /\ Simple(asked.mask) /\ GlobName(asked.mask, asked.name) => asked.answer

(* The pieces of a text between two characters that divide it.             *)
Pieces(t, ends) ==
  {SubSeq(t, p[1], p[2]) : p \in
    {p \in (DOMAIN t) \X (DOMAIN t) :
       /\ p[1] <= p[2]
       /\ \A k \in p[1]..p[2] : t[k] \notin ends
       /\ p[1] = 1 \/ t[p[1] - 1] \in ends
       /\ p[2] = Len(t) \/ t[p[2] + 1] \in ends}}

LeadingSpaces(s) == CHOOSE n \in 0..Len(s) : /\ n = Len(s) \/ s[n + 1] # SPACE
                                             /\ \A k \in 1..n : s[k] = SPACE

(* The masks that -X gives, as its help has them: apart by a semicolon, or *)
(* one to a line of a file.                                                *)
Given(t) ==
  IF StartsWith(t, ATSIGN)
  THEN {SubSeq(p, LeadingSpaces(p) + 1, Len(p)) : p \in Pieces(switch.infile, Controls)}
         \ {<<>>}
  ELSE Pieces(t, {SEMI})

FileMasks == IF StartsWith(switch.text, COLON) THEN {} ELSE Given(switch.text)
DirMasks == CASE switch.text = <<COLON, COLON>> -> {FrontPage}
              [] switch.text = <<COLON, COLON, COLON>> -> {CVSSVN}
              [] StartsWith(switch.text, COLON) /\ ~StartsWith(Tail(switch.text), COLON) ->
                   Given(Tail(switch.text))
              [] OTHER -> {}

(* KindofCompare has no match for several stars at the end of a mask, nor  *)
(* for a ? behind a star; and a mask that ends in *.* needs no dot.        *)
NeedsNoDot(m) == Len(m) > 2 /\ SubSeq(m, Len(m) - 2, Len(m)) = <<STAR, DOT, STAR>>
LessDot(m) == SubSeq(m, 1, Len(m) - 2)

StarsApart(m) == \A k \in 2..Len(m) : m[k - 1] = STAR => m[k] # ANY /\ (m[k] = STAR => k < Len(m))
WellMade(m) == StarsApart(m) /\ (NeedsNoDot(m) => StarsApart(LessDot(m)))

Stands(m, name) ==
  name # <<>> /\ (Glob(m, name) \/ (NeedsNoDot(m) /\ Glob(LessDot(m), name)))

(* The directories of a path: what stands before a separator.              *)
Separators == {c \in Byte : Separator(c)}
DirsOf(path) == Pieces(SubSeq(path, 1, SelectLastInSeq(path, Separator)), Separators)

(* What the text of -X says is what the walk leaves out, from the text to  *)
(* the answer: a file is excluded exactly when one of the masks given is   *)
(* its path, or stands for its name; a directory, or a path of the list of *)
(* directories, when a mask behind the colon stands for its name, or for   *)
(* one of its directories.  (A name with a * in it may end a compare.)     *)
ExcludedAsMasked ==
  LET Out(masks, name) == \E m \in masks : Stands(m, name)
      name == asked.name
  IN  /\ \A m \in FileMasks \cup DirMasks : WellMade(m)
      /\ \A k \in DOMAIN name : name[k] # STAR
      =>
      CASE asked.op = "file" ->
             asked.answer <=> \/ Out(FileMasks, FileName(name))
                              \/ \E m \in FileMasks : Upper(m) = Upper(name)
        [] asked.op = "dir" -> asked.answer <=> Out(DirMasks, name)
        [] asked.op = "path" -> asked.answer <=> \E d \in DirsOf(name) : Out(DirMasks, d)
        [] OTHER -> TRUE

(* What the comment of WildComp2 says of a * at the start of a mask, "the  *)
(* asteric matched what ever was in 2, up until this letter encountered":  *)
(* with one letter behind it that a body has last, and the same extension, *)
(* the name is taken.                                                      *)
AsteriskUpToLetter ==
  LET mask == Body(asked.mask)
      name == Body(asked.name)
  IN  /\ asked.op = "match" /\ Ext(asked.mask) = Ext(asked.name) /\ Ext(asked.name) # <<>>
      /\ Len(mask) = 2 /\ mask[1] = STAR /\ mask[2] \notin {STAR, ANY}
      /\ Len(name) > 1 /\ Glob(mask, name)
      /\ \A k \in 2..(Len(name) - 1) : name[k] # mask[2]
      => asked.answer

=============================================================================
