----------------------------- MODULE FindOutput -----------------------------
(***************************************************************************)
(* The output of the finds: ShowLine (Fa4Show.c), the name of the file     *)
(* that precedes its first line, the lines that OutALine keeps in order    *)
(* when there are several finds, ShowFLines which picks those of the typed *)
(* finds (-F1:n:, -F2:n:), and the list in which everything is held back   *)
(* under -F:1 until Find_In_Gen, at the end of the file, knows whether     *)
(* every find stands in it.                                                *)
(*                                                                         *)
(* The scan that calls ShowLine is that of FindInGen, or with -I+ that of  *)
(* Find_Skip: for each find in turn it reports lines in ascending order.   *)
(* Here the hits of each file are given, and that order is kept.  A hit is *)
(* found by FullComp, which counts it, or, for a regular expression in the *)
(* first file, by pcre_exec, which does not.                               *)
(***************************************************************************)
EXTENDS Integers, Sequences, SequencesExt, FiniteSetsExt

CONSTANTS
  FindCount,   (* g_dwFCnt, the number of finds.                           *)
  HitLists,    (* The sequences, by file, of the pairs <<find, line>> that *)
               (* the scan reports.                                        *)
  TypeLists,   (* The types of the finds: 0, or 1 and 2 of -F1 and -F2.    *)
  RegexLists,  (* Which of the finds are regular expressions.              *)
  Inhibited,   (* The pairs <<file, line>> that hold a text of -I:.        *)
  Switches     (* -F:1, -NF, whether lines are shown (VERB2), -I+.         *)

FindNum == 1..FindCount

Switch == [allIn1 : BOOLEAN, noFile : BOOLEAN, lines : BOOLEAN, skip : BOOLEAN]

ASSUME CountAssumption == FindCount \in Nat \ {0}
ASSUME HitsAssumption ==
  /\ HitLists \subseteq Seq(SUBSET (FindNum \X Nat))
  /\ \A h \in HitLists : \A i \in DOMAIN h : IsFiniteSet(h[i])
ASSUME TypesAssumption == TypeLists \subseteq [FindNum -> 0..2]
ASSUME RegexAssumption == RegexLists \subseteq [FindNum -> BOOLEAN]
ASSUME InhibitedAssumption == Inhibited \subseteq Nat \X Nat
ASSUME SwitchesAssumption == Switches \subseteq Switch

VARIABLES
  hits, types, isregex, sw,  (* The inputs.                                *)
  n, pc,              (* The file searched, and where the search is.       *)
  todo,               (* The hits that remain to be reported.              *)
  gfDoneFile,         (* The name of the file has been put out.            *)
  g_ioHold,           (* Output is held back; never reset.                 *)
  g_sLines,           (* The lines kept by OutALine.                       *)
  g_sOutList,         (* What is held back.                                *)
  out,                (* What has been printed.                            *)
  g_dwFndFlg,         (* The finds found in this file.                     *)
  g_dwFinds, gdwFinds, gdwFindsOut, g_dwFoundInFiles, g_dwMaxFnds

inputs == <<hits, types, isregex, sw>>
counts == <<g_dwFinds, gdwFinds, gdwFindsOut, g_dwFoundInFiles, g_dwMaxFnds>>
vars == <<inputs, n, pc, todo, gfDoneFile, g_ioHold, g_sLines, g_sOutList, out,
          g_dwFndFlg, counts>>

Name(m) == [file |-> m, find |-> 0, line |-> 0]
Item(m, h) == [file |-> m, find |-> h[1], line |-> h[2]]

Init ==
  /\ hits \in HitLists /\ types \in TypeLists /\ sw \in Switches
  /\ isregex \in RegexLists
  /\ n = 0 /\ pc = "open" /\ todo = {}
  /\ gfDoneFile = FALSE /\ g_ioHold = FALSE
  /\ g_sLines = <<>> /\ g_sOutList = <<>> /\ out = <<>>
  /\ g_dwFndFlg = {}
  /\ g_dwFinds = 0 /\ gdwFinds = 0 /\ gdwFindsOut = 0
  /\ g_dwFoundInFiles = 0 /\ g_dwMaxFnds = 0

OpenFile ==
  /\ pc = "open" /\ n < Len(hits)
  /\ n' = n + 1 /\ pc' = "scan" /\ todo' = hits[n + 1]
  /\ gfDoneFile' = FALSE
  /\ g_dwFndFlg' = {} /\ g_dwFinds' = 0
  /\ UNCHANGED <<inputs, g_ioHold, g_sLines, g_sOutList, out, gdwFinds,
                 gdwFindsOut, g_dwFoundInFiles, g_dwMaxFnds>>

-----------------------------------------------------------------------------
(* ShowLine.                                                               *)

Earlier(h, g) == h[1] < g[1] \/ (h[1] = g[1] /\ h[2] < g[2])
ThisHit == CHOOSE h \in todo : \A g \in todo \ {h} : Earlier(h, g)

(* A pattern is matched line by line in the file for which it is compiled, *)
(* the first, if comments are not passed over; elsewhere its text is       *)
(* compared like that of any find.                                         *)
DoRegex(k) == isregex[k] /\ n = 1 /\ ~sw.skip

(* What the scan does around the call; only Find_In_Gen sets the flag, and *)
(* only FullComp adds to gdwFinds.                                         *)
Hit ==
  /\ pc = "scan" /\ todo # {}
  /\ todo' = todo \ {ThisHit}
  /\ g_dwFndFlg' = IF sw.skip THEN g_dwFndFlg ELSE g_dwFndFlg \cup {ThisHit[1]}
  /\ g_dwFinds' = g_dwFinds + 1
  /\ gdwFinds' = IF DoRegex(ThisHit[1]) THEN gdwFinds ELSE gdwFinds + 1
  /\ UNCHANGED <<inputs, n, pc, g_dwMaxFnds>>

IsInhibited == <<n, ThisHit[2]>> \in Inhibited

(* A fault that the checks must notice: the find is not counted.           *)
HitInhibitedUncounted ==
  /\ Hit /\ IsInhibited
  /\ UNCHANGED <<gfDoneFile, g_ioHold, g_sLines, g_sOutList, out, g_dwFoundInFiles,
                 gdwFindsOut>>

HitInhibited ==
  /\ Hit /\ IsInhibited
  /\ gdwFindsOut' = gdwFindsOut + 1
  /\ UNCHANGED <<gfDoneFile, g_ioHold, g_sLines, g_sOutList, out, g_dwFoundInFiles>>

Several == FindCount > 1
Holds == g_ioHold \/ (sw.allIn1 /\ Several)

(* A fault that the checks must notice: gfDoneFile is never set.           *)
DoOutFileNameAgain ==
  /\ g_dwFoundInFiles' = g_dwFoundInFiles + 1
  /\ gfDoneFile' = FALSE
  /\ g_sOutList' = IF Holds /\ ~sw.noFile THEN Append(g_sOutList, Name(n))
                   ELSE g_sOutList

(* DoOutFileName, once for each file; with -NF it does not set gfDoneFile. *)
DoOutFileName ==
  IF gfDoneFile
  THEN UNCHANGED <<gfDoneFile, g_sOutList, g_dwFoundInFiles>>
  ELSE /\ g_dwFoundInFiles' = g_dwFoundInFiles + 1
       /\ gfDoneFile' = ~sw.noFile
       /\ g_sOutList' = IF Holds /\ ~sw.noFile THEN Append(g_sOutList, Name(n))
                        ELSE g_sOutList

NamePrinted == IF gfDoneFile \/ sw.noFile \/ Holds THEN <<>> ELSE <<Name(n)>>

(* A fault that the checks must notice: the line goes to the end.          *)
InsertLineLast(s, l) == Append(s, l)

(* OutALine's insertion: before the first line with a greater number.      *)
InsertLine(s, l) ==
  LET before == {i \in DOMAIN s : \A j \in 1..i : s[j].line <= l.line}
      k == Cardinality(before) + 1
  IN  InsertAt(s, k, l)

HitShown ==
  /\ Hit /\ ~IsInhibited
  /\ g_ioHold' = Holds
  /\ DoOutFileName
  /\ LET line == Item(n, ThisHit) IN
       /\ g_sLines' = IF sw.lines /\ Several THEN InsertLine(g_sLines, line)
                      ELSE g_sLines
       /\ out' = out \o NamePrinted
                     \o (IF sw.lines /\ ~Several THEN <<line>> ELSE <<>>)
  /\ UNCHANGED gdwFindsOut

-----------------------------------------------------------------------------
(* The end of the file.                                                    *)

(* ShowFLines: the types of the lines after those before i have been       *)
(* looked at; a line whose type has become 0 is put out.                   *)
(* Faults that the checks must notice: the find may be the same, the line  *)
(* may be another.                                                         *)
PartnersAnyFind(s, t, i) == {j \in DOMAIN s : j # i /\ t[j] # 0}

Partners(s, t, i) == {j \in DOMAIN s : j # i /\ t[j] # 0 /\ s[j].find # s[i].find}
SameLineAnyLine(s, t, i) == {j \in Partners(s, t, i) : t[j] = 2}
SameLine(s, t, i) == {j \in Partners(s, t, i) : t[j] = 2 /\ s[j].line = s[i].line}

ShowFLinesTypes(s) ==
  LET after[i \in 0..Len(s)] ==
        IF i = 0 THEN [j \in DOMAIN s |-> types[s[j].find]]
        ELSE LET t == after[i - 1] IN
             IF t[i] = 1 /\ Partners(s, t, i) # {}
             THEN [j \in DOMAIN s |->
                     IF j = i \/ (j \in Partners(s, t, i) /\ s[j].line # s[i].line)
                     THEN 0 ELSE t[j]]
             ELSE IF t[i] = 2 /\ SameLine(s, t, i) # {} THEN [t EXCEPT ![i] = 0]
             ELSE t
  IN  after[Len(s)]

(* The indexes of s that t leaves for the output, in order.                *)
Picked(s, t) ==
  LET item(i) == IF t[i] = 0 THEN <<s[i]>> ELSE <<>>
      upto[i \in 0..Len(s)] == IF i = 0 THEN <<>> ELSE upto[i - 1] \o item(i)
  IN  upto[Len(s)]

(* ShowFLines, with one find: nothing is kept for it.                      *)
LinesOut == Picked(g_sLines, ShowFLinesTypes(g_sLines))

Held == IF g_ioHold THEN g_sOutList \o LinesOut ELSE g_sOutList

Frame == UNCHANGED <<inputs, n, todo, gfDoneFile, g_ioHold, g_dwFndFlg,
                     g_dwFinds, gdwFinds, gdwFindsOut, g_dwFoundInFiles>>

EndScan == /\ pc = "scan" /\ todo = {}
           /\ pc' = IF n < Len(hits) THEN "open" ELSE "done"
           /\ Frame

(* A fault that the checks must notice: what is held is not thrown away.   *)
EndRejectedKeeps ==
  /\ EndScan
  /\ g_ioHold /\ ~(sw.allIn1 /\ g_dwFinds > 0 /\ g_dwFndFlg = FindNum)
  /\ g_sLines' = <<>> /\ g_sOutList' = Held
  /\ UNCHANGED <<out, g_dwMaxFnds>>

(* Nothing is held: the lines are printed.                                 *)
EndPrints ==
  /\ EndScan /\ ~g_ioHold
  /\ out' = out \o LinesOut
  /\ g_sLines' = <<>> /\ g_sOutList' = <<>>
  /\ UNCHANGED g_dwMaxFnds

(* -F:1, and every find stands in the file.                                *)
EndReleases ==
  /\ EndScan
  /\ g_ioHold /\ sw.allIn1 /\ g_dwFinds > 0 /\ g_dwFndFlg = FindNum
  /\ out' = out \o Held
  /\ g_dwMaxFnds' = g_dwMaxFnds + 1
  /\ g_sLines' = <<>> /\ g_sOutList' = <<>>

(* -F:1, and one of them does not; killoutlist.                            *)
EndRejected ==
  /\ EndScan
  /\ g_ioHold /\ ~(sw.allIn1 /\ g_dwFinds > 0 /\ g_dwFndFlg = FindNum)
  /\ g_sLines' = <<>> /\ g_sOutList' = <<>>
  /\ UNCHANGED <<out, g_dwMaxFnds>>

EndFile == EndPrints \/ EndReleases \/ EndRejected

Next == OpenFile \/ HitInhibited \/ HitShown \/ EndFile

Spec == Init /\ [][Next]_vars

-----------------------------------------------------------------------------
TypeOK ==
  /\ hits \in HitLists /\ types \in TypeLists /\ sw \in Switches
  /\ isregex \in RegexLists
  /\ n \in 0..Len(hits) /\ pc \in {"open", "scan", "done"}
  /\ todo \subseteq (IF n = 0 THEN {} ELSE hits[n])
  /\ gfDoneFile \in BOOLEAN /\ g_ioHold \in BOOLEAN
  /\ \A s \in {g_sLines, g_sOutList, out} :
       \A i \in DOMAIN s : s[i] \in [file : 1..n, find : 0..FindCount, line : Nat]
  /\ g_dwFndFlg \subseteq FindNum
  /\ \A c \in {g_dwFinds, gdwFinds, gdwFindsOut, g_dwFoundInFiles, g_dwMaxFnds} :
       c \in Nat

(* The files that are finished, what of each may be shown, and what was.   *)
Left == {m \in DOMAIN hits : m < n \/ (m = n /\ pc # "scan")}
Free(m) == {h \in hits[m] : <<m, h[2]>> \notin Inhibited}
FindsIn(m) == {h[1] : h \in hits[m]}
Passes(m) == (sw.allIn1 /\ Several) => FindsIn(m) = FindNum
Output(m) == {i \in DOMAIN out : out[i].file = m /\ out[i].find # 0}
Shown(m) == {<<out[i].find, out[i].line>> : i \in Output(m)}
TypedIn(m) == {k \in {h[1] : h \in Free(m)} : types[k] # 0}

(* Fa4.c:3027-3069, 228-244: every line printed stands under the name of   *)
(* its file, with no other name between, and no name is printed twice,     *)
(* whether the lines were printed at once, kept or held back.              *)
NamesHeadLines ==
  \A i \in DOMAIN out :
    IF out[i].find = 0
    THEN ~sw.noFile /\ \A j \in DOMAIN out \ {i} : out[j] # out[i]
    ELSE sw.noFile \/ \E j \in 1..(i - 1) :
           out[j] = Name(out[i].file) /\ \A l \in j..i : out[l].file = out[i].file

(* Fa4.c:2563-2599: the lines of several finds come out in the order of    *)
(* the file, though each find is searched for after the other.             *)
LinesInOrder ==
  \A i, j \in DOMAIN out : i < j =>
    \/ out[i].file < out[j].file
    \/ out[i].file = out[j].file /\ out[i].line <= out[j].line

(* Fa4Find.c:1026-1049, Fa4Out.c:15-58: when a file has been left its      *)
(* lines that are not inhibited have all been printed, once, or none has,  *)
(* because of -F:1 and a find that does not stand in it; so for its name;  *)
(* and nothing is kept for the file that follows.                          *)
ShownAsAsked ==
  \A m \in Left :
    /\ g_sLines = <<>> \/ m # n
    /\ g_sOutList = <<>> \/ m # n
    /\ (sw.skip => ~sw.allIn1) =>
         /\ (\A k \in FindNum : types[k] = 0) =>
              /\ Shown(m) = IF sw.lines /\ Passes(m) THEN Free(m) ELSE {}
              /\ Cardinality(Output(m)) = Cardinality(Shown(m))
         /\ (Name(m) \in ToSet(out)) <=> (~sw.noFile /\ Free(m) # {} /\ Passes(m))

(* Fa4Find.c:308-327, "1: can ONLY output if other types found in same     *)
(* FILE": of the finds of type 1 a file shows a line exactly when it holds *)
(* two of them.                                                            *)
TypedNeedCompany ==
  \A m \in Left :
    sw.lines /\ Several /\ Passes(m) /\ ~sw.skip /\ (\A k \in FindNum : types[k] # 2) =>
      ((\E h \in Shown(m) : types[h[1]] = 1) <=> Cardinality(TypedIn(m)) > 1)

(* Fa4Find.c:328-345, "2: can ONLY output if other types found in same     *)
(* file AND line": with no find of type 1, the lines shown for those of    *)
(* type 2 are the ones that hold two of them.                              *)
TypedShareLine ==
  \A m \in Left :
    sw.lines /\ Several /\ Passes(m) /\ ~sw.skip /\ (\A k \in FindNum : types[k] # 1) =>
      {h[2] : h \in {g \in Shown(m) : types[g[1]] = 2}} =
      {h[2] : h \in {g \in Free(m) : types[g[1]] = 2 /\
                        \E f \in Free(m) : types[f[1]] = 2 /\ f[1] # g[1] /\ f[2] = g[2]}}

(* The lines that a pattern has matched.                                   *)
MatchedHits ==
  IF hits = <<>> \/ sw.skip THEN {} ELSE {h \in hits[1] : isregex[h[1]]}

(* Fa4Comp.c:193, Fa4Show.c:220, Fa4.c:5058: when all is searched the exit *)
(* code is the number of the finds that are not inhibited less the lines   *)
(* that a pattern has matched, which nothing counts.  So "Errorlevel gives *)
(* the find count" (Fa4Help.c:160) is kept where no pattern has matched,   *)
(* and nowhere else: with one the code is too small, down to a negative    *)
(* one where lines that it matched are inhibited.                          *)
ExitTellsFinds ==
  pc = "done" =>
    gdwFinds - gdwFindsOut = Cardinality(UNION {{m} \X Free(m) : m \in DOMAIN hits})
                               - Cardinality(MatchedHits)

(* Fa4Help.c:115, "-F:1 = all in one file": a file in which every find     *)
(* stands is shown, whatever else is asked.                                *)
SkipAllInOne ==
  \A m \in Left : sw.allIn1 /\ sw.lines /\ FindsIn(m) = FindNum => Shown(m) = Free(m)
=============================================================================
