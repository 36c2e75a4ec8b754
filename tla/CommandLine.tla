------------------------------ MODULE CommandLine ------------------------------
(***************************************************************************)
(* From the command line to the exit: ProcessArgs takes the arguments one  *)
(* by one, an argument "@file" is opened in one of MXINPFS rotating slots, *)
(* read, cut into arguments and given to ProcessArgs again, to any depth.  *)
(* Fa4_main then searches, or tells the error; every way out goes through  *)
(* Pgm_Exit and its longjmp.                                               *)
(*                                                                         *)
(* An argument is a record of what it asks for; how its text is taken      *)
(* apart is left out.  The search is one step, FileWalk has its detail.    *)
(* Handles and buffers are numbered in the order they are taken, so that a *)
(* stale one can be told from the one that took its place.                 *)
(***************************************************************************)
EXTENDS Integers, Sequences, FiniteSets, SequencesExt

CONSTANTS
  MXINPFS,    (* How many slots there are.                                 *)
  MXARGS,     (* How many arguments an input file has, with the dummy one. *)
  MaxOpen,    (* How many handles the system lets the program have open.   *)
  MaxFinds,   (* The bound of what the search counts, either way.          *)
  Values,     (* The texts of finds and of file masks.                     *)
  Inputs,     (* Inputs[v]: what the argument "@v" leads to.               *)
  Commands    (* The command lines.                                        *)

AllFiles == "*.*"
RestOfList == "rest of the list"

(* "text" is an argument that is no switch and "blank" one of only quotes, *)
(* "find" is -F=text, "switch" any switch that is accepted and only sets a *)
(* flag, "bad" one that is refused, "out" -O, "list" -U.                   *)
Ops == {"text", "blank", "find", "switch", "bad", "help", "version", "out",
        "input", "list"}

Item == {it \in [op : Ops, arg : Values \cup DOMAIN Inputs] :
           /\ it.op \in {"text", "find"} => it.arg \in Values
           /\ it.op = "input" => it.arg \in DOMAIN Inputs}

(* What stat, open and read say of an input: not there, not to be opened,  *)
(* of no bytes, over MY_MAX_FILESIZE, shorter than stat said, or read.     *)
Kinds == {"missing", "shut", "empty", "big", "short", "read"}

ASSUME BoundsAssumption == /\ MXINPFS \in Nat \ {0} /\ MXARGS \in Nat \ {0, 1}
                           /\ MaxOpen \in Nat /\ MaxFinds \in Nat
ASSUME InputsAssumption ==
  \A v \in DOMAIN Inputs : Inputs[v].kind \in Kinds /\ Inputs[v].items \in Seq(Item)
(* That rest is told from the names that arguments give.                   *)
ASSUME ValuesAssumption == RestOfList \notin Values
ASSUME CommandsAssumption == Commands \subseteq Seq(Item)

GEN_ERROR == -1
NoHandle == 0
INVALID_HANDLE_VALUE == -1

VARIABLES
  argp,              (* The command line.                                  *)
  pc,                (* Where the program is.                              *)
  stack,             (* The calls of ProcessArgs in flight.                *)
  giFirst,           (* Whether the first argument without a switch, or a  *)
                     (* find, was seen.                                    *)
  g_sFind, g_sFileList, (* The finds and the masks, in the order given.    *)
  glpOutFile,        (* Whether -O named a file, ...                       *)
  ghOutFile,         (* ... and whether it is open.                        *)
  glpError,          (* Whether an error was noted.                        *)
  gsGFS, gdwGFCnt,   (* The slots for input files, and the next of them.   *)
  opened,            (* How many inputs were opened.                       *)
  handles, buffers,  (* The handles open and the buffers allocated.        *)
  gdwFinds,          (* The finds counted less those inhibited.            *)
  glpMapView, lpWS, iCritErr, iRetVal

input == <<argp>>
lists == <<giFirst, g_sFind, g_sFileList>>
reading == <<gsGFS, gdwGFCnt, opened, handles, buffers>>
outfile == <<glpOutFile, ghOutFile>>
result == <<gdwFinds, glpMapView, lpWS, iCritErr, iRetVal>>
vars == <<input, pc, stack, lists, outfile, glpError, reading, result>>

(* A call of ProcessArgs: its arguments, the next of them, and the number  *)
(* and the slot of the input that it reads, 0 for the command line.        *)
Call(args, n, slot) == [args |-> args, i |-> 1, no |-> n, slot |-> slot]

(* DoSetup: the work structure is allocated and cleared.                   *)
Init ==
  /\ argp \in Commands
  /\ pc = "start" /\ stack = <<>>
  /\ giFirst = FALSE /\ g_sFind = <<>> /\ g_sFileList = <<>>
  /\ glpOutFile = FALSE /\ ghOutFile = FALSE /\ glpError = FALSE
  /\ gsGFS = [s \in 0..MXINPFS - 1 |-> [hnd |-> NoHandle, buf |-> 0]]
  /\ gdwGFCnt = 0 /\ opened = 0 /\ handles = {} /\ buffers = {}
  /\ gdwFinds = 0 /\ glpMapView = FALSE /\ lpWS = TRUE
  /\ iCritErr = 0 /\ iRetVal = -1

-----------------------------------------------------------------------------
(* Usage and show_version print and leave by Pgm_Exit.                     *)
Usage ==
  /\ pc' = "exit"
  /\ UNCHANGED <<input, stack, lists, outfile, glpError, reading, result>>

(* Fa4_main, up to the first call of ProcessArgs.                          *)
Start ==
  /\ pc = "start" /\ argp # <<>>
  /\ stack' = <<Call(argp, 0, 0)>>
  /\ pc' = "enter"
  /\ UNCHANGED <<input, lists, outfile, glpError, reading, result>>

StartWithout == pc = "start" /\ argp = <<>> /\ Usage

Current == Last(stack)
Bumped == [stack EXCEPT ![Len(stack)].i = @ + 1]

(* Check4Help looks through all the arguments before the first is taken.   *)
AsksHelp(args) == \E i \in DOMAIN args : args[i].op = "help"

EnterHelp == pc = "enter" /\ AsksHelp(Current.args) /\ Usage

Enter ==
  /\ pc = "enter" /\ ~AsksHelp(Current.args)
  /\ pc' = "args"
  /\ UNCHANGED <<input, stack, lists, outfile, glpError, reading, result>>

(* A fault that the checks must notice: the loop does not break.           *)
LoopEndsOnly(call) == call.i > Len(call.args)

(* The loop of ProcessArgs ends, or breaks after an argument that left an  *)
(* error; the first is taken whatever was noted before.                    *)
LoopEnds(call) == call.i > Len(call.args) \/ (glpError /\ call.i > 1)

Taking(op) ==
  /\ pc = "args" /\ ~LoopEnds(Current)
  /\ Current.args[Current.i].op = op
Arg == Current.args[Current.i].arg

TakeVersion == Taking("version") /\ Usage

TakeSwitch ==
  /\ \/ Taking("switch") /\ UNCHANGED <<glpError, glpOutFile>>
     \/ Taking("bad") /\ glpError' = TRUE /\ UNCHANGED glpOutFile
     \/ Taking("out") /\ glpOutFile' = TRUE /\ UNCHANGED glpError
  /\ stack' = Bumped
  /\ UNCHANGED <<input, pc, lists, ghOutFile, reading, result>>

(* -F=text: Add2Finds.                                                     *)
TakeFind ==
  /\ Taking("find")
  /\ g_sFind' = Append(g_sFind, Arg) /\ giFirst' = TRUE
  /\ stack' = Bumped
  /\ UNCHANGED <<input, pc, g_sFileList, outfile, glpError, reading, result>>

(* No switch and no "@": the first is the find, the others are masks.  Of  *)
(* an argument of only quotes nothing is kept, but it counts.              *)
TakeText ==
  /\ Taking("text") \/ Taking("blank")
  /\ giFirst' = TRUE
  /\ LET kept == IF Taking("text") THEN <<Arg>> ELSE <<>>
     IN IF giFirst THEN g_sFileList' = g_sFileList \o kept /\ UNCHANGED g_sFind
                   ELSE g_sFind' = g_sFind \o kept /\ UNCHANGED g_sFileList
  /\ stack' = Bumped
  /\ UNCHANGED <<input, pc, outfile, glpError, reading, result>>

(* -U: Do_U_Switch looks for the end of a name at pb[len], past what was   *)
(* read, in memory that nothing has set: with a control character there no *)
(* name is ever added, with any other the rest of the file is one name.    *)
TakeList ==
  /\ Taking("list")
  /\ \/ UNCHANGED g_sFileList
     \/ g_sFileList' = Append(g_sFileList, RestOfList)
  /\ stack' = Bumped
  /\ UNCHANGED <<input, pc, giFirst, g_sFind, outfile, glpError, reading, result>>

-----------------------------------------------------------------------------
(* DoAnINP, with Open4Read, OpenReadFile and CloseARead.                   *)

(* A fault that the checks must notice: gdwGFCnt > MXINPFS wraps.          *)
NextSlotLate == IF gdwGFCnt + 1 > MXINPFS THEN 0 ELSE gdwGFCnt + 1

NextSlot == IF gdwGFCnt + 1 >= MXINPFS THEN 0 ELSE gdwGFCnt + 1

Valid(h) == h \notin {NoHandle, INVALID_HANDLE_VALUE}

Slot == gsGFS[gdwGFCnt]
NewHandle == opened + 1

(* A fault that the checks must notice: a taken slot gives its buffer back. *)
FreeOnTake == buffers \ {Slot.buf}

(* GetNxtGFS frees nothing of what the slot may still hold.                *)
BuffersOnTake == buffers

(* A fault that the checks must notice: an "@" counts as the first.        *)
FirstByInput == giFirst' = TRUE

(* giFirst++ only where it was not 0.                                      *)
FirstOnInput == UNCHANGED giFirst

TakingInput(kinds) ==
  /\ Taking("input") /\ Inputs[Arg].kind \in kinds
  /\ gdwGFCnt' = NextSlot
  /\ FirstOnInput

(* stat fails: *ph is as it was, and Open4Read closes what is in the slot. *)
InputMissing ==
  /\ TakingInput({"missing"})
  /\ handles' = handles \ {Slot.hnd}
  /\ gsGFS' = [gsGFS EXCEPT ![gdwGFCnt].hnd = INVALID_HANDLE_VALUE]
  /\ glpError' = TRUE /\ stack' = Bumped
  /\ UNCHANGED <<input, pc, g_sFind, g_sFileList, outfile, opened, buffers, result>>

(* fopen fails: the slot forgets the handle it had.                        *)
InputShut ==
  /\ \/ TakingInput({"shut"})
     \/ TakingInput(Kinds \ {"missing"}) /\ Cardinality(handles) >= MaxOpen
  /\ gsGFS' = [gsGFS EXCEPT ![gdwGFCnt].hnd = INVALID_HANDLE_VALUE]
  /\ glpError' = TRUE /\ stack' = Bumped
  /\ UNCHANGED <<input, pc, g_sFind, g_sFileList, outfile, opened, handles,
                 buffers, result>>

(* A fault that the checks must notice: a file too large is left open.     *)
CloseUnlessBig == IF Inputs[Arg].kind = "big" THEN handles \cup {NewHandle} ELSE handles

(* The handle was opened and is closed again.                              *)
ClosedAgain == handles

(* The file is opened, but has no bytes, is too large or reads short.      *)
InputRefused ==
  /\ TakingInput({"empty", "big", "short"}) /\ Cardinality(handles) < MaxOpen
  /\ opened' = NewHandle /\ handles' = ClosedAgain
  /\ gsGFS' = [gsGFS EXCEPT ![gdwGFCnt] =
       CASE Inputs[Arg].kind = "empty" -> [@ EXCEPT !.hnd = INVALID_HANDLE_VALUE]
         [] Inputs[Arg].kind = "big"   -> [@ EXCEPT !.hnd = NoHandle]
         [] Inputs[Arg].kind = "short" -> [hnd |-> NoHandle, buf |-> 0]]
  /\ glpError' = TRUE /\ stack' = Bumped
  /\ UNCHANGED <<input, pc, g_sFind, g_sFileList, outfile, buffers, result>>

(* DoReadBuf: as many arguments as lpa holds; the dummy one is counted.    *)
TooMany(v) == Len(Inputs[v].items) >= MXARGS - 1
ArgsOf(v) == IF TooMany(v) THEN SubSeq(Inputs[v].items, 1, MXARGS - 1)
                           ELSE Inputs[v].items

(* Nothing but comments: freed and closed at once, and no error.           *)
InputHollow ==
  /\ TakingInput({"read"}) /\ Cardinality(handles) < MaxOpen
  /\ Inputs[Arg].items = <<>>
  /\ opened' = NewHandle
  /\ gsGFS' = [gsGFS EXCEPT ![gdwGFCnt] = [hnd |-> NoHandle, buf |-> 0]]
  /\ stack' = Bumped
  /\ UNCHANGED <<input, pc, g_sFind, g_sFileList, outfile, glpError, handles,
                 buffers, result>>

(* ProcessArgs is called for the arguments, also where they are too many.  *)
InputRead ==
  /\ TakingInput({"read"}) /\ Cardinality(handles) < MaxOpen
  /\ Inputs[Arg].items # <<>>
  /\ opened' = NewHandle
  /\ handles' = handles \cup {NewHandle}
  /\ buffers' = BuffersOnTake \cup {NewHandle}
  /\ gsGFS' = [gsGFS EXCEPT ![gdwGFCnt] = [hnd |-> NewHandle, buf |-> NewHandle]]
  /\ glpError' = (glpError \/ TooMany(Arg))
  /\ stack' = Append(Bumped, Call(ArgsOf(Arg), NewHandle, gdwGFCnt))
  /\ pc' = "enter"
  /\ UNCHANGED <<input, g_sFind, g_sFileList, outfile, result>>

(* A fault that the checks must notice: fs_hHnd keeps the closed handle.   *)
EmptySlotKeepsHandle(s) == [gsGFS EXCEPT ![s].buf = 0]

EmptySlot(s) == [gsGFS EXCEPT ![s] = [hnd |-> NoHandle, buf |-> 0]]

(* The end of DoAnINP: what the slot holds now is freed and closed.        *)
EndOfInput ==
  /\ pc = "args" /\ Len(stack) > 1 /\ LoopEnds(Current)
  /\ buffers' = buffers \ {gsGFS[Current.slot].buf}
  /\ handles' = handles \ {gsGFS[Current.slot].hnd}
  /\ gsGFS' = EmptySlot(Current.slot)
  /\ stack' = Front(stack)
  /\ UNCHANGED <<input, pc, lists, outfile, glpError, gdwGFCnt, opened, result>>

EndOfArgs ==
  /\ pc = "args" /\ Len(stack) = 1 /\ LoopEnds(Current)
  /\ stack' = <<>> /\ pc' = "main"
  /\ UNCHANGED <<input, lists, outfile, glpError, reading, result>>

-----------------------------------------------------------------------------
(* Fa4_main after the arguments, and the ways out.                         *)

(* Error_Exit, but for the message: the log of -O is closed.               *)
ErrorExit ==
  /\ iCritErr' = GEN_ERROR
  /\ ghOutFile' = FALSE
  /\ pc' = "exit"

(* The -O file may fail to open; all errors so far are told at once.       *)
MainFails ==
  /\ pc = "main"
  /\ glpError \/ g_sFind = <<>> \/ glpOutFile
  /\ glpError' = FALSE
  /\ g_sFileList' = IF g_sFileList = <<>> THEN <<AllFiles>> ELSE g_sFileList
  /\ ErrorExit
  /\ UNCHANGED <<input, stack, giFirst, g_sFind, glpOutFile, reading, gdwFinds,
                 glpMapView, lpWS, iRetVal>>

MainGoesOn ==
  /\ pc = "main" /\ ~glpError /\ g_sFind # <<>>
  /\ g_sFileList' = IF g_sFileList = <<>> THEN <<AllFiles>> ELSE g_sFileList
  /\ ghOutFile' = glpOutFile
  /\ pc' = "search"
  /\ UNCHANGED <<input, stack, giFirst, g_sFind, glpOutFile, glpError, reading, result>>

(* Process_Finds and the summary.  Lines that a pattern matched and that   *)
(* are inhibited are subtracted without having been counted.               *)
Search ==
  /\ pc = "search"
  /\ gdwFinds' \in -MaxFinds..MaxFinds
  /\ pc' = "exit"
  /\ UNCHANGED <<input, stack, lists, outfile, glpError, reading, glpMapView,
                 lpWS, iCritErr, iRetVal>>

(* A pattern that does not compile ends the search with a file mapped.     *)
SearchFails ==
  /\ pc = "search"
  /\ glpMapView' = TRUE
  /\ ErrorExit
  /\ UNCHANGED <<input, stack, lists, glpOutFile, glpError, reading, gdwFinds,
                 lpWS, iRetVal>>

(* A fault that the checks must notice: a setjmp that returns 0 again.     *)
LongJmpAsGiven(val) == val

(* What setjmp returns for longjmp(mark, val): never 0.                    *)
LongJmp(val) == IF val = 0 THEN 1 ELSE val

(* Pgm_Exit, then the second return of setjmp in JMP_main, and main.       *)
PgmExit ==
  /\ pc = "exit"
  /\ g_sFind' = <<>> /\ g_sFileList' = <<>> /\ glpMapView' = FALSE
  /\ iRetVal' = IF iCritErr # 0 THEN iCritErr ELSE gdwFinds
  /\ lpWS' = FALSE
  /\ pc' = IF LongJmp(iCritErr) = 0 THEN "start" ELSE "end"
  /\ stack' = <<>>
  /\ UNCHANGED <<input, giFirst, outfile, glpError, reading, gdwFinds, iCritErr>>

Next ==
  \/ Start \/ StartWithout \/ Enter \/ EnterHelp
  \/ TakeVersion \/ TakeSwitch \/ TakeFind \/ TakeText \/ TakeList
  \/ InputMissing \/ InputShut \/ InputRefused \/ InputHollow \/ InputRead
  \/ EndOfInput \/ EndOfArgs
  \/ MainFails \/ MainGoesOn \/ Search \/ SearchFails \/ PgmExit

(* One thread runs the program and never waits.                            *)
Spec == Init /\ [][Next]_vars /\ WF_vars(Next)

-----------------------------------------------------------------------------
(* The arguments as a reader of the command line takes them: every "@" is  *)
(* replaced by what is in the file, here Expanded to a depth d; an input   *)
(* that the program must refuse is an error in its place.                  *)

Is(op) == <<[op |-> op, arg |-> 0]>>

(* What the first n arguments stand for: in[v] for the input v.            *)
UpTo(args, in) ==
  LET upTo[n \in 0..Len(args)] ==
        IF n = 0 THEN <<>>
        ELSE upTo[n - 1] \o (IF args[n].op = "input" THEN in[args[n].arg]
                                                     ELSE <<args[n]>>)
  IN upTo

Flat(args, in) == IF AsksHelp(args) THEN Is("help") ELSE UpTo(args, in)[Len(args)]

First(args, in) ==
  IF args = <<>> THEN <<>>
  ELSE IF Head(args).op = "input" THEN in[Head(args).arg] ELSE <<Head(args)>>

(* Of an input with too many arguments only the first is read, and so of   *)
(* the input that it may name.                                             *)
Begun[d \in 0..MaxOpen] ==
  [v \in DOMAIN Inputs |->
     IF d = 0 \/ Inputs[v].kind # "read" THEN Is("bad")
     ELSE IF AsksHelp(ArgsOf(v)) THEN Is("help")
     ELSE First(ArgsOf(v), Begun[d - 1])]

Expanded[d \in 0..MaxOpen] ==
  [v \in DOMAIN Inputs |->
     IF d = 0 \/ Inputs[v].kind # "read" THEN Is("bad")
     ELSE IF TooMany(v) THEN Begun[d][v] \o Is("bad")
     ELSE Flat(ArgsOf(v), Expanded[d - 1])]

AsWritten == Flat(argp, Expanded[MaxOpen])

(* The first argument, if any, that ends the reading.                      *)
Stopping == {"bad", "help", "version"}
Stops == {i \in DOMAIN AsWritten : AsWritten[i].op \in Stopping}
Stop == IF Stops = {} THEN "none"
        ELSE AsWritten[CHOOSE i \in Stops : \A j \in Stops : i <= j].op

(* The members of the sequence s at the places S, in their order.          *)
PickedOf(s, S) ==
  LET upTo[n \in 0..Len(s)] ==
        IF n = 0 THEN <<>>
        ELSE IF n \in S THEN Append(upTo[n - 1], s[n]) ELSE upTo[n - 1]
  IN upTo[Len(s)]

(* The first text of w is the find unless a find comes before it.          *)
Positional(w) == {i \in DOMAIN w : w[i].op \in {"text", "blank", "find"}}
IsFirst(w, i) == \A j \in Positional(w) : i <= j
ArgsAt(w, S) == PickedOf([i \in DOMAIN w |-> w[i].arg], S)
FindsOf(w) == ArgsAt(w, {i \in Positional(w) : \/ w[i].op = "find"
                                               \/ w[i].op = "text" /\ IsFirst(w, i)})
FilesOf(w) == ArgsAt(w, {i \in Positional(w) : w[i].op = "text" /\ ~IsFirst(w, i)})

(* The masks of a list that stand in the command line or in an input.      *)
Listed(masks) == PickedOf(masks, {i \in DOMAIN masks : masks[i] # RestOfList})

-----------------------------------------------------------------------------
Handle == Nat \cup {INVALID_HANDLE_VALUE}
CallType == [args : Seq(Item), i : Nat \ {0}, no : Nat, slot : 0..MXINPFS - 1]

(* Every variable has its type, and the slot to come is one of MXINPFS.    *)
TypeOK ==
  /\ argp \in Commands
  /\ pc \in {"start", "enter", "args", "main", "search", "exit", "end"}
  /\ stack \in Seq(CallType)
  /\ g_sFind \in Seq(Values)
  /\ g_sFileList \in Seq(Values \cup {AllFiles, RestOfList})
  /\ giFirst \in BOOLEAN /\ glpOutFile \in BOOLEAN /\ ghOutFile \in BOOLEAN
  /\ glpError \in BOOLEAN /\ glpMapView \in BOOLEAN /\ lpWS \in BOOLEAN
  /\ gsGFS \in [0..MXINPFS - 1 -> [hnd : Handle, buf : Nat]]
  /\ gdwGFCnt \in 0..MXINPFS - 1 /\ opened \in Nat
  /\ handles \subseteq 1..opened /\ buffers \subseteq 1..opened
  /\ gdwFinds \in -MaxFinds..MaxFinds /\ iCritErr \in {0, GEN_ERROR}
  /\ iRetVal \in -MaxFinds..MaxFinds \cup {GEN_ERROR}

(* The search is for the finds, and in the files, that the arguments name, *)
(* in the order in which they stand when every "@" is replaced by its      *)
(* file, however deep the files lie and however often one is named; none   *)
(* of the arguments was refused.  -U adds what it will.                    *)
ItemsTaken ==
  pc = "search" =>
    /\ Stop = "none"
    /\ g_sFind = FindsOf(AsWritten)
    /\ Listed(g_sFileList) =
         IF FilesOf(AsWritten) = <<>> /\ RestOfList \notin ToSet(g_sFileList)
         THEN <<AllFiles>> ELSE FilesOf(AsWritten)

(* No slot holds a handle that was closed or a buffer that was freed, so   *)
(* that Open4Read, CloseARead and MFREE never meet one: also where more    *)
(* inputs are nested than there are slots and two calls share one.         *)
SlotsAlive ==
  \A s \in DOMAIN gsGFS :
    /\ Valid(gsGFS[s].hnd) => gsGFS[s].hnd \in handles
    /\ gsGFS[s].buf # 0 => gsGFS[s].buf \in buffers

(* The arguments of a call of ProcessArgs lie in the buffer of its input:  *)
(* it is not freed while the call runs, whatever is done with its slot.    *)
ArgsAlive ==
  \A k \in DOMAIN stack : stack[k].no # 0 => stack[k].no \in buffers

(* While no slot was given out twice (one is taken by an input that cannot *)
(* be opened, too, but then no other follows), the handles open and the    *)
(* buffers held are those of the inputs being read: no path loses one.     *)
HandlesAreInputs ==
  pc # "end" /\ opened < MXINPFS =>
    LET inFlight == {stack[k].no : k \in DOMAIN stack} \ {0}
    IN inFlight = handles /\ inFlight = buffers

(* What the program returns follows from what was written: 0 where help or *)
(* the version was asked for before an error, GEN_ERROR for an error       *)
(* anywhere in the files named, or if there is no find, else what the      *)
(* search says.  (Not claimed for more inputs than handles, read in turn.) *)
ExitAsWritten ==
  pc = "end" /\ opened <= MaxOpen =>
    CASE argp = <<>> \/ Stop \in {"help", "version"} -> iRetVal = 0
      [] argp # <<>> /\ (Stop = "bad" \/ (Stop = "none" /\ FindsOf(AsWritten) = <<>>)) ->
           iRetVal = GEN_ERROR
      [] OTHER -> iRetVal \in {gdwFinds, GEN_ERROR}

(* The program ends, also where an input names itself: the handles run out *)
(* and the error unwinds every call.                                       *)
Ends == <>(pc = "end")
=============================================================================
