-------------------------- MODULE CommandLine_proofs --------------------------
(* Proofs about CommandLine: its types; that no slot and no call of        *)
(* ProcessArgs holds what was closed or freed, and that none is lost while *)
(* each input has a slot of its own; that the search is for what the       *)
(* arguments name; and that the exit code follows from them.  For every    *)
(* command line and every set of input files, however deep they nest.      *)
EXTENDS CommandLine, FA4Lemmas, SequenceTheorems

(* There is a call of ProcessArgs while arguments are taken.               *)
InCall == pc \in {"enter", "args"} => stack # <<>>

TypeInv == TypeOK /\ InCall

(* What the loop of ProcessArgs does to the calls: the last one goes on to *)
(* its next argument, and the others are as they were.                     *)
LEMMA BumpedIs ==
  ASSUME stack \in Seq(CallType), stack # <<>>
  PROVE  /\ Current \in CallType
         /\ Bumped \in Seq(CallType) /\ Len(Bumped) = Len(stack)
         /\ \A k \in 1..Len(stack) : /\ Bumped[k].no = stack[k].no
                                     /\ Bumped[k].slot = stack[k].slot
<1>1. Len(stack) \in 1..Len(stack) /\ Len(stack) \in Nat
  OBVIOUS
<1>2. Current \in CallType /\ Current = stack[Len(stack)]
  BY <1>1 DEF Current, Last
<1>3. Bumped = [stack EXCEPT ![Len(stack)] = [Current EXCEPT !.i = Current.i + 1]]
  BY <1>1, <1>2 DEF Bumped, CallType
<1>4. [Current EXCEPT !.i = Current.i + 1] \in CallType
  <2>1. ASSUME NEW c \in CallType PROVE [c EXCEPT !.i = c.i + 1] \in CallType
    <3>1. c.i + 1 \in Nat \ {0}
      BY DEF CallType
    <3> QED BY <3>1 DEF CallType
  <2> QED BY <1>2, <2>1
<1>5. [Current EXCEPT !.i = Current.i + 1].no = Current.no /\ [Current EXCEPT !.i = Current.i + 1].slot = Current.slot
  BY <1>2 DEF CallType
<1> HIDE DEF Current, Bumped
<1>6. Bumped \in Seq(CallType) /\ Len(Bumped) = Len(stack)
  BY <1>1, <1>3, <1>4
<1>7. ASSUME NEW k \in 1..Len(stack)
      PROVE  Bumped[k].no = stack[k].no /\ Bumped[k].slot = stack[k].slot
  <2>1. CASE k = Len(stack)
    BY <1>1, <1>2, <1>3, <1>5, <2>1
  <2>2. CASE k # Len(stack)
    BY <1>1, <1>3, <2>2
  <2> QED BY <2>1, <2>2
<1> QED BY <1>2, <1>6, <1>7

(* The argument in hand is one of the call's.                              *)
LEMMA ArgIs ==
  ASSUME TypeInv, NEW op \in Ops, Taking(op)
  PROVE  /\ stack # <<>>
         /\ op \in {"text", "find"} => Arg \in Values
         /\ op = "input" => Arg \in DOMAIN Inputs
<1>1. stack # <<>> /\ stack \in Seq(CallType)
  BY DEF TypeInv, TypeOK, InCall, Taking
<1>2. Current \in CallType
  BY <1>1, BumpedIs
<1>3. Current.i \in 1..Len(Current.args)
  BY <1>2 DEF Taking, LoopEnds, CallType
<1>4. Current.args[Current.i] \in Item
  BY <1>2, <1>3 DEF CallType
<1> QED BY <1>1, <1>4 DEF Taking, Arg, Item

(* The initial states are typed.                                           *)
LEMMA InitType == Init => TypeInv
<1> SUFFICES ASSUME Init PROVE TypeInv
  OBVIOUS
<1>1. gsGFS \in [0..MXINPFS - 1 -> [hnd : Handle, buf : Nat]]
  BY DEF Init, Handle, NoHandle
<1>2. gdwGFCnt \in 0..MXINPFS - 1
  BY BoundsAssumption DEF Init
<1>3. gdwFinds \in -MaxFinds..MaxFinds /\ iCritErr \in {0, GEN_ERROR}
      /\ iRetVal \in -MaxFinds..MaxFinds \cup {GEN_ERROR}
  BY BoundsAssumption DEF Init, GEN_ERROR
<1>4. stack \in Seq(CallType) /\ g_sFind \in Seq(Values)
      /\ g_sFileList \in Seq(Values \cup {AllFiles, RestOfList})
  BY DEF Init
<1> QED BY <1>1, <1>2, <1>3, <1>4 DEF Init, TypeInv, TypeOK, InCall

(* What an input makes of the slots and of the calls keeps the types.      *)
LEMMA InputType ==
  ASSUME TypeInv, NEW kinds \in SUBSET Kinds, TakingInput(kinds)
  PROVE  /\ gdwGFCnt' \in 0..MXINPFS - 1 /\ giFirst' \in BOOLEAN
         /\ Arg \in DOMAIN Inputs /\ Inputs[Arg].kind \in kinds
         /\ Inputs[Arg].items \in Seq(Item)
         /\ stack # <<>> /\ Bumped \in Seq(CallType) /\ Bumped # <<>>
         /\ pc = "args"
<1>1. Taking("input") /\ gdwGFCnt' = NextSlot /\ giFirst' = giFirst
  BY DEF TakingInput, FirstOnInput
<1>2. stack # <<>> /\ Arg \in DOMAIN Inputs
  BY <1>1, ArgIs DEF Ops
<1>3. Bumped \in Seq(CallType) /\ Bumped # <<>>
  BY <1>2, BumpedIs DEF TypeInv, TypeOK
<1>4. gdwGFCnt' \in 0..MXINPFS - 1
  BY <1>1, BoundsAssumption DEF TypeInv, TypeOK, NextSlot
<1> QED BY <1>1, <1>2, <1>3, <1>4, InputsAssumption DEF TakingInput, Taking, TypeInv, TypeOK

(* Fa4_main's mask for all files is a list of masks.                       *)
LEMMA OneMask == <<AllFiles>> \in Seq(Values \cup {AllFiles, RestOfList})
OBVIOUS

(* Every step keeps the types.                                             *)
LEMMA NextType == TypeInv /\ [Next]_vars => TypeInv'
<1> SUFFICES ASSUME TypeInv, [Next]_vars PROVE TypeInv'
  OBVIOUS
<1> USE DEF TypeInv, TypeOK, InCall, input, lists, reading, outfile, result
<1>1. CASE Usage
  BY <1>1 DEF Usage
<1>2. CASE Start
  <2>1. argp \in Seq(Item)
    BY CommandsAssumption
  <2>2. stack' \in Seq(CallType) /\ stack' # <<>>
    BY <1>2, <2>1, BoundsAssumption DEF Start, Call, CallType
  <2> QED BY <1>2, <2>2 DEF Start
<1>3. CASE Enter
  BY <1>3 DEF Enter
<1>4. CASE TakeSwitch
  <2>1. stack # <<>> /\ stack' = Bumped
    BY <1>4, ArgIs DEF TakeSwitch, Ops
  <2>2. stack' \in Seq(CallType) /\ stack' # <<>>
    BY <2>1, BumpedIs
  <2>3. glpError' \in BOOLEAN /\ glpOutFile' \in BOOLEAN
    BY <1>4 DEF TakeSwitch
  <2> QED BY <1>4, <2>2, <2>3 DEF TakeSwitch
<1>5. CASE TakeFind
  <2>1. stack # <<>> /\ Arg \in Values /\ stack' = Bumped
    BY <1>5, ArgIs DEF TakeFind, Ops
  <2>2. stack' \in Seq(CallType) /\ stack' # <<>>
    BY <2>1, BumpedIs
  <2>3. g_sFind' \in Seq(Values)
    BY <1>5, <2>1 DEF TakeFind
  <2> QED BY <1>5, <2>2, <2>3 DEF TakeFind
<1>6. CASE TakeText
  <2>1. stack # <<>> /\ stack' = Bumped
    BY <1>6, ArgIs DEF TakeText, Ops
  <2>2. stack' \in Seq(CallType) /\ stack' # <<>>
    BY <2>1, BumpedIs
  <2> DEFINE kept == IF Taking("text") THEN <<Arg>> ELSE <<>>
  <2>3. kept \in Seq(Values)
    BY ArgIs DEF Ops
  <2>4. \/ g_sFileList' = g_sFileList \o kept /\ g_sFind' = g_sFind
        \/ g_sFind' = g_sFind \o kept /\ g_sFileList' = g_sFileList
    BY <1>6 DEF TakeText
  <2>5. kept \in Seq(Values \cup {AllFiles, RestOfList})
    <3>1. CASE Taking("text")
      BY <3>1, ArgIs DEF Ops
    <3>2. CASE ~Taking("text")
      BY <3>2
    <3> QED BY <3>1, <3>2
  <2> HIDE DEF kept
  <2>6. g_sFind \o kept \in Seq(Values)
    BY <2>3, ConcatProperties
  <2>7. g_sFileList \o kept \in Seq(Values \cup {AllFiles, RestOfList})
    BY <2>5, ConcatProperties
  <2>8. giFirst' \in BOOLEAN
    BY <1>6 DEF TakeText
  <2>9. g_sFind' \in Seq(Values) /\ g_sFileList' \in Seq(Values \cup {AllFiles, RestOfList})
    BY <2>4, <2>6, <2>7
  <2> QED BY <1>6, <2>2, <2>8, <2>9 DEF TakeText
<1>7. CASE TakeList
  <2>1. stack # <<>> /\ stack' = Bumped
    BY <1>7, ArgIs DEF TakeList, Ops
  <2>2. stack' \in Seq(CallType) /\ stack' # <<>>
    BY <2>1, BumpedIs
  <2>3. g_sFileList' \in Seq(Values \cup {AllFiles, RestOfList})
    <3>1. RestOfList \in Values \cup {AllFiles, RestOfList}
      OBVIOUS
    <3>2. Append(g_sFileList, RestOfList) \in Seq(Values \cup {AllFiles, RestOfList})
      BY <3>1, AppendProperties
    <3>3. g_sFileList' = g_sFileList \/ g_sFileList' = Append(g_sFileList, RestOfList)
      BY <1>7 DEF TakeList
    <3> QED BY <3>2, <3>3
  <2> QED BY <1>7, <2>2, <2>3 DEF TakeList
<1>8. CASE InputMissing
  <2>1. TakingInput({"missing"}) /\ {"missing"} \in SUBSET Kinds
    BY <1>8 DEF InputMissing, Kinds
  <2>2. gsGFS' \in [0..MXINPFS - 1 -> [hnd : Handle, buf : Nat]]
    BY <1>8 DEF InputMissing, Handle
  <2> QED BY <1>8, <2>1, <2>2, InputType DEF InputMissing
<1>9. CASE InputShut
  <2>1. PICK kinds \in SUBSET Kinds : TakingInput(kinds)
    BY <1>9 DEF InputShut, Kinds
  <2>2. gsGFS' \in [0..MXINPFS - 1 -> [hnd : Handle, buf : Nat]]
    BY <1>9 DEF InputShut, Handle
  <2> QED BY <1>9, <2>1, <2>2, InputType DEF InputShut
<1>10. CASE InputRefused
  <2>1. TakingInput({"empty", "big", "short"}) /\ {"empty", "big", "short"} \in SUBSET Kinds
    BY <1>10 DEF InputRefused, Kinds
  <2>2. PICK h \in {NoHandle, INVALID_HANDLE_VALUE}, b \in {Slot.buf, 0} :
          gsGFS' = [gsGFS EXCEPT ![gdwGFCnt] = [hnd |-> h, buf |-> b]]
    <3> USE <1>10, <2>1, InputType DEF InputRefused, Slot
    <3>1. CASE Inputs[Arg].kind = "empty"
      BY <3>1
    <3>2. CASE Inputs[Arg].kind = "big"
      BY <3>2
    <3>3. CASE Inputs[Arg].kind = "short"
      BY <3>3
    <3> QED BY <3>1, <3>2, <3>3
  <2>3. gsGFS' \in [0..MXINPFS - 1 -> [hnd : Handle, buf : Nat]]
    BY <2>2 DEF Handle, Slot, NoHandle
  <2>4. opened' \in Nat /\ handles' \subseteq 1..opened' /\ buffers' \subseteq 1..opened'
    BY <1>10 DEF InputRefused, NewHandle, ClosedAgain
  <2>5. glpError' = TRUE /\ stack' = Bumped
    BY <1>10 DEF InputRefused
  <2> QED BY <1>10, <2>1, <2>3, <2>4, <2>5, InputType DEF InputRefused
<1>11. CASE InputHollow
  <2>1. TakingInput({"read"}) /\ {"read"} \in SUBSET Kinds
    BY <1>11 DEF InputHollow, Kinds
  <2>2. gsGFS' \in [0..MXINPFS - 1 -> [hnd : Handle, buf : Nat]]
    BY <1>11 DEF InputHollow, Handle, NoHandle
  <2> QED BY <1>11, <2>1, <2>2, InputType DEF InputHollow, NewHandle
<1>12. CASE InputRead
  <2>1. TakingInput({"read"}) /\ {"read"} \in SUBSET Kinds
    BY <1>12 DEF InputRead, Kinds
  <2>2. gsGFS' \in [0..MXINPFS - 1 -> [hnd : Handle, buf : Nat]]
    BY <1>12 DEF InputRead, Handle, NewHandle
  <2>3. ArgsOf(Arg) \in Seq(Item)
    <3> DEFINE all == Inputs[Arg].items
    <3>1. all \in Seq(Item) /\ MXARGS - 1 \in Nat
      BY <2>1, InputType, BoundsAssumption
    <3>2. CASE TooMany(Arg)
      <4>1. \A i \in 1..MXARGS - 1 : all[i] \in Item
        BY <3>1, <3>2 DEF TooMany
      <4>2. SubSeq(all, 1, MXARGS - 1) \in Seq(Item)
        BY <3>1, <4>1, SubSeqProperties
      <4> QED BY <3>2, <4>2 DEF ArgsOf
    <3>3. CASE ~TooMany(Arg)
      BY <3>1, <3>3 DEF ArgsOf
    <3> QED BY <3>2, <3>3
  <2>4. Call(ArgsOf(Arg), NewHandle, gdwGFCnt) \in CallType
    BY <2>3 DEF Call, CallType, NewHandle
  <2>5. stack' \in Seq(CallType) /\ stack' # <<>>
    <3>1. stack' = Append(Bumped, Call(ArgsOf(Arg), NewHandle, gdwGFCnt))
      BY <1>12 DEF InputRead
    <3>2. Bumped \in Seq(CallType)
      BY <2>1, InputType
    <3> QED BY <3>1, <3>2, <2>4, AppendProperties
  <2>6. glpError' \in BOOLEAN
    BY <1>12 DEF InputRead, TooMany
  <2>7. handles' \subseteq 1..opened' /\ buffers' \subseteq 1..opened' /\ opened' \in Nat
    BY <1>12 DEF InputRead, NewHandle, BuffersOnTake
  <2> QED BY <1>12, <2>1, <2>2, <2>5, <2>6, <2>7, InputType DEF InputRead
<1>13. CASE EndOfInput
  <2>1. Current \in CallType /\ Front(stack) \in Seq(CallType) /\ Front(stack) # <<>>
    <3>1. stack \in Seq(CallType) /\ Len(stack) \in Nat /\ Len(stack) > 1 /\ stack # <<>>
      BY <1>13 DEF EndOfInput
    <3>2. \A k \in 1..Len(stack) - 1 : stack[k] \in CallType
      BY <3>1
    <3>3. Front(stack) \in Seq(CallType) /\ Len(Front(stack)) = Len(stack) - 1
      BY <3>1, <3>2, SubSeqProperties DEF Front
    <3> QED BY <3>1, <3>3, BumpedIs
  <2>2. gsGFS' \in [0..MXINPFS - 1 -> [hnd : Handle, buf : Nat]]
    BY <1>13, <2>1 DEF EndOfInput, EmptySlot, Handle, NoHandle
  <2> QED BY <1>13, <2>1, <2>2 DEF EndOfInput
<1>14. CASE EndOfArgs
  BY <1>14 DEF EndOfArgs
<1>15. CASE MainFails
  <2>1. g_sFileList' \in Seq(Values \cup {AllFiles, RestOfList})
    BY <1>15, OneMask DEF MainFails
  <2>2. iCritErr' \in {0, GEN_ERROR} /\ ghOutFile' \in BOOLEAN /\ pc' = "exit"
    BY <1>15 DEF MainFails, ErrorExit
  <2>3. g_sFind' \in Seq(Values) /\ stack' \in Seq(CallType)
    BY <1>15 DEF MainFails
  <2>4. glpError' \in BOOLEAN /\ gdwFinds' = gdwFinds /\ iRetVal' = iRetVal
    BY <1>15 DEF MainFails
  <2> QED BY <1>15, <2>1, <2>2, <2>3, <2>4 DEF MainFails
<1>16. CASE MainGoesOn
  <2>1. g_sFileList' \in Seq(Values \cup {AllFiles, RestOfList})
    BY <1>16, OneMask DEF MainGoesOn
  <2> QED BY <1>16, <2>1 DEF MainGoesOn
<1>17. CASE Search
  BY <1>17 DEF Search
<1>18. CASE SearchFails
  BY <1>18 DEF SearchFails, ErrorExit
<1>19. CASE PgmExit
  <2>1. iRetVal' \in -MaxFinds..MaxFinds \cup {GEN_ERROR}
    BY <1>19 DEF PgmExit
  <2>2. stack' \in Seq(CallType) /\ g_sFind' \in Seq(Values)
    BY <1>19 DEF PgmExit
  <2>3. g_sFileList' \in Seq(Values \cup {AllFiles, RestOfList})
    BY <1>19 DEF PgmExit
  <2> QED BY <1>19, <2>1, <2>2, <2>3 DEF PgmExit
<1>20. CASE UNCHANGED vars
  BY <1>20 DEF vars
<1> QED
  BY <1>1, <1>2, <1>3, <1>4, <1>5, <1>6, <1>7, <1>8, <1>9, <1>10, <1>11, <1>12,
     <1>13, <1>14, <1>15, <1>16, <1>17, <1>18, <1>19, <1>20
     DEF Next, StartWithout, EnterHelp, TakeVersion

(* Every variable of the argument reading keeps its type, for all command  *)
(* lines and inputs.                                                       *)
THEOREM TypeCorrect == Spec => []TypeOK
<1>1. TypeInv => TypeOK
  BY DEF TypeInv
<1> QED BY <1>1, InitType, NextType, PTL DEF Spec

-----------------------------------------------------------------------------
(* What keeps the slots and the calls apart: no two slots hold the same    *)
(* handle or buffer, ...                                                   *)
SlotsApart ==
  \A s, t \in DOMAIN gsGFS :
    /\ Valid(gsGFS[s].hnd) /\ gsGFS[s].hnd = gsGFS[t].hnd => s = t
    /\ gsGFS[s].buf # 0 /\ gsGFS[s].buf = gsGFS[t].buf => s = t

(* ... a call reads a later input than the calls it was made from, ...     *)
LaterInputs == \A j, k \in DOMAIN stack : j < k => stack[j].no < stack[k].no

(* ... and what a slot holds is not older than the input of a call that    *)
(* has the slot: a call can free its own buffer, or that of a later input. *)
NoOlder ==
  \A k \in DOMAIN stack : \/ gsGFS[stack[k].slot].buf = 0
                          \/ gsGFS[stack[k].slot].buf >= stack[k].no

AliveInv == SlotsAlive /\ ArgsAlive /\ SlotsApart /\ LaterInputs /\ NoOlder

(* Each call has a slot and a number.                                      *)
LEMMA SlotOfCall ==
  ASSUME TypeInv
  PROVE  /\ DOMAIN stack = 1..Len(stack) /\ Len(stack) \in Nat
         /\ \A k \in DOMAIN stack : stack[k].slot \in DOMAIN gsGFS /\ stack[k].no \in Nat
         /\ \A s \in DOMAIN gsGFS : gsGFS[s].buf \in Nat
<1>1. ASSUME NEW k \in DOMAIN stack
      PROVE  stack[k].slot \in DOMAIN gsGFS /\ stack[k].no \in Nat
  <2>1. stack[k] \in CallType
    BY DEF TypeInv, TypeOK
  <2> QED BY <2>1 DEF CallType, TypeInv, TypeOK
<1>2. \A s \in DOMAIN gsGFS : gsGFS[s].buf \in Nat
  BY DEF TypeInv, TypeOK
<1> QED BY <1>1, <1>2 DEF TypeInv, TypeOK

(* Giving up only the handle of a slot leaves its buffer.                  *)
LEMMA HandleOnly ==
  ASSUME TypeInv, NEW h
  PROVE  [gsGFS EXCEPT ![gdwGFCnt].hnd = h]
         = [gsGFS EXCEPT ![gdwGFCnt] = [hnd |-> h, buf |-> Slot.buf]]
<1>1. Slot \in [hnd : Handle, buf : Nat]
  BY DEF TypeInv, TypeOK, Slot
<1>2. [Slot EXCEPT !.hnd = h] = [hnd |-> h, buf |-> Slot.buf]
  BY <1>1
<1> QED BY <1>2 DEF Slot

(* An input that is not read leaves its slot without a handle.             *)
LEMMA SlotLost ==
  ASSUME TypeInv, InputMissing \/ InputShut \/ InputRefused \/ InputHollow
  PROVE  \E h \in {NoHandle, INVALID_HANDLE_VALUE}, b \in {Slot.buf, 0} :
           gsGFS' = [gsGFS EXCEPT ![gdwGFCnt] = [hnd |-> h, buf |-> b]]
<1>1. gsGFS \in [0..MXINPFS - 1 -> [hnd : Handle, buf : Nat]] /\ gdwGFCnt \in 0..MXINPFS - 1
  BY DEF TypeInv, TypeOK
<1>2. CASE InputMissing
  BY <1>2, HandleOnly DEF InputMissing
<1>3. CASE InputShut
  BY <1>3, HandleOnly DEF InputShut
<1>4. CASE InputRefused
  <2>1. Inputs[Arg].kind \in {"empty", "big", "short"}
    BY <1>4 DEF InputRefused, TakingInput
  <2>2. CASE Inputs[Arg].kind = "empty"
    BY <1>1, <1>4, <2>2 DEF InputRefused, Slot
  <2>3. CASE Inputs[Arg].kind = "big"
    BY <1>1, <1>4, <2>3 DEF InputRefused, Slot
  <2>4. CASE Inputs[Arg].kind = "short"
    BY <1>1, <1>4, <2>4 DEF InputRefused, Slot
  <2> QED BY <2>1, <2>2, <2>3, <2>4
<1>5. CASE InputHollow
  BY <1>5 DEF InputHollow
<1> QED BY <1>2, <1>3, <1>4, <1>5

(* The arguments go on, or the calls end: no slot is touched.              *)
LEMMA CallsOnly ==
  ASSUME TypeInv, AliveInv, UNCHANGED reading,
         \/ stack' = stack
         \/ stack # <<>> /\ stack' = Bumped
         \/ stack' = <<>>
         \/ \E args : stack' = <<Call(args, 0, 0)>>
  PROVE  AliveInv'
<1> USE DEF TypeInv, TypeOK, reading
<1>1. SlotsAlive' /\ SlotsApart'
  BY DEF AliveInv, SlotsAlive, SlotsApart
<1>2. CASE stack' = stack
  BY <1>1, <1>2 DEF AliveInv, ArgsAlive, LaterInputs, NoOlder
<1>3. CASE stack # <<>> /\ stack' = Bumped
  <2>1. /\ DOMAIN stack' = DOMAIN stack
        /\ \A k \in DOMAIN stack : stack'[k].no = stack[k].no /\ stack'[k].slot = stack[k].slot
    BY <1>3, BumpedIs
  <2> QED BY <1>1, <2>1 DEF AliveInv, ArgsAlive, LaterInputs, NoOlder
<1>4. CASE stack' = <<>>
  BY <1>1, <1>4 DEF AliveInv, ArgsAlive, LaterInputs, NoOlder
<1>5. CASE \E args : stack' = <<Call(args, 0, 0)>>
  <2>1. /\ DOMAIN stack' = {1}
        /\ stack'[1].no = 0 /\ stack'[1].slot = 0
    BY <1>5 DEF Call
  <2>2. gsGFS[0].buf \in Nat
    BY BoundsAssumption
  <2> QED BY <1>1, <2>1, <2>2 DEF AliveInv, ArgsAlive, LaterInputs, NoOlder
<1> QED BY <1>2, <1>3, <1>4, <1>5

(* An input that cannot be read: its slot loses its handle, which may be   *)
(* closed, and may lose its buffer, which is not freed.                    *)
LEMMA SlotGivenUp ==
  ASSUME TypeInv, AliveInv, stack # <<>>, stack' = Bumped,
         NEW h \in {NoHandle, INVALID_HANDLE_VALUE}, NEW b \in {Slot.buf, 0},
         gsGFS' = [gsGFS EXCEPT ![gdwGFCnt] = [hnd |-> h, buf |-> b]],
         handles \ {Slot.hnd} \subseteq handles', buffers' = buffers
  PROVE  AliveInv'
<1> USE DEF TypeInv, TypeOK
<1>1. /\ DOMAIN stack' = DOMAIN stack
      /\ \A k \in DOMAIN stack : stack'[k].no = stack[k].no /\ stack'[k].slot = stack[k].slot
  BY BumpedIs
<1>2. /\ DOMAIN gsGFS' = DOMAIN gsGFS
      /\ gsGFS'[gdwGFCnt].hnd = h /\ gsGFS'[gdwGFCnt].buf = b
      /\ \A s \in DOMAIN gsGFS : s # gdwGFCnt => gsGFS'[s] = gsGFS[s]
  OBVIOUS
<1>3. ~Valid(h)
  BY DEF Valid
<1>4. \A s \in DOMAIN gsGFS : gsGFS'[s].buf \in {gsGFS[s].buf, 0}
  BY <1>2 DEF Slot
<1>5. \A s \in DOMAIN gsGFS :
        Valid(gsGFS'[s].hnd) => s # gdwGFCnt /\ gsGFS'[s].hnd = gsGFS[s].hnd
  BY <1>2, <1>3
<1>6. SlotsAlive'
  <2> SUFFICES ASSUME NEW s \in DOMAIN gsGFS
               PROVE  /\ Valid(gsGFS'[s].hnd) => gsGFS'[s].hnd \in handles'
                      /\ gsGFS'[s].buf # 0 => gsGFS'[s].buf \in buffers'
    BY <1>2 DEF SlotsAlive, Valid
  <2>1. CASE Valid(gsGFS'[s].hnd)
    <3>1. s # gdwGFCnt /\ gsGFS'[s].hnd = gsGFS[s].hnd
      BY <1>5, <2>1
    <3>2. gsGFS[s].hnd \in handles /\ gsGFS[s].hnd # Slot.hnd
      BY <2>1, <3>1 DEF AliveInv, SlotsAlive, SlotsApart, Slot
    <3> QED BY <1>4, <3>1, <3>2 DEF AliveInv, SlotsAlive
  <2>2. CASE ~Valid(gsGFS'[s].hnd)
    BY <1>4, <2>2 DEF AliveInv, SlotsAlive
  <2> QED BY <2>1, <2>2
<1>7. SlotsApart'
  BY <1>2, <1>4, <1>5 DEF AliveInv, SlotsApart, Valid
<1>8. ArgsAlive' /\ LaterInputs'
  BY <1>1 DEF AliveInv, ArgsAlive, LaterInputs
<1>9. NoOlder'
  BY <1>1, <1>4, SlotOfCall DEF AliveInv, NoOlder
<1> QED BY <1>6, <1>7, <1>8, <1>9 DEF AliveInv

(* An input is read: the slot, whatever was in it, holds what is new.      *)
LEMMA SlotTaken ==
  ASSUME TypeInv, AliveInv, stack # <<>>, InputRead
  PROVE  AliveInv'
<1> USE DEF TypeInv, TypeOK
<1> DEFINE new == Call(ArgsOf(Arg), NewHandle, gdwGFCnt)
<1>1. /\ DOMAIN Bumped = DOMAIN stack /\ Bumped \in Seq(CallType)
      /\ \A k \in DOMAIN stack : Bumped[k].no = stack[k].no /\ Bumped[k].slot = stack[k].slot
  BY BumpedIs
<1>2. stack' = Append(Bumped, new) /\ new.no = NewHandle /\ new.slot = gdwGFCnt
  BY DEF InputRead, Call
<1> HIDE DEF new
<1>3. /\ DOMAIN stack' = 1..Len(stack) + 1
      /\ \A k \in 1..Len(stack) : stack'[k].no = stack[k].no /\ stack'[k].slot = stack[k].slot
      /\ stack'[Len(stack) + 1].no = NewHandle /\ stack'[Len(stack) + 1].slot = gdwGFCnt
  BY <1>1, <1>2
<1>4. /\ DOMAIN gsGFS' = DOMAIN gsGFS
      /\ gsGFS'[gdwGFCnt].hnd = NewHandle /\ gsGFS'[gdwGFCnt].buf = NewHandle
      /\ \A s \in DOMAIN gsGFS : s # gdwGFCnt => gsGFS'[s] = gsGFS[s]
  BY DEF InputRead
<1>5. handles' = handles \cup {NewHandle} /\ buffers' = buffers \cup {NewHandle}
  BY DEF InputRead, BuffersOnTake
<1>6. NewHandle \in Nat /\ NewHandle \notin handles /\ NewHandle \notin buffers /\ NewHandle # 0
      /\ \A n \in handles \cup buffers : n < NewHandle
  BY DEF NewHandle
<1>7. \A k \in DOMAIN stack : stack[k].no < NewHandle
  BY <1>6, SlotOfCall DEF AliveInv, ArgsAlive, NewHandle
<1> HIDE DEF TypeInv, TypeOK
<1>8. SlotsAlive'
  BY <1>4, <1>5 DEF AliveInv, SlotsAlive, Valid
<1>9. SlotsApart'
  <2> SUFFICES ASSUME NEW s \in DOMAIN gsGFS, NEW t \in DOMAIN gsGFS
               PROVE  /\ Valid(gsGFS'[s].hnd) /\ gsGFS'[s].hnd = gsGFS'[t].hnd => s = t
                      /\ gsGFS'[s].buf # 0 /\ gsGFS'[s].buf = gsGFS'[t].buf => s = t
    BY <1>4 DEF SlotsApart, Valid
  <2>1. /\ s # gdwGFCnt => gsGFS'[s].hnd # NewHandle /\ gsGFS'[s].buf # NewHandle
        /\ t # gdwGFCnt => gsGFS'[t].hnd # NewHandle /\ gsGFS'[t].buf # NewHandle
    <3>1. \A r \in DOMAIN gsGFS : gsGFS[r].hnd # NewHandle /\ gsGFS[r].buf # NewHandle
      BY <1>6 DEF AliveInv, SlotsAlive, Valid, NoHandle, INVALID_HANDLE_VALUE
    <3> QED BY <3>1, <1>4
  <2> QED BY <2>1, <1>4 DEF AliveInv, SlotsApart, Valid
<1>10. ArgsAlive'
  BY <1>3, <1>5 DEF AliveInv, ArgsAlive
<1>11. LaterInputs'
  BY <1>3, <1>7 DEF AliveInv, LaterInputs
<1>12. NoOlder'
  <2> SUFFICES ASSUME NEW k \in DOMAIN stack'
               PROVE  \/ gsGFS'[stack'[k].slot].buf = 0
                      \/ gsGFS'[stack'[k].slot].buf >= stack'[k].no
    BY DEF NoOlder
  <2>1. CASE k = Len(stack) + 1
    BY <2>1, <1>3, <1>4, <1>6
  <2>2. CASE k \in DOMAIN stack /\ stack[k].slot = gdwGFCnt
    <3>1. stack'[k].slot = gdwGFCnt /\ stack'[k].no = stack[k].no /\ stack[k].no < NewHandle
      BY <2>2, <1>3, <1>7, SlotOfCall
    <3> QED BY <2>2, <3>1, <1>4, <1>6, SlotOfCall
  <2>3. CASE k \in DOMAIN stack /\ stack[k].slot # gdwGFCnt
    <3>1. stack'[k].slot = stack[k].slot /\ stack'[k].no = stack[k].no
      BY <2>3, <1>3, SlotOfCall
    <3>2. gsGFS'[stack[k].slot] = gsGFS[stack[k].slot]
      BY <2>3, <1>4, SlotOfCall
    <3> QED BY <2>3, <3>1, <3>2 DEF AliveInv, NoOlder
  <2> QED BY <1>3, <2>1, <2>2, <2>3
<1> QED BY <1>8, <1>9, <1>10, <1>11, <1>12 DEF AliveInv

(* The last call returns.                                                  *)
LEMMA FrontIs ==
  ASSUME TypeInv, EndOfInput
  PROVE  /\ DOMAIN stack' = 1..Len(stack) - 1
         /\ \A k \in 1..Len(stack) - 1 : stack'[k] = stack[k]
<1> DEFINE n == Len(stack)
<1>1. n \in Nat /\ n > 1 /\ stack \in Seq(CallType)
  BY DEF EndOfInput, TypeInv, TypeOK
<1>2. \A k \in 1..n - 1 : stack[k] \in CallType
  BY <1>1
<1>3. SubSeq(stack, 1, n - 1) \in Seq(CallType)
      /\ Len(SubSeq(stack, 1, n - 1)) = n - 1
      /\ \A k \in 1..n - 1 : SubSeq(stack, 1, n - 1)[k] = stack[k]
  BY <1>1, <1>2, SubSeqProperties
<1> QED BY <1>3 DEF EndOfInput, Front

(* The end of an input: what its slot holds is freed and closed, and that  *)
(* is nothing that a call below it, or another slot, still has.            *)
LEMMA SlotEmptied ==
  ASSUME TypeInv, AliveInv, EndOfInput
  PROVE  AliveInv'
<1> USE DEF TypeInv, TypeOK
<1> DEFINE n == Len(stack)
           s == stack[n].slot
<1>1. n \in Nat /\ n > 1 /\ n \in DOMAIN stack /\ DOMAIN stack = 1..n
  BY DEF EndOfInput
<1>2. s \in DOMAIN gsGFS /\ Current.slot = s
  BY <1>1, SlotOfCall DEF Current, Last
<1>3. /\ buffers' = buffers \ {gsGFS[s].buf}
      /\ handles' = handles \ {gsGFS[s].hnd}
      /\ gsGFS' = [gsGFS EXCEPT ![s] = [hnd |-> NoHandle, buf |-> 0]]
  BY <1>2 DEF EndOfInput, EmptySlot
<1> HIDE DEF s
<1>4. DOMAIN stack' = 1..n - 1 /\ \A k \in 1..n - 1 : stack'[k] = stack[k]
  BY FrontIs
<1>5. \A k \in 1..n - 1 : k \in DOMAIN stack
  BY <1>1
<1> HIDE DEF n
<1>6. /\ DOMAIN gsGFS' = DOMAIN gsGFS
      /\ gsGFS'[s].hnd = NoHandle /\ gsGFS'[s].buf = 0
      /\ \A t \in DOMAIN gsGFS : t # s => gsGFS'[t] = gsGFS[t]
  BY <1>2, <1>3
<1> HIDE DEF TypeInv, TypeOK
<1>7. SlotsAlive'
  BY <1>2, <1>3, <1>6 DEF AliveInv, SlotsAlive, SlotsApart, Valid
<1>8. SlotsApart'
  BY <1>6 DEF AliveInv, SlotsApart, Valid
<1>9. ArgsAlive'
  <2> SUFFICES ASSUME NEW k \in 1..n - 1, stack[k].no # 0
               PROVE  stack[k].no \in buffers'
    BY <1>4 DEF ArgsAlive
  <2>1. stack[k].no \in buffers
    BY <1>1 DEF AliveInv, ArgsAlive
  <2>2. stack[k].no < stack[n].no
    BY <1>1 DEF AliveInv, LaterInputs
  <2>3. gsGFS[s].buf = 0 \/ gsGFS[s].buf >= stack[n].no
    BY <1>1 DEF AliveInv, NoOlder, s
  <2>4. stack[k].no \in Nat /\ stack[n].no \in Nat /\ gsGFS[s].buf \in Nat
    BY <1>1, <1>2, SlotOfCall
  <2>5. stack[k].no # gsGFS[s].buf
    BY <2>2, <2>3, <2>4
  <2> QED BY <1>3, <2>1, <2>5
<1>10. LaterInputs'
  <2> SUFFICES ASSUME NEW j \in 1..n - 1, NEW k \in 1..n - 1, j < k
               PROVE  stack[j].no < stack[k].no
    BY <1>4 DEF LaterInputs
  <2>1. j \in DOMAIN stack /\ k \in DOMAIN stack
    BY <1>5
  <2> QED BY <2>1 DEF AliveInv, LaterInputs
<1>11. NoOlder'
  <2> SUFFICES ASSUME NEW k \in 1..n - 1
               PROVE  \/ gsGFS'[stack[k].slot].buf = 0
                      \/ gsGFS'[stack[k].slot].buf >= stack[k].no
    BY <1>4 DEF NoOlder
  <2>1. k \in DOMAIN stack /\ stack[k].slot \in DOMAIN gsGFS
    BY <1>5, SlotOfCall
  <2>2. CASE stack[k].slot = s
    BY <1>6, <2>2
  <2>3. CASE stack[k].slot # s
    BY <1>6, <2>1, <2>3 DEF AliveInv, NoOlder
  <2> QED BY <2>2, <2>3
<1> QED BY <1>7, <1>8, <1>9, <1>10, <1>11 DEF AliveInv

(* Nothing is open at first.                                               *)
LEMMA InitAlive == Init => AliveInv
<1> SUFFICES ASSUME Init PROVE AliveInv
  OBVIOUS
<1>1. /\ DOMAIN gsGFS = 0..MXINPFS - 1
      /\ \A s \in 0..MXINPFS - 1 : ~Valid(gsGFS[s].hnd) /\ gsGFS[s].buf = 0
  BY DEF Init, Valid
<1>2. stack = <<>>
  BY DEF Init
<1> QED
  BY <1>1, <1>2 DEF AliveInv, SlotsAlive, ArgsAlive, SlotsApart, LaterInputs, NoOlder

(* Every step keeps what was held apart.                                   *)
LEMMA NextAlive == TypeInv /\ AliveInv /\ [Next]_vars => AliveInv'
<1> SUFFICES ASSUME TypeInv, AliveInv, [Next]_vars PROVE AliveInv'
  OBVIOUS
<1>1. CASE Usage \/ Enter \/ MainFails \/ MainGoesOn \/ Search \/ SearchFails
  BY <1>1, CallsOnly DEF Usage, Enter, MainFails, MainGoesOn, Search, SearchFails
<1>2. CASE Start
  BY <1>2, CallsOnly DEF Start
<1>3. CASE TakeSwitch \/ TakeFind \/ TakeText \/ TakeList
  <2>1. UNCHANGED reading /\ stack' = Bumped
    BY <1>3 DEF TakeSwitch, TakeFind, TakeText, TakeList
  <2>2. stack # <<>>
    BY <1>3, ArgIs DEF TakeSwitch, TakeFind, TakeText, TakeList, Ops
  <2> QED BY <2>1, <2>2, CallsOnly
<1>4. CASE InputMissing \/ InputShut \/ InputRefused \/ InputHollow
  <2>1. PICK kinds \in SUBSET Kinds : TakingInput(kinds)
    BY <1>4 DEF InputMissing, InputShut, InputRefused, InputHollow, Kinds
  <2>2. stack # <<>> /\ Inputs[Arg].kind \in kinds
    BY <2>1, InputType
  <2>3. stack' = Bumped /\ buffers' = buffers
    BY <1>4 DEF InputMissing, InputShut, InputRefused, InputHollow
  <2>4. handles \ {Slot.hnd} \subseteq handles'
    BY <1>4 DEF InputMissing, InputShut, InputRefused, InputHollow, ClosedAgain
  <2>5. \E h \in {NoHandle, INVALID_HANDLE_VALUE}, b \in {Slot.buf, 0} :
          gsGFS' = [gsGFS EXCEPT ![gdwGFCnt] = [hnd |-> h, buf |-> b]]
    BY <1>4, SlotLost
  <2> QED BY <2>2, <2>3, <2>4, <2>5, SlotGivenUp
<1>5. CASE InputRead
  <2>1. stack # <<>>
    BY <1>5, ArgIs DEF InputRead, TakingInput, Ops
  <2> QED BY <1>5, <2>1, SlotTaken
<1>6. CASE EndOfInput
  BY <1>6, SlotEmptied
<1>7. CASE EndOfArgs \/ PgmExit
  BY <1>7, CallsOnly DEF EndOfArgs, PgmExit
<1>8. CASE UNCHANGED vars
  BY <1>8, CallsOnly DEF vars
<1> QED
  BY <1>1, <1>2, <1>3, <1>4, <1>5, <1>6, <1>7, <1>8
     DEF Next, StartWithout, EnterHelp, TakeVersion

(* Both invariants together hold for ever.                                 *)
LEMMA AlwaysAlive == Spec => [](TypeInv /\ AliveInv)
BY InitType, NextType, InitAlive, NextAlive, PTL DEF Spec

(* No slot ever holds a handle that was closed or a buffer that was freed. *)
THEOREM SlotsStayAlive == Spec => []SlotsAlive
<1>1. AliveInv => SlotsAlive
  BY DEF AliveInv
<1> QED BY <1>1, AlwaysAlive, PTL

(* The arguments of a call in flight are never freed, however the inputs   *)
(* nest and however often the slots are given out again.                   *)
THEOREM ArgsStayAlive == Spec => []ArgsAlive
<1>1. AliveInv => ArgsAlive
  BY DEF AliveInv
<1> QED BY <1>1, AlwaysAlive, PTL
-----------------------------------------------------------------------------
(* What is held is held by a call.  As long as fewer inputs were opened    *)
(* than there are slots, no slot is given out twice: ...                   *)

(* ... only the calls that can still take an input, if any, matter, and an *)
(* input that takes a slot without being opened leaves none that can; ...  *)
CallsStand ==
  /\ pc \in {"start", "main", "search"} => stack = <<>>
  /\ pc = "start" => opened = 0 /\ gdwGFCnt = 0
  /\ \A k \in DOMAIN stack : /\ stack[k].no = 0 <=> k = 1
                             /\ k < Len(stack) => stack[k].i > 1

SlotsInOrder ==
  opened < MXINPFS => gdwGFCnt = opened \/ \A k \in DOMAIN stack : LoopEnds(stack[k])

(* ... the slots to come have no handle, and a call has its own slot.      *)
SlotsToCome ==
  opened < MXINPFS =>
    \A s \in DOMAIN gsGFS : s >= opened => gsGFS[s].hnd \in {NoHandle, INVALID_HANDLE_VALUE}

OwnSlots ==
  opened < MXINPFS =>
    \A k \in DOMAIN stack : k > 1 =>
      /\ stack[k].slot < opened
      /\ gsGFS[stack[k].slot] = [hnd |-> stack[k].no, buf |-> stack[k].no]

InFlight == {stack[k].no : k \in DOMAIN stack} \ {0}

HeldByCalls == pc # "end" /\ opened < MXINPFS => handles = InFlight /\ buffers = InFlight

HeldInv == CallsStand /\ SlotsInOrder /\ SlotsToCome /\ OwnSlots /\ HeldByCalls
(* A call that is there is in a place of its own.                          *)
LEMMA CallIs ==
  ASSUME TypeInv
  PROVE  /\ stack \in Seq(CallType) /\ DOMAIN stack = 1..Len(stack) /\ Len(stack) \in Nat
         /\ \A k \in DOMAIN stack : stack[k].no \in Nat /\ stack[k].i \in Nat
         /\ opened \in Nat /\ handles \subseteq 1..opened /\ buffers \subseteq 1..opened
         /\ gdwGFCnt \in DOMAIN gsGFS /\ DOMAIN gsGFS = 0..MXINPFS - 1
         /\ gsGFS \in [0..MXINPFS - 1 -> [hnd : Handle, buf : Nat]]
<1>1. ASSUME NEW k \in DOMAIN stack
      PROVE  stack[k].no \in Nat /\ stack[k].i \in Nat
  <2>1. stack[k] \in CallType
    BY DEF TypeInv, TypeOK
  <2> QED BY <2>1 DEF CallType
<1> QED BY <1>1 DEF TypeInv, TypeOK

(* The last call is past its first argument.                               *)
LEMMA BumpedGoesOn ==
  ASSUME TypeInv, stack # <<>>
  PROVE  \A k \in 1..Len(stack) : \/ Bumped[k].i > 1
                                  \/ k < Len(stack) /\ Bumped[k].i = stack[k].i
<1>1. PICK s, n : s = stack /\ n = Len(s)
  OBVIOUS
<1>2. PICK c, t : c = [s[n] EXCEPT !.i = s[n].i + 1] /\ t = [s EXCEPT ![n] = c]
  OBVIOUS
<1>3. s \in Seq(CallType) /\ n \in Nat /\ n # 0
  BY <1>1, CallIs
<1>4. n \in 1..n /\ DOMAIN s = 1..n /\ s[n] \in CallType
  BY <1>1, <1>3
<1>5. c.i = s[n].i + 1 /\ s[n].i \in Nat /\ s[n].i # 0
  BY <1>2, <1>4 DEF CallType
<1>6. c.i > 1
  BY ONLY <1>5
<1>7. t[n] = c /\ \A k \in 1..n : k # n => t[k] = s[k]
  BY ONLY <1>2, <1>4
<1>8. \A k \in 1..n : k = n \/ k < n
  BY ONLY <1>3
<1>9. \A k \in 1..n : t[k].i > 1 \/ (k < n /\ t[k].i = s[k].i)
  BY ONLY <1>6, <1>7, <1>8
<1>10. t = Bumped
  BY <1>1, <1>2, <1>4 DEF Bumped, CallType
<1> QED BY <1>1, <1>9, <1>10

(* No slot is touched, and the calls are the same.                         *)
LEMMA SameCalls ==
  ASSUME TypeInv, HeldInv, UNCHANGED <<reading, stack>>, pc' # "start",
         pc' \in {"main", "search"} => stack = <<>>,
         glpError => glpError' \/ stack = <<>>, pc = "end" => pc' = "end"
  PROVE  HeldInv'
<1>1. SlotsInOrder'
  <2>1. ASSUME NEW k \in DOMAIN stack, LoopEnds(stack[k])
        PROVE  LoopEnds(stack[k])'
    <3>1. stack # <<>>
      OBVIOUS
    <3> QED BY <2>1, <3>1 DEF LoopEnds
  <2> QED BY <2>1 DEF HeldInv, SlotsInOrder, reading
<1>2. CallsStand'
  BY DEF HeldInv, CallsStand
<1>3. SlotsToCome' /\ OwnSlots' /\ HeldByCalls'
  BY DEF HeldInv, SlotsToCome, OwnSlots, HeldByCalls, InFlight, reading
<1> QED BY <1>1, <1>2, <1>3 DEF HeldInv

(* An argument is taken, which may have given up the slot to come.         *)
LEMMA ArgTaken ==
  ASSUME TypeInv, HeldInv, pc = "args", ~LoopEnds(Current), stack # <<>>,
         stack' = Bumped, pc' = pc, buffers' = buffers,
         opened < MXINPFS => handles' = handles,
         \/ UNCHANGED <<gsGFS, gdwGFCnt, opened>>
         \/ /\ DOMAIN gsGFS' = DOMAIN gsGFS
            /\ \A s \in DOMAIN gsGFS : s # gdwGFCnt => gsGFS'[s] = gsGFS[s]
            /\ gsGFS'[gdwGFCnt].hnd \in {NoHandle, INVALID_HANDLE_VALUE}
            /\ gdwGFCnt' = NextSlot
            /\ opened' = opened + 1 \/ (opened' = opened /\ glpError')
  PROVE  HeldInv'
<1>0. /\ DOMAIN stack' = DOMAIN stack /\ Len(stack') = Len(stack)
      /\ \A k \in DOMAIN stack :
           /\ stack'[k].no = stack[k].no /\ stack'[k].slot = stack[k].slot
           /\ stack'[k].i > 1 \/ (k < Len(stack) /\ stack'[k].i = stack[k].i)
      /\ Len(stack) \in DOMAIN stack /\ Current = stack[Len(stack)]
  BY BumpedIs, BumpedGoesOn, CallIs DEF Current, Last
<1>1. opened < MXINPFS => gdwGFCnt = opened
  BY <1>0 DEF HeldInv, SlotsInOrder
<1>2. \A k \in DOMAIN stack : stack'[k].i > 1
  BY <1>0 DEF HeldInv, CallsStand
<1>3. CallsStand'
  BY <1>0, <1>2 DEF HeldInv, CallsStand
<1>4. InFlight' = InFlight
  BY <1>0 DEF InFlight
<1>5. opened \in Nat /\ MXINPFS \in Nat /\ opened' \in {opened, opened + 1}
      /\ (opened' < MXINPFS => opened < MXINPFS)
  BY CallIs, BoundsAssumption DEF reading
<1>6. HeldByCalls'
  BY <1>4, <1>5 DEF HeldInv, HeldByCalls
<1>7. SlotsInOrder'
  <2>1. CASE UNCHANGED <<gsGFS, gdwGFCnt, opened>>
    BY <1>1, <2>1 DEF SlotsInOrder
  <2>2. CASE opened' = opened + 1 /\ gdwGFCnt' = NextSlot
    BY <1>1, <1>5, <2>2, CallIs, BoundsAssumption DEF SlotsInOrder, NextSlot
  <2>3. CASE glpError'
    BY <1>0, <1>2, <2>3 DEF SlotsInOrder, LoopEnds
  <2> QED BY <2>1, <2>2, <2>3
<1>8. SlotsToCome'
  <2> SUFFICES ASSUME opened' < MXINPFS, NEW s \in DOMAIN gsGFS, s >= opened'
               PROVE  gsGFS'[s].hnd \in {NoHandle, INVALID_HANDLE_VALUE}
    BY DEF SlotsToCome
  <2>1. s >= opened
    BY CallIs
  <2> QED BY <1>5, <2>1 DEF HeldInv, SlotsToCome
<1>9. OwnSlots'
  <2> SUFFICES ASSUME opened' < MXINPFS, NEW k \in DOMAIN stack, k > 1
               PROVE  /\ stack'[k].slot < opened'
                      /\ gsGFS'[stack'[k].slot]
                           = [hnd |-> stack'[k].no, buf |-> stack'[k].no]
    BY <1>0 DEF OwnSlots
  <2>1. /\ stack[k].slot < opened
        /\ gsGFS[stack[k].slot] = [hnd |-> stack[k].no, buf |-> stack[k].no]
    BY <1>5 DEF HeldInv, OwnSlots
  <2>2. stack[k].slot \in DOMAIN gsGFS /\ DOMAIN gsGFS \subseteq Nat
    BY SlotOfCall, CallIs
  <2>3. stack[k].slot # gdwGFCnt /\ stack[k].slot < opened'
    BY <1>1, <1>5, <2>1, <2>2
  <2>4. gsGFS'[stack[k].slot] = gsGFS[stack[k].slot]
    BY <2>2, <2>3
  <2> QED BY <1>0, <2>1, <2>3, <2>4
<1> QED BY <1>3, <1>6, <1>7, <1>8, <1>9 DEF HeldInv

(* An input is read.                                                       *)
LEMMA InputHeld ==
  ASSUME TypeInv, HeldInv, stack # <<>>, InputRead
  PROVE  HeldInv'
<1> DEFINE new == Call(ArgsOf(Arg), NewHandle, gdwGFCnt)
           n == Len(stack)
<1>1. /\ DOMAIN Bumped = 1..n /\ Bumped \in Seq(CallType) /\ Len(Bumped) = n
      /\ \A k \in 1..n : /\ Bumped[k].no = stack[k].no /\ Bumped[k].slot = stack[k].slot
                         /\ Bumped[k].i > 1 \/ (k < n /\ Bumped[k].i = stack[k].i)
      /\ n \in 1..n /\ DOMAIN stack = 1..n /\ n \in Nat /\ Current = stack[n]
  BY BumpedIs, BumpedGoesOn, CallIs DEF Current, Last
<1>2. stack' = Append(Bumped, new) /\ new.no = opened + 1 /\ new.slot = gdwGFCnt
  BY DEF InputRead, Call, NewHandle
<1> HIDE DEF new, n
<1>3. /\ DOMAIN stack' = 1..n + 1 /\ Len(stack') = n + 1
      /\ \A k \in 1..n : /\ stack'[k].no = stack[k].no /\ stack'[k].slot = stack[k].slot
                         /\ stack'[k].i > 1 \/ (k < n /\ stack'[k].i = stack[k].i)
      /\ stack'[n + 1].no = opened + 1 /\ stack'[n + 1].slot = gdwGFCnt
  BY <1>1, <1>2
<1>4. /\ DOMAIN gsGFS' = DOMAIN gsGFS
      /\ gsGFS'[gdwGFCnt] = [hnd |-> opened + 1, buf |-> opened + 1]
      /\ \A s \in DOMAIN gsGFS : s # gdwGFCnt => gsGFS'[s] = gsGFS[s]
      /\ opened' = opened + 1 /\ gdwGFCnt' = NextSlot /\ pc = "args" /\ pc' = "enter"
      /\ handles' = handles \cup {opened + 1} /\ buffers' = buffers \cup {opened + 1}
      /\ ~LoopEnds(Current)
  BY CallIs DEF InputRead, TakingInput, Taking, NewHandle, BuffersOnTake
<1>5. /\ opened \in Nat /\ MXINPFS \in Nat
      /\ opened' < MXINPFS => opened < MXINPFS /\ gdwGFCnt = opened
  <2>1. opened \in Nat /\ MXINPFS \in Nat
    BY CallIs, BoundsAssumption
  <2> QED BY <1>1, <1>4, <2>1 DEF HeldInv, SlotsInOrder
<1>6. CallsStand'
  BY <1>1, <1>3, <1>4, CallIs DEF HeldInv, CallsStand
<1>7. SlotsInOrder'
  BY <1>4, <1>5, CallIs, BoundsAssumption DEF SlotsInOrder, NextSlot
<1>8. SlotsToCome'
  <2> SUFFICES ASSUME opened' < MXINPFS, NEW s \in DOMAIN gsGFS, s >= opened'
               PROVE  gsGFS'[s].hnd \in {NoHandle, INVALID_HANDLE_VALUE}
    BY <1>4 DEF SlotsToCome
  <2>1. s >= opened /\ s # gdwGFCnt
    BY <1>4, <1>5, CallIs
  <2> QED BY <1>4, <1>5, <2>1 DEF HeldInv, SlotsToCome
<1>9. OwnSlots'
  <2> SUFFICES ASSUME opened' < MXINPFS, NEW k \in 1..n + 1, k > 1
               PROVE  /\ stack'[k].slot < opened'
                      /\ gsGFS'[stack'[k].slot]
                           = [hnd |-> stack'[k].no, buf |-> stack'[k].no]
    BY <1>3 DEF OwnSlots
  <2>1. CASE k = n + 1
    BY <1>3, <1>4, <1>5, <2>1, CallIs
  <2>2. CASE k \in 1..n
    <3>1. /\ stack[k].slot < opened
          /\ gsGFS[stack[k].slot] = [hnd |-> stack[k].no, buf |-> stack[k].no]
      BY <1>1, <1>5, <2>2 DEF HeldInv, OwnSlots
    <3>2. stack[k].slot \in DOMAIN gsGFS /\ DOMAIN gsGFS \subseteq Nat
      <4>1. k \in DOMAIN stack
        BY <1>1, <2>2
      <4>2. stack[k].slot \in DOMAIN gsGFS
        BY <4>1, SlotOfCall
      <4>3. DOMAIN gsGFS \subseteq Nat
        BY CallIs, BoundsAssumption
      <4> QED BY <4>2, <4>3
    <3>3. stack[k].slot # gdwGFCnt /\ stack[k].slot < opened'
      BY <1>4, <1>5, <3>1, <3>2
    <3>4. gsGFS'[stack[k].slot] = gsGFS[stack[k].slot]
      BY <1>4, <3>2, <3>3
    <3> QED BY <1>3, <2>2, <3>1, <3>3, <3>4
  <2> QED BY <1>1, <2>1, <2>2
<1>10. InFlight' = InFlight \cup {opened + 1}
  <2>1. \A k \in 1..n + 1 : k \in 1..n \/ k = n + 1
    BY <1>1
  <2>2. {stack'[k].no : k \in 1..n + 1} = {stack[k].no : k \in 1..n} \cup {opened + 1}
    <3>1. 1..n \subseteq 1..n + 1 /\ n + 1 \in 1..n + 1
      BY <1>1
    <3> QED BY <1>3, <2>1, <3>1
  <2>3. opened + 1 # 0
    BY CallIs
  <2> QED BY <1>1, <1>3, <2>2, <2>3 DEF InFlight
<1>11. HeldByCalls'
  BY <1>4, <1>5, <1>10 DEF HeldInv, HeldByCalls
<1> QED BY <1>6, <1>7, <1>8, <1>9, <1>11 DEF HeldInv
(* The end of an input gives up just what its call held.                   *)
LEMMA InputEndHeld ==
  ASSUME TypeInv, AliveInv, HeldInv, EndOfInput
  PROVE  HeldInv'
<1>1. PICK n, s : n = Len(stack) /\ s = stack[n].slot
  OBVIOUS
<1>2. /\ n \in Nat /\ n > 1 /\ n \in DOMAIN stack /\ DOMAIN stack = 1..n
      /\ opened' = opened /\ glpError' = glpError /\ gdwGFCnt' = gdwGFCnt
      /\ pc = "args" /\ pc' = pc
  BY <1>1, CallIs DEF EndOfInput
<1>3. s \in DOMAIN gsGFS /\ Current.slot = s
  BY <1>1, <1>2, SlotOfCall DEF Current, Last
<1>4. /\ buffers' = buffers \ {gsGFS[s].buf} /\ handles' = handles \ {gsGFS[s].hnd}
      /\ gsGFS' = [gsGFS EXCEPT ![s] = [hnd |-> NoHandle, buf |-> 0]]
  BY <1>3 DEF EndOfInput, EmptySlot
<1>5. /\ DOMAIN gsGFS' = DOMAIN gsGFS /\ gsGFS'[s].hnd = NoHandle
      /\ \A t \in DOMAIN gsGFS : t # s => gsGFS'[t] = gsGFS[t]
  BY <1>3, <1>4
<1>6. DOMAIN stack' = 1..n - 1 /\ \A k \in 1..n - 1 : stack'[k] = stack[k]
  BY <1>1, FrontIs
<1>7. /\ 1..n - 1 \subseteq 1..n /\ \A k \in 1..n : k \in 1..n - 1 \/ k = n
      /\ \A k \in 1..n - 1 : k < n
  BY <1>2
<1>8. Len(stack') = n - 1
  <2>1. stack' \in Seq(CallType)
    BY NextType, <1>2 DEF TypeInv, TypeOK, Next
  <2>2. PICK t : t = stack'
    OBVIOUS
  <2>3. t \in Seq(CallType) /\ DOMAIN t = 1..n - 1
    BY <1>6, <2>1, <2>2
  <2>4. Len(t) = n - 1
    BY ONLY <1>2, <2>3
  <2> QED BY <2>2, <2>4
<1>9. CallsStand'
  BY <1>1, <1>2, <1>6, <1>7, <1>8 DEF HeldInv, CallsStand
<1>10. SlotsInOrder'
  BY <1>2, <1>6, <1>7 DEF HeldInv, SlotsInOrder, LoopEnds
<1>11. SlotsToCome'
  BY <1>2, <1>5 DEF HeldInv, SlotsToCome
<1>12. opened < MXINPFS => gsGFS[s].hnd = stack[n].no /\ gsGFS[s].buf = stack[n].no
  <2>1. opened < MXINPFS => gsGFS[s] = [hnd |-> stack[n].no, buf |-> stack[n].no]
    BY <1>1, <1>2 DEF HeldInv, OwnSlots
  <2> QED BY <2>1
<1>13. \A k \in 1..n - 1 : stack[k].no # stack[n].no
  <2>1. \A k \in 1..n - 1 : stack[k].no < stack[n].no
    BY <1>2, <1>7 DEF AliveInv, LaterInputs
  <2>2. \A k \in 1..n : stack[k].no \in Nat
    BY <1>2, CallIs
  <2> QED BY <1>2, <1>7, <2>1, <2>2
<1>14. OwnSlots'
  <2> SUFFICES ASSUME opened < MXINPFS, NEW k \in 1..n - 1, k > 1
               PROVE  /\ stack[k].slot < opened
                      /\ gsGFS'[stack[k].slot] = [hnd |-> stack[k].no, buf |-> stack[k].no]
    BY <1>2, <1>6 DEF OwnSlots
  <2>1. /\ stack[k].slot < opened
        /\ gsGFS[stack[k].slot] = [hnd |-> stack[k].no, buf |-> stack[k].no]
    BY <1>2, <1>7 DEF HeldInv, OwnSlots
  <2>2. stack[k].slot \in DOMAIN gsGFS
    BY <1>2, <1>7, SlotOfCall
  <2>3. stack[k].slot # s
    BY <1>12, <1>13, <2>1
  <2> QED BY <1>5, <2>1, <2>2, <2>3
<1>15. InFlight' = InFlight \ {stack[n].no}
  BY <1>2, <1>6, <1>7, <1>13 DEF InFlight
<1>16. HeldByCalls'
  BY <1>2, <1>4, <1>12, <1>15 DEF HeldInv, HeldByCalls
<1> QED BY <1>9, <1>10, <1>11, <1>14, <1>16 DEF HeldInv

(* There are no more calls.                                                *)
LEMMA NoCalls ==
  ASSUME HeldInv, UNCHANGED reading, stack' = <<>>,
         \/ pc' = "end"
         \/ pc' = "main" /\ (opened < MXINPFS => handles = {} /\ buffers = {})
  PROVE  HeldInv'
<1>1. DOMAIN stack' = {} /\ InFlight' = {}
  BY DEF InFlight
<1>2. SlotsToCome'
  BY DEF HeldInv, SlotsToCome, reading
<1> QED
  BY <1>1, <1>2 DEF HeldInv, CallsStand, SlotsInOrder, OwnSlots, HeldByCalls, reading

(* At first nothing is open.                                               *)
LEMMA InitHeld == Init => HeldInv
<1> SUFFICES ASSUME Init PROVE HeldInv
  OBVIOUS
<1>1. /\ stack = <<>> /\ DOMAIN stack = {} /\ opened = 0 /\ gdwGFCnt = 0
      /\ handles = {} /\ buffers = {} /\ \A s \in DOMAIN gsGFS : gsGFS[s].hnd = NoHandle
  BY DEF Init
<1> QED
  BY <1>1 DEF HeldInv, CallsStand, SlotsInOrder, SlotsToCome, OwnSlots, HeldByCalls, InFlight

LEMMA NextHeld == TypeInv /\ AliveInv /\ HeldInv /\ [Next]_vars => HeldInv'
<1> SUFFICES ASSUME TypeInv, AliveInv, HeldInv, [Next]_vars PROVE HeldInv'
  OBVIOUS
<1>1. CASE Usage /\ pc # "end"
  BY <1>1, SameCalls DEF Usage
<1>2. CASE Enter \/ Search \/ SearchFails
  BY <1>2, SameCalls DEF Enter, Search, SearchFails, ErrorExit, HeldInv, CallsStand
<1>3. CASE MainFails \/ MainGoesOn
  BY <1>3, SameCalls DEF MainFails, MainGoesOn, ErrorExit, HeldInv, CallsStand
<1>4. CASE Start
  <2>1. /\ DOMAIN stack' = {1} /\ stack'[1].no = 0 /\ Len(stack') = 1
        /\ pc = "start" /\ pc' = "enter" /\ UNCHANGED reading
    BY <1>4 DEF Start, Call
  <2>2. opened = 0 /\ gdwGFCnt = 0 /\ handles = {} /\ buffers = {}
    BY <2>1, CallIs DEF HeldInv, CallsStand
  <2>3. SlotsToCome'
    BY <2>1 DEF HeldInv, SlotsToCome, reading
  <2>4. InFlight' = {}
    BY <2>1 DEF InFlight
  <2> QED
    BY <2>1, <2>2, <2>3, <2>4
       DEF HeldInv, CallsStand, SlotsInOrder, OwnSlots, HeldByCalls, reading
<1>5. CASE TakeSwitch \/ TakeFind \/ TakeText \/ TakeList
  <2>1. /\ UNCHANGED reading /\ stack' = Bumped /\ pc = "args" /\ pc' = pc
        /\ ~LoopEnds(Current)
    BY <1>5 DEF TakeSwitch, TakeFind, TakeText, TakeList, Taking
  <2>2. stack # <<>>
    BY <2>1 DEF TypeInv, InCall
  <2> QED BY <2>1, <2>2, ArgTaken DEF reading
<1>6. CASE InputMissing \/ InputShut \/ InputRefused \/ InputHollow
  <2>1. PICK kinds : TakingInput(kinds)
    BY <1>6 DEF InputMissing, InputShut, InputRefused, InputHollow
  <2>2. /\ pc = "args" /\ pc' = pc /\ ~LoopEnds(Current) /\ stack' = Bumped
        /\ buffers' = buffers /\ gdwGFCnt' = NextSlot /\ stack # <<>>
    BY <1>6, <2>1 DEF InputMissing, InputShut, InputRefused, InputHollow, TakingInput, Taking,
       TypeInv, InCall
  <2>3. opened' = opened + 1 \/ (opened' = opened /\ glpError')
    BY <1>6 DEF InputMissing, InputShut, InputRefused, InputHollow, NewHandle
  <2>4. PICK g : g = gdwGFCnt
    OBVIOUS
  <2>5. g \in DOMAIN gsGFS /\ Slot = gsGFS[g]
    BY <2>4, CallIs DEF Slot
  <2>6. /\ DOMAIN gsGFS' = DOMAIN gsGFS
        /\ \A s \in DOMAIN gsGFS : s # g => gsGFS'[s] = gsGFS[s]
        /\ gsGFS'[g].hnd \in {NoHandle, INVALID_HANDLE_VALUE}
    <3>1. \E h \in {NoHandle, INVALID_HANDLE_VALUE}, b \in {Slot.buf, 0} :
            gsGFS' = [gsGFS EXCEPT ![gdwGFCnt] = [hnd |-> h, buf |-> b]]
      BY <1>6, SlotLost
    <3> QED BY <2>4, <2>5, <3>1
  <2>7. ASSUME opened < MXINPFS
        PROVE  handles' = handles
    <3>1. CASE InputMissing
      <4>1. handles' = handles \ {Slot.hnd}
        BY <3>1 DEF InputMissing
      <4>2. gdwGFCnt = opened
        <5>1. Len(stack) \in DOMAIN stack /\ Current = stack[Len(stack)]
          BY <2>2, CallIs DEF Current, Last
        <5> QED BY <2>2, <2>7, <5>1 DEF HeldInv, SlotsInOrder
      <4>3. Slot.hnd \in {NoHandle, INVALID_HANDLE_VALUE}
        BY <2>4, <2>5, <2>7, <4>2, CallIs DEF HeldInv, SlotsToCome
      <4>4. NoHandle \notin handles /\ INVALID_HANDLE_VALUE \notin handles
        BY CallIs DEF NoHandle, INVALID_HANDLE_VALUE
      <4> QED BY <4>1, <4>3, <4>4
    <3> QED BY <1>6, <3>1 DEF InputShut, InputRefused, InputHollow, ClosedAgain
  <2> QED BY <2>2, <2>3, <2>4, <2>6, <2>7, ArgTaken
<1>7. CASE InputRead
  <2>1. stack # <<>>
    BY <1>7, ArgIs DEF InputRead, TakingInput, Ops
  <2> QED BY <1>7, <2>1, InputHeld
<1>8. CASE EndOfInput
  BY <1>8, InputEndHeld
<1>9. CASE EndOfArgs
  <2>1. /\ Len(stack) = 1 /\ DOMAIN stack = {1} /\ pc = "args" /\ pc' = "main"
        /\ UNCHANGED reading /\ stack' = <<>>
    BY <1>9, CallIs DEF EndOfArgs
  <2>2. InFlight = {}
    BY <2>1 DEF HeldInv, CallsStand, InFlight
  <2>3. opened < MXINPFS => handles = {} /\ buffers = {}
    BY <2>1, <2>2 DEF HeldInv, HeldByCalls
  <2> QED BY <2>1, <2>3, NoCalls
<1>10. CASE PgmExit
  <2>1. pc' = "end"
    BY <1>10 DEF PgmExit, LongJmp
  <2> QED BY <1>10, <2>1, NoCalls DEF PgmExit
<1>11. CASE UNCHANGED vars
  <2>1. UNCHANGED <<reading, stack, pc, glpError>>
    BY <1>11 DEF vars
  <2>2. CASE pc = "start"
    BY <2>1, <2>2 DEF HeldInv, CallsStand, SlotsInOrder, SlotsToCome, OwnSlots, HeldByCalls,
       InFlight, LoopEnds, reading
  <2>3. CASE pc # "start"
    BY <2>1, <2>3, SameCalls DEF HeldInv, CallsStand
  <2> QED BY <2>2, <2>3
<1> QED
  <2>1. StartWithout \/ EnterHelp \/ TakeVersion => Usage /\ pc # "end"
    BY DEF StartWithout, EnterHelp, TakeVersion, Taking
  <2> QED
    BY <1>1, <1>2, <1>3, <1>4, <1>5, <1>6, <1>7, <1>8, <1>9, <1>10, <1>11, <2>1 DEF Next

(* As long as fewer inputs were opened than there are slots, the handles   *)
(* open and the buffers held are those of the inputs being read, for every *)
(* command line and all input files: none is lost on any way out of        *)
(* DoAnINP, however deep the inputs lie.                                   *)
THEOREM HandlesHeld == Spec => []HandlesAreInputs
<1>1. HeldInv => HandlesAreInputs
  BY DEF HeldInv, HeldByCalls, HandlesAreInputs, InFlight
<1> QED BY <1>1, AlwaysAlive, InitHeld, NextHeld, PTL DEF Spec
-----------------------------------------------------------------------------
(* The recursions that say how the arguments read when every "@" is        *)
(* replaced: they define functions, and here is what these give.           *)

(* What an argument of the flattened command line is.                      *)
Written == [op : Ops, arg : Values \cup DOMAIN Inputs \cup {0}]

LEMMA IsWritten ==
  /\ \A it \in Item : it \in Written
  /\ \A op \in Ops : Is(op) \in Seq(Written)
<1>1. \A it \in Item : it \in Written
  BY DEF Item, Written
<1>2. \A op \in Ops : [op |-> op, arg |-> 0] \in Written
  BY DEF Written
<1> QED
  BY <1>1, <1>2 DEF Is

(* What one argument stands for.                                           *)
Part(it, in) == IF it.op = "input" THEN in[it.arg] ELSE <<it>>

LEMMA PartType ==
  ASSUME NEW it \in Item, NEW in \in [DOMAIN Inputs -> Seq(Written)]
  PROVE  Part(it, in) \in Seq(Written)
<1>1. it \in Written /\ (it.op = "input" => it.arg \in DOMAIN Inputs)
  BY IsWritten DEF Item
<1>2. <<it>> \in Seq(Written)
  BY <1>1
<1> QED
  BY <1>1, <1>2 DEF Part

LEMMA UpToIs ==
  ASSUME NEW args \in Seq(Item), NEW in \in [DOMAIN Inputs -> Seq(Written)]
  PROVE  /\ UpTo(args, in)[0] = <<>>
         /\ \A n \in 1..Len(args) :
              UpTo(args, in)[n] = UpTo(args, in)[n - 1] \o Part(args[n], in)
         /\ \A n \in 0..Len(args) : UpTo(args, in)[n] \in Seq(Written)
<1> DEFINE T == Seq(Written)
           k == Len(args)
           Right(g) ==
             g = [n \in 0..k |->
                    IF n = 0 THEN <<>>
                    ELSE g[n - 1] \o (IF args[n].op = "input" THEN in[args[n].arg]
                                                              ELSE <<args[n]>>)]
           f == CHOOSE g : Right(g)
           step == [x \in T \X (1..k) |-> x[1] \o Part(args[x[2]], in)]
<1>1. UpTo(args, in) = f
  BY DEF UpTo
<1>2. k \in Nat /\ <<>> \in T
  OBVIOUS
<1>3. \A n \in 1..k : Part(args[n], in) \in T
  <2> TAKE n \in 1..k
  <2>1. args[n] \in Item
    OBVIOUS
  <2> QED
    BY <2>1, PartType
<1>4. \A t \in T, n \in 1..k : t \o Part(args[n], in) \in T
  BY <1>3, ConcatProperties
<1>5. step \in [T \X (1..k) -> T]
  <2> HIDE DEF T, k
  <2> QED
    BY <1>4
<1>6. \A t \in T, n \in 1..k : step[<<t, n>>] = t \o Part(args[n], in)
  OBVIOUS
<1> HIDE DEF step, T, k
<1>7. PICK g \in [0..k -> T] : Steps(g, <<>>, step, k)
  BY <1>2, <1>5, StepsExist
<1>8. \A n \in 1..k : g[n] = g[n - 1] \o Part(args[n], in)
  <2> TAKE n \in 1..k
  <2>1. n - 1 \in 0..k
    BY <1>2
  <2> QED
    BY <1>6, <1>7, <2>1 DEF Steps
<1>9. Right(g)
  <2>1. \A n \in 0..k : n # 0 => n \in 1..k
    BY <1>2
  <2>2. \A n \in 0..k :
          g[n] = IF n = 0 THEN <<>>
                 ELSE g[n - 1] \o (IF args[n].op = "input" THEN in[args[n].arg]
                                                           ELSE <<args[n]>>)
    BY <1>7, <1>8, <2>1 DEF Steps, Part
  <2> QED
    BY <2>2
<1>10. Right(f)
  <2> HIDE DEF Right
  <2> QED
    BY <1>9
<1>11. f[0] = <<>> /\ \A n \in 1..k : f[n] = f[n - 1] \o Part(args[n], in)
  <2> HIDE DEF f
  <2>1. \A n \in 0..k :
          f[n] = IF n = 0 THEN <<>>
                 ELSE f[n - 1] \o (IF args[n].op = "input" THEN in[args[n].arg]
                                                           ELSE <<args[n]>>)
    BY <1>10
  <2>2. 0 \in 0..k /\ \A n \in 1..k : n \in 0..k /\ n # 0
    BY <1>2
  <2> QED
    BY <2>1, <2>2 DEF Part
<1> HIDE DEF f
<1>12. ASSUME NEW n \in 0..k, f[n] \notin T PROVE FALSE
  <2> DEFINE Out == {i \in 0..k : f[i] \notin T}
  <2>1. Out \in SUBSET Nat /\ Out # {}
    BY <1>12
  <2>2. PICK i \in Out : \A j \in Out : i <= j
    <3> HIDE DEF Out
    <3> QED
      BY <2>1, Least
  <2>3. i # 0 /\ i \in 0..k
    BY <1>2, <1>11, <2>2
  <2>4. i \in 1..k /\ i - 1 \in 0..k /\ i - 1 \notin Out
    BY <1>2, <2>2, <2>3
  <2>5. f[i - 1] \in T
    BY <2>4
  <2>6. f[i] \in T
    BY <1>4, <1>11, <2>4, <2>5
  <2> QED
    BY <2>2, <2>6
<1> QED
  BY <1>1, <1>11, <1>12 DEF T, k

LEMMA FlatType ==
  ASSUME NEW args \in Seq(Item), NEW in \in [DOMAIN Inputs -> Seq(Written)]
  PROVE  Flat(args, in) \in Seq(Written)
<1>1. Len(args) \in 0..Len(args) /\ "help" \in Ops
  BY DEF Ops
<1> QED
  BY <1>1, UpToIs, IsWritten DEF Flat

(* The argument that an input of too many begins with, from the inputs to  *)
(* the depth below.                                                        *)
BegunOf(in) ==
  [v \in DOMAIN Inputs |->
     IF Inputs[v].kind # "read" THEN Is("bad")
     ELSE IF AsksHelp(ArgsOf(v)) THEN Is("help")
     ELSE First(ArgsOf(v), in)]

(* The inputs to one depth, from those to the depth below and the first    *)
(* arguments b.                                                            *)
Deeper(in, b) ==
  [v \in DOMAIN Inputs |->
     IF Inputs[v].kind # "read" THEN Is("bad")
     ELSE IF TooMany(v) THEN b[v] \o Is("bad")
     ELSE Flat(ArgsOf(v), in)]

LEMMA ArgsOfType ==
  ASSUME NEW v \in DOMAIN Inputs
  PROVE  ArgsOf(v) \in Seq(Item)
<1>1. Inputs[v].items \in Seq(Item) /\ MXARGS \in Nat \ {0, 1}
  BY InputsAssumption, BoundsAssumption
<1> DEFINE s == Inputs[v].items
<1>2. CASE TooMany(v)
  <2>1. Len(s) >= MXARGS - 1 /\ Len(s) \in Nat
    BY <1>1, <1>2 DEF TooMany
  <2>2. \A i \in 1..(MXARGS - 1) : s[i] \in Item
    BY <1>1, <2>1
  <2> HIDE DEF s
  <2>3. SubSeq(s, 1, MXARGS - 1) \in Seq(Item)
    BY <1>1, <2>2, SubSeqProperties
  <2> QED
    BY <1>2, <2>3 DEF ArgsOf, s
<1> QED
  BY <1>1, <1>2 DEF ArgsOf

LEMMA FirstType ==
  ASSUME NEW args \in Seq(Item), NEW in \in [DOMAIN Inputs -> Seq(Written)]
  PROVE  First(args, in) \in Seq(Written)
<1>1. CASE args # <<>>
  <2>1. Head(args) \in Item
    BY <1>1
  <2>2. Part(Head(args), in) \in Seq(Written)
    BY <2>1, PartType
  <2> QED
    BY <1>1, <2>2 DEF First, Part
<1>2. <<>> \in Seq(Written)
  OBVIOUS
<1> QED
  BY <1>1, <1>2 DEF First

LEMMA BegunType ==
  ASSUME NEW in \in [DOMAIN Inputs -> Seq(Written)]
  PROVE  BegunOf(in) \in [DOMAIN Inputs -> Seq(Written)]
<1> SUFFICES ASSUME NEW v \in DOMAIN Inputs PROVE BegunOf(in)[v] \in Seq(Written)
  BY DEF BegunOf
<1>1. Is("bad") \in Seq(Written) /\ Is("help") \in Seq(Written)
  BY IsWritten DEF Ops
<1>2. First(ArgsOf(v), in) \in Seq(Written)
  BY ArgsOfType, FirstType
<1> QED
  BY <1>1, <1>2 DEF BegunOf

LEMMA DeeperType ==
  ASSUME NEW in \in [DOMAIN Inputs -> Seq(Written)],
         NEW b \in [DOMAIN Inputs -> Seq(Written)]
  PROVE  Deeper(in, b) \in [DOMAIN Inputs -> Seq(Written)]
<1> SUFFICES ASSUME NEW v \in DOMAIN Inputs PROVE Deeper(in, b)[v] \in Seq(Written)
  BY DEF Deeper
<1>1. Is("bad") \in Seq(Written)
  BY IsWritten DEF Ops
<1>2. Flat(ArgsOf(v), in) \in Seq(Written)
  BY ArgsOfType, FlatType
<1>3. b[v] \o Is("bad") \in Seq(Written)
  BY <1>1, ConcatProperties
<1> QED
  BY <1>1, <1>2, <1>3 DEF Deeper

LEMMA BegunIs ==
  /\ Begun[0] = [v \in DOMAIN Inputs |-> Is("bad")]
  /\ \A d \in 0..MaxOpen : Begun[d] \in [DOMAIN Inputs -> Seq(Written)]
  /\ \A d \in 1..MaxOpen : Begun[d] = BegunOf(Begun[d - 1])
<1> DEFINE T == [DOMAIN Inputs -> Seq(Written)]
           base == [v \in DOMAIN Inputs |-> Is("bad")]
           Right(g) ==
             g = [d \in 0..MaxOpen |->
                    [v \in DOMAIN Inputs |->
                       IF d = 0 \/ Inputs[v].kind # "read" THEN Is("bad")
                       ELSE IF AsksHelp(ArgsOf(v)) THEN Is("help")
                       ELSE First(ArgsOf(v), g[d - 1])]]
           f == CHOOSE g : Right(g)
           step == [x \in T \X (1..MaxOpen) |-> BegunOf(x[1])]
<1>1. Begun = f
  BY DEF Begun
<1>2. MaxOpen \in Nat
  BY BoundsAssumption
<1>3. base \in T
  BY IsWritten DEF Ops
<1>4. \A t \in T : BegunOf(t) \in T
  BY BegunType
<1> HIDE DEF T
<1>5. step \in [T \X (1..MaxOpen) -> T]
  BY <1>4
<1>6. \A t \in T, d \in 1..MaxOpen : step[<<t, d>>] = BegunOf(t)
  OBVIOUS
<1> HIDE DEF step, base
<1>7. PICK g \in [0..MaxOpen -> T] : Steps(g, base, step, MaxOpen)
  BY <1>2, <1>3, <1>5, StepsExist
<1>8. g[0] = base /\ \A d \in 1..MaxOpen : g[d] = BegunOf(g[d - 1])
  <2>1. \A d \in 1..MaxOpen : d - 1 \in 0..MaxOpen
    BY <1>2
  <2> QED
    BY <1>6, <1>7, <2>1 DEF Steps
<1>9. Right(g)
  <2> SUFFICES ASSUME NEW d \in 0..MaxOpen
               PROVE  g[d] = [v \in DOMAIN Inputs |->
                       IF d = 0 \/ Inputs[v].kind # "read" THEN Is("bad")
                       ELSE IF AsksHelp(ArgsOf(v)) THEN Is("help")
                       ELSE First(ArgsOf(v), g[d - 1])]
    OBVIOUS
  <2>1. CASE d = 0
    BY <1>8, <2>1 DEF base
  <2>2. CASE d # 0
    <3>1. d \in 1..MaxOpen
      BY <1>2, <2>2
    <3> QED
      BY <1>8, <2>2, <3>1 DEF BegunOf
  <2> QED
    BY <2>1, <2>2
<1>10. Right(f)
  <2> HIDE DEF Right
  <2> QED
    BY <1>9
<1>11. f[0] = base /\ \A d \in 1..MaxOpen : f[d] = BegunOf(f[d - 1])
  <2> HIDE DEF f
  <2>1. 0 \in 0..MaxOpen /\ \A d \in 1..MaxOpen : d \in 0..MaxOpen /\ d # 0
    BY <1>2
  <2>2. f[0] = base
    BY <1>10, <2>1 DEF base
  <2>3. ASSUME NEW d \in 1..MaxOpen PROVE f[d] = BegunOf(f[d - 1])
    <3>1. d \in 0..MaxOpen /\ d # 0
      BY <2>1
    <3>2. f[d] = [v \in DOMAIN Inputs |->
                       IF d = 0 \/ Inputs[v].kind # "read" THEN Is("bad")
                       ELSE IF AsksHelp(ArgsOf(v)) THEN Is("help")
                       ELSE First(ArgsOf(v), f[d - 1])]
      BY <1>10, <3>1
    <3> QED
      BY <3>1, <3>2 DEF BegunOf
  <2> QED
    BY <2>2, <2>3
<1> HIDE DEF f
<1>12. ASSUME NEW d \in 0..MaxOpen, f[d] \notin T PROVE FALSE
  <2> DEFINE Out == {i \in 0..MaxOpen : f[i] \notin T}
  <2>1. Out \in SUBSET Nat /\ Out # {}
    BY <1>2, <1>12
  <2>2. PICK i \in Out : \A j \in Out : i <= j
    <3> HIDE DEF Out
    <3> QED
      BY <2>1, Least
  <2>3. i # 0 /\ i \in 0..MaxOpen
    BY <1>3, <1>11, <2>2
  <2>4. i \in 1..MaxOpen /\ i - 1 \in 0..MaxOpen /\ i - 1 \notin Out
    BY <1>2, <2>2, <2>3
  <2>5. f[i - 1] \in T
    BY <2>4
  <2>6. f[i] \in T
    BY <1>4, <1>11, <2>4, <2>5
  <2> QED
    BY <2>2, <2>6
<1> QED
  BY <1>1, <1>11, <1>12 DEF T, base

LEMMA ExpandedIs ==
  /\ Expanded[0] = [v \in DOMAIN Inputs |-> Is("bad")]
  /\ \A d \in 0..MaxOpen : Expanded[d] \in [DOMAIN Inputs -> Seq(Written)]
  /\ \A d \in 1..MaxOpen : Expanded[d] = Deeper(Expanded[d - 1], Begun[d])
<1> DEFINE T == [DOMAIN Inputs -> Seq(Written)]
           base == [v \in DOMAIN Inputs |-> Is("bad")]
           Right(g) ==
             g = [d \in 0..MaxOpen |->
                    [v \in DOMAIN Inputs |->
                       IF d = 0 \/ Inputs[v].kind # "read" THEN Is("bad")
                       ELSE IF TooMany(v) THEN Begun[d][v] \o Is("bad")
                       ELSE Flat(ArgsOf(v), g[d - 1])]]
           f == CHOOSE g : Right(g)
           step == [x \in T \X (1..MaxOpen) |-> Deeper(x[1], Begun[x[2]])]
<1>1. Expanded = f
  BY DEF Expanded
<1>2. MaxOpen \in Nat
  BY BoundsAssumption
<1>3. base \in T
  BY IsWritten DEF Ops
<1>4. \A t \in T, d \in 1..MaxOpen : Deeper(t, Begun[d]) \in T
  <2>1. \A d \in 1..MaxOpen : Begun[d] \in T
    BY <1>2, BegunIs
  <2> QED
    BY <2>1, DeeperType
<1> HIDE DEF T
<1>5. step \in [T \X (1..MaxOpen) -> T]
  BY <1>4
<1>6. \A t \in T, d \in 1..MaxOpen : step[<<t, d>>] = Deeper(t, Begun[d])
  OBVIOUS
<1> HIDE DEF step, base
<1>7. PICK g \in [0..MaxOpen -> T] : Steps(g, base, step, MaxOpen)
  BY <1>2, <1>3, <1>5, StepsExist
<1>8. g[0] = base /\ \A d \in 1..MaxOpen : g[d] = Deeper(g[d - 1], Begun[d])
  <2>1. \A d \in 1..MaxOpen : d - 1 \in 0..MaxOpen
    BY <1>2
  <2> QED
    BY <1>6, <1>7, <2>1 DEF Steps
<1>9. Right(g)
  <2> SUFFICES ASSUME NEW d \in 0..MaxOpen
               PROVE  g[d] = [v \in DOMAIN Inputs |->
                       IF d = 0 \/ Inputs[v].kind # "read" THEN Is("bad")
                       ELSE IF TooMany(v) THEN Begun[d][v] \o Is("bad")
                       ELSE Flat(ArgsOf(v), g[d - 1])]
    OBVIOUS
  <2>1. CASE d = 0
    BY <1>8, <2>1 DEF base
  <2>2. CASE d # 0
    <3>1. d \in 1..MaxOpen
      BY <1>2, <2>2
    <3> QED
      BY <1>8, <2>2, <3>1 DEF Deeper
  <2> QED
    BY <2>1, <2>2
<1>10. Right(f)
  <2> HIDE DEF Right
  <2> QED
    BY <1>9
<1>11. f[0] = base /\ \A d \in 1..MaxOpen : f[d] = Deeper(f[d - 1], Begun[d])
  <2> HIDE DEF f
  <2>1. 0 \in 0..MaxOpen /\ \A d \in 1..MaxOpen : d \in 0..MaxOpen /\ d # 0
    BY <1>2
  <2>2. f[0] = base
    BY <1>10, <2>1 DEF base
  <2>3. ASSUME NEW d \in 1..MaxOpen PROVE f[d] = Deeper(f[d - 1], Begun[d])
    <3>1. d \in 0..MaxOpen /\ d # 0
      BY <2>1
    <3>2. f[d] = [v \in DOMAIN Inputs |->
                       IF d = 0 \/ Inputs[v].kind # "read" THEN Is("bad")
                       ELSE IF TooMany(v) THEN Begun[d][v] \o Is("bad")
                       ELSE Flat(ArgsOf(v), f[d - 1])]
      BY <1>10, <3>1
    <3> QED
      BY <3>1, <3>2 DEF Deeper
  <2> QED
    BY <2>2, <2>3
<1> HIDE DEF f
<1>12. ASSUME NEW d \in 0..MaxOpen, f[d] \notin T PROVE FALSE
  <2> DEFINE Out == {i \in 0..MaxOpen : f[i] \notin T}
  <2>1. Out \in SUBSET Nat /\ Out # {}
    BY <1>2, <1>12
  <2>2. PICK i \in Out : \A j \in Out : i <= j
    <3> HIDE DEF Out
    <3> QED
      BY <2>1, Least
  <2>3. i # 0 /\ i \in 0..MaxOpen
    BY <1>3, <1>11, <2>2
  <2>4. i \in 1..MaxOpen /\ i - 1 \in 0..MaxOpen /\ i - 1 \notin Out
    BY <1>2, <2>2, <2>3
  <2>5. f[i - 1] \in T
    BY <2>4
  <2>6. f[i] \in T
    BY <1>4, <1>11, <2>4, <2>5
  <2> QED
    BY <2>2, <2>6
<1> QED
  BY <1>1, <1>11, <1>12 DEF T, base

(* What a recursion that picks from s gives.                               *)
Picks(f, s, S) ==
  /\ f[0] = <<>>
  /\ \A n \in 1..Len(s) : f[n] = IF n \in S THEN Append(f[n - 1], s[n]) ELSE f[n - 1]

LEMMA PickedIs ==
  ASSUME NEW V, NEW s \in Seq(V), NEW S
  PROVE  \E f : Picks(f, s, S) /\ PickedOf(s, S) = f[Len(s)]
                /\ \A n \in 0..Len(s) : f[n] \in Seq(V)
<1> DEFINE T == Seq(V)
           k == Len(s)
           Right(g) == g = [n \in 0..k |->
                              IF n = 0 THEN <<>>
                              ELSE IF n \in S THEN Append(g[n - 1], s[n]) ELSE g[n - 1]]
           f == CHOOSE g : Right(g)
           step == [x \in T \X (1..k) |-> IF x[2] \in S THEN Append(x[1], s[x[2]]) ELSE x[1]]
<1>1. PickedOf(s, S) = f[k]
  BY DEF PickedOf
<1>2. k \in Nat /\ <<>> \in T
  OBVIOUS
<1>3. \A t \in T, n \in 1..k : (IF n \in S THEN Append(t, s[n]) ELSE t) \in T
  OBVIOUS
<1>4. step \in [T \X (1..k) -> T]
  <2> HIDE DEF T, k
  <2> QED
    BY <1>3
<1>5. \A t \in T, n \in 1..k : step[<<t, n>>] = IF n \in S THEN Append(t, s[n]) ELSE t
  OBVIOUS
<1> HIDE DEF step, T, k
<1>6. PICK g \in [0..k -> T] : Steps(g, <<>>, step, k)
  BY <1>2, <1>4, StepsExist
<1>7. \A n \in 1..k : g[n] = IF n \in S THEN Append(g[n - 1], s[n]) ELSE g[n - 1]
  <2> TAKE n \in 1..k
  <2>1. n - 1 \in 0..k
    BY <1>2
  <2>2. g[n - 1] \in T
    BY <2>1
  <2>3. g[n] = step[<<g[n - 1], n>>]
    BY <1>6 DEF Steps
  <2> QED
    BY <1>5, <2>2, <2>3
<1>8. Right(g)
  <2>1. \A n \in 0..k : n # 0 => n \in 1..k
    BY <1>2
  <2>2. \A n \in 0..k : g[n] = IF n = 0 THEN <<>>
                               ELSE IF n \in S THEN Append(g[n - 1], s[n]) ELSE g[n - 1]
    BY <1>6, <1>7, <2>1 DEF Steps
  <2> QED
    BY <2>2
<1>9. Right(f)
  <2> HIDE DEF Right
  <2> QED
    BY <1>8
<1>10. f[0] = <<>> /\ \A n \in 1..k : f[n] = IF n \in S THEN Append(f[n - 1], s[n]) ELSE f[n - 1]
  <2> HIDE DEF f
  <2>1. 0 \in 0..k /\ \A n \in 1..k : n \in 0..k /\ n # 0
    BY <1>2
  <2> QED
    BY <1>9, <2>1
<1> HIDE DEF f
<1>11. ASSUME NEW n \in 0..k, f[n] \notin T PROVE FALSE
  <2> DEFINE Out == {i \in 0..k : f[i] \notin T}
  <2>1. Out \in SUBSET Nat /\ Out # {}
    BY <1>11
  <2>2. PICK i \in Out : \A j \in Out : i <= j
    <3> HIDE DEF Out
    <3> QED
      BY <2>1, Least
  <2>3. i # 0 /\ i \in 0..k
    BY <1>2, <1>10, <2>2
  <2>4. i \in 1..k /\ i - 1 \in 0..k /\ i - 1 \notin Out
    BY <1>2, <2>2, <2>3
  <2>5. f[i - 1] \in T
    BY <2>4
  <2>6. f[i] \in T
    BY <1>3, <1>10, <2>4, <2>5
  <2> QED
    BY <2>2, <2>6
<1>12. Picks(f, s, S)
  BY <1>10 DEF Picks, k
<1> QED
  BY <1>1, <1>11, <1>12 DEF T, k

(* Whether as much is picked of the first k of s and of t.                 *)
Alike(s, S, t, R, k) == \A n \in 1..k : s[n] = t[n] /\ (n \in S <=> n \in R)

(* It goes by the members and places alone.                                *)
LEMMA PickedOnce ==
  ASSUME NEW s, NEW t, NEW S, NEW R, NEW f, NEW g, NEW k \in Nat,
         Len(s) \in Nat, Len(t) \in Nat, k <= Len(s), k <= Len(t),
         Alike(s, S, t, R, k), Picks(f, s, S), Picks(g, t, R)
  PROVE  f[k] = g[k]
<1> SUFFICES ASSUME f[k] # g[k] PROVE FALSE
  OBVIOUS
<1> DEFINE Out == {i \in 0..k : f[i] # g[i]}
<1>1. Out \in SUBSET Nat /\ Out # {}
  OBVIOUS
<1>2. PICK i \in Out : \A j \in Out : i <= j
  <2> HIDE DEF Out
  <2> QED
    BY <1>1, Least
<1>3. i # 0 /\ i \in 0..k /\ f[i] # g[i]
  BY <1>2 DEF Picks
<1>4. i \in 1..k /\ i \in 1..Len(s) /\ i \in 1..Len(t) /\ i - 1 \in 0..k /\ i - 1 \notin Out
  BY <1>2, <1>3
<1>5. f[i - 1] = g[i - 1]
  BY <1>4
<1>6. f[i] = g[i]
  BY <1>4, <1>5 DEF Picks, Alike
<1> QED
  BY <1>3, <1>6

LEMMA PickedMore ==
  ASSUME NEW V, NEW s \in Seq(V), NEW x \in V, NEW S, NEW R,
         Alike(s, S, s, R, Len(s))
  PROVE  /\ PickedOf(s, R) \in Seq(V)
         /\ PickedOf(Append(s, x), S) = IF Len(s) + 1 \in S THEN Append(PickedOf(s, R), x)
                                        ELSE PickedOf(s, R)
<1> DEFINE t == Append(s, x)
           k == Len(s)
<1>1. t \in Seq(V) /\ Len(t) = k + 1 /\ k \in Nat /\ t[k + 1] = x
      /\ \A n \in 1..k : t[n] = s[n]
  OBVIOUS
<1>2. PICK f : Picks(f, s, R) /\ PickedOf(s, R) = f[k] /\ \A n \in 0..k : f[n] \in Seq(V)
  BY PickedIs
<1> HIDE DEF t
<1>3. PICK g : Picks(g, t, S) /\ PickedOf(t, S) = g[Len(t)]
  BY <1>1, PickedIs
<1> HIDE DEF k
<1>4. g[k] = f[k]
  <2>1. Len(s) \in Nat /\ Len(t) \in Nat /\ k <= Len(s) /\ k <= Len(t)
    BY <1>1 DEF k
  <2>2. Alike(t, S, s, R, k)
    BY <1>1 DEF k, Alike
  <2>3. Picks(g, t, S) /\ Picks(f, s, R) /\ k \in Nat
    BY <1>1, <1>2, <1>3
  <2> QED
    BY <2>1, <2>2, <2>3, PickedOnce
<1>5. g[k + 1] = IF k + 1 \in S THEN Append(g[(k + 1) - 1], t[k + 1]) ELSE g[(k + 1) - 1]
  <2>1. k + 1 \in 1..Len(t)
    BY <1>1
  <2> QED
    BY <1>3, <2>1 DEF Picks
<1>6. (k + 1) - 1 = k /\ k \in 0..k
  BY <1>1
<1> QED
  BY <1>1, <1>2, <1>3, <1>4, <1>5, <1>6 DEF t, k

LEMMA NonePicked == \A S : PickedOf(<<>>, S) = <<>>
<1> TAKE S
<1>1. PICK f : Picks(f, <<>>, S) /\ PickedOf(<<>>, S) = f[Len(<<>>)]
  <2>1. <<>> \in Seq(Nat)
    OBVIOUS
  <2> QED
    BY <2>1, PickedIs
<1> QED
  BY <1>1 DEF Picks

(* The finds and masks of one argument more.                               *)
LEMMA OneMore ==
  ASSUME NEW w \in Seq(Written), NEW it \in Written
  PROVE  LET k == Len(w) + 1
             next == Append(w, it)
         IN  /\ FindsOf(next) = IF it.op = "find" \/ (it.op = "text" /\ Positional(w) = {})
                                THEN Append(FindsOf(w), it.arg) ELSE FindsOf(w)
             /\ FilesOf(next) = IF it.op = "text" /\ Positional(w) # {}
                                THEN Append(FilesOf(w), it.arg) ELSE FilesOf(w)
             /\ Positional(next) = {} <=> Positional(w) = {} /\ it.op \notin {"text", "blank", "find"}
<1> DEFINE k == Len(w) + 1
           next == Append(w, it)
           V == Values \cup DOMAIN Inputs \cup {0}
           a == [i \in DOMAIN w |-> w[i].arg]
           b == [i \in DOMAIN next |-> next[i].arg]
           Finds(x) == {i \in Positional(x) : x[i].op = "find" \/ (x[i].op = "text" /\ IsFirst(x, i))}
           Files(x) == {i \in Positional(x) : x[i].op = "text" /\ ~IsFirst(x, i)}
<1>1. /\ Len(w) \in Nat /\ DOMAIN w = 1..Len(w) /\ DOMAIN next = 1..k
      /\ \A i \in DOMAIN w : next[i] = w[i] /\ i < k
      /\ next[k] = it /\ k \in Nat /\ k \notin DOMAIN w
      /\ \A i \in DOMAIN next : i \in DOMAIN w \/ i = k
  OBVIOUS
<1>2. \A i \in DOMAIN w : w[i].arg \in V
  <2> TAKE i \in DOMAIN w
  <2>1. w[i] \in Written
    OBVIOUS
  <2> QED
    BY <2>1 DEF Written
<1>3. it.arg \in V
  BY DEF Written
<1> HIDE DEF V
<1>4. a \in Seq(V) /\ Len(a) = Len(w)
  <2>1. a \in [1..Len(w) -> V]
    BY <1>1, <1>2
  <2> QED
    BY <1>1, <2>1
<1>5. b = Append(a, it.arg)
  <2> DEFINE c == Append(a, it.arg)
  <2>1. /\ DOMAIN c = 1..k /\ c[k] = it.arg
        /\ \A i \in 1..Len(w) : c[i] = a[i]
    BY <1>1, <1>3, <1>4, AppendProperties
  <2>2. \A i \in 1..k : b[i] = c[i]
    BY <1>1, <2>1
  <2>3. c \in Seq(V) /\ Len(c) = k
    BY <1>1, <1>3, <1>4, AppendProperties
  <2>4. b \in [1..k -> V]
    BY <1>1, <1>2, <1>3
  <2> HIDE DEF c
  <2>5. c = [i \in 1..k |-> c[i]]
    BY <2>3
  <2>6. b = [i \in 1..k |-> b[i]]
    BY <1>1
  <2> HIDE DEF b
  <2>7. b = c
    BY <2>2, <2>5, <2>6
  <2> QED
    BY <2>7 DEF c
<1> DEFINE Ops3 == {"text", "blank", "find"}
<1>6. /\ \A i \in 1..Len(w) : i \in Positional(next) <=> i \in Positional(w)
      /\ k \in Positional(next) <=> it.op \in Ops3
  BY <1>1 DEF Positional
<1>7. Positional(next) = Positional(w) \cup (IF it.op \in Ops3 THEN {k} ELSE {})
  <2>1. Positional(next) \subseteq DOMAIN next /\ Positional(w) \subseteq DOMAIN w
    BY DEF Positional
  <2> HIDE DEF next
  <2> QED
    BY <1>1, <1>6, <2>1
<1>8. Positional(w) \subseteq 1..Len(w)
  BY <1>1 DEF Positional
<1>9. \A i \in Positional(w) : IsFirst(next, i) <=> IsFirst(w, i)
  <2> HIDE DEF next
  <2> QED
    BY <1>1, <1>7, <1>8 DEF IsFirst
<1>10. it.op \in Ops3 => (IsFirst(next, k) <=> Positional(w) = {})
  <2> HIDE DEF next
  <2> QED
    BY <1>1, <1>7, <1>8 DEF IsFirst
<1>11. /\ \A i \in 1..Len(w) : i \in Finds(next) <=> i \in Finds(w)
       /\ \A i \in 1..Len(w) : i \in Files(next) <=> i \in Files(w)
  BY <1>1, <1>6, <1>9
<1>12. /\ k \in Finds(next) <=> it.op = "find" \/ (it.op = "text" /\ Positional(w) = {})
       /\ k \in Files(next) <=> it.op = "text" /\ Positional(w) # {}
  BY <1>1, <1>6, <1>10
<1>13. /\ FindsOf(w) = PickedOf(a, Finds(w)) /\ FilesOf(w) = PickedOf(a, Files(w))
       /\ FindsOf(next) = PickedOf(b, Finds(next)) /\ FilesOf(next) = PickedOf(b, Files(next))
  BY DEF FindsOf, FilesOf, ArgsAt
<1> HIDE DEF a, b, next, Finds, Files
<1>14. /\ PickedOf(b, Finds(next)) = IF k \in Finds(next) THEN Append(PickedOf(a, Finds(w)), it.arg)
                                     ELSE PickedOf(a, Finds(w))
       /\ PickedOf(b, Files(next)) = IF k \in Files(next) THEN Append(PickedOf(a, Files(w)), it.arg)
                                     ELSE PickedOf(a, Files(w))
  <2>1. Alike(a, Finds(next), a, Finds(w), Len(a))
    BY <1>4, <1>11 DEF Alike
  <2>2. Alike(a, Files(next), a, Files(w), Len(a))
    BY <1>4, <1>11 DEF Alike
  <2>3. Len(a) + 1 = k
    BY <1>4 DEF k
  <2>6. \A P, Q : Alike(a, P, a, Q, Len(a)) =>
          PickedOf(Append(a, it.arg), P) =
            IF Len(a) + 1 \in P THEN Append(PickedOf(a, Q), it.arg) ELSE PickedOf(a, Q)
    <3> TAKE P, Q
    <3> HAVE Alike(a, P, a, Q, Len(a))
    <3>1. PICK U, c, e : U = V /\ c = a /\ e = it.arg
      OBVIOUS
    <3>2. c \in Seq(U) /\ e \in U /\ Alike(c, P, c, Q, Len(c))
      BY <1>3, <1>4, <3>1
    <3>3. PickedOf(Append(c, e), P) =
            IF Len(c) + 1 \in P THEN Append(PickedOf(c, Q), e) ELSE PickedOf(c, Q)
      BY ONLY <3>2, PickedMore
    <3> QED
      BY <3>1, <3>3
  <2>4. PickedOf(Append(a, it.arg), Finds(next)) =
          IF Len(a) + 1 \in Finds(next) THEN Append(PickedOf(a, Finds(w)), it.arg)
          ELSE PickedOf(a, Finds(w))
    BY <2>1, <2>6
  <2>5. PickedOf(Append(a, it.arg), Files(next)) =
          IF Len(a) + 1 \in Files(next) THEN Append(PickedOf(a, Files(w)), it.arg)
          ELSE PickedOf(a, Files(w))
    BY <2>2, <2>6
  <2> QED
    BY <1>5, <2>3, <2>4, <2>5
<1> QED
  BY <1>7, <1>12, <1>13, <1>14 DEF next

(* The masks listed, when one is added.                                    *)
LEMMA OneListed ==
  ASSUME NEW V, NEW m \in Seq(V), NEW x \in V
  PROVE  Listed(Append(m, x)) = IF x # RestOfList THEN Append(Listed(m), x) ELSE Listed(m)
<1> DEFINE At(s) == {i \in DOMAIN s : s[i] # RestOfList}
<1>1. /\ Alike(m, At(Append(m, x)), m, At(m), Len(m))
      /\ Len(m) + 1 \in At(Append(m, x)) <=> x # RestOfList
  BY DEF Alike
<1>2. Listed(m) = PickedOf(m, At(m)) /\ Listed(Append(m, x)) = PickedOf(Append(m, x), At(Append(m, x)))
  BY DEF Listed
<1> HIDE DEF At
<1> QED
  BY <1>1, <1>2, PickedMore

(* A list of which nothing is listed has only what -U added.               *)
LEMMA NoneListed ==
  ASSUME NEW V, NEW m \in Seq(V), m # <<>>, Listed(m) = <<>>
  PROVE  RestOfList \in ToSet(m)
<1>1. PICK p \in Seq(V), x \in V : m = Append(p, x)
  BY SequenceEmptyOrAppend
<1>2. x = RestOfList
  <2> SUFFICES ASSUME x # RestOfList PROVE FALSE
    OBVIOUS
  <2>1. Listed(m) = Append(Listed(p), x)
    BY <1>1, OneListed
  <2>2. Listed(p) \in Seq(V)
    BY PickedIs DEF Listed
  <2> QED
    BY <2>1, <2>2, AppendProperties
<1>3. Len(p) + 1 \in DOMAIN m /\ m[Len(p) + 1] = x
  BY <1>1
<1> QED
  BY <1>2, <1>3 DEF ToSet
-----------------------------------------------------------------------------
(* Until an error is noted each input being read has its handle open, and  *)
(* what its slot holds is that handle or a later one: ...                  *)
CallsOpen ==
  /\ Cardinality(handles) <= MaxOpen
  /\ ~glpError /\ pc \in {"enter", "args"} =>
       \A k \in DOMAIN stack : k > 1 =>
         /\ stack[k].no \in handles
         /\ \/ ~Valid(gsGFS[stack[k].slot].hnd)
            \/ gsGFS[stack[k].slot].hnd >= stack[k].no

(* ... so there are never more inputs being read than handles to have.     *)
LEMMA DepthBound ==
  ASSUME TypeInv, AliveInv, CallsOpen, ~glpError, pc \in {"enter", "args"}
  PROVE  Len(stack) - 1 <= Cardinality(handles) /\ Cardinality(handles) \in Nat
<1>1. IsFiniteSet(handles)
  <2>1. handles \subseteq 1..opened /\ opened \in Nat
    BY CallIs
  <2>2. IsFiniteSet(1..opened)
    BY <2>1, FS_Interval
  <2> QED
    BY <2>1, <2>2, FS_Subset
<1>2. Cardinality(handles) \in Nat
  BY <1>1, FS_CardinalityType
<1> DEFINE S == 2..Len(stack)
           f == [k \in S |-> stack[k].no]
<1>3. Len(stack) \in Nat /\ Len(stack) # 0
      /\ \A k \in S : k \in DOMAIN stack /\ k > 1 /\ stack[k].no \in Nat
  BY CallIs DEF TypeInv, InCall
<1>4. \A k \in S : stack[k].no \in handles
  BY <1>3 DEF CallsOpen
<1>5. ASSUME NEW j \in S, NEW k \in S, j # k PROVE stack[j].no # stack[k].no
  <2>1. j \in Nat /\ k \in Nat
    BY <1>3
  <2>2. j < k \/ k < j
    BY <1>5, <2>1
  <2> QED
    BY <1>3, <2>2 DEF AliveInv, LaterInputs
<1>6. f \in Injection(S, handles)
  BY <1>4, <1>5 DEF Injection, IsInjective
<1>7. Cardinality(S) <= Cardinality(handles)
  <2> HIDE DEF S, f
  <2> QED
    BY <1>1, <1>6, FS_Injection
<1>8. Cardinality(S) = Len(stack) - 1
  BY <1>3, FS_Interval
<1> QED
  BY <1>2, <1>7, <1>8
(* The handles are finitely many, and any of them are no more.             *)
LEMMA FewerHandles ==
  ASSUME TypeInv
  PROVE  /\ IsFiniteSet(handles) /\ Cardinality(handles) \in Nat
         /\ \A S \in SUBSET handles : Cardinality(S) \in Nat /\ Cardinality(S) <= Cardinality(handles)
<1>1. handles \subseteq 1..opened /\ opened \in Nat
  BY CallIs
<1>2. IsFiniteSet(1..opened)
  BY <1>1, FS_Interval
<1>3. IsFiniteSet(handles)
  BY <1>1, <1>2, FS_Subset
<1> QED
  BY <1>3, FS_Subset, FS_CardinalityType

LEMMA InitOpen == Init => CallsOpen
<1> SUFFICES ASSUME Init PROVE CallsOpen
  OBVIOUS
<1>1. Cardinality(handles) = 0
  BY FS_EmptySet DEF Init
<1> QED
  BY <1>1, BoundsAssumption DEF Init, CallsOpen

LEMMA NextOpen == TypeInv /\ AliveInv /\ CallsOpen /\ [Next]_vars => CallsOpen'
<1> SUFFICES ASSUME TypeInv, AliveInv, CallsOpen, [Next]_vars PROVE CallsOpen'
  OBVIOUS
<1>0. Cardinality(handles) <= MaxOpen /\ Cardinality(handles) \in Nat /\ MaxOpen \in Nat
  BY FewerHandles, BoundsAssumption DEF CallsOpen
<1>1. ASSUME handles' = handles, pc' \notin {"enter", "args"} \/ glpError' \/ stack' = <<>>
      PROVE  CallsOpen'
  BY <1>0, <1>1 DEF CallsOpen
<1>2. CASE Usage \/ MainFails \/ MainGoesOn \/ Search \/ SearchFails \/ PgmExit \/ EndOfArgs
  BY <1>1, <1>2 DEF Usage, MainFails, MainGoesOn, Search, SearchFails, PgmExit, EndOfArgs,
     ErrorExit, reading
<1>3. CASE Start
  <2>1. DOMAIN stack' = {1} /\ UNCHANGED reading
    BY <1>3 DEF Start, Call
  <2> QED
    BY <1>0, <2>1 DEF CallsOpen, reading
<1>4. CASE Enter \/ UNCHANGED vars
  <2>1. stack' = stack /\ glpError' = glpError /\ handles' = handles /\ gsGFS' = gsGFS
        /\ (pc' \in {"enter", "args"} => pc \in {"enter", "args"})
    BY <1>4 DEF Enter, vars, reading
  <2> QED
    BY <2>1 DEF CallsOpen
<1>5. CASE TakeSwitch \/ TakeFind \/ TakeText \/ TakeList
  <2>1. /\ UNCHANGED reading /\ stack' = Bumped /\ pc = "args" /\ (glpError => glpError')
    BY <1>5 DEF TakeSwitch, TakeFind, TakeText, TakeList, Taking
  <2>2. stack # <<>> /\ stack \in Seq(CallType)
    BY <2>1 DEF TypeInv, TypeOK, InCall
  <2>3. /\ DOMAIN stack' = DOMAIN stack
        /\ \A k \in DOMAIN stack : stack'[k].no = stack[k].no /\ stack'[k].slot = stack[k].slot
    BY <2>1, <2>2, BumpedIs
  <2> QED
    BY <2>1, <2>3 DEF CallsOpen, reading
<1>6. CASE InputMissing \/ InputShut \/ InputRefused
  <2>1. glpError' /\ handles' \subseteq handles
    BY <1>6 DEF InputMissing, InputShut, InputRefused, ClosedAgain
  <2>2. Cardinality(handles') <= MaxOpen
    BY <1>0, <2>1, FewerHandles
  <2> QED
    BY <2>1, <2>2 DEF CallsOpen
<1>7. CASE InputHollow
  <2>1. /\ handles' = handles /\ stack' = Bumped /\ pc = "args" /\ glpError' = glpError
        /\ gsGFS' = [gsGFS EXCEPT ![gdwGFCnt] = [hnd |-> NoHandle, buf |-> 0]]
    BY <1>7 DEF InputHollow, TakingInput, Taking
  <2>2. stack # <<>> /\ stack \in Seq(CallType)
    BY <2>1 DEF TypeInv, TypeOK, InCall
  <2>3. /\ DOMAIN stack' = DOMAIN stack
        /\ \A k \in DOMAIN stack : stack'[k].no = stack[k].no /\ stack'[k].slot = stack[k].slot
    BY <2>1, <2>2, BumpedIs
  <2>4. \A s \in DOMAIN gsGFS : gsGFS'[s] = gsGFS[s] \/ ~Valid(gsGFS'[s].hnd)
    BY <2>1 DEF Valid
  <2> QED
    BY <2>1, <2>3, <2>4, SlotOfCall DEF CallsOpen
<1>8. CASE InputRead
  <2>1. /\ handles' = handles \cup {NewHandle} /\ Cardinality(handles) < MaxOpen
        /\ gsGFS' = [gsGFS EXCEPT ![gdwGFCnt] = [hnd |-> NewHandle, buf |-> NewHandle]]
        /\ stack' = Append(Bumped, Call(ArgsOf(Arg), NewHandle, gdwGFCnt))
        /\ pc = "args" /\ (glpError => glpError')
    BY <1>8 DEF InputRead, TakingInput, Taking
  <2>2. stack # <<>> /\ stack \in Seq(CallType) /\ NewHandle \in Nat /\ NewHandle > opened
        /\ handles \subseteq 1..opened /\ opened \in Nat /\ gdwGFCnt \in DOMAIN gsGFS
    BY <2>1, CallIs DEF TypeInv, TypeOK, InCall, NewHandle
  <2>3. /\ Bumped \in Seq(CallType) /\ Len(Bumped) = Len(stack)
        /\ \A k \in 1..Len(stack) : Bumped[k].no = stack[k].no /\ Bumped[k].slot = stack[k].slot
    BY <2>2, BumpedIs
  <2> DEFINE new == Call(ArgsOf(Arg), NewHandle, gdwGFCnt)
  <2>4. new.no = NewHandle /\ new.slot = gdwGFCnt
    BY DEF Call
  <2> HIDE DEF new
  <2>5. /\ DOMAIN stack' = 1..Len(stack) + 1
        /\ \A k \in 1..Len(stack) : stack'[k].no = stack[k].no /\ stack'[k].slot = stack[k].slot
        /\ stack'[Len(stack) + 1].no = NewHandle /\ stack'[Len(stack) + 1].slot = gdwGFCnt
    BY <2>1, <2>3, <2>4 DEF new
  <2>6. Cardinality(handles') <= MaxOpen
    <3>1. Cardinality(handles \cup {NewHandle}) = Cardinality(handles) + 1
      <4>1. NewHandle \notin handles
        BY <2>2
      <4>2. IsFiniteSet(handles)
        BY FewerHandles
      <4> QED
        BY <4>1, <4>2, FS_AddElement
    <3> QED
      BY <1>0, <2>1, <3>1
  <2>7. gsGFS'[gdwGFCnt].hnd = NewHandle
        /\ \A s \in DOMAIN gsGFS : s # gdwGFCnt => gsGFS'[s] = gsGFS[s]
    BY <2>1, <2>2
  <2>8. ASSUME ~glpError', NEW k \in 1..Len(stack) + 1, k > 1
        PROVE  /\ stack'[k].no \in handles'
               /\ \/ ~Valid(gsGFS'[stack'[k].slot].hnd)
                  \/ gsGFS'[stack'[k].slot].hnd >= stack'[k].no
    <3>1. CASE k = Len(stack) + 1
      BY <2>1, <2>2, <2>5, <2>7, <3>1
    <3>2. CASE k # Len(stack) + 1
      <4>1. k \in 1..Len(stack) /\ k \in DOMAIN stack
        BY <2>2, <3>2
      <4>2. /\ stack[k].no \in handles
            /\ \/ ~Valid(gsGFS[stack[k].slot].hnd)
               \/ gsGFS[stack[k].slot].hnd >= stack[k].no
        BY <2>1, <2>8, <4>1 DEF CallsOpen
      <4>3. stack[k].slot \in DOMAIN gsGFS /\ stack[k].no < NewHandle
        BY <2>2, <4>1, <4>2, SlotOfCall
      <4>4. stack[k].no \in Nat
        BY <4>1, SlotOfCall
      <4>5. CASE stack[k].slot = gdwGFCnt
        BY <2>1, <2>2, <2>5, <2>7, <4>1, <4>2, <4>3, <4>4, <4>5
      <4>6. CASE stack[k].slot # gdwGFCnt
        <5>1. gsGFS'[stack'[k].slot] = gsGFS[stack[k].slot]
          BY <2>5, <2>7, <4>1, <4>3, <4>6
        <5> QED
          BY <2>1, <2>5, <4>1, <4>2, <5>1 DEF Valid
      <4> QED
        BY <4>5, <4>6
    <3> QED
      BY <3>1, <3>2
  <2> QED
    BY <2>5, <2>6, <2>8 DEF CallsOpen, Valid
<1>9. CASE EndOfInput
  <2>1. PICK n, s : n = Len(stack) /\ s = stack[n].slot
    OBVIOUS
  <2>2. /\ n \in Nat /\ n > 1 /\ n \in DOMAIN stack /\ DOMAIN stack = 1..n
        /\ glpError' = glpError /\ pc = "args"
    BY <1>9, <2>1, CallIs DEF EndOfInput
  <2>3. s \in DOMAIN gsGFS /\ Current.slot = s
    BY <2>1, <2>2, SlotOfCall DEF Current, Last
  <2>4. /\ handles' = handles \ {gsGFS[s].hnd}
        /\ gsGFS' = [gsGFS EXCEPT ![s] = [hnd |-> NoHandle, buf |-> 0]]
    BY <1>9, <2>3 DEF EndOfInput, EmptySlot
  <2>5. /\ ~Valid(gsGFS'[s].hnd)
        /\ \A t \in DOMAIN gsGFS : t # s => gsGFS'[t] = gsGFS[t]
    BY <2>3, <2>4 DEF Valid
  <2>6. DOMAIN stack' = 1..n - 1 /\ \A k \in 1..n - 1 : stack'[k] = stack[k]
    BY <1>9, <2>1, FrontIs
  <2>7. Cardinality(handles') <= MaxOpen
    BY <1>0, <2>4, FewerHandles
  <2>8. ASSUME ~glpError', NEW k \in 1..n - 1, k > 1
        PROVE  /\ stack'[k].no \in handles'
               /\ \/ ~Valid(gsGFS'[stack'[k].slot].hnd)
                  \/ gsGFS'[stack'[k].slot].hnd >= stack'[k].no
    <3>1. k \in DOMAIN stack /\ k < n /\ stack[k].slot \in DOMAIN gsGFS
          /\ stack[k].no \in Nat /\ stack[n].no \in Nat
      BY <2>2, SlotOfCall
    <3>2. /\ stack[k].no \in handles
          /\ \/ ~Valid(gsGFS[stack[k].slot].hnd)
             \/ gsGFS[stack[k].slot].hnd >= stack[k].no
      BY <2>2, <2>8, <3>1 DEF CallsOpen
    <3>3. stack[k].no < stack[n].no
      BY <2>2, <3>1 DEF AliveInv, LaterInputs
    <3>4. ~Valid(gsGFS[s].hnd) \/ gsGFS[s].hnd >= stack[n].no
      BY <2>1, <2>2, <2>8 DEF CallsOpen
    <3>5. stack[k].no # gsGFS[s].hnd
      <4>1. CASE ~Valid(gsGFS[s].hnd)
        BY <3>2, <4>1, CallIs DEF Valid, NoHandle, INVALID_HANDLE_VALUE
      <4>2. CASE gsGFS[s].hnd >= stack[n].no
        <5>1. PICK h : h = gsGFS[s].hnd
          OBVIOUS
        <5>2. h \in Int
          BY <2>3, <5>1, CallIs DEF Handle, INVALID_HANDLE_VALUE
        <5> QED
          BY <3>1, <3>3, <4>2, <5>1, <5>2
      <4> QED
        BY <3>4, <4>1, <4>2
    <3>6. stack'[k].no \in handles'
      BY <2>4, <2>6, <3>2, <3>5
    <3>7. CASE stack[k].slot = s
      BY <2>5, <2>6, <3>6, <3>7
    <3>8. CASE stack[k].slot # s
      BY <2>5, <2>6, <3>1, <3>2, <3>6, <3>8 DEF Valid
    <3> QED
      BY <3>7, <3>8
  <2> QED
    BY <2>6, <2>7, <2>8 DEF CallsOpen, Valid
<1> QED
  BY <1>2, <1>3, <1>4, <1>5, <1>6, <1>7, <1>8, <1>9
     DEF Next, StartWithout, EnterHelp, TakeVersion
-----------------------------------------------------------------------------
(* What was taken so far.  A call at depth k meets the inputs as they are  *)
(* read with the handles that are left there; ...                          *)
ReadAt(k) == Expanded[MaxOpen - k + 1]

(* ... a call c that waits, at depth k, is past an "@" and for a call with *)
(* args; p is all that was written before its arguments, and q what was    *)
(* before those of the call that it waits for; ...                         *)
Waits(c, args, k, p, q) ==
  LET it == c.args[c.i - 1]
  IN  /\ c.i > 1 /\ ~AsksHelp(c.args)
      /\ it.op = "input" /\ Inputs[it.arg].kind = "read" /\ ~TooMany(it.arg)
      /\ args = ArgsOf(it.arg)
      /\ q = p \o UpTo(c.args, ReadAt(k))[c.i - 2]

(* ... pre[k] is all that was written before the arguments of the call k,  *)
Reading(st, pre) ==
  /\ pre[1] = <<>> /\ st[1].args = argp
  /\ \A k \in DOMAIN st : st[k].i <= Len(st[k].args) + 1
  /\ \A k \in DOMAIN st :
       k < Len(st) => Waits(st[k], st[k + 1].args, k, pre[k], pre[k + 1])

(* ... and with what the last call has taken it is all so far: ...         *)
With(c, k, p) == p \o UpTo(c.args, ReadAt(k))[c.i - 1]
SoFar(st, pre) == With(st[Len(st)], Len(st), pre[Len(st)])

(* ... no argument that ends the reading, and of the others all the finds  *)
(* and masks are in the lists.                                             *)
Taken(w) ==
  /\ \A j \in DOMAIN w : w[j].op \notin Stopping
  /\ g_sFind = FindsOf(w) /\ Listed(g_sFileList) = FilesOf(w)
  /\ giFirst <=> Positional(w) # {}

Before == [1..MaxOpen + 1 -> Seq(Written)]

LEMMA ReadAtType ==
  /\ \A k \in 1..MaxOpen + 1 : ReadAt(k) \in [DOMAIN Inputs -> Seq(Written)]
  /\ \A k \in 1..MaxOpen : ReadAt(k) = Deeper(ReadAt(k + 1), Begun[MaxOpen - k + 1])
<1>1. MaxOpen \in Nat
  BY BoundsAssumption
<1>2. ASSUME NEW k \in 1..MaxOpen + 1 PROVE ReadAt(k) \in [DOMAIN Inputs -> Seq(Written)]
  <2>1. MaxOpen - k + 1 \in 0..MaxOpen
    BY <1>1
  <2> QED
    BY <2>1, ExpandedIs DEF ReadAt
<1>3. ASSUME NEW k \in 1..MaxOpen PROVE ReadAt(k) = Deeper(ReadAt(k + 1), Begun[MaxOpen - k + 1])
  <2>1. MaxOpen - k + 1 \in 1..MaxOpen /\ (MaxOpen - k + 1) - 1 = MaxOpen - (k + 1) + 1
    BY <1>1
  <2> QED
    BY <2>1, ExpandedIs DEF ReadAt
<1> QED
  BY <1>2, <1>3

(* The types of the arguments of a call.                                   *)
LEMMA CallArgs ==
  ASSUME NEW st \in Seq(CallType), NEW k \in 1..Len(st)
  PROVE  st[k].args \in Seq(Item) /\ st[k].i \in Nat \ {0} /\ st[k] \in CallType
<1>1. st[k] \in CallType
  OBVIOUS
<1> QED
  BY <1>1 DEF CallType

LEMMA Joined ==
  \A p, u, x \in Seq(Written) :
    p \o u \in Seq(Written) /\ p \o (u \o x) = (p \o u) \o x
<1> TAKE p, u, x \in Seq(Written)
<1>1. PICK U : U = Written
  OBVIOUS
<1>2. p \in Seq(U) /\ u \in Seq(U) /\ x \in Seq(U)
  BY <1>1
<1>3. p \o u \in Seq(U)
  BY ONLY <1>2, ConcatProperties
<1>4. (p \o u) \o x = p \o (u \o x)
  BY ONLY <1>2, ConcatAssociative
<1> QED
  BY <1>1, <1>3, <1>4

LEMMA WithType ==
  ASSUME NEW c \in CallType, NEW k \in 1..MaxOpen + 1, NEW p \in Seq(Written),
         c.i <= Len(c.args) + 1
  PROVE  With(c, k, p) \in Seq(Written)
<1>1. PICK args, i, in : args = c.args /\ i = c.i /\ in = ReadAt(k)
  OBVIOUS
<1>2. args \in Seq(Item) /\ i - 1 \in 0..Len(args)
  <2>1. args \in Seq(Item) /\ i \in Nat \ {0} /\ Len(args) \in Nat
    BY <1>1 DEF CallType
  <2> QED
    BY <1>1, <2>1
<1>3. in \in [DOMAIN Inputs -> Seq(Written)]
  BY <1>1, ReadAtType
<1>4. UpTo(args, in)[i - 1] \in Seq(Written)
  <2>1. \A m \in 0..Len(args) : UpTo(args, in)[m] \in Seq(Written)
    BY <1>2, <1>3, UpToIs
  <2> QED
    BY <1>2, <2>1
<1>5. p \o UpTo(args, in)[i - 1] \in Seq(Written)
  BY <1>4, Joined
<1> QED
  BY <1>1, <1>5 DEF With

(* One argument more of the call in hand.                                  *)
LEMMA WithMore ==
  ASSUME NEW c \in CallType, NEW k \in 1..MaxOpen + 1, NEW p \in Seq(Written),
         NEW d, d.args = c.args, d.i = c.i + 1, c.i <= Len(c.args)
  PROVE  /\ c.args[c.i] \in Item
         /\ With(d, k, p) = With(c, k, p) \o Part(c.args[c.i], ReadAt(k))
<1>1. PICK args, i, in : args = c.args /\ i = c.i /\ in = ReadAt(k)
  OBVIOUS
<1>2. args \in Seq(Item) /\ i \in 1..Len(args) /\ i - 1 \in 0..Len(args)
      /\ (i + 1) - 1 = i
  <2>1. args \in Seq(Item) /\ i \in Nat \ {0} /\ Len(args) \in Nat
    BY <1>1 DEF CallType
  <2>2. i <= Len(args)
    BY <1>1
  <2> QED
    BY ONLY <2>1, <2>2
<1>3. in \in [DOMAIN Inputs -> Seq(Written)]
  BY <1>1, ReadAtType
<1>4. args[i] \in Item
  BY <1>2
<1>5. PICK u, v, x : u = UpTo(args, in)[i - 1] /\ v = UpTo(args, in)[i] /\ x = Part(args[i], in)
  OBVIOUS
<1>6. v = u \o x /\ u \in Seq(Written) /\ x \in Seq(Written)
  BY <1>2, <1>3, <1>4, <1>5, UpToIs, PartType
<1>7. p \o v = (p \o u) \o x
  BY <1>6, Joined
<1>8. With(d, k, p) = p \o v /\ With(c, k, p) = p \o u
  BY <1>1, <1>2, <1>5 DEF With
<1> QED
  BY <1>1, <1>4, <1>5, <1>7, <1>8

(* The calls, of which the last goes on to its next argument.              *)
LEMMA Moves ==
  ASSUME NEW st \in Seq(CallType), NEW pre \in Before, NEW t \in Seq(CallType),
         NEW n \in 1..MaxOpen + 1, n = Len(st), Reading(st, pre),
         st[n].i <= Len(st[n].args),
         Len(t) = n, \A k \in 1..n : k # n => t[k] = st[k],
         t[n].args = st[n].args, t[n].i = st[n].i + 1
  PROVE  /\ st[n].args[st[n].i] \in Item
         /\ Reading(t, pre)
         /\ SoFar(t, pre) = SoFar(st, pre) \o Part(st[n].args[st[n].i], ReadAt(n))
<1>1. DOMAIN st = 1..n /\ DOMAIN t = 1..n /\ n \in Nat /\ n \in 1..n
  BY BoundsAssumption
<1>2. pre[n] \in Seq(Written) /\ st[n] \in CallType
  BY <1>1 DEF Before
<1>3. /\ st[n].args[st[n].i] \in Item
      /\ With(t[n], n, pre[n]) = With(st[n], n, pre[n]) \o Part(st[n].args[st[n].i], ReadAt(n))
  <2>1. PICK c, d, p : c = st[n] /\ d = t[n] /\ p = pre[n]
    OBVIOUS
  <2>2. c \in CallType /\ p \in Seq(Written) /\ d.args = c.args /\ d.i = c.i + 1
        /\ c.i <= Len(c.args)
    BY <1>2, <2>1
  <2>3. c.args[c.i] \in Item /\ With(d, n, p) = With(c, n, p) \o Part(c.args[c.i], ReadAt(n))
    BY <2>2, WithMore
  <2> QED
    BY <2>1, <2>3
<1>4. \A k \in 1..n : t[k].args = st[k].args
  BY <1>1
<1>5. ASSUME NEW k \in 1..n, k < n
      PROVE  Waits(t[k], t[k + 1].args, k, pre[k], pre[k + 1])
  <2>1. t[k] = st[k] /\ k + 1 \in 1..n
    BY <1>1, <1>5
  <2>2. t[k + 1].args = st[k + 1].args
    BY <1>4, <2>1
  <2>3. Waits(st[k], st[k + 1].args, k, pre[k], pre[k + 1])
    BY <1>1, <1>5 DEF Reading
  <2> QED
    BY <2>1, <2>2, <2>3
<1>6. ASSUME NEW k \in 1..n PROVE t[k].i <= Len(t[k].args) + 1
  <2>1. CASE k = n
    <3>1. st[n].i \in Nat /\ Len(st[n].args) \in Nat
      BY <1>2 DEF CallType
    <3> QED
      BY <2>1, <3>1
  <2>2. CASE k # n
    BY <1>1, <2>2 DEF Reading
  <2> QED
    BY <2>1, <2>2
<1>7. pre[1] = <<>> /\ t[1].args = argp
  BY <1>1, <1>4 DEF Reading
<1>8. Reading(t, pre)
  BY <1>1, <1>5, <1>6, <1>7 DEF Reading
<1> QED
  BY <1>3, <1>8 DEF SoFar
(* What is below: a call for what an input has, or the return of one.      *)
LEMMA Goes ==
  ASSUME NEW st \in Seq(CallType), NEW pre \in Before, NEW t \in Seq(CallType),
         NEW u \in Seq(CallType), NEW n \in 1..MaxOpen, n = Len(st), Reading(st, pre),
         st[n].i <= Len(st[n].args), ~AsksHelp(st[n].args),
         Len(t) = n, \A k \in 1..n : k # n => t[k] = st[k],
         t[n].args = st[n].args, t[n].i = st[n].i + 1,
         Len(u) = n + 1, \A k \in 1..n : u[k] = t[k],
         NEW it, it = st[n].args[st[n].i], it.op = "input", Inputs[it.arg].kind = "read",
         ~TooMany(it.arg), u[n + 1].args = ArgsOf(it.arg), u[n + 1].i = 1
  PROVE  \E post \in Before : Reading(u, post) /\ SoFar(u, post) = SoFar(st, pre)
<1> DEFINE q == SoFar(st, pre)
           post == [pre EXCEPT ![n + 1] = q]
<1>1. /\ DOMAIN st = 1..n /\ DOMAIN t = 1..n /\ n \in Nat /\ n \in 1..n
      /\ DOMAIN u = 1..n + 1 /\ n + 1 \in 1..MaxOpen + 1 /\ n \in 1..MaxOpen + 1
      /\ 1 \in 1..n + 1 /\ 1 \in 1..n
      /\ \A k \in 1..n + 1 : k < n + 1 => k \in 1..n
      /\ \A k \in 1..n : k \in 1..MaxOpen + 1 /\ k # n + 1
      /\ \A k \in 1..n : k < n => k + 1 \in 1..n /\ k # n
  BY BoundsAssumption
<1>2. st[n] \in CallType /\ pre[n] \in Seq(Written) /\ st[n].i \in Nat /\ st[n].i # 0
      /\ Len(st[n].args) \in Nat
  <2>1. st[n] \in CallType /\ st[n].i \in Nat \ {0} /\ st[n].args \in Seq(Item)
    BY <1>1, CallArgs
  <2>2. pre[n] \in Seq(Written)
    BY <1>1 DEF Before
  <2>3. PICK args : args = st[n].args
    OBVIOUS
  <2>4. Len(args) \in Nat
    BY <2>1, <2>3
  <2> QED
    BY <2>1, <2>2, <2>3, <2>4
<1>3. q \in Seq(Written)
  BY <1>1, <1>2, WithType DEF SoFar
<1>4. post \in Before /\ post[n + 1] = q /\ \A k \in 1..n : post[k] = pre[k]
  <2> HIDE DEF q
  <2> QED
    BY <1>1, <1>3 DEF Before
<1> HIDE DEF post
<1>5. ASSUME NEW k \in 1..n
      PROVE  Waits(u[k], u[k + 1].args, k, post[k], post[k + 1])
  <2>1. CASE k = n
    <3>1. u[n].args = st[n].args /\ u[n].i = st[n].i + 1
      BY <1>1
    <3>2. (st[n].i + 1) - 1 = st[n].i /\ (st[n].i + 1) - 2 = st[n].i - 1 /\ st[n].i + 1 > 1
      BY <1>2
    <3>3. post[n + 1] = pre[n] \o UpTo(st[n].args, ReadAt(n))[st[n].i - 1]
      BY <1>4 DEF SoFar, With
    <3>4. PICK c : c = u[n]
      OBVIOUS
    <3>5. /\ c.args = st[n].args /\ c.i > 1 /\ c.i - 2 = st[n].i - 1
          /\ c.args[c.i - 1] = it
      BY <3>1, <3>2, <3>4
    <3>6. /\ ~AsksHelp(c.args)
          /\ post[n + 1] = pre[n] \o UpTo(c.args, ReadAt(n))[c.i - 2]
      <4>1. PICK args, i, j : args = st[n].args /\ i = st[n].i - 1 /\ j = c.i - 2
        OBVIOUS
      <4>2. c.args = args /\ j = i
        BY <3>5, <4>1
      <4>3. ~AsksHelp(args) /\ post[n + 1] = pre[n] \o UpTo(args, ReadAt(n))[i]
        BY <3>3, <4>1
      <4> QED
        BY <4>1, <4>2, <4>3
    <3>7. Waits(c, u[n + 1].args, n, pre[n], post[n + 1])
      <4>1. /\ it.op = "input" /\ Inputs[it.arg].kind = "read" /\ ~TooMany(it.arg)
            /\ u[n + 1].args = ArgsOf(it.arg)
        OBVIOUS
      <4> QED
        BY ONLY <3>5, <3>6, <4>1 DEF Waits
    <3> QED
      BY <1>1, <1>4, <2>1, <3>4, <3>7
  <2>2. CASE k # n
    <3>1. k < n /\ k + 1 \in 1..n
      BY <1>1, <2>2
    <3>2. Waits(st[k], st[k + 1].args, k, pre[k], pre[k + 1])
      BY <1>1, <3>1 DEF Reading
    <3>3. u[k] = st[k] /\ u[k + 1].args = st[k + 1].args
      BY <1>1, <2>2, <3>1
    <3> QED
      BY <1>4, <3>1, <3>2, <3>3
  <2> QED
    BY <2>1, <2>2
<1>6. ASSUME NEW k \in 1..n + 1 PROVE u[k].i <= Len(u[k].args) + 1
  <2>1. CASE k = n + 1
    <3>1. u[n + 1] \in CallType
      BY <1>1
    <3>2. Len(u[n + 1].args) \in Nat
      BY <3>1 DEF CallType
    <3> QED
      BY <2>1, <3>2
  <2>2. CASE k = n
    <3>1. u[n].args = st[n].args /\ u[n].i = st[n].i + 1
      BY <1>1
    <3> QED
      BY <1>2, <2>2, <3>1
  <2>3. CASE k # n /\ k # n + 1
    <3>1. k \in 1..n
      BY <1>1, <2>3
    <3> QED
      BY <1>1, <2>3, <3>1 DEF Reading
  <2> QED
    BY <2>1, <2>2, <2>3
<1>7. post[1] = <<>> /\ u[1].args = argp
  <2>1. u[1].args = t[1].args /\ t[1].args = st[1].args
    BY <1>1
  <2> QED
    BY <1>1, <1>4, <2>1 DEF Reading
<1>8. Reading(u, post)
  BY <1>1, <1>5, <1>6, <1>7 DEF Reading
<1>9. SoFar(u, post) = q
  <2>1. u[n + 1] \in CallType
    BY <1>1
  <2>2. PICK args, in : args = u[n + 1].args /\ in = ReadAt(n + 1)
    OBVIOUS
  <2>3. args \in Seq(Item) /\ in \in [DOMAIN Inputs -> Seq(Written)]
    BY <1>1, <2>1, <2>2, ReadAtType DEF CallType
  <2>4. UpTo(args, in)[0] = <<>>
    BY <2>3, UpToIs
  <2>5. SoFar(u, post) = post[n + 1] \o UpTo(args, in)[0]
    BY <2>2 DEF SoFar, With
  <2> HIDE DEF q
  <2> QED
    BY <1>3, <1>4, <2>4, <2>5, ConcatEmptySeq
<1> QED
  BY <1>4, <1>8, <1>9

(* What an input of which all arguments were taken stands for.             *)
LEMMA InputIs ==
  ASSUME NEW k \in 1..MaxOpen, NEW it \in Item, it.op = "input",
         Inputs[it.arg].kind = "read", ~TooMany(it.arg), ~AsksHelp(ArgsOf(it.arg))
  PROVE  LET args == ArgsOf(it.arg)
         IN  Part(it, ReadAt(k)) = UpTo(args, ReadAt(k + 1))[Len(args)]
<1>1. it.arg \in DOMAIN Inputs
  BY DEF Item
<1>2. ReadAt(k) = Deeper(ReadAt(k + 1), Begun[MaxOpen - k + 1])
  BY ReadAtType
<1>3. Deeper(ReadAt(k + 1), Begun[MaxOpen - k + 1])[it.arg] = Flat(ArgsOf(it.arg), ReadAt(k + 1))
  BY <1>1 DEF Deeper
<1> QED
  BY <1>2, <1>3 DEF Part, Flat
(* The return of a call that took all its arguments.                       *)
LEMMA Returns ==
  ASSUME NEW st \in Seq(CallType), NEW pre \in Before, NEW u \in Seq(CallType),
         NEW n \in 1..MaxOpen, Len(st) = n + 1, Reading(st, pre),
         st[n + 1].i > Len(st[n + 1].args), ~AsksHelp(st[n + 1].args),
         Len(u) = n, \A k \in 1..n : u[k] = st[k]
  PROVE  Reading(u, pre) /\ SoFar(u, pre) = SoFar(st, pre)
<1>1. /\ DOMAIN st = 1..n + 1 /\ DOMAIN u = 1..n /\ n \in Nat /\ n \in 1..n
      /\ n + 1 \in 1..MaxOpen + 1 /\ n \in 1..MaxOpen + 1 /\ 1 \in 1..n /\ n + 1 \in 1..n + 1
      /\ \A k \in 1..n : k \in 1..n + 1 /\ k < n + 1
      /\ \A k \in 1..n : k < n => k + 1 \in 1..n
  BY BoundsAssumption
<1>2. Reading(u, pre)
  <2>1. \A k \in 1..n : k < n => Waits(u[k], u[k + 1].args, k, pre[k], pre[k + 1])
    BY <1>1 DEF Reading
  <2>2. \A k \in 1..n : u[k].i <= Len(u[k].args) + 1
    BY <1>1 DEF Reading
  <2>3. pre[1] = <<>> /\ u[1].args = argp
    BY <1>1 DEF Reading
  <2> QED
    BY <1>1, <2>1, <2>2, <2>3 DEF Reading
<1>3. PICK c, d, p, q : c = st[n] /\ d = st[n + 1] /\ p = pre[n] /\ q = pre[n + 1]
  OBVIOUS
<1>4. Waits(c, d.args, n, p, q) /\ d.i <= Len(d.args) + 1 /\ d.i > Len(d.args)
      /\ c.i <= Len(c.args) + 1
  BY <1>1, <1>3 DEF Reading
<1>5. c \in CallType /\ d \in CallType /\ p \in Seq(Written) /\ q \in Seq(Written)
  BY <1>1, <1>3 DEF Before
<1>6. PICK args, i, it : args = c.args /\ i = c.i /\ it = args[i - 1]
  OBVIOUS
<1>7. /\ i > 1 /\ it.op = "input" /\ Inputs[it.arg].kind = "read" /\ ~TooMany(it.arg)
      /\ d.args = ArgsOf(it.arg) /\ q = p \o UpTo(args, ReadAt(n))[i - 2]
  BY <1>4, <1>6 DEF Waits
<1>8. args \in Seq(Item) /\ i - 1 \in 1..Len(args) /\ (i - 1) - 1 = i - 2 /\ i - 2 \in 0..Len(args)
  <2>1. args \in Seq(Item) /\ i \in Nat /\ Len(args) \in Nat
    BY <1>5, <1>6 DEF CallType
  <2>2. i <= Len(args) + 1 /\ i > 1
    BY <1>4, <1>6, <1>7
  <2> QED
    BY ONLY <2>1, <2>2
<1>9. it \in Item /\ ReadAt(n) \in [DOMAIN Inputs -> Seq(Written)]
  BY <1>1, <1>6, <1>8, ReadAtType
<1>10. PICK a, b, x : /\ a = UpTo(args, ReadAt(n))[i - 2] /\ b = UpTo(args, ReadAt(n))[i - 1]
                      /\ x = Part(it, ReadAt(n))
  OBVIOUS
<1>11. b = a \o x /\ a \in Seq(Written) /\ x \in Seq(Written)
  <2>1. /\ UpTo(args, ReadAt(n))[i - 1] = UpTo(args, ReadAt(n))[(i - 1) - 1] \o Part(args[i - 1], ReadAt(n))
        /\ UpTo(args, ReadAt(n))[i - 2] \in Seq(Written)
    BY <1>8, <1>9, UpToIs
  <2> QED
    BY <1>6, <1>8, <1>9, <1>10, <2>1, PartType
<1>12. ~AsksHelp(ArgsOf(it.arg))
  BY <1>3, <1>7
<1>13. x = UpTo(d.args, ReadAt(n + 1))[Len(d.args)]
  BY <1>7, <1>9, <1>10, <1>12, InputIs
<1>14. d.i - 1 = Len(d.args)
  <2>1. PICK m, j : m = Len(d.args) /\ j = d.i
    OBVIOUS
  <2>2. m \in Nat /\ j \in Nat
    BY <1>5, <2>1 DEF CallType
  <2>3. j - 1 = m
    BY <1>4, <2>1, <2>2
  <2> QED
    BY <2>1, <2>3
<1>15. SoFar(st, pre) = q \o x
  BY <1>3, <1>13, <1>14 DEF SoFar, With
<1>16. SoFar(u, pre) = p \o b
  <2>1. SoFar(u, pre) = With(u[n], n, pre[n]) /\ u[n] = c
    BY <1>1, <1>3 DEF SoFar
  <2> QED
    BY <1>3, <1>6, <1>10, <2>1 DEF With
<1>17. p \o b = q \o x
  <2>1. q = p \o a
    BY <1>7, <1>10
  <2>2. p \o (a \o x) = (p \o a) \o x
    <3>1. p \in Seq(Written) /\ a \in Seq(Written) /\ x \in Seq(Written)
      BY <1>5, <1>11
    <3> QED
      BY ONLY <3>1, Joined, SMTT(30)
  <2> QED
    BY <1>11, <2>1, <2>2
<1> QED
  BY <1>2, <1>15, <1>16, <1>17
(* An argument that is no "@" is taken, and leaves no error.               *)
LEMMA TakesOne ==
  ASSUME TypeInv, TakeSwitch \/ TakeFind \/ TakeText \/ TakeList, ~glpError',
         NEW w \in Seq(Written), NEW it \in Item, it = Current.args[Current.i], Taken(w)
  PROVE  /\ it.op # "input" /\ Taken(w \o <<it>>)'
         /\ pc = "args" /\ ~LoopEnds(Current) /\ pc' = pc /\ stack' = Bumped
<1> DEFINE next == Append(w, it)
<1>1. PICK op \in {"switch", "out", "find", "text", "blank", "list"} : Taking(op)
  BY DEF TakeSwitch, TakeFind, TakeText, TakeList
<1>2. it.op = op /\ Arg = it.arg /\ pc = "args" /\ ~LoopEnds(Current)
  BY <1>1 DEF Taking, Arg
<1>3. it \in Written
  BY IsWritten
<1>4. w \o <<it>> = next
  BY <1>3, AppendIsConcat
<1>5. /\ FindsOf(next) = IF op = "find" \/ (op = "text" /\ Positional(w) = {})
                         THEN Append(FindsOf(w), it.arg) ELSE FindsOf(w)
      /\ FilesOf(next) = IF op = "text" /\ Positional(w) # {}
                         THEN Append(FilesOf(w), it.arg) ELSE FilesOf(w)
      /\ Positional(next) = {} <=> Positional(w) = {} /\ op \notin {"text", "blank", "find"}
  BY <1>2, <1>3, OneMore
<1>6. \A j \in DOMAIN next : next[j].op \notin Stopping
  <2>1. op \notin Stopping
    BY <1>1 DEF Stopping
  <2>2. \A j \in DOMAIN next : next[j] = it \/ (j \in DOMAIN w /\ next[j] = w[j])
    BY <1>3
  <2> QED
    BY <1>2, <2>1, <2>2 DEF Taken
<1> HIDE DEF next
<1>7. /\ g_sFind = FindsOf(w) /\ Listed(g_sFileList) = FilesOf(w)
      /\ giFirst \in BOOLEAN /\ (giFirst <=> Positional(w) # {})
  BY DEF Taken, TypeInv, TypeOK
<1> DEFINE V == Values \cup {AllFiles, RestOfList}
<1>8. g_sFind \in Seq(Values) /\ g_sFileList \in Seq(V)
  BY DEF TypeInv, TypeOK
<1>9. op \in {"text", "find"} => it.arg \in Values /\ it.arg # RestOfList
  BY <1>2, ValuesAssumption DEF Item
<1>10. /\ it.arg \in V => Listed(Append(g_sFileList, it.arg)) =
             IF it.arg # RestOfList THEN Append(Listed(g_sFileList), it.arg) ELSE Listed(g_sFileList)
       /\ Listed(Append(g_sFileList, RestOfList)) = Listed(g_sFileList)
  <2>1. RestOfList \in V
    OBVIOUS
  <2> HIDE DEF V
  <2>2. \A x \in V : Listed(Append(g_sFileList, x)) =
          IF x # RestOfList THEN Append(Listed(g_sFileList), x) ELSE Listed(g_sFileList)
    BY <1>8, OneListed
  <2> QED
    BY <2>1, <2>2
<1>11. op \in {"text", "find"} => Listed(Append(g_sFileList, it.arg)) = Append(FilesOf(w), it.arg)
  BY <1>7, <1>9, <1>10
<1>12. \A o \in Ops : Taking(o) => o = op
  BY <1>1 DEF Taking
<1>13. ASSUME g_sFind' = FindsOf(next), Listed(g_sFileList') = FilesOf(next),
              giFirst' <=> Positional(next) # {}
       PROVE  Taken(next)'
  BY <1>6, <1>13 DEF Taken
<1>14. CASE TakeSwitch
  <2>1. op \in {"switch", "out"}
    BY <1>12, <1>14 DEF TakeSwitch, Ops
  <2>2. /\ giFirst' = giFirst /\ g_sFind' = g_sFind /\ g_sFileList' = g_sFileList
        /\ pc' = pc /\ stack' = Bumped
    BY <1>14 DEF TakeSwitch, lists
  <2> QED
    BY <1>2, <1>4, <1>5, <1>7, <1>13, <2>1, <2>2
<1>15. CASE TakeFind
  <2>1. op = "find" /\ g_sFind' = Append(g_sFind, it.arg) /\ giFirst' = TRUE
        /\ g_sFileList' = g_sFileList /\ pc' = pc /\ stack' = Bumped
    BY <1>2, <1>12, <1>15 DEF TakeFind, Ops
  <2> QED
    BY <1>2, <1>4, <1>5, <1>7, <1>13, <2>1
<1>16. CASE TakeText
  <2>1. op \in {"text", "blank"} /\ giFirst' = TRUE /\ pc' = pc /\ stack' = Bumped
    BY <1>12, <1>16 DEF TakeText, Ops
  <2>2. CASE op = "blank"
    <3>1. ~Taking("text")
      BY <1>12, <2>2 DEF Ops
    <3>2. g_sFind' = g_sFind /\ g_sFileList' = g_sFileList
      BY <1>8, <1>16, <3>1, ConcatEmptySeq DEF TakeText
    <3> QED
      BY <1>2, <1>4, <1>5, <1>7, <1>13, <2>1, <2>2, <3>2
  <2>3. CASE op = "text"
    <3>1. it.arg \in Values /\ it.arg \in V /\ Taking("text")
      BY <1>1, <1>9, <2>3
    <3>2. /\ giFirst => g_sFind' = g_sFind /\ g_sFileList' = g_sFileList \o <<it.arg>>
          /\ ~giFirst => g_sFileList' = g_sFileList /\ g_sFind' = g_sFind \o <<it.arg>>
      BY <1>2, <1>16, <3>1 DEF TakeText
    <3>3. g_sFileList \o <<it.arg>> = Append(g_sFileList, it.arg)
          /\ g_sFind \o <<it.arg>> = Append(g_sFind, it.arg)
      BY <1>8, <3>1, AppendIsConcat
    <3>4. CASE giFirst
      BY <1>2, <1>4, <1>5, <1>7, <1>11, <1>13, <2>1, <2>3, <3>2, <3>3, <3>4
    <3>5. CASE ~giFirst
      BY <1>2, <1>4, <1>5, <1>7, <1>13, <2>1, <2>3, <3>2, <3>3, <3>5
    <3> QED
      BY <3>4, <3>5
  <2> QED
    BY <2>1, <2>2, <2>3
<1>17. CASE TakeList
  <2>1. op = "list" /\ giFirst' = giFirst /\ g_sFind' = g_sFind /\ pc' = pc /\ stack' = Bumped
    BY <1>12, <1>17 DEF TakeList, Ops
  <2>2. Listed(g_sFileList') = Listed(g_sFileList)
    BY <1>10, <1>17 DEF TakeList
  <2> QED
    BY <1>2, <1>4, <1>5, <1>7, <1>13, <2>1, <2>2
<1> QED
  BY <1>14, <1>15, <1>16, <1>17
(* Until an error is noted the arguments taken are those that are written  *)
(* before the one in hand; the search has all of them.                     *)
Reads ==
  ~glpError =>
    /\ pc = "start" => giFirst = FALSE /\ g_sFind = <<>> /\ g_sFileList = <<>>
    /\ pc = "args" => ~AsksHelp(Current.args)
    /\ pc \in {"enter", "args"} =>
         \E pre \in Before : Reading(stack, pre) /\ Taken(SoFar(stack, pre))
    /\ pc = "main" => Taken(AsWritten)

ReadInv == Reads /\ (pc = "search" => ItemsTaken)

LEMMA InitRead == Init => ReadInv
BY DEF Init, ReadInv, Reads

(* Before anything is taken, nothing was.                                  *)
LEMMA NothingTaken ==
  ASSUME giFirst = FALSE, g_sFind = <<>>, g_sFileList = <<>>
  PROVE  Taken(<<>>)
<1>1. Positional(<<>>) = {} /\ DOMAIN <<>> = {}
  BY DEF Positional
<1>2. FindsOf(<<>>) = <<>> /\ FilesOf(<<>>) = <<>>
  <2>1. \A S : ArgsAt(<<>>, S) = <<>>
    <3>1. [i \in DOMAIN <<>> |-> <<>>[i].arg] = <<>>
      OBVIOUS
    <3> QED
      BY <3>1, NonePicked DEF ArgsAt
  <2> QED
    BY <2>1 DEF FindsOf, FilesOf
<1>3. Listed(<<>>) = <<>>
  BY NonePicked DEF Listed
<1> QED
  BY <1>1, <1>2, <1>3 DEF Taken

(* The lists are as they were.                                             *)
LEMMA TakenSame ==
  ASSUME NEW w, Taken(w), UNCHANGED lists
  PROVE  Taken(w)'
BY DEF Taken, lists

(* The calls, and what Bumped makes of them.                               *)
LEMMA BumpedMoves ==
  ASSUME TypeInv, stack # <<>>
  PROVE  LET n == Len(stack)
         IN  /\ n \in Nat \ {0} /\ n \in 1..n /\ stack \in Seq(CallType)
             /\ Current = stack[n] /\ Current \in CallType
             /\ Bumped \in Seq(CallType) /\ Len(Bumped) = n
             /\ \A k \in 1..n : k # n => Bumped[k] = stack[k]
             /\ Bumped[n].args = stack[n].args /\ Bumped[n].i = stack[n].i + 1
<1>1. PICK s, n : s = stack /\ n = Len(s)
  OBVIOUS
<1>2. PICK c : c = [s[n] EXCEPT !.i = s[n].i + 1]
  OBVIOUS
<1>3. s \in Seq(CallType) /\ n \in Nat /\ n # 0 /\ n \in 1..n /\ DOMAIN s = 1..n
  BY <1>1, CallIs
<1>4. s[n] \in CallType
  BY <1>1, <1>3
<1>5. c.args = s[n].args /\ c.i = s[n].i + 1
  BY <1>2, <1>4 DEF CallType
<1>6. Bumped = [s EXCEPT ![n] = c]
  BY <1>1, <1>2, <1>3, <1>4 DEF Bumped, CallType
<1>7. Current = stack[n]
  BY <1>1, <1>3 DEF Current, Last
<1>8. Bumped \in Seq(CallType) /\ Len(Bumped) = n
  BY <1>1, <1>3, BumpedIs
<1>9. Bumped[n] = c /\ \A k \in 1..n : k # n => Bumped[k] = s[k]
  BY ONLY <1>3, <1>6
<1> QED
  BY <1>1, <1>3, <1>4, <1>5, <1>7, <1>8, <1>9
(* How deep the calls are.                                                 *)
LEMMA DepthIs ==
  ASSUME TypeInv, AliveInv, CallsOpen, ~glpError, pc = "args"
  PROVE  /\ stack # <<>> /\ Len(stack) \in 1..MaxOpen + 1
         /\ Cardinality(handles) < MaxOpen => Len(stack) \in 1..MaxOpen
<1>1. stack # <<>> /\ Len(stack) \in Nat
  BY CallIs DEF TypeInv, InCall
<1>2. Len(stack) # 0
  BY <1>1, CallIs
<1>3. Len(stack) - 1 <= Cardinality(handles) /\ Cardinality(handles) \in Nat
      /\ Cardinality(handles) <= MaxOpen /\ MaxOpen \in Nat
  BY DepthBound, BoundsAssumption DEF CallsOpen
<1> QED
  BY <1>1, <1>2, <1>3

(* The calls go on with the arguments.                                     *)
LEMMA ReadsOn ==
  ASSUME argp' = argp, NEW pre \in Before, Reading(stack', pre), pc' \in {"enter", "args"},
         pc' = "args" => ~AsksHelp(Current'.args),
         NEW w, w = SoFar(stack', pre), Taken(w)'
  PROVE  Reads'
<1>1. Reading(stack, pre)'
  BY DEF Reading
<1>2. Taken(SoFar(stack, pre))'
  BY DEF Taken
<1> QED
  BY <1>1, <1>2 DEF Reads

(* The first call.                                                         *)
LEMMA StartReads == TypeInv /\ ReadInv /\ Start /\ ~glpError' => Reads'
<1> SUFFICES ASSUME TypeInv, ReadInv, Start, ~glpError' PROVE Reads'
  OBVIOUS
<1> DEFINE pre == [k \in 1..MaxOpen + 1 |-> <<>>]
           c == Call(argp, 0, 0)
<1>1. stack' = <<c>> /\ pc = "start" /\ pc' = "enter" /\ argp' = argp /\ UNCHANGED lists
      /\ glpError' = glpError
  BY DEF Start, input
<1>2. c \in CallType /\ c.args = argp /\ c.i = 1 /\ argp \in Seq(Item)
  BY BoundsAssumption, CommandsAssumption DEF Call, CallType, TypeInv, TypeOK
<1>3. 1 \in 1..MaxOpen + 1 /\ MaxOpen \in Nat
  BY BoundsAssumption
<1>4. pre \in Before /\ pre[1] = <<>>
  BY <1>3 DEF Before
<1> HIDE DEF pre, c
<1>5. stack'[1] = c /\ Len(stack') = 1 /\ DOMAIN stack' = {1}
  BY <1>1
<1>6. Reading(stack', pre)
  <2>1. Len(c.args) \in Nat
    BY <1>2
  <2> QED
    BY <1>2, <1>4, <1>5, <2>1 DEF Reading
<1>7. SoFar(stack', pre) = <<>>
  <2>1. UpTo(argp, ReadAt(1))[0] = <<>>
    BY <1>2, <1>3, ReadAtType, UpToIs
  <2>2. SoFar(stack', pre) = <<>> \o UpTo(argp, ReadAt(1))[0]
    <3>1. SoFar(stack', pre) = With(c, 1, pre[1])
      BY <1>5 DEF SoFar
    <3>2. With(c, 1, pre[1]) = pre[1] \o UpTo(argp, ReadAt(1))[1 - 1]
      BY <1>2 DEF With
    <3>3. 1 - 1 = 0
      OBVIOUS
    <3> QED
      BY <1>4, <3>1, <3>2, <3>3
  <2> QED
    BY <2>1, <2>2
<1>8. Taken(<<>>)
  BY <1>1, NothingTaken DEF ReadInv, Reads
<1>9. Taken(<<>>)'
  BY <1>1, <1>8, TakenSame
<1> QED
  BY <1>1, <1>4, <1>6, <1>7, <1>9, ReadsOn

(* An argument that stands for itself, or an input that has none.          *)
LEMMA MoveReads ==
  ASSUME TypeInv, AliveInv, CallsOpen, ~glpError, pc = "args", pc' = "args",
         ~LoopEnds(Current), stack' = Bumped, argp' = argp, NEW pre \in Before,
         Reading(stack, pre), ~AsksHelp(Current.args),
         NEW w, Taken(w)',
         w = SoFar(stack, pre) \o Part(Current.args[Current.i], ReadAt(Len(stack)))
  PROVE  Reads'
<1>1. PICK n, c : n = Len(stack) /\ c = stack[n]
  OBVIOUS
<1>2. stack # <<>> /\ n \in 1..MaxOpen + 1
  BY <1>1, DepthIs
<1>3. /\ n \in 1..n /\ stack \in Seq(CallType) /\ Current = c
      /\ Bumped \in Seq(CallType) /\ Len(Bumped) = n
      /\ \A k \in 1..n : k # n => Bumped[k] = stack[k]
      /\ Bumped[n].args = stack[n].args /\ Bumped[n].i = stack[n].i + 1
      /\ c \in CallType
  BY <1>1, <1>2, BumpedMoves
<1>4. c.i <= Len(c.args)
  <2>1. ~(c.i > Len(c.args))
    BY <1>3 DEF LoopEnds
  <2>2. PICK m, j : m = Len(c.args) /\ j = c.i
    OBVIOUS
  <2>3. m \in Nat /\ j \in Nat
    BY <1>3, <2>2 DEF CallType
  <2> QED
    BY <2>1, <2>2, <2>3
<1>5. PICK t : t = Bumped
  OBVIOUS
<1>6. PICK it : it = c.args[c.i]
  OBVIOUS
<1>7. Reading(t, pre) /\ SoFar(t, pre) = SoFar(stack, pre) \o Part(it, ReadAt(n))
  <2>1. /\ t \in Seq(CallType) /\ Len(t) = n /\ \A k \in 1..n : k # n => t[k] = stack[k]
        /\ t[n].args = stack[n].args /\ t[n].i = stack[n].i + 1
    BY <1>3, <1>5
  <2>2. stack[n].i <= Len(stack[n].args)
    BY <1>1, <1>4
  <2>3. /\ Reading(t, pre)
        /\ SoFar(t, pre) = SoFar(stack, pre) \o Part(stack[n].args[stack[n].i], ReadAt(n))
    BY <1>1, <1>2, <1>3, <2>1, <2>2, Moves
  <2> QED
    BY <1>1, <1>6, <2>3
<1>8. w = SoFar(stack, pre) \o Part(it, ReadAt(n))
  BY <1>1, <1>3, <1>6
<1>10. Current'.args = Current.args
  <2>1. Current' = t[n]
    <3>1. stack' = t /\ Len(t) = n
      BY <1>3, <1>5
    <3> QED
      BY <3>1 DEF Current, Last
  <2> QED
    BY <1>1, <1>3, <1>5, <2>1
<1>11. stack' = t
  BY <1>5
<1> QED
  BY <1>7, <1>8, <1>10, <1>11, ReadsOn
(* An input of nothing but comments stands for no argument.                *)
LEMMA HollowReads ==
  ASSUME TypeInv, AliveInv, CallsOpen, ReadInv, InputHollow, ~glpError'
  PROVE  Reads'
<1>1. /\ pc = "args" /\ pc' = "args" /\ ~LoopEnds(Current) /\ stack' = Bumped /\ argp' = argp
      /\ ~glpError /\ Cardinality(handles) < MaxOpen /\ UNCHANGED lists
      /\ Current.args[Current.i].op = "input" /\ Inputs[Arg].kind = "read"
      /\ Inputs[Arg].items = <<>>
  BY DEF InputHollow, TakingInput, Taking, FirstOnInput, input, lists
<1>2. Arg \in DOMAIN Inputs
  BY <1>1, ArgIs DEF Taking, Ops
<1>3. PICK pre \in Before : Reading(stack, pre) /\ Taken(SoFar(stack, pre))
  BY <1>1 DEF ReadInv, Reads
<1>4. ~AsksHelp(Current.args)
  BY <1>1 DEF ReadInv, Reads
<1>5. PICK n, w : n = Len(stack) /\ w = SoFar(stack, pre)
  OBVIOUS
<1>6. n \in 1..MaxOpen /\ stack # <<>>
  BY <1>1, <1>5, DepthIs
<1>7. Part(Current.args[Current.i], ReadAt(n)) = <<>>
  <2>1. ~TooMany(Arg) /\ ArgsOf(Arg) = <<>>
    <3>1. ~(Len(<<>>) >= MXARGS - 1)
      BY BoundsAssumption
    <3>2. ~TooMany(Arg)
      BY <1>1, <3>1 DEF TooMany
    <3> QED
      BY <1>1, <3>2 DEF ArgsOf
  <2>2. ReadAt(n) = Deeper(ReadAt(n + 1), Begun[MaxOpen - n + 1]) /\ ReadAt(n + 1) \in [DOMAIN Inputs -> Seq(Written)]
    <3>1. n + 1 \in 1..MaxOpen + 1
      BY <1>6, BoundsAssumption
    <3> QED
      BY <1>6, <3>1, ReadAtType
  <2>3. Deeper(ReadAt(n + 1), Begun[MaxOpen - n + 1])[Arg] = Flat(<<>>, ReadAt(n + 1))
    BY <1>1, <1>2, <2>1 DEF Deeper
  <2>4. Flat(<<>>, ReadAt(n + 1)) = UpTo(<<>>, ReadAt(n + 1))[0]
    BY DEF Flat, AsksHelp
  <2>5. <<>> \in Seq(Item)
    OBVIOUS
  <2>6. UpTo(<<>>, ReadAt(n + 1))[0] = <<>>
    BY <2>2, <2>5, UpToIs
  <2> QED
    BY <1>1, <2>2, <2>3, <2>4, <2>6 DEF Part, Arg
<1>8. w \in Seq(Written)
  <2>1. n \in 1..n /\ n \in 1..MaxOpen + 1 /\ stack \in Seq(CallType) /\ DOMAIN stack = 1..n
    BY <1>5, <1>6, CallIs, BoundsAssumption
  <2>2. stack[n] \in CallType /\ pre[n] \in Seq(Written) /\ stack[n].i <= Len(stack[n].args) + 1
    BY <1>3, <2>1 DEF Before, Reading
  <2>3. With(stack[n], n, pre[n]) \in Seq(Written)
    BY <2>1, <2>2, WithType
  <2> QED
    BY <1>5, <2>3 DEF SoFar
<1>9. w = SoFar(stack, pre) \o Part(Current.args[Current.i], ReadAt(Len(stack)))
  BY <1>5, <1>7, <1>8, ConcatEmptySeq
<1>10. Taken(w)'
  <2>1. Taken(w)
    BY <1>3, <1>5
  <2> QED
    BY <1>1, <2>1, TakenSame
<1> QED
  BY <1>1, <1>3, <1>4, <1>9, <1>10, MoveReads

(* A call for the arguments of an input.                                   *)
LEMMA CallReads ==
  ASSUME TypeInv, AliveInv, CallsOpen, ReadInv, InputRead, ~glpError', TypeInv'
  PROVE  Reads'
<1>1. /\ pc = "args" /\ pc' = "enter" /\ ~LoopEnds(Current) /\ argp' = argp
      /\ stack' = Append(Bumped, Call(ArgsOf(Arg), NewHandle, gdwGFCnt))
      /\ ~glpError /\ Cardinality(handles) < MaxOpen /\ UNCHANGED lists
      /\ Current.args[Current.i].op = "input" /\ Inputs[Arg].kind = "read" /\ ~TooMany(Arg)
  BY DEF InputRead, TakingInput, Taking, FirstOnInput, input, lists
<1>2. PICK pre \in Before : Reading(stack, pre) /\ Taken(SoFar(stack, pre))
  BY <1>1 DEF ReadInv, Reads
<1>3. PICK n, c, u, it : n = Len(stack) /\ c = stack[n] /\ u = stack' /\ it = c.args[c.i]
  OBVIOUS
<1>4. n \in 1..MaxOpen /\ stack # <<>>
  BY <1>1, <1>3, DepthIs
<1>5. PICK t : t = Bumped
  OBVIOUS
<1>6. /\ n \in 1..n /\ stack \in Seq(CallType) /\ Current = c
      /\ t \in Seq(CallType) /\ Len(t) = n
      /\ \A k \in 1..n : k # n => t[k] = stack[k]
      /\ t[n].args = c.args /\ t[n].i = c.i + 1
      /\ c \in CallType
  BY <1>3, <1>4, <1>5, BumpedMoves
<1>7. c.i <= Len(c.args)
  <2>1. ~(c.i > Len(c.args))
    BY <1>1, <1>6 DEF LoopEnds
  <2>2. PICK m, j : m = Len(c.args) /\ j = c.i
    OBVIOUS
  <2>3. m \in Nat /\ j \in Nat
    BY <1>6, <2>2 DEF CallType
  <2> QED
    BY <2>1, <2>2, <2>3
<1>8. PICK new : new = Call(ArgsOf(Arg), NewHandle, gdwGFCnt)
  OBVIOUS
<1>9. Arg = it.arg /\ it.op = "input" /\ new.args = ArgsOf(it.arg) /\ new.i = 1
  <2>1. Arg = it.arg /\ it.op = "input"
    BY <1>1, <1>3, <1>6 DEF Arg
  <2> QED
    BY <1>8, <2>1 DEF Call
<1>10. u \in Seq(CallType)
  BY <1>3 DEF TypeInv, TypeOK
<1>11. u[n + 1] = new /\ Len(u) = n + 1 /\ \A k \in 1..n : u[k] = t[k]
  <2>1. u = Append(t, new)
    BY <1>1, <1>3, <1>5, <1>8
  <2> QED
    BY <1>6, <2>1
<1>12. ~AsksHelp(c.args)
  BY <1>1, <1>6 DEF ReadInv, Reads
<1>13. \E post \in Before : Reading(u, post) /\ SoFar(u, post) = SoFar(stack, pre)
  <2>1. /\ stack[n].i <= Len(stack[n].args) /\ ~AsksHelp(stack[n].args)
        /\ t[n].args = stack[n].args /\ t[n].i = stack[n].i + 1
        /\ it = stack[n].args[stack[n].i]
    BY <1>3, <1>6, <1>7, <1>12
  <2>2. u[n + 1].args = ArgsOf(it.arg) /\ u[n + 1].i = 1
    BY <1>9, <1>11
  <2>3. Inputs[it.arg].kind = "read" /\ ~TooMany(it.arg)
    BY <1>1, <1>9
  <2> QED
    <3>1. PICK st : st = stack
      OBVIOUS
    <3>2. /\ st \in Seq(CallType) /\ t \in Seq(CallType) /\ u \in Seq(CallType)
          /\ n = Len(st) /\ Reading(st, pre) /\ Len(t) = n /\ Len(u) = n + 1
      BY <1>2, <1>3, <1>6, <1>10, <1>11, <3>1
    <3>3. \A k \in 1..n : k # n => t[k] = st[k]
      BY <1>6, <3>1
    <3>4. \A k \in 1..n : u[k] = t[k]
      BY <1>11
    <3>5. /\ st[n].i <= Len(st[n].args) /\ ~AsksHelp(st[n].args)
          /\ t[n].args = st[n].args /\ t[n].i = st[n].i + 1
          /\ it = st[n].args[st[n].i]
      BY <2>1, <3>1
    <3>6. \E post \in Before : Reading(u, post) /\ SoFar(u, post) = SoFar(st, pre)
      BY <1>4, <1>9, <2>2, <2>3, <3>2, <3>3, <3>4, <3>5, Goes
    <3> QED
      BY <3>1, <3>6
<1>14. PICK post \in Before : Reading(u, post) /\ SoFar(u, post) = SoFar(stack, pre)
  BY <1>13
<1>15. PICK w : w = SoFar(stack, pre)
  OBVIOUS
<1>16. Taken(w)
  BY <1>2, <1>15
<1>17. Taken(w)'
  BY <1>1, <1>16, TakenSame
<1> QED
  BY <1>1, <1>3, <1>14, <1>15, <1>17, ReadsOn

(* The return of such a call.                                              *)
LEMMA EndReads ==
  ASSUME TypeInv, AliveInv, CallsOpen, ReadInv, EndOfInput, ~glpError', TypeInv'
  PROVE  Reads'
<1>1. /\ pc = "args" /\ pc' = "args" /\ LoopEnds(Current) /\ argp' = argp
      /\ Len(stack) > 1 /\ ~glpError /\ UNCHANGED lists
  BY DEF EndOfInput, input
<1>2. PICK pre \in Before : Reading(stack, pre) /\ Taken(SoFar(stack, pre))
  BY <1>1 DEF ReadInv, Reads
<1>3. PICK n, d, u : n = Len(stack) - 1 /\ d = stack[n + 1] /\ u = stack'
  OBVIOUS
<1>4. /\ n \in 1..MaxOpen /\ Len(stack) = n + 1 /\ stack \in Seq(CallType) /\ stack # <<>>
      /\ n \in 1..n /\ n \in Nat
  <2>1. Len(stack) \in 1..MaxOpen + 1 /\ stack # <<>>
    BY <1>1, DepthIs
  <2> QED
    BY <1>1, <1>3, <2>1, CallIs, BoundsAssumption
<1>5. Current = d /\ d \in CallType
  BY <1>3, <1>4, BumpedMoves
<1>6. d.i > Len(d.args) /\ ~AsksHelp(d.args)
  BY <1>1, <1>5 DEF LoopEnds, ReadInv, Reads
<1>7. u \in Seq(CallType) /\ DOMAIN u = 1..n /\ \A k \in 1..n : u[k] = stack[k]
  <2>1. u \in Seq(CallType)
    BY <1>3 DEF TypeInv, TypeOK
  <2> QED
    BY <1>3, <2>1, FrontIs
<1>8. Len(u) = n
  BY ONLY <1>4, <1>7
<1>9. Reading(u, pre) /\ SoFar(u, pre) = SoFar(stack, pre)
  BY <1>2, <1>3, <1>4, <1>6, <1>7, <1>8, Returns
<1>10. ~AsksHelp(Current'.args)
  <2>1. Current' = stack[n]
    BY <1>3, <1>4, <1>7, <1>8 DEF Current, Last
  <2>2. Waits(stack[n], stack[n + 1].args, n, pre[n], pre[n + 1])
    <3>1. n \in DOMAIN stack /\ n < Len(stack)
      BY <1>4
    <3> QED
      BY <1>2, <3>1 DEF Reading
  <2> QED
    BY <2>1, <2>2 DEF Waits
<1>11. PICK w : w = SoFar(stack, pre)
  OBVIOUS
<1>12. Taken(w)
  BY <1>2, <1>11
<1>13. Taken(w)'
  BY <1>1, <1>12, TakenSame
<1> QED
  BY <1>1, <1>2, <1>3, <1>9, <1>10, <1>11, <1>13, ReadsOn

(* The end of the command line.                                            *)
LEMMA AllRead ==
  ASSUME TypeInv, ReadInv, EndOfArgs, ~glpError'
  PROVE  Reads'
<1>1. /\ pc = "args" /\ pc' = "main" /\ LoopEnds(Current) /\ argp' = argp
      /\ Len(stack) = 1 /\ ~glpError /\ UNCHANGED lists
  BY DEF EndOfArgs, input
<1>2. PICK pre \in Before : Reading(stack, pre) /\ Taken(SoFar(stack, pre))
  BY <1>1 DEF ReadInv, Reads
<1>3. stack # <<>> /\ Current = stack[1] /\ Current \in CallType /\ 1 \in DOMAIN stack
  <2>1. stack # <<>>
    BY <1>1 DEF TypeInv, InCall
  <2> QED
    BY <1>1, <2>1, BumpedMoves, CallIs
<1>4. Current.i > Len(Current.args) /\ ~AsksHelp(Current.args)
  BY <1>1 DEF LoopEnds, ReadInv, Reads
<1>5. pre[1] = <<>> /\ Current.args = argp /\ Current.i <= Len(Current.args) + 1
  BY <1>2, <1>3 DEF Reading
<1>6. Current.i - 1 = Len(argp) /\ argp \in Seq(Item) /\ Len(argp) \in Nat
  <2>1. PICK m, j : m = Len(argp) /\ j = Current.i
    OBVIOUS
  <2>2. m \in Nat /\ j \in Nat /\ argp \in Seq(Item)
    BY <1>3, <1>5, <2>1 DEF CallType
  <2>3. j - 1 = m
    BY <1>4, <1>5, <2>1, <2>2
  <2> QED
    BY <2>1, <2>2, <2>3
<1>7. ReadAt(1) = Expanded[MaxOpen] /\ ReadAt(1) \in [DOMAIN Inputs -> Seq(Written)]
  <2>1. MaxOpen - 1 + 1 = MaxOpen /\ 1 \in 1..MaxOpen + 1
    BY BoundsAssumption
  <2> QED
    BY <2>1, ReadAtType DEF ReadAt
<1>8. PICK v, w : v = UpTo(argp, ReadAt(1))[Len(argp)] /\ w = AsWritten
  OBVIOUS
<1>9. v \in Seq(Written) /\ w = v
  <2>1. v \in Seq(Written)
    <3>1. \A m \in 0..Len(argp) : UpTo(argp, ReadAt(1))[m] \in Seq(Written)
      BY <1>6, <1>7, UpToIs
    <3>2. Len(argp) \in 0..Len(argp)
      BY <1>6
    <3> QED
      BY <1>8, <3>1, <3>2
  <2>2. w = v
    BY <1>4, <1>5, <1>7, <1>8 DEF AsWritten, Flat
  <2> QED
    BY <2>1, <2>2
<1>10. SoFar(stack, pre) = w
  <2>1. SoFar(stack, pre) = With(Current, 1, <<>>)
    BY <1>1, <1>3, <1>5 DEF SoFar
  <2>2. With(Current, 1, <<>>) = <<>> \o v
    BY <1>5, <1>6, <1>8 DEF With
  <2> QED
    BY <1>9, <2>1, <2>2, ConcatEmptySeq
<1>11. Taken(w)
  BY <1>2, <1>10
<1>12. Taken(w)'
  BY <1>1, <1>11, TakenSame
<1>13. AsWritten' = w
  BY <1>1, <1>8 DEF AsWritten
<1> QED
  BY <1>1, <1>12, <1>13 DEF Reads, Taken
LEMMA NextReads ==
  TypeInv /\ AliveInv /\ CallsOpen /\ ReadInv /\ [Next]_vars => Reads'
<1> SUFFICES ASSUME TypeInv, AliveInv, CallsOpen, ReadInv, [Next]_vars, ~glpError'
             PROVE  Reads'
  BY DEF Reads
<1>0. TypeInv'
  BY NextType
<1>1. CASE Usage \/ MainFails \/ MainGoesOn \/ Search \/ SearchFails \/ PgmExit
  <2>1. pc' \in {"exit", "search", "end"}
    BY <1>1 DEF Usage, MainFails, MainGoesOn, Search, SearchFails, PgmExit, ErrorExit, LongJmp
  <2> QED
    BY <2>1 DEF Reads
<1>2. CASE Start
  BY <1>2, StartReads
<1>3. CASE Enter
  <2>1. /\ pc = "enter" /\ ~AsksHelp(Current.args) /\ pc' = "args" /\ stack' = stack
        /\ argp' = argp /\ UNCHANGED lists /\ ~glpError
    BY <1>3 DEF Enter, input
  <2>2. PICK pre \in Before : Reading(stack, pre) /\ Taken(SoFar(stack, pre))
    BY <2>1 DEF ReadInv, Reads
  <2>3. PICK w : w = SoFar(stack, pre)
    OBVIOUS
  <2>4. Taken(w)'
    <3>1. Taken(w)
      BY <2>2, <2>3
    <3> QED
      BY <2>1, <3>1, TakenSame
  <2>5. Current' = Current
    BY <2>1 DEF Current
  <2> QED
    BY <2>1, <2>2, <2>3, <2>4, <2>5, ReadsOn
<1>4. CASE TakeSwitch \/ TakeFind \/ TakeText \/ TakeList
  <2>1. argp' = argp /\ ~glpError /\ pc = "args"
    BY <1>4 DEF TakeSwitch, TakeFind, TakeText, TakeList, Taking, input
  <2>2. PICK pre \in Before : Reading(stack, pre) /\ Taken(SoFar(stack, pre))
    BY <2>1 DEF ReadInv, Reads
  <2>3. ~AsksHelp(Current.args)
    BY <2>1 DEF ReadInv, Reads
  <2>4. PICK n, it, w : n = Len(stack) /\ it = Current.args[Current.i] /\ w = SoFar(stack, pre)
    OBVIOUS
  <2>5. n \in 1..MaxOpen + 1 /\ stack # <<>>
    BY <2>1, <2>4, DepthIs
  <2>6. n \in 1..n /\ stack \in Seq(CallType) /\ Current = stack[n] /\ Current \in CallType
        /\ DOMAIN stack = 1..n
    BY <2>4, <2>5, BumpedMoves, CallIs
  <2>7. w \in Seq(Written)
    <3>1. pre[n] \in Seq(Written) /\ Current.i <= Len(Current.args) + 1
      BY <2>2, <2>5, <2>6 DEF Before, Reading
    <3>2. With(Current, n, pre[n]) \in Seq(Written)
      BY <2>5, <2>6, <3>1, WithType
    <3> QED
      BY <2>4, <2>6, <3>2 DEF SoFar
  <2>8. it \in Item
    <3>1. ~LoopEnds(Current)
      BY <1>4 DEF TakeSwitch, TakeFind, TakeText, TakeList, Taking
    <3>2. PICK args, i : args = Current.args /\ i = Current.i
      OBVIOUS
    <3>3. args \in Seq(Item) /\ i \in Nat \ {0} /\ ~(i > Len(args))
      BY <2>6, <3>1, <3>2 DEF CallType, LoopEnds
    <3>4. i \in 1..Len(args)
      BY ONLY <3>3
    <3> QED
      BY <2>4, <3>2, <3>3, <3>4
  <2>9. /\ it.op # "input" /\ Taken(w \o <<it>>)'
        /\ ~LoopEnds(Current) /\ pc' = "args" /\ stack' = Bumped
    <3>1. Taken(w)
      BY <2>2, <2>4
    <3> QED
      BY <1>4, <2>1, <2>4, <2>7, <2>8, <3>1, TakesOne
  <2>10. PICK x : x = w \o <<it>>
    OBVIOUS
  <2>11. x = SoFar(stack, pre) \o Part(Current.args[Current.i], ReadAt(Len(stack)))
    <3>1. Part(it, ReadAt(n)) = <<it>>
      BY <2>9 DEF Part
    <3> QED
      BY <2>4, <2>10, <3>1
  <2>12. Taken(x)'
    BY <2>9, <2>10 DEF Taken
  <2> QED
    BY ONLY TypeInv, AliveInv, CallsOpen, <2>1, <2>2, <2>3, <2>9, <2>11, <2>12, MoveReads
<1>5. CASE InputMissing \/ InputShut \/ InputRefused
  BY <1>5 DEF InputMissing, InputShut, InputRefused
<1>6. CASE InputHollow
  BY <1>6, HollowReads
<1>7. CASE InputRead
  BY <1>0, <1>7, CallReads
<1>8. CASE EndOfInput
  BY <1>0, <1>8, EndReads
<1>9. CASE EndOfArgs
  BY <1>9, AllRead
<1>10. CASE UNCHANGED vars
  <2>1. /\ pc' = pc /\ stack' = stack /\ argp' = argp /\ UNCHANGED lists
        /\ g_sFind' = g_sFind /\ g_sFileList' = g_sFileList /\ giFirst' = giFirst /\ ~glpError
    BY <1>10 DEF vars, input, lists
  <2>2. CASE pc \in {"enter", "args"}
    <3>1. PICK pre \in Before : Reading(stack, pre) /\ Taken(SoFar(stack, pre))
      BY <2>1, <2>2 DEF ReadInv, Reads
    <3>2. PICK w : w = SoFar(stack, pre)
      OBVIOUS
    <3>3. Taken(w)
      BY <3>1, <3>2
    <3>4. Taken(w)'
      BY <2>1, <3>3, TakenSame
    <3>5. Current' = Current /\ (pc = "args" => ~AsksHelp(Current.args))
      BY <2>1 DEF Current, ReadInv, Reads
    <3> QED
      BY <2>1, <2>2, <3>1, <3>2, <3>4, <3>5, ReadsOn
  <2>3. CASE pc = "main"
    <3>1. PICK w : w = AsWritten
      OBVIOUS
    <3>2. Taken(w)
      BY <2>1, <2>3, <3>1 DEF ReadInv, Reads
    <3>3. Taken(w)'
      BY <2>1, <3>2, TakenSame
    <3>4. AsWritten' = w
      BY <2>1, <3>1 DEF AsWritten
    <3> QED
      BY <2>1, <2>3, <3>3, <3>4 DEF Reads, Taken
  <2>4. CASE pc \notin {"enter", "args", "main"}
    BY <2>1, <2>4 DEF ReadInv, Reads
  <2> QED
    BY <2>2, <2>3, <2>4
<1> QED
  BY <1>1, <1>2, <1>3, <1>4, <1>5, <1>6, <1>7, <1>8, <1>9, <1>10
     DEF Next, StartWithout, EnterHelp, TakeVersion

(* All that was taken is all that is written, and the search is for it.    *)
LEMMA AllTaken ==
  ASSUME TypeInv, ReadInv, MainGoesOn
  PROVE  ItemsTaken'
<1>1. PICK w : w = AsWritten
  OBVIOUS
<1>2. Taken(w) /\ argp' = argp /\ g_sFind' = g_sFind
      /\ g_sFileList' = IF g_sFileList = <<>> THEN <<AllFiles>> ELSE g_sFileList
  BY <1>1 DEF MainGoesOn, ReadInv, Reads, input
<1>3. AsWritten' = w
  BY <1>1, <1>2 DEF AsWritten
<1> DEFINE V == Values \cup {AllFiles, RestOfList}
<1>4. g_sFileList \in Seq(V)
  BY DEF TypeInv, TypeOK
<1>5. Stop' = "none"
  <2>1. Stops' = {}
    BY <1>2, <1>3 DEF Stops, Taken
  <2> QED
    BY <2>1 DEF Stop
<1>6. g_sFind' = FindsOf(w)
  BY <1>2 DEF Taken
<1>7. Listed(g_sFileList) = FilesOf(w)
  BY <1>2 DEF Taken
<1>8. CASE g_sFileList = <<>>
  <2>1. g_sFileList' = <<AllFiles>> /\ FilesOf(w) = <<>>
    <3>1. Listed(<<>>) = <<>>
      BY NonePicked DEF Listed
    <3> QED
      BY <1>2, <1>7, <1>8, <3>1
  <2>2. Listed(<<AllFiles>>) = <<AllFiles>> /\ RestOfList \notin ToSet(<<AllFiles>>)
    <3>1. AllFiles # RestOfList
      BY DEF AllFiles, RestOfList
    <3>2. <<>> \in Seq(V) /\ AllFiles \in V /\ Append(<<>>, AllFiles) = <<AllFiles>>
      OBVIOUS
    <3>3. Listed(<<>>) = <<>>
      BY NonePicked DEF Listed
    <3> HIDE DEF V
    <3>4. Listed(Append(<<>>, AllFiles)) = Append(Listed(<<>>), AllFiles)
      BY <3>1, <3>2, OneListed
    <3>5. ToSet(<<AllFiles>>) = {AllFiles}
      BY DEF ToSet
    <3> QED
      BY <3>1, <3>2, <3>3, <3>4, <3>5
  <2> QED
    BY <1>3, <1>5, <1>6, <2>1, <2>2 DEF ItemsTaken
<1>9. CASE g_sFileList # <<>>
  <2>1. g_sFileList' = g_sFileList
    BY <1>2, <1>9
  <2>2. FilesOf(w) = <<>> => RestOfList \in ToSet(g_sFileList)
    <3> HIDE DEF V
    <3> QED
      BY <1>4, <1>7, <1>9, NoneListed
  <2> QED
    BY <1>3, <1>5, <1>6, <1>7, <2>1, <2>2 DEF ItemsTaken
<1> QED
  BY <1>8, <1>9

LEMMA NextRead ==
  TypeInv /\ AliveInv /\ CallsOpen /\ ReadInv /\ [Next]_vars => ReadInv'
<1> SUFFICES ASSUME TypeInv, AliveInv, CallsOpen, ReadInv, [Next]_vars
             PROVE  ReadInv'
  OBVIOUS
<1>1. Reads'
  BY NextReads
<1>2. ASSUME pc' = "search" PROVE ItemsTaken'
  <2>1. CASE MainGoesOn
    BY <2>1, AllTaken
  <2>2. CASE UNCHANGED vars
    <3>1. /\ pc = "search" /\ argp' = argp /\ g_sFind' = g_sFind
          /\ g_sFileList' = g_sFileList
      BY <1>2, <2>2 DEF vars, input, lists
    <3> QED
      BY <3>1 DEF ReadInv, ItemsTaken, AsWritten, Stop, Stops
  <2>3. CASE Next /\ ~MainGoesOn
    <3>1. Start \/ Enter \/ InputRead \/ EndOfInput \/ EndOfArgs => pc' # "search"
      BY DEF Start, Enter, InputRead, EndOfInput, EndOfArgs
    <3>2. TakeSwitch \/ TakeFind \/ TakeText \/ TakeList => pc' # "search"
      BY DEF TakeSwitch, TakeFind, TakeText, TakeList, Taking
    <3>3. InputMissing \/ InputShut \/ InputRefused \/ InputHollow => pc' # "search"
      BY DEF InputMissing, InputShut, InputRefused, InputHollow, TakingInput, Taking
    <3>4. Usage \/ MainFails \/ Search \/ SearchFails \/ PgmExit => pc' # "search"
      BY DEF Usage, MainFails, Search, SearchFails, PgmExit, ErrorExit, LongJmp
    <3> QED
      BY <1>2, <2>3, <3>1, <3>2, <3>3, <3>4 DEF Next, StartWithout, EnterHelp, TakeVersion
  <2> QED
    BY <2>1, <2>2, <2>3
<1> QED
  BY <1>1, <1>2 DEF ReadInv

(* What is searched for, and where, is what the command line and its input *)
(* files say, each "@" replaced by what its file has and in that order,    *)
(* for every command line and all files, however deep they lie; no         *)
(* argument was refused before the search.                                 *)
THEOREM ItemsFromAll == Spec => []ItemsTaken
<1>1. ReadInv => ItemsTaken
  BY DEF ReadInv, ItemsTaken
<1>2. Spec => []CallsOpen
  BY AlwaysAlive, InitOpen, NextOpen, PTL DEF Spec
<1> QED
  BY <1>1, <1>2, AlwaysAlive, InitRead, NextRead, PTL DEF Spec
-----------------------------------------------------------------------------
(* Where the reading ends: at the first argument of W that ends it.        *)
LEMMA StopIs ==
  ASSUME NEW w \in Seq(Written), NEW x \in Written, NEW z \in Seq(Written),
         AsWritten = w \o (<<x>> \o z), x.op \in Stopping,
         \A j \in DOMAIN w : w[j].op \notin Stopping
  PROVE  Stop = x.op
<1>1. PICK W, m, U : W = AsWritten /\ m = Len(w) /\ U = Written
  OBVIOUS
<1>2. w \in Seq(U) /\ z \in Seq(U) /\ x \in U
  BY <1>1
<1>3. W = w \o (<<x>> \o z) /\ m = Len(w) /\ m \in Nat
  BY <1>1, <1>2
<1>4. /\ m + 1 \in DOMAIN W /\ W[m + 1] = x /\ DOMAIN W \subseteq Nat \ {0}
      /\ \A j \in 1..m : W[j] = w[j]
  BY ONLY <1>2, <1>3, SMTT(30)
<1>5. m + 1 \in Stops
  BY <1>1, <1>4 DEF Stops
<1>6. ASSUME NEW j \in Stops PROVE m + 1 <= j
  <2>1. j \in DOMAIN W /\ W[j].op \in Stopping /\ j \in Nat /\ j # 0
    BY <1>1, <1>4 DEF Stops
  <2>2. j \notin 1..m
    <3>1. DOMAIN w = 1..m
      BY <1>3
    <3> QED
      BY <1>4, <2>1, <3>1
  <2> QED
    BY ONLY <1>3, <2>1, <2>2
<1>7. PICK i : i = CHOOSE k \in Stops : \A j \in Stops : k <= j
  OBVIOUS
<1>8. i \in Stops /\ \A j \in Stops : i <= j
  BY <1>5, <1>6, <1>7
<1>9. i = m + 1
  <2>1. i <= m + 1 /\ m + 1 <= i /\ i \in Nat
    BY <1>1, <1>4, <1>5, <1>6, <1>8 DEF Stops
  <2> QED
    BY ONLY <1>3, <2>1
<1>10. Stop = AsWritten[i].op
  BY <1>5, <1>7 DEF Stop
<1> QED
  BY <1>1, <1>4, <1>9, <1>10

(* What all arguments stand for goes on from what the first j do.          *)
LEMMA UpToRest ==
  ASSUME NEW args \in Seq(Item), NEW in \in [DOMAIN Inputs -> Seq(Written)],
         NEW j \in 0..Len(args)
  PROVE  \E z \in Seq(Written) : UpTo(args, in)[Len(args)] = UpTo(args, in)[j] \o z
<1>1. PICK f, k : f = UpTo(args, in) /\ k = Len(args)
  OBVIOUS
<1>2. /\ k \in Nat /\ j \in 0..k
      /\ \A n \in 1..k : f[n] = f[n - 1] \o Part(args[n], in)
      /\ \A n \in 0..k : f[n] \in Seq(Written)
  <2>1. k \in Nat /\ j \in 0..k
    BY <1>1
  <2>2. \A n \in 1..k : f[n] = f[n - 1] \o Part(args[n], in)
    BY <1>1, UpToIs
  <2>3. \A n \in 0..k : f[n] \in Seq(Written)
    BY <1>1, UpToIs
  <2> QED
    BY <2>1, <2>2, <2>3
<1>3. \A n \in 1..k : Part(args[n], in) \in Seq(Written)
  <2> TAKE n \in 1..k
  <2>1. args[n] \in Item
    BY <1>1
  <2> QED
    BY <2>1, PartType
<1> DEFINE Bad == {n \in j..k : ~ \E z \in Seq(Written) : f[n] = f[j] \o z}
<1>4. j \notin Bad
  <2>1. f[j] = f[j] \o <<>> /\ <<>> \in Seq(Written)
    BY <1>2, ConcatEmptySeq
  <2> QED
    BY <2>1
<1>5. ASSUME NEW n \in Bad, \A i \in Bad : n <= i PROVE FALSE
  <2>1. n \in 1..k /\ n - 1 \in j..k /\ n - 1 \notin Bad
    <3>1. n \in j..k /\ n # j
      BY <1>4, <1>5
    <3>2. n \in 1..k /\ n - 1 \in j..k /\ n \in Nat
      BY <1>2, <3>1
    <3>3. ~(n <= n - 1)
      BY <3>2
    <3>4. n - 1 \notin Bad
      <4> HIDE DEF Bad
      <4> QED
        BY <1>5, <3>3
    <3> QED
      BY <3>2, <3>4
  <2>2. PICK z \in Seq(Written) : f[n - 1] = f[j] \o z
    BY <2>1
  <2>3. PICK x : x = Part(args[n], in)
    OBVIOUS
  <2>4. x \in Seq(Written) /\ f[n] = f[n - 1] \o x /\ f[j] \in Seq(Written)
    BY <1>2, <1>3, <2>1, <2>3
  <2>5. PICK a, b : a = f[j] /\ b = f[n]
    OBVIOUS
  <2>6. b = (a \o z) \o x /\ a \in Seq(Written) /\ z \in Seq(Written) /\ x \in Seq(Written)
    BY <2>2, <2>4, <2>5
  <2>7. b = a \o (z \o x) /\ z \o x \in Seq(Written)
    <3>1. z \o x \in Seq(Written)
      BY <2>6, Joined
    <3>2. a \o (z \o x) = (a \o z) \o x
      BY ONLY <2>6, Joined, SMTT(30)
    <3> QED
      BY <2>6, <3>1, <3>2
  <2>8. n \notin Bad
    BY <2>5, <2>7
  <2> QED
    BY <1>5, <2>8
<1>6. Bad = {}
  <2>1. Bad \subseteq Nat
    BY <1>2
  <2> HIDE DEF Bad
  <2> QED
    BY <1>5, <2>1, Least
<1>7. k \in j..k
  BY <1>2
<1> QED
  BY <1>1, <1>6, <1>7
(* Four ways to read the same sequence.                                    *)
Spreads(p, a, x, y, z) ==
  /\ p \o (((a \o x) \o y) \o z) = (p \o a) \o (x \o (y \o z))
  /\ p \o a \in Seq(Written) /\ y \o z \in Seq(Written)
  /\ x \o (y \o z) \in Seq(Written)

LEMMA Spread == \A p, a, x, y, z \in Seq(Written) : Spreads(p, a, x, y, z)
<1> DEFINE T == Seq(Written)
           C(u, v) == u \o v
<1>1. \A u, v \in T : C(u, v) \in T
  BY Joined
<1>2. \A u, v, w \in T : C(u, C(v, w)) = C(C(u, v), w)
  BY Joined
<1>3. SUFFICES ASSUME NEW p \in T, NEW a \in T, NEW x \in T, NEW y \in T, NEW z \in T
               PROVE  /\ C(p, C(C(C(a, x), y), z)) = C(C(p, a), C(x, C(y, z)))
                      /\ C(p, a) \in T /\ C(y, z) \in T /\ C(x, C(y, z)) \in T
  BY DEF Spreads
<1> HIDE DEF T, C
<1>4. C(p, a) \in T /\ C(y, z) \in T /\ C(a, x) \in T /\ C(x, C(y, z)) \in T
  BY <1>1
<1>5. C(C(C(a, x), y), z) = C(C(a, x), C(y, z))
  BY <1>2, <1>4
<1>6. C(C(a, x), C(y, z)) = C(a, C(x, C(y, z)))
  BY <1>2, <1>4
<1>7. C(p, C(a, C(x, C(y, z)))) = C(C(p, a), C(x, C(y, z)))
  BY <1>2, <1>4
<1> QED
  BY <1>4, <1>5, <1>6, <1>7

(* Behind p comes what a call of args at depth k stands for.               *)
Told(p, args, k) == \E z \in Seq(Written) : AsWritten = p \o (Flat(args, ReadAt(k)) \o z)

(* What a call that waits is for: the arguments of the input it is past.   *)
LEMMA AheadOnce ==
  ASSUME NEW c \in CallType, NEW args, NEW k \in 1..MaxOpen, NEW p \in Seq(Written),
         NEW q, Waits(c, args, k, p, q), c.i <= Len(c.args) + 1, Told(p, c.args, k)
  PROVE  Told(q, args, k + 1)
<1>0. PICK z \in Seq(Written) : AsWritten = p \o (Flat(c.args, ReadAt(k)) \o z)
  BY DEF Told
<1>1. PICK s, i, it, in : s = c.args /\ i = c.i /\ it = s[i - 1] /\ in = ReadAt(k)
  OBVIOUS
<1>2. /\ i > 1 /\ ~AsksHelp(s) /\ it.op = "input" /\ Inputs[it.arg].kind = "read"
      /\ ~TooMany(it.arg) /\ args = ArgsOf(it.arg) /\ q = p \o UpTo(s, in)[i - 2]
  BY <1>1 DEF Waits
<1>3. s \in Seq(Item) /\ i - 1 \in 1..Len(s) /\ (i - 1) - 1 = i - 2 /\ i - 2 \in 0..Len(s)
      /\ i - 1 \in 0..Len(s)
  <2>1. s \in Seq(Item) /\ i \in Nat /\ Len(s) \in Nat
    BY <1>1 DEF CallType
  <2>2. i <= Len(s) + 1 /\ i > 1
    BY <1>1, <1>2
  <2> QED
    BY ONLY <2>1, <2>2
<1>4. it \in Item /\ in \in [DOMAIN Inputs -> Seq(Written)]
  <2>1. k \in 1..MaxOpen + 1
    BY BoundsAssumption
  <2>2. s[i - 1] \in Item
    BY ONLY <1>3
  <2> QED
    BY <1>1, <2>1, <2>2, ReadAtType
<1>5. PICK a, b, x : a = UpTo(s, in)[i - 2] /\ b = UpTo(s, in)[i - 1] /\ x = Part(it, in)
  OBVIOUS
<1>6. b = a \o x /\ a \in Seq(Written) /\ x \in Seq(Written)
  <2>1. UpTo(s, in)[i - 1] = UpTo(s, in)[(i - 1) - 1] \o Part(s[i - 1], in)
    BY <1>3, <1>4, UpToIs
  <2>2. \A n \in 0..Len(s) : UpTo(s, in)[n] \in Seq(Written)
    BY <1>3, <1>4, UpToIs
  <2> QED
    BY <1>1, <1>3, <1>4, <1>5, <2>1, <2>2, PartType
<1>7. PICK y \in Seq(Written) : UpTo(s, in)[Len(s)] = b \o y
  <2>1. \E y \in Seq(Written) : UpTo(s, in)[Len(s)] = UpTo(s, in)[i - 1] \o y
    BY <1>3, <1>4, UpToRest
  <2> QED
    BY <1>5, <2>1
<1>8. AsWritten = p \o (((a \o x) \o y) \o z)
  <2>1. Flat(s, in) = (a \o x) \o y
    BY <1>2, <1>6, <1>7 DEF Flat
  <2> QED
    BY <1>0, <1>1, <2>1
<1>9. AsWritten = (p \o a) \o (x \o (y \o z)) /\ y \o z \in Seq(Written)
  <2>1. Spreads(p, a, x, y, z)
    BY <1>6, Spread
  <2> QED
    BY <1>8, <2>1 DEF Spreads
<1>10. x = Flat(args, ReadAt(k + 1))
  <2>1. it.arg \in DOMAIN Inputs
    BY <1>2, <1>4 DEF Item
  <2>2. in = Deeper(ReadAt(k + 1), Begun[MaxOpen - k + 1])
    BY <1>1, ReadAtType
  <2>3. Deeper(ReadAt(k + 1), Begun[MaxOpen - k + 1])[it.arg] = Flat(ArgsOf(it.arg), ReadAt(k + 1))
    BY <1>2, <2>1 DEF Deeper
  <2> QED
    BY <1>2, <1>5, <2>2, <2>3 DEF Part
<1>11. q = p \o a
  BY <1>2, <1>5
<1> QED
  BY <1>9, <1>10, <1>11 DEF Told

(* Behind what was written before a call come its own arguments.           *)
LEMMA Ahead ==
  ASSUME NEW st \in Seq(CallType), NEW pre \in Before, NEW n \in 1..MaxOpen + 1,
         n = Len(st), Reading(st, pre)
  PROVE  Told(pre[n], st[n].args, n)
<1> DEFINE Bad == {k \in 1..n : ~Told(pre[k], st[k].args, k)}
<1>1. n \in Nat /\ n # 0 /\ DOMAIN st = 1..n /\ MaxOpen \in Nat
  BY BoundsAssumption
<1>2. Told(pre[1], st[1].args, 1)
  <2>1. pre[1] = <<>> /\ st[1].args = argp
    BY DEF Reading
  <2>2. ReadAt(1) = Expanded[MaxOpen] /\ ReadAt(1) \in [DOMAIN Inputs -> Seq(Written)]
    <3>1. MaxOpen - 1 + 1 = MaxOpen /\ 1 \in 1..MaxOpen + 1
      BY <1>1
    <3> QED
      BY <3>1, ReadAtType DEF ReadAt
  <2>3. argp \in Seq(Item)
    <3>1. 1 \in 1..Len(st)
      BY <1>1
    <3> QED
      BY <2>1, <3>1, CallArgs
  <2>4. PICK W, U : W = AsWritten /\ U = Written
    OBVIOUS
  <2>5. W \in Seq(U) /\ W = Flat(argp, ReadAt(1))
    <3>1. Flat(argp, ReadAt(1)) \in Seq(Written)
      BY <2>2, <2>3, FlatType
    <3> QED
      BY <2>2, <2>4, <3>1 DEF AsWritten
  <2>6. W = <<>> \o (W \o <<>>) /\ <<>> \in Seq(U)
    BY ONLY <2>5, ConcatEmptySeq
  <2> QED
    BY <2>1, <2>4, <2>5, <2>6 DEF Told
<1>3. ASSUME NEW k \in Bad, \A j \in Bad : k <= j PROVE FALSE
  <2>1. k \in 1..n /\ k # 1
    BY <1>2, <1>3
  <2>2. PICK m : m = k - 1
    OBVIOUS
  <2>3. m \in 1..n /\ m < n /\ m + 1 = k /\ m \in 1..MaxOpen /\ ~(k <= m)
    BY <1>1, <2>1, <2>2
  <2>4. Told(pre[m], st[m].args, m)
    <3>1. m \notin Bad
      <4> HIDE DEF Bad
      <4> QED
        BY <1>3, <2>3
    <3> QED
      BY <2>3, <3>1
  <2>5. PICK c, p, args, q : c = st[m] /\ p = pre[m] /\ args = st[k].args /\ q = pre[k]
    OBVIOUS
  <2>6. m \in DOMAIN st /\ m \in 1..MaxOpen + 1
    BY <1>1, <2>3
  <2>7. c \in CallType /\ p \in Seq(Written)
    BY <2>5, <2>6 DEF Before
  <2>8. c.i <= Len(c.args) + 1 /\ Waits(c, args, m, p, q)
    <3> HIDE DEF Bad
    <3> QED
      BY <2>3, <2>5, <2>6 DEF Reading
  <2>9. Told(q, args, m + 1)
    <3>1. Told(p, c.args, m)
      BY <2>4, <2>5
    <3> QED
      BY ONLY <2>3, <2>7, <2>8, <3>1, AheadOnce
  <2>10. k \notin Bad
    BY <2>3, <2>5, <2>9
  <2> QED
    BY <1>3, <2>10
<1>4. Bad = {}
  <2>1. Bad \subseteq 1..n /\ 1..n \subseteq Nat
    BY <1>1
  <2> HIDE DEF Bad
  <2> QED
    BY <1>3, <2>1, Least
<1>5. n \in 1..n /\ n \notin Bad
  BY <1>1, <1>4
<1> QED
  BY <1>5

(* Behind what was taken comes the argument in hand.                       *)
LEMMA AheadInHand ==
  ASSUME NEW st \in Seq(CallType), NEW pre \in Before, NEW n \in 1..MaxOpen + 1,
         n = Len(st), Reading(st, pre), ~AsksHelp(st[n].args), st[n].i <= Len(st[n].args)
  PROVE  /\ st[n].args[st[n].i] \in Item /\ SoFar(st, pre) \in Seq(Written)
         /\ \E z \in Seq(Written) :
              AsWritten = SoFar(st, pre) \o (Part(st[n].args[st[n].i], ReadAt(n)) \o z)
<1>1. PICK c, s, i, it, in, p : /\ c = st[n] /\ s = c.args /\ i = c.i /\ it = s[i]
                                /\ in = ReadAt(n) /\ p = pre[n]
  OBVIOUS
<1>2. n \in 1..Len(st) /\ c \in CallType /\ p \in Seq(Written)
      /\ in \in [DOMAIN Inputs -> Seq(Written)]
  BY <1>1, BoundsAssumption, ReadAtType DEF Before
<1>3. s \in Seq(Item) /\ i \in 1..Len(s) /\ i - 1 \in 0..Len(s) /\ i \in 0..Len(s)
  <2>1. s \in Seq(Item) /\ i \in Nat \ {0} /\ Len(s) \in Nat
    BY <1>1, <1>2 DEF CallType
  <2>2. i <= Len(s)
    BY <1>1
  <2> QED
    BY ONLY <2>1, <2>2
<1>4. PICK a, b, x : a = UpTo(s, in)[i - 1] /\ b = UpTo(s, in)[i] /\ x = Part(it, in)
  OBVIOUS
<1>5. b = a \o x /\ a \in Seq(Written) /\ x \in Seq(Written) /\ it \in Item
  <2>1. it \in Item
    BY <1>1, <1>3
  <2>2. UpTo(s, in)[i] = UpTo(s, in)[i - 1] \o Part(s[i], in)
    BY <1>2, <1>3, UpToIs
  <2>3. \A m \in 0..Len(s) : UpTo(s, in)[m] \in Seq(Written)
    BY <1>2, <1>3, UpToIs
  <2>4. x \in Seq(Written)
    BY <1>2, <1>4, <2>1, PartType
  <2>5. a \in Seq(Written)
    BY <1>3, <1>4, <2>3
  <2>6. b = a \o x
    BY <1>1, <1>4, <2>2, Zenon
  <2> QED
    BY <2>1, <2>4, <2>5, <2>6
<1>6. PICK y \in Seq(Written) : UpTo(s, in)[Len(s)] = b \o y
  <2>1. \E y \in Seq(Written) : UpTo(s, in)[Len(s)] = UpTo(s, in)[i] \o y
    BY <1>2, <1>3, UpToRest
  <2> QED
    BY <1>4, <2>1
<1>7. PICK z \in Seq(Written) : AsWritten = p \o (Flat(s, in) \o z)
  BY <1>1, Ahead DEF Told
<1>8. AsWritten = p \o (((a \o x) \o y) \o z)
  <2>1. Flat(s, in) = (a \o x) \o y
    BY <1>1, <1>5, <1>6 DEF Flat
  <2> QED
    BY <1>7, <2>1
<1>9. AsWritten = (p \o a) \o (x \o (y \o z)) /\ y \o z \in Seq(Written) /\ p \o a \in Seq(Written)
  <2>1. Spreads(p, a, x, y, z)
    BY <1>2, <1>5, Spread
  <2> QED
    BY <1>8, <2>1 DEF Spreads
<1>10. SoFar(st, pre) = p \o a
  BY <1>1, <1>4 DEF SoFar, With
<1> QED
  BY <1>1, <1>4, <1>5, <1>9, <1>10
-----------------------------------------------------------------------------
(* Before the search nothing is found and nothing has failed; a call that  *)
(* has just begun is at its first argument.                                *)
CourseInv ==
  /\ pc = "start" => ~glpError
  /\ pc = "enter" => Current.i = 1
  /\ pc \in {"start", "enter", "args", "main", "search"} => iCritErr = 0
  /\ pc \in {"start", "enter", "args", "main"} => gdwFinds = 0
  /\ pc \in {"enter", "args", "main", "search"} => argp # <<>>
  /\ pc = "search" => g_sFind # <<>>

LEMMA InitCourse == Init => CourseInv
BY DEF Init, CourseInv

LEMMA NextCourse == TypeInv /\ CourseInv /\ [Next]_vars => CourseInv'
<1> SUFFICES ASSUME TypeInv, CourseInv, [Next]_vars PROVE CourseInv'
  OBVIOUS
<1>1. ASSUME pc = "args", pc' = "args", argp' = argp, UNCHANGED result PROVE CourseInv'
  BY <1>1 DEF CourseInv, result
<1>2. CASE Usage /\ pc # "end"
  BY <1>2 DEF Usage, CourseInv
<1>3. CASE Start
  <2>1. stack' = <<Call(argp, 0, 0)>> /\ pc' = "enter" /\ argp # <<>> /\ argp' = argp
        /\ pc = "start" /\ UNCHANGED result
    BY <1>3 DEF Start, input
  <2>2. Current' = Call(argp, 0, 0)
    BY <2>1 DEF Current, Last
  <2>3. Call(argp, 0, 0).i = 1
    BY DEF Call
  <2> QED
    BY <2>1, <2>2, <2>3 DEF CourseInv, result
<1>4. CASE Enter
  <2>1. pc = "enter" /\ pc' = "args" /\ argp' = argp /\ UNCHANGED result
    BY <1>4 DEF Enter, input
  <2> QED
    BY <2>1 DEF CourseInv, result
<1>5. CASE TakeSwitch \/ TakeFind \/ TakeText \/ TakeList
  <2>1. pc = "args" /\ pc' = "args" /\ argp' = argp /\ UNCHANGED result
    BY <1>5 DEF TakeSwitch, TakeFind, TakeText, TakeList, Taking, input
  <2> QED
    BY <1>1, <2>1
<1>6. CASE InputMissing \/ InputShut \/ InputRefused \/ InputHollow
  <2>1. pc = "args" /\ pc' = "args" /\ argp' = argp /\ UNCHANGED result
    BY <1>6 DEF InputMissing, InputShut, InputRefused, InputHollow, TakingInput, Taking, input
  <2> QED
    BY <1>1, <2>1
<1>7. CASE InputRead
  <2>1. /\ pc = "args" /\ pc' = "enter" /\ argp' = argp /\ UNCHANGED result
        /\ stack' = Append(Bumped, Call(ArgsOf(Arg), NewHandle, gdwGFCnt))
    BY <1>7 DEF InputRead, TakingInput, Taking, input
  <2>2. stack # <<>> /\ Bumped \in Seq(CallType)
    BY <2>1, BumpedMoves DEF TypeInv, InCall
  <2>3. PICK t, c : t = Bumped /\ c = Call(ArgsOf(Arg), NewHandle, gdwGFCnt)
    OBVIOUS
  <2>4. t \in Seq(CallType) /\ stack' = Append(t, c) /\ c.i = 1
    BY <2>1, <2>2, <2>3 DEF Call
  <2>5. Current' = c
    <3>1. Len(Append(t, c)) = Len(t) + 1 /\ Append(t, c)[Len(t) + 1] = c
      BY ONLY <2>4
    <3> QED
      BY <2>4, <3>1 DEF Current, Last
  <2> QED
    BY <2>1, <2>4, <2>5 DEF CourseInv, result
<1>8. CASE EndOfInput
  <2>1. pc = "args" /\ pc' = "args" /\ argp' = argp /\ UNCHANGED result
    BY <1>8 DEF EndOfInput, input
  <2> QED
    BY <1>1, <2>1
<1>9. CASE EndOfArgs
  <2>1. pc = "args" /\ pc' = "main" /\ argp' = argp /\ UNCHANGED result
    BY <1>9 DEF EndOfArgs, input
  <2> QED
    BY <2>1 DEF CourseInv, result
<1>10. CASE MainFails \/ Search \/ SearchFails \/ PgmExit
  <2>1. pc' \in {"exit", "end"}
    BY <1>10 DEF MainFails, Search, SearchFails, PgmExit, ErrorExit, LongJmp
  <2> QED
    BY <2>1 DEF CourseInv
<1>11. CASE MainGoesOn
  <2>1. pc = "main" /\ pc' = "search" /\ argp' = argp /\ UNCHANGED result /\ g_sFind' # <<>>
    BY <1>11 DEF MainGoesOn, input
  <2> QED
    BY <2>1 DEF CourseInv, result
<1>12. CASE UNCHANGED vars
  <2>1. pc' = pc /\ stack' = stack /\ argp' = argp /\ UNCHANGED result /\ glpError' = glpError
        /\ g_sFind' = g_sFind
    BY <1>12 DEF vars, input, outfile, lists
  <2> QED
    BY <2>1 DEF CourseInv, Current, result
<1> QED
  <2>1. StartWithout \/ EnterHelp \/ TakeVersion => Usage /\ pc # "end"
    BY DEF StartWithout, EnterHelp, TakeVersion, Taking
  <2> QED
    BY <1>2, <1>3, <1>4, <1>5, <1>6, <1>7, <1>8, <1>9, <1>10, <1>11, <1>12, <2>1 DEF Next
(* While all the handles that were ever opened are open, each belongs to a *)
(* call: no input can end, or be refused, without taking one away.         *)
UnclosedInv ==
  ~glpError /\ pc \in {"enter", "args"} /\ Cardinality(handles) = opened =>
    /\ Len(stack) = opened + 1
    /\ \A k \in DOMAIN stack : k > 1 => Valid(gsGFS[stack[k].slot].hnd)

(* There are no more handles than inputs were opened.                      *)
LEMMA HandlesOpened ==
  ASSUME TypeInv
  PROVE  Cardinality(handles) \in Nat /\ Cardinality(handles) <= opened
<1>1. handles \subseteq 1..opened /\ opened \in Nat
  BY CallIs
<1>2. IsFiniteSet(1..opened) /\ Cardinality(1..opened) = opened
  BY <1>1, FS_Interval
<1> QED
  BY <1>1, <1>2, FewerHandles, FS_Subset

(* One handle more, which is none of those there are.                      *)
LEMMA OneHandleMore ==
  ASSUME TypeInv
  PROVE  Cardinality(handles \cup {NewHandle}) = Cardinality(handles) + 1
<1>1. NewHandle \notin handles
  BY CallIs DEF NewHandle
<1> QED
  BY <1>1, FewerHandles, FS_AddElement

LEMMA InitUnclosed == Init => UnclosedInv
BY DEF Init, UnclosedInv

LEMMA NextUnclosed ==
  TypeInv /\ AliveInv /\ HeldInv /\ UnclosedInv /\ [Next]_vars => UnclosedInv'
<1> SUFFICES ASSUME TypeInv, AliveInv, HeldInv, UnclosedInv, [Next]_vars, ~glpError',
                    pc' \in {"enter", "args"}, Cardinality(handles)' = opened'
             PROVE  /\ Len(stack') = opened' + 1
                    /\ \A k \in DOMAIN stack' : k > 1 => Valid(gsGFS'[stack'[k].slot].hnd)
  BY DEF UnclosedInv, Valid
<1>1. opened \in Nat /\ Cardinality(handles) \in Nat /\ Cardinality(handles) <= opened
  BY HandlesOpened, CallIs
<1>2. ASSUME UNCHANGED reading, ~glpError, pc \in {"enter", "args"}, Len(stack') = Len(stack),
             DOMAIN stack' = DOMAIN stack,
             \A k \in DOMAIN stack : stack'[k].slot = stack[k].slot
      PROVE  /\ Len(stack') = opened' + 1
             /\ \A k \in DOMAIN stack' : k > 1 => Valid(gsGFS'[stack'[k].slot].hnd)
  BY <1>2 DEF UnclosedInv, reading
<1>3. CASE Start
  <2>1. opened = 0 /\ opened' = opened /\ stack' = <<Call(argp, 0, 0)>>
    BY <1>3 DEF Start, HeldInv, CallsStand, reading
  <2> QED
    BY <2>1
<1>4. CASE Enter \/ UNCHANGED vars
  <2>1. UNCHANGED reading /\ ~glpError /\ pc \in {"enter", "args"} /\ stack' = stack
    BY <1>4 DEF Enter, vars, outfile
  <2> QED
    BY <1>2, <2>1
<1>5. CASE TakeSwitch \/ TakeFind \/ TakeText \/ TakeList
  <2>1. UNCHANGED reading /\ ~glpError /\ pc = "args" /\ stack' = Bumped
    BY <1>5 DEF TakeSwitch, TakeFind, TakeText, TakeList, Taking, outfile
  <2>2. stack # <<>> /\ stack \in Seq(CallType) /\ DOMAIN stack = 1..Len(stack)
    BY <2>1, CallIs DEF TypeInv, InCall
  <2>3. /\ Bumped \in Seq(CallType) /\ Len(Bumped) = Len(stack)
        /\ \A k \in 1..Len(stack) : Bumped[k].slot = stack[k].slot
    BY <2>2, BumpedIs
  <2>4. DOMAIN Bumped = 1..Len(Bumped)
    BY <2>3
  <2> QED
    BY <1>2, <2>1, <2>2, <2>3, <2>4
<1>6. CASE InputMissing \/ InputShut \/ InputRefused
  BY <1>6 DEF InputMissing, InputShut, InputRefused
<1>7. CASE InputHollow
  <2>1. opened' = opened + 1 /\ handles' = handles
    BY <1>7 DEF InputHollow, NewHandle
  <2> QED
    BY <1>1, <2>1
<1>8. CASE InputRead
  <2>1. /\ handles' = handles \cup {NewHandle} /\ opened' = opened + 1 /\ ~glpError
        /\ gsGFS' = [gsGFS EXCEPT ![gdwGFCnt] = [hnd |-> NewHandle, buf |-> NewHandle]]
        /\ stack' = Append(Bumped, Call(ArgsOf(Arg), NewHandle, gdwGFCnt))
        /\ pc = "args"
    BY <1>8 DEF InputRead, TakingInput, Taking, NewHandle
  <2>2. Cardinality(handles) = opened
    BY <1>1, <2>1, OneHandleMore
  <2>3. /\ stack # <<>> /\ stack \in Seq(CallType) /\ DOMAIN stack = 1..Len(stack)
        /\ Len(stack) \in Nat
        /\ gdwGFCnt \in DOMAIN gsGFS /\ NewHandle \in Nat /\ NewHandle # 0
    BY <1>1, <2>1, CallIs DEF TypeInv, InCall, NewHandle
  <2>4. /\ Bumped \in Seq(CallType) /\ Len(Bumped) = Len(stack)
        /\ \A k \in 1..Len(stack) : Bumped[k].slot = stack[k].slot
    BY <2>3, BumpedIs
  <2>5. Len(stack) = opened + 1
        /\ \A k \in DOMAIN stack : k > 1 => Valid(gsGFS[stack[k].slot].hnd)
    BY <2>1, <2>2 DEF UnclosedInv
  <2>6. PICK new : new = Call(ArgsOf(Arg), NewHandle, gdwGFCnt)
    OBVIOUS
  <2>7. /\ Len(stack') = Len(stack) + 1 /\ DOMAIN stack' = 1..Len(stack) + 1
        /\ \A k \in 1..Len(stack) : stack'[k].slot = stack[k].slot
        /\ stack'[Len(stack) + 1].slot = gdwGFCnt
    <3>1. new.slot = gdwGFCnt
      BY <2>6 DEF Call
    <3> QED
      BY <2>1, <2>4, <2>6, <3>1
  <2>8. Valid(NewHandle) /\ gsGFS'[gdwGFCnt].hnd = NewHandle
        /\ \A s \in DOMAIN gsGFS : s # gdwGFCnt => gsGFS'[s] = gsGFS[s]
    BY <2>1, <2>3 DEF Valid, NoHandle, INVALID_HANDLE_VALUE
  <2>9. ASSUME NEW k \in 1..Len(stack) + 1, k > 1
        PROVE  Valid(gsGFS'[stack'[k].slot].hnd)
    <3>1. CASE k = Len(stack) + 1
      BY <2>7, <2>8, <3>1
    <3>2. CASE k # Len(stack) + 1
      <4>1. k \in DOMAIN stack /\ stack'[k].slot = stack[k].slot
        BY <2>3, <2>7, <3>2
      <4>2. stack[k].slot \in DOMAIN gsGFS /\ Valid(gsGFS[stack[k].slot].hnd)
        BY <2>5, <2>9, <4>1, SlotOfCall
      <4> QED
        BY <2>8, <4>1, <4>2
    <3> QED
      BY <3>1, <3>2
  <2> QED
    BY <2>1, <2>5, <2>7, <2>9
<1>9. CASE EndOfInput
  <2>1. /\ ~glpError /\ pc = "args" /\ opened' = opened /\ Len(stack) > 1
        /\ handles' = handles \ {gsGFS[Current.slot].hnd}
    BY <1>9 DEF EndOfInput
  <2>2. Cardinality(handles') \in Nat /\ Cardinality(handles') <= Cardinality(handles)
    BY <2>1, FewerHandles
  <2>3. Cardinality(handles) = opened
    BY <1>1, <2>1, <2>2
  <2>4. Len(stack) \in DOMAIN stack /\ Current = stack[Len(stack)]
    BY <2>1, CallIs DEF Current, Last
  <2>5. PICK h : h = gsGFS[Current.slot].hnd
    OBVIOUS
  <2>6. Valid(h)
    BY <2>1, <2>3, <2>4, <2>5 DEF UnclosedInv
  <2>7. h \in handles
    <3>1. Current.slot \in DOMAIN gsGFS
      BY <2>4, SlotOfCall
    <3> QED
      BY <2>5, <2>6, <3>1 DEF AliveInv, SlotsAlive
  <2>8. Cardinality(handles \ {h}) = Cardinality(handles) - 1
    BY <2>7, FewerHandles, FS_RemoveElement
  <2> QED
    BY <1>1, <2>1, <2>3, <2>5, <2>8
<1>10. CASE Usage \/ EndOfArgs \/ MainFails \/ MainGoesOn \/ Search \/ SearchFails \/ PgmExit
  <2>1. pc' \notin {"enter", "args"}
    BY <1>10 DEF Usage, EndOfArgs, MainFails, MainGoesOn, Search, SearchFails, PgmExit,
                 ErrorExit, LongJmp
  <2> QED
    BY <2>1
<1> QED
  BY <1>3, <1>4, <1>5, <1>6, <1>7, <1>8, <1>9, <1>10
     DEF Next, StartWithout, EnterHelp, TakeVersion
-----------------------------------------------------------------------------
(* What ends the reading, if anything does.                                *)
LEMMA StopStays == argp' = argp => AsWritten' = AsWritten /\ Stop' = Stop
BY DEF AsWritten, Stop, Stops

Free(w) == \A j \in DOMAIN w : w[j].op \notin Stopping

LEMMA FreeBoth ==
  ASSUME NEW w \in Seq(Written), NEW x \in Seq(Written), Free(w), Free(x)
  PROVE  w \o x \in Seq(Written) /\ Free(w \o x)
<1>1. PICK U, W : U = Written /\ W = w \o x
  OBVIOUS
<1>2. w \in Seq(U) /\ x \in Seq(U)
  BY <1>1
<1>3. W \in Seq(U)
  BY ONLY <1>1, <1>2, ConcatProperties
<1>4. \A j \in DOMAIN W : (j \in DOMAIN w /\ W[j] = w[j])
                          \/ (j - Len(w) \in DOMAIN x /\ W[j] = x[j - Len(w)])
  BY ONLY <1>1, <1>2, SMTT(30)
<1>5. Free(W)
  BY <1>4 DEF Free
<1> QED
  BY <1>1, <1>3, <1>5

LEMMA StopsAt ==
  ASSUME NEW w \in Seq(Written), NEW z \in Seq(Written), NEW op \in Stopping,
         AsWritten = w \o (Is(op) \o z), Free(w)
  PROVE  Stop = op
<1>1. PICK x : x = [op |-> op, arg |-> 0]
  OBVIOUS
<1>2. x \in Written /\ x.op = op /\ Is(op) = <<x>>
  BY <1>1 DEF Written, Is, Stopping, Ops
<1> QED
  BY <1>2, StopIs DEF Free

LEMMA BadAfter ==
  ASSUME NEW w \in Seq(Written), NEW x \in Seq(Written), NEW y \in Seq(Written),
         AsWritten = w \o (x \o (Is("bad") \o y)), Free(w), Free(x)
  PROVE  Stop = "bad"
<1>1. PICK b : b = Is("bad")
  OBVIOUS
<1>2. b \in Seq(Written) /\ "bad" \in Stopping
  BY <1>1, IsWritten DEF Ops, Stopping
<1>3. b \o y \in Seq(Written)
  BY <1>2, Joined
<1>4. PICK z : z = b \o y
  OBVIOUS
<1>5. w \o (x \o z) = (w \o x) \o z
  <2>1. w \in Seq(Written) /\ x \in Seq(Written) /\ z \in Seq(Written)
    BY <1>3, <1>4
  <2> QED
    BY ONLY <2>1, Joined, SMTT(30)
<1>6. AsWritten = (w \o x) \o (Is("bad") \o y)
  BY <1>1, <1>4, <1>5
<1>7. w \o x \in Seq(Written) /\ Free(w \o x)
  BY FreeBoth
<1>8. PICK v : v = w \o x
  OBVIOUS
<1>9. v \in Seq(Written) /\ Free(v) /\ AsWritten = v \o (Is("bad") \o y)
  BY <1>6, <1>7, <1>8
<1> QED
  BY <1>2, <1>9, StopsAt

(* What a call that is read for its first argument only begins with.       *)
FirstIn(args, d) == IF AsksHelp(args) THEN Is("help") ELSE First(args, Begun[d])

LEMMA FirstInType ==
  ASSUME NEW args \in Seq(Item), NEW d \in 0..MaxOpen
  PROVE  FirstIn(args, d) \in Seq(Written) /\ Begun[d] \in [DOMAIN Inputs -> Seq(Written)]
<1>1. Begun[d] \in [DOMAIN Inputs -> Seq(Written)] /\ Is("help") \in Seq(Written)
  BY BegunIs, IsWritten DEF Ops
<1> QED
  BY <1>1, FirstType DEF FirstIn

(* What an input stands for, to a depth d, if it is read or not.           *)
LEMMA BegunAt ==
  ASSUME NEW d \in 0..MaxOpen, NEW v \in DOMAIN Inputs
  PROVE  /\ d = 0 \/ Inputs[v].kind # "read" =>
              Begun[d][v] = Is("bad") /\ Expanded[d][v] = Is("bad")
         /\ d # 0 /\ Inputs[v].kind = "read" =>
              /\ d - 1 \in 0..MaxOpen
              /\ Begun[d][v] = FirstIn(ArgsOf(v), d - 1)
              /\ TooMany(v) => Expanded[d][v] = Begun[d][v] \o Is("bad")
<1>1. MaxOpen \in Nat
  BY BoundsAssumption
<1>2. CASE d = 0
  BY <1>2, BegunIs, ExpandedIs
<1>3. CASE d # 0
  <2>1. d \in 1..MaxOpen /\ d - 1 \in 0..MaxOpen
    BY <1>1, <1>3
  <2>2. Begun[d] = BegunOf(Begun[d - 1]) /\ Expanded[d] = Deeper(Expanded[d - 1], Begun[d])
    BY <2>1, BegunIs, ExpandedIs
  <2> QED
    BY <1>3, <2>1, <2>2 DEF BegunOf, Deeper, FirstIn
<1> QED
  BY <1>2, <1>3
(* The argument in hand is the next of what is written: it stands behind   *)
(* w, what was written before, as it is read where d more inputs can lie   *)
(* in each other.  This is as many as there are handles left, at least;    *)
(* and if no handle was closed so far, it is just as many.                 *)
Left(d) ==
  /\ Cardinality(handles) >= MaxOpen - d
  /\ Cardinality(handles) = opened => d = MaxOpen - opened

InHand(it, in, w, z) == AsWritten = w \o (Part(it, in) \o z)

(* Such is what is left of an input of too many arguments: the first of    *)
(* them, and an error.                                                     *)
Begins(args, d, w, y) ==
  /\ d \in 0..MaxOpen /\ w \in Seq(Written) /\ y \in Seq(Written)
  /\ Free(w) /\ AsWritten = w \o (FirstIn(args, d) \o (Is("bad") \o y))

FateInv ==
  opened <= MaxOpen =>
    /\ glpError /\ pc \in {"enter", "args"} =>
         \/ Stop = "bad" /\ Current.i > 1
         \/ /\ Current.i = 1 /\ (pc = "args" => ~AsksHelp(Current.args))
            /\ \E d, w, y : Begins(Current.args, d, w, y) /\ Left(d)
    /\ glpError /\ pc = "main" => Stop = "bad"
    /\ pc = "exit" =>
         \/ /\ iCritErr = 0 /\ gdwFinds = 0
            /\ argp = <<>> \/ Stop \in {"help", "version"}
         \/ iCritErr = 0 /\ argp # <<>> /\ Stop = "none" /\ FindsOf(AsWritten) # <<>>
         \/ iCritErr = GEN_ERROR /\ argp # <<>> /\ Stop \in {"none", "bad"}
    /\ pc = "end" => ExitAsWritten

LEMMA InitFate == Init => FateInv
BY DEF Init, FateInv

(* Before an error is noted ...                                            *)
LEMMA HandBefore ==
  ASSUME TypeInv, AliveInv, CallsOpen, ReadInv, UnclosedInv, ~glpError, pc = "args",
         ~LoopEnds(Current)
  PROVE  /\ Current.args[Current.i] \in Item
         /\ \E d \in 0..MaxOpen, w, z \in Seq(Written) :
              /\ Free(w) /\ Left(d) /\ InHand(Current.args[Current.i], Expanded[d], w, z)
<1>1. PICK pre \in Before : Reading(stack, pre) /\ Taken(SoFar(stack, pre))
  BY DEF ReadInv, Reads
<1>2. PICK n, it, d : n = Len(stack) /\ it = Current.args[Current.i] /\ d = MaxOpen - n + 1
  OBVIOUS
<1>3. n \in 1..MaxOpen + 1 /\ stack # <<>> /\ MaxOpen \in Nat
  BY <1>2, DepthIs, BoundsAssumption
<1>4. n \in 1..n /\ stack \in Seq(CallType) /\ Current = stack[n] /\ Current \in CallType
  BY <1>2, <1>3, BumpedMoves
<1>5. d \in 0..MaxOpen /\ ReadAt(n) = Expanded[d]
  BY <1>2, <1>3 DEF ReadAt
<1>6. ~AsksHelp(Current.args)
  BY DEF ReadInv, Reads
<1>7. Current.i <= Len(Current.args)
  <2>1. PICK j, m : j = Current.i /\ m = Len(Current.args)
    OBVIOUS
  <2>2. j \in Nat /\ m \in Nat /\ ~(j > m)
    BY <1>4, <2>1 DEF CallType, LoopEnds
  <2> QED
    BY <2>1, <2>2
<1>8. PICK w : w = SoFar(stack, pre)
  OBVIOUS
<1>9. it \in Item /\ w \in Seq(Written) /\ \E z \in Seq(Written) : InHand(it, Expanded[d], w, z)
  <2>1. PICK st : st = stack
    OBVIOUS
  <2>2. /\ st[n].args[st[n].i] \in Item /\ SoFar(st, pre) \in Seq(Written)
        /\ \E z \in Seq(Written) :
             AsWritten = SoFar(st, pre) \o (Part(st[n].args[st[n].i], ReadAt(n)) \o z)
    BY <1>1, <1>2, <1>3, <1>4, <1>6, <1>7, <2>1, AheadInHand
  <2>3. st[n].args[st[n].i] = it
    BY <1>2, <1>4, <2>1
  <2>4. \E z \in Seq(Written) : AsWritten = w \o (Part(it, Expanded[d]) \o z)
    BY <1>5, <1>8, <2>1, <2>2, <2>3
  <2> QED
    BY <1>8, <2>1, <2>2, <2>3, <2>4 DEF InHand
<1>10. Free(w)
  BY <1>1, <1>8 DEF Taken, Free
<1>11. Left(d)
  <2>1. Len(stack) - 1 <= Cardinality(handles) /\ Cardinality(handles) \in Nat
    BY DepthBound
  <2>2. Cardinality(handles) = opened => Len(stack) = opened + 1
    BY DEF UnclosedInv
  <2>3. opened \in Nat
    BY CallIs
  <2>4. PICK c, o : c = Cardinality(handles) /\ o = opened
    OBVIOUS
  <2>5. /\ n - 1 <= c /\ c \in Nat /\ o \in Nat /\ (c = o => n = o + 1)
        /\ d = MaxOpen - n + 1 /\ n \in Nat /\ MaxOpen \in Nat
    BY <1>2, <1>3, <2>1, <2>2, <2>3, <2>4
  <2>6. c >= MaxOpen - d /\ (c = o => d = MaxOpen - o)
    BY ONLY <2>5
  <2> QED
    BY <2>4, <2>6 DEF Left
<1> QED
  BY <1>2, <1>5, <1>9, <1>10, <1>11

(* ... and after it, where an input has too many arguments.                *)
LEMMA HandAfter ==
  ASSUME TypeInv, FateInv, opened <= MaxOpen, glpError, pc = "args", ~LoopEnds(Current)
  PROVE  /\ Current.args[Current.i] \in Item /\ Current.i = 1
         /\ \E d \in 0..MaxOpen, w, y \in Seq(Written) :
              /\ Free(w) /\ Left(d)
              /\ InHand(Current.args[Current.i], Begun[d], w, Is("bad") \o y)
<1>1. Current \in CallType /\ stack # <<>>
  BY BumpedMoves DEF TypeInv, InCall
<1>2. PICK s, i : s = Current.args /\ i = Current.i
  OBVIOUS
<1>3. i = 1 /\ s \in Seq(Item) /\ s # <<>> /\ s[1] \in Item /\ Head(s) = s[1]
  <2>1. s \in Seq(Item) /\ i \in Nat \ {0} /\ ~(i > Len(s)) /\ ~(i > 1)
    BY <1>1, <1>2 DEF LoopEnds, CallType
  <2>2. i = 1 /\ 1 \in DOMAIN s
    BY ONLY <2>1
  <2> QED
    BY <2>1, <2>2
<1>4. PICK d, w, y : Begins(s, d, w, y) /\ Left(d)
  BY <1>2, <1>3 DEF FateInv
<1>5. d \in 0..MaxOpen /\ w \in Seq(Written) /\ y \in Seq(Written) /\ Free(w)
      /\ AsWritten = w \o (FirstIn(s, d) \o (Is("bad") \o y))
  BY <1>4 DEF Begins
<1>6. ~AsksHelp(s)
  BY <1>2, <1>3 DEF FateInv
<1>7. FirstIn(s, d) = Part(s[1], Begun[d])
  BY <1>3, <1>6 DEF FirstIn, First, Part
<1>8. InHand(s[1], Begun[d], w, Is("bad") \o y)
  BY <1>5, <1>7 DEF InHand
<1> QED
  BY <1>2, <1>3, <1>4, <1>5, <1>8
(* What comes of an argument that ends the reading: no matter where.       *)
LEMMA HandStops ==
  ASSUME NEW it \in Item, NEW in, NEW w \in Seq(Written), NEW z \in Seq(Written),
         Free(w), InHand(it, in, w, z), it.op \in Stopping
  PROVE  Stop = it.op
<1>1. Part(it, in) = <<it>> /\ it \in Written
  BY IsWritten DEF Part, Stopping
<1> QED
  BY <1>1, StopIs DEF InHand, Free

(* An input that cannot be read ends it as an error.                       *)
LEMMA HandRefused ==
  ASSUME NEW it \in Item, NEW in, NEW w \in Seq(Written), NEW z \in Seq(Written),
         Free(w), InHand(it, in, w, z), it.op = "input", in[it.arg] = Is("bad")
  PROVE  Stop = "bad"
<1>1. AsWritten = w \o (Is("bad") \o z)
  BY DEF InHand, Part
<1> QED
  BY <1>1, StopsAt DEF Stopping

(* With all handles open, and no more inputs than handles, there is none   *)
(* for another input.                                                      *)
LEMMA NoneLeft ==
  ASSUME TypeInv, NEW d \in 0..MaxOpen, Left(d), opened <= MaxOpen
  PROVE  /\ Cardinality(handles) >= MaxOpen => d = 0
         /\ Cardinality(handles) < MaxOpen => d # 0
<1>1. PICK c, o : c = Cardinality(handles) /\ o = opened
  OBVIOUS
<1>2. c \in Nat /\ o \in Nat /\ c <= o /\ o <= MaxOpen /\ MaxOpen \in Nat
      /\ c >= MaxOpen - d /\ (c = o => d = MaxOpen - o)
  BY <1>1, HandlesOpened, CallIs, BoundsAssumption DEF Left
<1>3. (c >= MaxOpen => d = 0) /\ (c < MaxOpen => d # 0)
  BY ONLY <1>2, d \in 0..MaxOpen
<1> QED
  BY <1>1, <1>3

(* An argument in hand, and an error after it when it is taken.            *)
LEMMA HandFails ==
  ASSUME TypeInv, pc = "args", ~LoopEnds(Current), opened' <= MaxOpen,
         NEW it, it = Current.args[Current.i], it \in Item,
         NEW d \in 0..MaxOpen, NEW in \in {Expanded[d], Begun[d]}, NEW w \in Seq(Written),
         NEW z \in Seq(Written), Free(w), Left(d), InHand(it, in, w, z),
         Taking("bad") \/ InputMissing \/ InputShut \/ InputRefused
  PROVE  Stop = "bad"
<1>1. CASE Taking("bad")
  <2>1. it.op = "bad"
    BY <1>1 DEF Taking
  <2> QED
    BY <2>1, HandStops DEF Stopping
<1>2. CASE InputMissing \/ InputShut \/ InputRefused
  <2>1. it.op = "input" /\ Arg = it.arg
    <3>1. Taking("input")
      BY <1>2 DEF InputMissing, InputShut, InputRefused, TakingInput
    <3> QED
      BY <3>1 DEF Taking, Arg
  <2>2. Inputs[Arg].kind # "read" \/ Cardinality(handles) >= MaxOpen
    BY <1>2 DEF InputMissing, InputShut, InputRefused, TakingInput, Kinds
  <2>3. opened <= MaxOpen
    <3>1. opened' = opened \/ opened' = opened + 1
      BY <1>2 DEF InputMissing, InputShut, InputRefused, NewHandle
    <3> QED
      BY <3>1, CallIs, BoundsAssumption
  <2>4. it.arg \in DOMAIN Inputs
    BY <2>1 DEF Item
  <2>5. d = 0 \/ Inputs[it.arg].kind # "read"
    BY <2>1, <2>2, <2>3, NoneLeft
  <2>6. in[it.arg] = Is("bad")
    BY <2>4, <2>5, BegunAt
  <2> QED
    BY <2>1, <2>6, HandRefused
<1> QED
  BY <1>1, <1>2
(* All that is known before a step.                                        *)
Known == /\ TypeInv /\ AliveInv /\ HeldInv /\ CallsOpen
         /\ ReadInv /\ CourseInv /\ UnclosedInv /\ FateInv

LEMMA OpenedGrows ==
  ASSUME TypeInv, [Next]_vars
  PROVE  opened \in Nat /\ opened' \in {opened, opened + 1} /\ argp' = argp
<1>1. opened \in Nat
  BY CallIs
<1>2. CASE Usage
  BY <1>1, <1>2 DEF Usage, reading, input
<1>3. CASE Start \/ Enter
  BY <1>1, <1>3 DEF Start, Enter, reading, input
<1>4. CASE TakeSwitch \/ TakeFind \/ TakeText \/ TakeList
  BY <1>1, <1>4 DEF TakeSwitch, TakeFind, TakeText, TakeList, reading, input
<1>5. CASE InputMissing \/ InputShut \/ InputRefused \/ InputHollow \/ InputRead
  BY <1>1, <1>5 DEF InputMissing, InputShut, InputRefused, InputHollow, InputRead, NewHandle,
                    input
<1>6. CASE EndOfInput \/ EndOfArgs
  BY <1>1, <1>6 DEF EndOfInput, EndOfArgs, reading, input
<1>7. CASE MainFails \/ MainGoesOn \/ Search \/ SearchFails \/ PgmExit \/ UNCHANGED vars
  BY <1>1, <1>7 DEF MainFails, MainGoesOn, Search, SearchFails, PgmExit, vars, reading, input
<1> QED
  BY <1>1, <1>2, <1>3, <1>4, <1>5, <1>6, <1>7
     DEF Next, StartWithout, EnterHelp, TakeVersion

LEMMA PastFirst ==
  ASSUME TypeInv, pc = "args", stack' = Bumped
  PROVE  Current'.i > 1
<1>1. PICK n, b : n = Len(stack) /\ b = Bumped
  OBVIOUS
<1>2. stack # <<>>
  BY DEF TypeInv, InCall
<1>3. /\ n \in Nat \ {0} /\ Current = stack[n] /\ Current \in CallType
      /\ b \in Seq(CallType) /\ Len(b) = n /\ b[n].i = stack[n].i + 1
  BY <1>1, <1>2, BumpedMoves
<1>4. Current' = b[n]
  BY <1>1, <1>3 DEF Current, Last
<1>5. PICK i, j : i = stack[n].i /\ j = b[n].i
  OBVIOUS
<1>6. i \in Nat \ {0} /\ j = i + 1
  BY <1>3, <1>5 DEF CallType
<1>7. j > 1
  BY ONLY <1>6
<1> QED
  BY <1>4, <1>5, <1>7

(* An argument, or an input, that is refused.                              *)
LEMMA RefusedIsBad ==
  ASSUME Known, opened' <= MaxOpen, opened <= MaxOpen,
         Taking("bad") \/ InputMissing \/ InputShut \/ InputRefused
  PROVE  Stop = "bad"
<1>1. pc = "args" /\ ~LoopEnds(Current)
  <2>1. Taking("bad") \/ Taking("input")
    BY DEF InputMissing, InputShut, InputRefused, TakingInput
  <2> QED
    BY <2>1 DEF Taking
<1>2. PICK it : it = Current.args[Current.i]
  OBVIOUS
<1>3. \E d \in 0..MaxOpen, w, z \in Seq(Written) :
        /\ it \in Item /\ Free(w) /\ Left(d)
        /\ InHand(it, Expanded[d], w, z) \/ InHand(it, Begun[d], w, z)
  <2>1. CASE ~glpError
    <3>1. PICK d \in 0..MaxOpen, w, z \in Seq(Written) :
            it \in Item /\ Free(w) /\ Left(d) /\ InHand(it, Expanded[d], w, z)
      BY <1>1, <1>2, <2>1, HandBefore DEF Known
    <3> QED
      BY <3>1
  <2>2. CASE glpError
    <3>1. PICK d \in 0..MaxOpen, w, y \in Seq(Written) :
            it \in Item /\ Free(w) /\ Left(d) /\ InHand(it, Begun[d], w, Is("bad") \o y)
      BY <1>1, <1>2, <2>2, HandAfter DEF Known
    <3>2. Is("bad") \o y \in Seq(Written)
      BY IsWritten, Joined DEF Ops
    <3> QED
      BY <3>1, <3>2
  <2> QED
    BY <2>1, <2>2
<1>4. PICK d \in 0..MaxOpen, w, z \in Seq(Written) :
        /\ it \in Item /\ Free(w) /\ Left(d)
        /\ InHand(it, Expanded[d], w, z) \/ InHand(it, Begun[d], w, z)
  BY <1>3
<1>5. PICK in \in {Expanded[d], Begun[d]} : InHand(it, in, w, z)
  BY <1>4
<1> QED
  BY <1>1, <1>2, <1>4, <1>5, HandFails DEF Known
(* After an error, an argument that does not end the reading leads to it.  *)
LEMMA OtherThenBad ==
  ASSUME Known, opened <= MaxOpen, glpError, pc = "args", ~LoopEnds(Current),
         Current.args[Current.i].op \notin Stopping,
         \/ Current.args[Current.i].op # "input"
         \/ /\ Current.args[Current.i].op = "input"
            /\ Inputs[Arg].kind = "read" /\ Cardinality(handles) < MaxOpen
            /\ Inputs[Arg].items = <<>>
  PROVE  Stop = "bad"
<1>1. PICK it : it = Current.args[Current.i]
  OBVIOUS
<1>2. PICK d \in 0..MaxOpen, w, y \in Seq(Written) :
        it \in Item /\ Free(w) /\ Left(d) /\ InHand(it, Begun[d], w, Is("bad") \o y)
  BY <1>1, HandAfter DEF Known
<1>3. PICK x : x = Part(it, Begun[d])
  OBVIOUS
<1>4. AsWritten = w \o (x \o (Is("bad") \o y))
  BY <1>2, <1>3 DEF InHand
<1>5. x \in Seq(Written) /\ Free(x)
  <2>1. CASE it.op # "input"
    <3>1. x = <<it>> /\ it \in Written
      BY <1>2, <1>3, <2>1, IsWritten DEF Part
    <3>2. DOMAIN x = {1} /\ x[1] = it /\ x \in Seq(Written)
      BY <3>1
    <3> QED
      BY <1>1, <3>2 DEF Free
  <2>2. CASE it.op = "input"
    <3>1. Inputs[it.arg].kind = "read" /\ Inputs[it.arg].items = <<>>
          /\ Cardinality(handles) < MaxOpen
      BY <1>1, <2>2 DEF Arg
    <3>2. d # 0 /\ it.arg \in DOMAIN Inputs
      BY <1>2, <2>2, <3>1, NoneLeft DEF Known, Item
    <3>3. Begun[d][it.arg] = FirstIn(ArgsOf(it.arg), d - 1)
      BY <3>1, <3>2, BegunAt
    <3>4. ArgsOf(it.arg) = <<>>
      <4>1. ~TooMany(it.arg)
        <5>1. Len(<<>>) = 0 /\ MXARGS - 1 > 0
          BY BoundsAssumption
        <5>2. ~(Len(<<>>) >= MXARGS - 1)
          BY <5>1, BoundsAssumption
        <5> QED
          BY <3>1, <5>2 DEF TooMany
      <4> QED
        BY <3>1, <4>1 DEF ArgsOf
    <3>5. x = <<>>
      <4>1. FirstIn(<<>>, d - 1) = <<>>
        BY DEF FirstIn, First, AsksHelp
      <4>2. x = Begun[d][it.arg]
        BY <1>3, <2>2 DEF Part
      <4> QED
        BY <3>3, <3>4, <4>1, <4>2
    <3> QED
      BY <3>5 DEF Free
  <2> QED
    BY <2>1, <2>2
<1> QED
  BY <1>2, <1>4, <1>5, BadAfter

(* The version is asked for, before an error or as the first argument of   *)
(* an input with too many.                                                 *)
LEMMA VersionStops ==
  ASSUME Known, opened <= MaxOpen, Taking("version")
  PROVE  Stop = "version"
<1>1. PICK it : it = Current.args[Current.i]
  OBVIOUS
<1>2. pc = "args" /\ ~LoopEnds(Current) /\ it.op = "version" /\ it.op \in Stopping
  BY <1>1 DEF Taking, Stopping
<1>3. CASE ~glpError
  <2>1. PICK d \in 0..MaxOpen, w, z \in Seq(Written) :
          it \in Item /\ Free(w) /\ InHand(it, Expanded[d], w, z)
    BY <1>1, <1>2, <1>3, HandBefore DEF Known
  <2> QED
    BY <1>2, <2>1, HandStops
<1>4. CASE glpError
  <2>1. PICK d \in 0..MaxOpen, w, y \in Seq(Written) :
          it \in Item /\ Free(w) /\ InHand(it, Begun[d], w, Is("bad") \o y)
    BY <1>1, <1>2, <1>4, HandAfter DEF Known
  <2>2. Is("bad") \o y \in Seq(Written)
    BY IsWritten, Joined DEF Ops
  <2> QED
    BY <1>2, <2>1, <2>2, HandStops
<1> QED
  BY <1>3, <1>4

(* Help is asked for by any argument of a call that begins.                *)
LEMMA HelpStops ==
  ASSUME Known, opened <= MaxOpen, EnterHelp
  PROVE  Stop = "help"
<1>1. pc = "enter" /\ AsksHelp(Current.args) /\ stack # <<>> /\ Current.i = 1
  BY DEF EnterHelp, Known, TypeInv, InCall, CourseInv
<1>2. CASE ~glpError
  <2>1. PICK pre \in Before : Reading(stack, pre) /\ Taken(SoFar(stack, pre))
    BY <1>1, <1>2 DEF Known, ReadInv, Reads
  <2>2. PICK n, c, w : n = Len(stack) /\ c = Current /\ w = pre[n]
    OBVIOUS
  <2>3. n \in Nat \ {0} /\ n \in 1..n /\ stack \in Seq(CallType) /\ c = stack[n] /\ c \in CallType
    BY <1>1, <2>2, BumpedMoves DEF Known
  <2>4. n \in 1..MaxOpen + 1
    <3>1. n - 1 <= Cardinality(handles) /\ Cardinality(handles) \in Nat
          /\ Cardinality(handles) <= MaxOpen /\ MaxOpen \in Nat
      BY <1>1, <1>2, <2>2, DepthBound, BoundsAssumption DEF Known, CallsOpen
    <3> QED
      BY <2>3, <3>1
  <2>5. w \in Seq(Written) /\ Told(w, c.args, n)
    BY <2>1, <2>2, <2>3, <2>4, Ahead DEF Before
  <2>6. PICK z \in Seq(Written) : AsWritten = w \o (Is("help") \o z)
    BY <1>1, <2>2, <2>5 DEF Told, Flat
  <2>7. Free(w)
    <3>1. SoFar(stack, pre) = w
      <4>1. c.i = 1 /\ c.i - 1 = 0 /\ c.args \in Seq(Item)
        BY <1>1, <2>2, <2>3 DEF CallType
      <4>2. UpTo(c.args, ReadAt(n))[0] = <<>>
        BY <2>4, <4>1, ReadAtType, UpToIs
      <4>3. SoFar(stack, pre) = w \o <<>>
        BY <2>2, <2>3, <4>1, <4>2 DEF SoFar, With
      <4> QED
        BY <2>5, <4>3
    <3> QED
      BY <2>1, <3>1 DEF Taken, Free
  <2> QED
    BY <2>5, <2>6, <2>7, StopsAt DEF Stopping
<1>3. CASE glpError
  <2>1. PICK d, w, y : Begins(Current.args, d, w, y)
    BY <1>1, <1>3 DEF Known, FateInv
  <2>2. w \in Seq(Written) /\ Free(w) /\ Is("bad") \o y \in Seq(Written)
    BY <2>1, IsWritten, Joined DEF Begins, Ops
  <2>3. AsWritten = w \o (Is("help") \o (Is("bad") \o y))
    BY <1>1, <2>1 DEF Begins, FirstIn
  <2> QED
    BY <2>2, <2>3, StopsAt DEF Stopping
<1> QED
  BY <1>2, <1>3
(* The arguments end after an error: it was in them, and not in those that *)
(* are left.                                                               *)
LEMMA EndIsBad ==
  ASSUME Known, opened <= MaxOpen, glpError, pc = "args", LoopEnds(Current)
  PROVE  Stop = "bad"
<1>1. CASE Stop = "bad"
  BY <1>1
<1>2. CASE Stop # "bad"
  <2>1. PICK d, w, y : Begins(Current.args, d, w, y) /\ Current.i = 1
                       /\ ~AsksHelp(Current.args)
    BY <1>2 DEF Known, FateInv
  <2>2. Current.args = <<>>
    <3>1. Current \in CallType
      BY BumpedMoves DEF Known, TypeInv, InCall
    <3>2. PICK s : s = Current.args
      OBVIOUS
    <3>3. s \in Seq(Item) /\ 1 > Len(s)
      BY <2>1, <3>1, <3>2 DEF CallType, LoopEnds
    <3>4. s = <<>>
      BY ONLY <3>3
    <3> QED
      BY <3>2, <3>4
  <2>3. FirstIn(<<>>, d) = <<>>
    BY DEF FirstIn, First, AsksHelp
  <2>4. AsWritten = w \o (<<>> \o (Is("bad") \o y)) /\ w \in Seq(Written) /\ y \in Seq(Written)
        /\ Free(w)
    BY <2>1, <2>2, <2>3 DEF Begins
  <2>5. <<>> \in Seq(Written) /\ Free(<<>>)
    BY DEF Free
  <2>6. PICK e : e = <<>>
    OBVIOUS
  <2>7. e \in Seq(Written) /\ Free(e) /\ AsWritten = w \o (e \o (Is("bad") \o y))
    BY <2>4, <2>5, <2>6
  <2> QED
    BY <2>4, <2>7, BadAfter
<1> QED
  BY <1>1, <1>2

ThenBad(b, w, y) == AsWritten = w \o (b \o (Is("bad") \o y))

(* An input is given to ProcessArgs, after an error or with too many       *)
(* arguments: what it begins with is next, and then an error.              *)
LEMMA InputBegins ==
  ASSUME Known, opened' <= MaxOpen, opened <= MaxOpen, InputRead, glpError'
  PROVE  \E d, w, y : Begins(ArgsOf(Arg), d, w, y) /\ Left(d)'
<1>1. /\ pc = "args" /\ ~LoopEnds(Current) /\ Current.args[Current.i].op = "input"
      /\ Inputs[Arg].kind = "read" /\ Cardinality(handles) < MaxOpen
      /\ glpError' = (glpError \/ TooMany(Arg))
      /\ opened' = opened + 1 /\ handles' = handles \cup {NewHandle}
  BY DEF InputRead, TakingInput, Taking, NewHandle
<1>2. PICK it, v : it = Current.args[Current.i] /\ v = it.arg
  OBVIOUS
<1>3. v = Arg /\ it.op = "input"
  BY <1>1, <1>2 DEF Arg
<1>4. \E d \in 0..MaxOpen, w, y \in Seq(Written) :
        /\ it \in Item /\ Free(w) /\ Left(d)
        /\ d # 0 => ThenBad(Begun[d][v], w, y)
  <2>1. CASE ~glpError
    <3>1. PICK d \in 0..MaxOpen, w, z \in Seq(Written) :
            it \in Item /\ Free(w) /\ Left(d) /\ InHand(it, Expanded[d], w, z)
      BY <1>1, <1>2, <2>1, HandBefore DEF Known
    <3>2. ASSUME d # 0 PROVE ThenBad(Begun[d][v], w, z)
      <4>1. v \in DOMAIN Inputs
        BY <1>2, <1>3, <3>1 DEF Item
      <4>2. Expanded[d][v] = Begun[d][v] \o Is("bad")
        BY <1>1, <1>3, <2>1, <3>2, <4>1, BegunAt
      <4>3. PICK f, b : f = Begun[d][v] /\ b = Is("bad")
        OBVIOUS
      <4>4. f \in Seq(Written) /\ b \in Seq(Written)
        BY <4>1, <4>3, BegunIs, IsWritten DEF Ops
      <4>5. (f \o b) \o z = f \o (b \o z)
        BY <4>4, Joined
      <4>6. Part(it, Expanded[d]) = f \o b
        BY <1>2, <1>3, <4>2, <4>3 DEF Part
      <4>7. AsWritten = w \o ((f \o b) \o z)
        BY <3>1, <4>6, Zenon DEF InHand
      <4> QED
        BY <4>3, <4>5, <4>7 DEF ThenBad
    <3> QED
      BY <3>1, <3>2
  <2>2. CASE glpError
    <3>1. PICK d \in 0..MaxOpen, w, y \in Seq(Written) :
            it \in Item /\ Free(w) /\ Left(d) /\ InHand(it, Begun[d], w, Is("bad") \o y)
      BY <1>1, <1>2, <2>2, HandAfter DEF Known
    <3>2. Part(it, Begun[d]) = Begun[d][v]
      BY <1>2, <1>3 DEF Part
    <3>3. ThenBad(Begun[d][v], w, y)
      BY <3>1, <3>2, Zenon DEF InHand, ThenBad
    <3> QED
      BY <3>1, <3>3
  <2> QED
    BY <2>1, <2>2
<1>5. PICK d \in 0..MaxOpen, w, y \in Seq(Written) :
        /\ it \in Item /\ Free(w) /\ Left(d)
        /\ d # 0 => ThenBad(Begun[d][v], w, y)
  BY <1>4
<1>6. d # 0 /\ v \in DOMAIN Inputs
  BY <1>1, <1>2, <1>3, <1>5, NoneLeft DEF Known, Item
<1>7. d - 1 \in 0..MaxOpen /\ Begun[d][v] = FirstIn(ArgsOf(v), d - 1)
  BY <1>1, <1>3, <1>6, BegunAt
<1>8. Begins(ArgsOf(Arg), d - 1, w, y)
  BY <1>3, <1>5, <1>6, <1>7 DEF Begins, ThenBad
<1>9. Left(d - 1)'
  <2>1. Cardinality(handles') = Cardinality(handles) + 1
    BY <1>1, OneHandleMore DEF Known
  <2>2. PICK c, o, m : c = Cardinality(handles) /\ o = opened /\ m = MaxOpen
    OBVIOUS
  <2>3. c \in Nat /\ o \in Nat /\ m \in Nat /\ d \in Nat /\ c >= m - d /\ (c = o => d = m - o)
    BY <1>5, <2>2, HandlesOpened, CallIs, BoundsAssumption DEF Left, Known
  <2>4. c + 1 >= m - (d - 1) /\ (c + 1 = o + 1 => d - 1 = m - (o + 1))
    BY ONLY <2>3
  <2> QED
    BY <1>1, <2>1, <2>2, <2>4 DEF Left
<1> QED
  BY <1>8, <1>9
(* What a step leads to, by where it leads.                                *)
LEMMA NoErrorYet == pc' \in {"start", "enter", "args"} /\ ~glpError' => FateInv'
BY DEF FateInv

LEMMA BadSoFar ==
  ASSUME Known, pc = "args", pc' = "args", stack' = Bumped, Stop' = "bad"
  PROVE  FateInv'
<1>1. Current'.i > 1
  BY PastFirst DEF Known
<1> QED
  BY <1>1 DEF FateInv

LEMMA LeavesWell ==
  ASSUME pc' = "exit", iCritErr' = 0, gdwFinds' = 0,
         argp' = <<>> \/ Stop' \in {"help", "version"}
  PROVE  FateInv'
BY DEF FateInv

LEMMA AsWrittenExits ==
  ASSUME Known, opened <= MaxOpen, PgmExit
  PROVE  FateInv'
<1>1. /\ pc = "exit" /\ pc' \in {"start", "end"} /\ argp' = argp /\ gdwFinds' = gdwFinds
      /\ iRetVal' = IF iCritErr # 0 THEN iCritErr ELSE gdwFinds
  BY DEF PgmExit, input
<1>2. pc' # "start"
  BY DEF PgmExit, LongJmp
<1>3. AsWritten' = AsWritten /\ Stop' = Stop
  BY <1>1, StopStays
<1>4. FindsOf(AsWritten)' = FindsOf(AsWritten)
  BY <1>3 DEF FindsOf, ArgsAt, Positional, IsFirst
<1>5. CASE iCritErr = 0 /\ gdwFinds = 0 /\ (argp = <<>> \/ Stop \in {"help", "version"})
  <2>1. iRetVal' = 0
    BY <1>1, <1>5
  <2>2. ExitAsWritten'
    BY <1>1, <1>3, <1>5, <2>1 DEF ExitAsWritten
  <2> QED
    BY <1>1, <1>2, <2>2 DEF FateInv
<1>6. CASE iCritErr = 0 /\ argp # <<>> /\ Stop = "none" /\ FindsOf(AsWritten) # <<>>
  <2>1. iRetVal' = gdwFinds'
    BY <1>1, <1>6
  <2>2. argp' # <<>> /\ Stop' = "none" /\ FindsOf(AsWritten)' # <<>>
    BY <1>1, <1>3, <1>4, <1>6
  <2>3. ExitAsWritten'
    BY <2>1, <2>2 DEF ExitAsWritten
  <2> QED
    BY <1>1, <1>2, <2>3 DEF FateInv
<1>7. CASE iCritErr = GEN_ERROR /\ argp # <<>> /\ Stop \in {"none", "bad"}
  <2>1. iRetVal' = GEN_ERROR
    BY <1>1, <1>7 DEF GEN_ERROR
  <2>2. argp' # <<>> /\ Stop' \in {"none", "bad"}
    BY <1>1, <1>3, <1>7
  <2>3. ExitAsWritten'
    BY <2>1, <2>2 DEF ExitAsWritten
  <2> QED
    BY <1>1, <1>2, <2>3 DEF FateInv
<1> QED
  BY <1>1, <1>5, <1>6, <1>7 DEF Known, FateInv

LEMMA NextFate == Known /\ [Next]_vars => FateInv'
<1> SUFFICES ASSUME Known, [Next]_vars, opened' <= MaxOpen PROVE FateInv'
  BY DEF FateInv
<1>1. opened <= MaxOpen /\ argp' = argp /\ AsWritten' = AsWritten /\ Stop' = Stop
  <2>1. opened \in Nat /\ opened' \in {opened, opened + 1} /\ argp' = argp
    BY OpenedGrows DEF Known
  <2>2. opened <= MaxOpen
    BY <2>1, BoundsAssumption
  <2> QED
    BY <2>1, <2>2, StopStays
<1>2. CASE Start
  BY <1>2, NoErrorYet DEF Start, Known, CourseInv
<1>3. CASE StartWithout
  <2>1. pc = "start" /\ argp = <<>> /\ pc' = "exit" /\ UNCHANGED result
    BY <1>3 DEF StartWithout, Usage
  <2> QED
    BY <1>1, <2>1, LeavesWell DEF Known, CourseInv, result
<1>4. CASE EnterHelp
  <2>1. pc = "enter" /\ pc' = "exit" /\ UNCHANGED result /\ Stop = "help"
    BY <1>1, <1>4, HelpStops DEF EnterHelp, Usage
  <2> QED
    BY <1>1, <2>1, LeavesWell DEF Known, CourseInv, result
<1>5. CASE TakeVersion
  <2>1. pc = "args" /\ pc' = "exit" /\ UNCHANGED result /\ Stop = "version"
    BY <1>1, <1>5, VersionStops DEF TakeVersion, Taking, Usage
  <2> QED
    BY <1>1, <2>1, LeavesWell DEF Known, CourseInv, result
<1>6. CASE Enter
  <2>1. /\ pc = "enter" /\ pc' = "args" /\ ~AsksHelp(Current.args) /\ Current.i = 1
        /\ stack' = stack /\ glpError' = glpError /\ UNCHANGED reading
    BY <1>6 DEF Enter, Known, CourseInv
  <2>2. CASE glpError
    <3>1. PICK d, w, y : Begins(Current.args, d, w, y) /\ Left(d)
      BY <1>1, <2>1, <2>2 DEF Known, FateInv
    <3>2. PICK s : s = Current.args
      OBVIOUS
    <3>3. Begins(s, d, w, y)
      BY <3>1, <3>2
    <3>4. Begins(s, d, w, y)' /\ Left(d)'
      BY <1>1, <2>1, <3>1, <3>3 DEF Begins, Left, reading
    <3>5. Current'.args = s /\ Current'.i = 1 /\ ~AsksHelp(s)
      BY <2>1, <3>2 DEF Current
    <3>6. Begins(Current.args, d, w, y)'
      BY <3>4, <3>5 DEF Begins
    <3> QED
      BY <2>1, <3>4, <3>5, <3>6 DEF FateInv
  <2> QED
    BY <2>1, <2>2, NoErrorYet
<1>7. CASE Taking("bad") /\ TakeSwitch
  <2>1. pc = "args" /\ pc' = "args" /\ stack' = Bumped /\ Stop = "bad"
    BY <1>1, <1>7, RefusedIsBad DEF TakeSwitch, Taking
  <2> QED
    BY <1>1, <2>1, BadSoFar
<1>8. CASE InputMissing \/ InputShut \/ InputRefused
  <2>1. pc' = pc /\ stack' = Bumped /\ Stop = "bad"
    BY <1>1, <1>8, RefusedIsBad DEF InputMissing, InputShut, InputRefused
  <2>2. pc = "args"
    BY <1>8 DEF InputMissing, InputShut, InputRefused, TakingInput, Taking
  <2> QED
    BY <1>1, <2>1, <2>2, BadSoFar
<1>9. CASE (~Taking("bad") /\ TakeSwitch) \/ TakeFind \/ TakeText \/ TakeList \/ InputHollow
  <2>1. pc' = pc /\ stack' = Bumped /\ glpError' = glpError
    BY <1>9 DEF TakeSwitch, TakeFind, TakeText, TakeList, InputHollow
  <2>2. pc = "args" /\ ~LoopEnds(Current)
    BY <1>9 DEF TakeSwitch, TakeFind, TakeText, TakeList, InputHollow, TakingInput, Taking
  <2>3. CASE glpError
    <3>1. PICK op : op = Current.args[Current.i].op
      OBVIOUS
    <3>2. CASE InputHollow
      <4>1. op = "input" /\ op \notin Stopping /\ Inputs[Arg].kind = "read"
            /\ Cardinality(handles) < MaxOpen /\ Inputs[Arg].items = <<>>
        BY <3>1, <3>2 DEF InputHollow, TakingInput, Taking, Stopping
      <4>2. Stop = "bad"
        BY <1>1, <2>2, <2>3, <3>1, <4>1, OtherThenBad
      <4> QED
        BY <1>1, <2>1, <2>2, <4>2, BadSoFar
    <3>3. CASE ~InputHollow
      <4>1. op \in {"switch", "out", "find", "text", "blank", "list"}
        BY <1>9, <3>1, <3>3 DEF TakeSwitch, TakeFind, TakeText, TakeList, Taking
      <4>2. op # "input" /\ op \notin Stopping
        BY <4>1 DEF Stopping
      <4>3. Stop = "bad"
        BY <1>1, <2>2, <2>3, <3>1, <4>2, OtherThenBad
      <4> QED
        BY <1>1, <2>1, <2>2, <4>3, BadSoFar
    <3> QED
      BY <3>2, <3>3
  <2> QED
    BY <2>1, <2>2, <2>3, NoErrorYet
<1>10. CASE InputRead
  <2>1. /\ pc = "args" /\ pc' = "enter"
        /\ stack' = Append(Bumped, Call(ArgsOf(Arg), NewHandle, gdwGFCnt))
    BY <1>10 DEF InputRead, TakingInput, Taking
  <2>2. CASE glpError'
    <3>1. PICK d, w, y : Begins(ArgsOf(Arg), d, w, y) /\ Left(d)'
      BY <1>1, <1>10, <2>2, InputBegins
    <3>2. PICK s, b, n, g : s = ArgsOf(Arg) /\ b = Bumped /\ n = NewHandle /\ g = gdwGFCnt
      OBVIOUS
    <3>3. Begins(s, d, w, y)'
      BY <1>1, <3>1, <3>2 DEF Begins
    <3>4. Current' = Call(s, n, g)
      <4>1. b \in Seq(CallType)
        BY <2>1, <3>2, BumpedMoves DEF Known, TypeInv, InCall
      <4>2. stack' = Append(b, Call(s, n, g))
        BY <2>1, <3>2
      <4>3. PICK c : c = Call(s, n, g)
        OBVIOUS
      <4>4. Len(Append(b, c)) = Len(b) + 1 /\ Append(b, c)[Len(b) + 1] = c
        BY ONLY <4>1
      <4> QED
        BY <4>2, <4>3, <4>4 DEF Current, Last
    <3>5. Current'.args = s /\ Current'.i = 1
      BY <3>4 DEF Call
    <3>6. Begins(Current.args, d, w, y)'
      BY <3>3, <3>5 DEF Begins
    <3> QED
      BY <2>1, <3>1, <3>5, <3>6 DEF FateInv
  <2> QED
    BY <2>1, <2>2, NoErrorYet
<1>11. CASE EndOfInput
  <2>1. /\ pc = "args" /\ pc' = "args" /\ glpError' = glpError /\ Len(stack) > 1
        /\ LoopEnds(Current) /\ stack' = Front(stack)
    BY <1>11 DEF EndOfInput
  <2>2. CASE glpError
    <3>1. Stop = "bad"
      BY <1>1, <2>1, <2>2, EndIsBad
    <3>2. Current'.i > 1
      <4>1. PICK s, n : s = stack /\ n = Len(s)
        OBVIOUS
      <4>2. s \in Seq(CallType) /\ n \in Nat /\ n > 1
            /\ \A k \in 1..n : k < n => s[k].i > 1
        BY <2>1, <4>1, CallIs DEF Known, HeldInv, CallsStand
      <4>3. Len(Front(s)) = n - 1 /\ Front(s)[n - 1] = s[n - 1]
        BY <4>1, <4>2 DEF Front
      <4>4. n - 1 \in 1..n /\ n - 1 < n
        BY ONLY <4>2
      <4>5. Current' = s[n - 1]
        BY <2>1, <4>1, <4>3 DEF Current, Last
      <4> QED
        BY <4>2, <4>4, <4>5
    <3> QED
      BY <1>1, <2>1, <3>1, <3>2 DEF FateInv
  <2> QED
    BY <2>1, <2>2, NoErrorYet
<1>12. CASE EndOfArgs
  <2>1. pc = "args" /\ pc' = "main" /\ glpError' = glpError /\ LoopEnds(Current)
    BY <1>12 DEF EndOfArgs
  <2>2. glpError => Stop' = "bad"
    BY <1>1, <2>1, EndIsBad
  <2> QED
    BY <2>1, <2>2 DEF FateInv
<1>13. CASE MainFails
  <2>1. pc = "main" /\ pc' = "exit" /\ iCritErr' = GEN_ERROR /\ argp # <<>>
    BY <1>13 DEF MainFails, ErrorExit, Known, CourseInv
  <2>2. Stop \in {"none", "bad"}
    <3>1. CASE glpError
      BY <1>1, <2>1, <3>1 DEF Known, FateInv
    <3>2. CASE ~glpError
      <4>1. Stops = {}
        BY <2>1, <3>2 DEF Known, ReadInv, Reads, Taken, Stops
      <4> QED
        BY <4>1 DEF Stop
    <3> QED
      BY <3>1, <3>2
  <2> QED
    BY <1>1, <2>1, <2>2 DEF FateInv
<1>14. CASE MainGoesOn
  BY <1>14 DEF MainGoesOn, FateInv
<1>15. CASE Search \/ SearchFails
  <2>1. pc = "search" /\ pc' = "exit" /\ argp # <<>> /\ Stop = "none" /\ iCritErr = 0
    BY <1>15 DEF Search, SearchFails, ErrorExit, Known, CourseInv, ReadInv, ItemsTaken
  <2>2. CASE SearchFails
    <3>1. iCritErr' = GEN_ERROR
      BY <2>2 DEF SearchFails, ErrorExit
    <3> QED
      BY <1>1, <2>1, <3>1 DEF FateInv
  <2>3. CASE Search
    <3>1. iCritErr' = 0
      BY <2>1, <2>3 DEF Search
    <3>2. FindsOf(AsWritten) # <<>>
      BY <2>1 DEF Known, CourseInv, ReadInv, ItemsTaken
    <3>3. FindsOf(AsWritten)' # <<>>
      BY <1>1, <3>2 DEF FindsOf, ArgsAt, Positional, IsFirst
    <3> QED
      BY <1>1, <2>1, <3>1, <3>3 DEF FateInv
  <2> QED
    BY <1>15, <2>2, <2>3
<1>16. CASE PgmExit
  BY <1>1, <1>16, AsWrittenExits
<1>17. CASE UNCHANGED vars
  <2>1. /\ pc' = pc /\ stack' = stack /\ glpError' = glpError /\ UNCHANGED reading
        /\ UNCHANGED result
    BY <1>17 DEF vars
  <2>2. FateInv
    BY DEF Known
  <2>3. FindsOf(AsWritten)' = FindsOf(AsWritten)
    BY <1>1 DEF FindsOf, ArgsAt, Positional, IsFirst
  <2>4. ExitAsWritten => ExitAsWritten'
    BY <1>1, <2>1, <2>3 DEF ExitAsWritten, reading, result
  <2>5. \A d, w, y : Begins(Current.args, d, w, y) /\ Left(d) =>
                       Begins(Current.args, d, w, y)' /\ Left(d)'
    BY <1>1, <2>1 DEF Begins, Left, Current, reading
  <2>6. Current' = Current
    BY <2>1 DEF Current
  <2> QED
    BY <1>1, <2>1, <2>2, <2>3, <2>4, <2>5, <2>6 DEF FateInv, reading, result
<1> QED
  BY <1>2, <1>3, <1>4, <1>5, <1>6, <1>7, <1>8, <1>9, <1>10, <1>11, <1>12, <1>13, <1>14, <1>15,
     <1>16, <1>17 DEF Next

(* What the program returns is what was written.                           *)
THEOREM ExitFollows == Spec => []ExitAsWritten
<1>1. Init => Known
  BY InitType, InitAlive, InitHeld, InitOpen, InitRead, InitCourse, InitUnclosed, InitFate
     DEF Known
<1>2. Known /\ [Next]_vars => Known'
  BY NextType, NextAlive, NextHeld, NextOpen, NextRead, NextCourse, NextUnclosed, NextFate
     DEF Known
<1>3. TypeInv /\ FateInv => ExitAsWritten
  BY DEF FateInv, ExitAsWritten
<1> QED
  BY <1>1, <1>2, <1>3, PTL DEF Spec, Known
=============================================================================
