---------------------------- MODULE FileWalk_proofs ----------------------------
(***************************************************************************)
(* Proofs about the walk over the files, for every file system, mask list, *)
(* set of switches, exclusion and number of faults: the types, the counts, *)
(* the map, that all that is wanted is searched, what a fault costs, and   *)
(* that in a tree nothing is searched twice.  The invariants say what the  *)
(* stack of directories being read, and the entries they still hold, owe   *)
(* to what has been searched.                                              *)
(* The second part is about WildMatch: for every mask, name, text of -X,   *)
(* file of excludes and path, and whatever the buffers of the compare hold *)
(* from before, what is taken and what is left out is what the masks say.  *)
(***************************************************************************)
EXTENDS FileWalk, WildMatch, FA4Lemmas

LEMMA InitType == Init => TypeOK
<1> SUFFICES ASSUME Init PROVE TypeOK
  OBVIOUS
<1>1. masks \in Seq(WalkMask) /\ 0 \in 0..Len(masks)
  BY MasksAssumption DEF Init
<1>2. stack \in Seq(Frame) /\ g_sFailList \in Seq(Files)
        /\ searched \in Seq(Nat \X Files)
  BY DEF Init
<1> QED
  BY <1>1, <1>2, FaultsAssumption DEF Init, TypeOK, Nodes

(* What readdir leaves: the frames are frames, the innermost of them with  *)
(* one entry less, and the path is that of a node of the tree.             *)
LEMMA TakeEntryType ==
  ASSUME TypeOK, Reading, TakeEntry
  PROVE  /\ stack' \in Seq(Frame) /\ stack' # <<>>
         /\ Len(stack') = Len(stack)
         /\ glpActive' \in Nodes /\ glpActive' = Entry
         /\ Listing \in Frame
<1> DEFINE l == Len(stack)
<1>1. stack \in Seq(Frame) /\ stack # <<>> /\ l \in 1..Len(stack)
  BY DEF TypeOK, Reading
<1>2. stack[l] \in Frame
  BY <1>1
<1>3. stack[l].todo \in Seq(Nodes) /\ stack[l].todo # <<>>
  BY <1>2 DEF Frame, Reading, Listing
<1>4. Tail(stack[l].todo) \in Seq(Nodes) /\ Head(stack[l].todo) \in Nodes
  BY <1>3
<1>5. [stack[l] EXCEPT !.todo = Tail(@)] \in Frame
  BY <1>2, <1>4 DEF Frame
<1>6. stack' = [stack EXCEPT ![l] = [stack[l] EXCEPT !.todo = Tail(@)]]
  BY DEF TakeEntry
<1>7. stack' \in Seq(Frame) /\ Len(stack') = Len(stack)
  BY <1>1, <1>5, <1>6
<1> QED
  BY <1>1, <1>2, <1>4, <1>7 DEF TakeEntry, Entry, Listing

LEMMA NextType == TypeOK /\ [Next]_vars => TypeOK'
<1> SUFFICES ASSUME TypeOK, [Next]_vars PROVE TypeOK'
  OBVIOUS
<1> USE EntriesAssumption, MasksAssumption, FaultsAssumption, NodesAssumption
<1>1. CASE NextMask
  BY <1>1 DEF NextMask, TypeOK, inputs, fs, control, counts, Nodes
<1>2. CASE EndOfMasks
  BY <1>2 DEF EndOfMasks, TypeOK, inputs, fs, control, counts, Nodes
<1>3. CASE EnterSingle
  BY <1>3 DEF EnterSingle, TypeOK, NamesSingleFile, IsValidFile, inputs, fs, control, counts, Nodes
<1>4. CASE EnterDir
  <2>1. arg \in WalkMask
    BY <1>4 DEF EnterDir, TypeOK
  <2>2. Entries[arg.dir] \in Seq(Nodes)
    BY <2>1 DEF WalkMask, Nodes
  <2>3. [dir |-> arg.dir, pat |-> arg.pat, todo |-> Entries[arg.dir]] \in Frame
    BY <2>1, <2>2 DEF WalkMask, Frame
  <2>4. stack' \in Seq(Frame) /\ stack' # <<>>
    BY <1>4, <2>3 DEF EnterDir, TypeOK
  <2> QED
    BY <1>4, <2>1, <2>4 DEF EnterDir, TypeOK, inputs, fs, counts
<1>5. CASE EnterFails
  BY <1>5 DEF EnterFails, TypeOK, ReturnTo, inputs, fs, control, counts, Nodes
<1>6. CASE ReadMatch
  <2>1. /\ stack' \in Seq(Frame) /\ stack' # <<>>
        /\ glpActive' \in Nodes /\ glpActive' = Entry
    BY <1>6, TakeEntryType DEF ReadMatch
  <2> QED
    BY <1>6, <2>1
    DEF ReadMatch, TypeOK, Reading, IsValidFile, inputs, fs, counts
<1>7. CASE ReadReject
  <2>1. /\ stack' \in Seq(Frame) /\ stack' # <<>>
        /\ glpActive' \in Nodes /\ glpActive' = Entry
    BY <1>7, TakeEntryType DEF ReadReject
  <2> QED
    BY <1>7, <2>1
    DEF ReadReject, TypeOK, Reading, IsValidFile, inputs, fs, counts
<1>8. CASE ReadDir
  <2>1. /\ stack' \in Seq(Frame) /\ stack' # <<>>
        /\ glpActive' \in Nodes /\ Listing \in Frame
    BY <1>8, TakeEntryType DEF ReadDir
  <2>2. Entry \in Dirs
    BY <1>8 DEF ReadDir, IsValidDir
  <2>3. [dir |-> Entry, pat |-> Listing.pat, single |-> NoFile] \in WalkMask
    BY <2>1, <2>2 DEF Frame, WalkMask
  <2>4. /\ arg' \in WalkMask \cup {<<>>} /\ (pc' = "enter" => arg' \in WalkMask)
        /\ pc' \in {"read", "enter"} /\ g_dwDirsExcl' \in Nat
    BY <1>8, <2>3 DEF ReadDir, Reading, TypeOK
  <2> QED
    BY <1>8, <2>1, <2>4 DEF ReadDir, TypeOK, inputs, fs
<1>9. CASE ReadOther
  <2>1. /\ stack' \in Seq(Frame) /\ stack' # <<>>
        /\ glpActive' \in Nodes /\ glpActive' = Entry
    BY <1>9, TakeEntryType DEF ReadOther
  <2> QED
    BY <1>9, <2>1
    DEF ReadOther, TypeOK, Reading, IsValidFile, inputs, fs, counts
<1>10. CASE CloseDir
  BY <1>10 DEF CloseDir, TypeOK, Listing, ReturnTo, inputs, fs, control, counts, Nodes
<1>11. CASE FindExcluded
  BY <1>11 DEF FindExcluded, TypeOK, ReturnTo, inputs, fs, control, counts, Nodes
<1>12. CASE StatFails
  BY <1>12 DEF StatFails, TypeOK, MapFails, ReturnTo, inputs, fs, control, counts, Nodes
<1>13. CASE StatFile
  BY <1>13 DEF StatFile, TypeOK, inputs, fs, control, counts, Nodes
<1>14. CASE OpenFails
  BY <1>14 DEF OpenFails, TypeOK, MapFails, ReturnTo, inputs, fs, control, counts, Nodes
<1>15. CASE OpenFile
  BY <1>15 DEF OpenFile, TypeOK, IsValidFile, inputs, fs, control, counts, Nodes
<1>16. CASE BusError
  BY <1>16 DEF BusError, TypeOK, inputs, fs, control, counts, Nodes
<1>17. CASE CheckBinary
  BY <1>17 DEF CheckBinary, TypeOK, ReturnTo, inputs, fs, control, counts, Nodes
<1>18. CASE Search
  BY <1>18 DEF Search, TypeOK, ReturnTo, inputs, fs, control, counts, Nodes
<1>19. CASE SearchFails
  BY <1>19 DEF SearchFails, TypeOK, inputs, fs, control, counts, Nodes
<1>20. CASE Environment
  <2>1. present' \in SUBSET Nodes /\ empty' \in SUBSET Files
        /\ faults' \in 0..MaxFaults
    BY <1>20 DEF Environment, Vanish, Truncate, TypeOK
  <2>2. UNCHANGED <<inputs, control, mapped, counts, g_sFailList, searched>>
    BY <1>20 DEF Environment, Vanish, Truncate
  <2> QED
    BY <2>1, <2>2 DEF TypeOK, inputs, control, counts
<1>21. CASE UNCHANGED vars
  BY <1>21 DEF TypeOK, vars, inputs, fs, control, counts, Nodes
<1> QED
  BY <1>1, <1>2, <1>3, <1>4, <1>5, <1>6, <1>7, <1>8, <1>9, <1>10, <1>11, <1>12,
     <1>13, <1>14, <1>15, <1>16, <1>17, <1>18, <1>19, <1>20, <1>21
  DEF Next, Walk

(* Every variable has its type, in every state of every walk.              *)
THEOREM TypeCorrect == Spec => []TypeOK
  BY InitType, NextType, PTL DEF Spec

-----------------------------------------------------------------------------
(* The accounting of the files found, by actions.                          *)
LEMMA NextAccounted ==
  TypeOK /\ FilesAccounted /\ [Next]_vars => FilesAccounted'
<1> SUFFICES ASSUME TypeOK, FilesAccounted, [Next]_vars PROVE FilesAccounted'
  OBVIOUS
<1> USE DEF TypeOK, FilesAccounted, InHand, inputs, counts
<1>1. CASE NextMask
  BY <1>1 DEF NextMask
<1>2. CASE EndOfMasks
  BY <1>2 DEF EndOfMasks
<1>3. CASE EnterSingle
  BY <1>3 DEF EnterSingle
<1>4. CASE EnterDir
  BY <1>4 DEF EnterDir
<1>5. CASE EnterFails
  BY <1>5 DEF EnterFails, ReturnTo
<1>6. CASE ReadMatch
  BY <1>6 DEF ReadMatch, Reading
<1>7. CASE ReadReject
  BY <1>7 DEF ReadReject, Reading
<1>8. CASE ReadDir
  BY <1>8 DEF ReadDir, Reading
<1>9. CASE ReadOther
  BY <1>9 DEF ReadOther, Reading
<1>10. CASE CloseDir
  BY <1>10 DEF CloseDir, ReturnTo
<1>11. CASE FindExcluded
  BY <1>11 DEF FindExcluded, ReturnTo
<1>12. CASE StatFails
  BY <1>12 DEF StatFails, MapFails, ReturnTo
<1>13. CASE StatFile
  BY <1>13 DEF StatFile
<1>14. CASE OpenFails
  BY <1>14 DEF OpenFails, MapFails, ReturnTo
<1>15. CASE OpenFile
  BY <1>15 DEF OpenFile
<1>16. CASE BusError
  BY <1>16 DEF BusError
<1>17. CASE CheckBinary
  BY <1>17 DEF CheckBinary, ReturnTo
<1>18. CASE Search
  BY <1>18 DEF Search, ReturnTo
<1>19. CASE SearchFails
  BY <1>19 DEF SearchFails
<1>20. CASE Environment
  BY <1>20 DEF Environment, Vanish, Truncate, control
<1>21. CASE UNCHANGED vars
  BY <1>21 DEF vars, fs, control
<1> QED
  BY <1>1, <1>2, <1>3, <1>4, <1>5, <1>6, <1>7, <1>8, <1>9, <1>10, <1>11, <1>12,
     <1>13, <1>14, <1>15, <1>16, <1>17, <1>18, <1>19, <1>20, <1>21
  DEF Next, Walk

(* In every walk the counters account for every file found, once.          *)
THEOREM WalkAccounts == Spec => []FilesAccounted
<1>1. Init => FilesAccounted
  BY DEF Init, FilesAccounted, InHand
<1> QED
  BY <1>1, TypeCorrect, NextAccounted, PTL DEF Spec

-----------------------------------------------------------------------------
(* The mapping, by actions.                                                *)
LEMMA NextMapped == MapIsShut /\ [Next]_vars => MapIsShut'
<1> SUFFICES ASSUME MapIsShut, [Next]_vars PROVE MapIsShut'
  OBVIOUS
<1> USE DEF MapIsShut
<1>1. CASE NextMask
  BY <1>1 DEF NextMask
<1>2. CASE EndOfMasks
  BY <1>2 DEF EndOfMasks
<1>3. CASE EnterSingle
  BY <1>3 DEF EnterSingle
<1>4. CASE EnterDir
  BY <1>4 DEF EnterDir
<1>5. CASE EnterFails
  BY <1>5 DEF EnterFails, ReturnTo
<1>6. CASE ReadMatch
  BY <1>6 DEF ReadMatch, Reading
<1>7. CASE ReadReject
  BY <1>7 DEF ReadReject, Reading
<1>8. CASE ReadDir
  BY <1>8 DEF ReadDir, Reading
<1>9. CASE ReadOther
  BY <1>9 DEF ReadOther, Reading
<1>10. CASE CloseDir
  BY <1>10 DEF CloseDir, ReturnTo
<1>11. CASE FindExcluded
  BY <1>11 DEF FindExcluded, ReturnTo
<1>12. CASE StatFails
  BY <1>12 DEF StatFails, MapFails, ReturnTo
<1>13. CASE StatFile
  BY <1>13 DEF StatFile
<1>14. CASE OpenFails
  BY <1>14 DEF OpenFails, MapFails, ReturnTo
<1>15. CASE OpenFile
  BY <1>15 DEF OpenFile
<1>16. CASE BusError
  BY <1>16 DEF BusError
<1>17. CASE CheckBinary
  BY <1>17 DEF CheckBinary, ReturnTo
<1>18. CASE Search
  BY <1>18 DEF Search, ReturnTo
<1>19. CASE SearchFails
  BY <1>19 DEF SearchFails
<1>20. CASE Environment
  BY <1>20 DEF Environment, Vanish, Truncate, control
<1>21. CASE UNCHANGED vars
  BY <1>21 DEF vars, control
<1> QED
  BY <1>1, <1>2, <1>3, <1>4, <1>5, <1>6, <1>7, <1>8, <1>9, <1>10, <1>11, <1>12,
     <1>13, <1>14, <1>15, <1>16, <1>17, <1>18, <1>19, <1>20, <1>21
  DEF Next, Walk

(* In every walk the file mapped is the one in hand, and it is unmapped    *)
(* on every way out.                                                       *)
THEOREM MapAlwaysShut == Spec => []MapIsShut
<1>1. Init => MapIsShut
  BY DEF Init, MapIsShut
<1> QED
  BY <1>1, NextMapped, PTL DEF Spec
-----------------------------------------------------------------------------
(* The tree under a directory.                                             *)

Children(d) == {Entries[d][i] : i \in DOMAIN Entries[d]}

(* The files that a recursive walk comes to from x.                        *)
FilesBelow(x) ==
  IF x \in Dirs THEN {f \in Files : \E d \in Below(x) : f \in Children(d)} ELSE {x}

(* What a frame has not read yet, and the files that this leads to.        *)
Left(fr) == {fr.todo[i] : i \in DOMAIN fr.todo}
Ahead(fr) == UNION {FilesBelow(x) : x \in Left(fr) \ InExcludeD}

InFile == pc \in {"find", "open", "binary", "search"}

-----------------------------------------------------------------------------
(* Where the walk for a mask is.                                           *)

(* A frame of Process_Wilds that works for the mask m, on entries of the   *)
(* directory that it has opened.                                           *)
FrameOf(m, fr) ==
  /\ fr.dir \in Walked(m) /\ fr.pat = m.pat
  /\ Left(fr) \subseteq Children(fr.dir)

(* All of them work for the mask at hand.                                  *)
FramesRight ==
  /\ pc \in {"list", "done"} => stack = <<>>
  /\ pc \notin {"list", "done"} => at > 0
  /\ \A i \in DOMAIN stack : FrameOf(masks[at], stack[i])
  /\ pc = "enter" =>
       IF stack = <<>> THEN arg = masks[at]
       ELSE /\ sw.recursive /\ arg.single = NoFile
            /\ arg.dir \in Walked(masks[at]) /\ arg.pat = masks[at].pat

(* The mask m comes to the file f.                                         *)
Reaches(m, f) ==
  \/ f \in m.pat /\ \E d \in Walked(m) : f \in Children(d)
  \/ ~sw.recursive /\ f = m.single

(* Find_In_File has a file that the mask comes to, and has let pass what   *)
(* it has asked.                                                           *)
HandRight ==
  InFile =>
    /\ Reaches(masks[at], glpActive)
    /\ pc # "find" => glpActive \notin InExclude
    /\ pc = "search" => ~(sw.ignoreBin /\ glpActive \in IsBinary)

SearchedAllowed ==
  \A i \in DOMAIN searched :
    /\ searched[i][1] \in 1..at
    /\ searched[i][2] \in Allowed(masks[searched[i][1]])

-----------------------------------------------------------------------------
(* What is still to come.                                                  *)

(* What Process_Wilds comes to in the directory d, and in the rest of a    *)
(* frame.                                                                  *)
Start(d) == IF sw.recursive THEN FilesBelow(d) ELSE Children(d)
Coming(fr) == IF sw.recursive THEN Ahead(fr) ELSE Left(fr)

(* The walk for the mask at hand has yet to come to the file f, or has it. *)
Awaits(f) ==
  \/ pc = "enter" /\ ((~sw.recursive /\ f = arg.single) \/ f \in Start(arg.dir))
  \/ \E i \in DOMAIN stack : f \in stack[i].pat /\ f \in Coming(stack[i])
  \/ (InFile \/ pc \in {"exit", "killed"}) /\ glpActive = f

Has(m, f) == \E i \in DOMAIN searched : searched[i] = <<m, f>>

(* What a mask asks for and is still there is searched or still to come.   *)
NoneLost ==
  \A m \in 1..at : \A f \in Wanted(masks[m]) :
    f \in present \ empty /\ Dirs \subseteq present => Has(m, f) \/ (m = at /\ Awaits(f))

(* Nothing but a fault takes anything away.                                *)
FaultsTake == faults = 0 => present = Nodes /\ empty = {}

-----------------------------------------------------------------------------
(* What is behind is not ahead.                                            *)

(* A name is in one place of a list.                                       *)
Once(s) == \A j, k \in DOMAIN s : s[j] = s[k] => j = k

Held ==
  IF pc = "enter" THEN FilesBelow(arg.dir) ELSE IF InFile THEN {glpActive} ELSE {}

(* In a tree, the frames, the file or directory in hand and the files that *)
(* have been searched for the mask have nothing in common.                 *)
Apart ==
  /\ \A i \in DOMAIN stack : Once(stack[i].todo)
  /\ \A i, j \in DOMAIN stack : i # j => Ahead(stack[i]) \cap Ahead(stack[j]) = {}
  /\ \A i \in DOMAIN stack : Held \cap Ahead(stack[i]) = {}
  /\ \A f : Has(at, f) =>
       /\ f \notin Held
       /\ \A i \in DOMAIN stack : f \notin Ahead(stack[i])
       /\ pc = "enter" => stack # <<>>
  /\ Once(searched)

ApartInTree == IsTree => Apart
-----------------------------------------------------------------------------
(* Lemmas about the tree.                                                  *)

LEMMA NodesIn ==
  /\ \A d \in Dirs : Entries[d] \in Seq(Nodes) /\ Children(d) \subseteq Nodes
  /\ Dirs \cap Files = {} /\ InExcludeD \subseteq Dirs /\ NoFile \notin Files
<1>1. \A d \in Dirs : Entries[d] \in Seq(Nodes)
  BY EntriesAssumption DEF Nodes
<1>2. \A d \in Dirs : Children(d) \subseteq Nodes
  BY <1>1 DEF Children
<1> QED
  BY <1>1, <1>2, NodesAssumption, ExcludeAssumption

LEMMA BelowIs ==
  ASSUME NEW d \in Dirs
  PROVE  /\ Below(d) \subseteq Dirs /\ d \in Below(d) /\ Closed(Below(d))
         /\ \A S \in SUBSET Dirs : d \in S /\ Closed(S) => Below(d) \subseteq S
<1>1. Closed(Below(d))
  <2> SUFFICES ASSUME NEW p \in Below(d), NEW i \in DOMAIN Entries[p],
                      Entries[p][i] \in Dirs \ InExcludeD
               PROVE  Entries[p][i] \in Below(d)
    BY DEF Closed
  <2> SUFFICES ASSUME NEW S \in SUBSET Dirs, d \in S, Closed(S)
               PROVE  Entries[p][i] \in S
    BY DEF Below
  <2>1. p \in S
    BY DEF Below
  <2> QED
    BY <2>1 DEF Closed
<1> QED
  BY <1>1 DEF Below

(* A walk from d enters, beside d, what the walks from its subdirectories  *)
(* enter, ...                                                              *)
LEMMA BelowStarts ==
  ASSUME NEW d \in Dirs
  PROVE  /\ \A c \in Children(d) : c \in Dirs \ InExcludeD => Below(c) \subseteq Below(d)
         /\ \A e \in Below(d) : e = d \/ \E c \in Children(d) :
                                          c \in Dirs \ InExcludeD /\ e \in Below(c)
<1>1. ASSUME NEW c \in Children(d), c \in Dirs \ InExcludeD
      PROVE  Below(c) \subseteq Below(d)
  <2>1. c \in Below(d)
    BY <1>1, BelowIs DEF Closed, Children
  <2> QED
    BY <1>1, <2>1, BelowIs
<1>2. ASSUME NEW e \in Below(d)
      PROVE  e = d \/ \E c \in Children(d) : c \in Dirs \ InExcludeD /\ e \in Below(c)
  <2> DEFINE Sub == {c \in Children(d) : c \in Dirs \ InExcludeD}
             S == {d} \cup UNION {Below(c) : c \in Sub}
  <2>1. S \in SUBSET Dirs
    BY BelowIs
  <2>2. Closed(S)
    <3> SUFFICES ASSUME NEW p \in S, NEW i \in DOMAIN Entries[p],
                        Entries[p][i] \in Dirs \ InExcludeD
                 PROVE  Entries[p][i] \in S
      BY DEF Closed
    <3>1. CASE p = d
      <4>1. Entries[p][i] \in Sub
        BY <3>1 DEF Children
      <4> QED
        BY <4>1, BelowIs
    <3>2. ASSUME NEW c \in Sub, p \in Below(c)
          PROVE  Entries[p][i] \in S
      <4>1. Closed(Below(c))
        BY BelowIs
      <4> QED
        BY <3>2, <4>1 DEF Closed
    <3> QED
      BY <3>1, <3>2
  <2>3. e \in S
    BY <2>1, <2>2, BelowIs
  <2> QED
    BY <2>3
<1> QED
  BY <1>1, <1>2

(* ... and comes to each of them through a directory that it has entered.  *)
LEMMA BelowEnds ==
  ASSUME NEW d \in Dirs, NEW e \in Below(d), e # d
  PROVE  \E p \in Below(d) : e \in Children(p)
<1> DEFINE S == {x \in Below(d) : x = d \/ \E p \in Below(d) : x \in Children(p)}
<1>1. S \in SUBSET Dirs /\ d \in S
  BY BelowIs
<1>2. Closed(S)
  <2> SUFFICES ASSUME NEW p \in S, NEW i \in DOMAIN Entries[p],
                      Entries[p][i] \in Dirs \ InExcludeD
               PROVE  Entries[p][i] \in S
    BY DEF Closed
  <2>1. Entries[p][i] \in Below(d)
    BY BelowIs DEF Closed
  <2> QED
    BY <2>1 DEF Children
<1>3. e \in S
  BY <1>1, <1>2, BelowIs
<1> QED
  BY <1>3

(* The same for files.                                                     *)
LEMMA FilesStart ==
  ASSUME NEW d \in Dirs
  PROVE  /\ \A x \in Children(d) \ InExcludeD : FilesBelow(x) \subseteq FilesBelow(d)
         /\ \A f \in FilesBelow(d) :
              \E x \in Children(d) \ InExcludeD : f \in FilesBelow(x)
<1>1. ASSUME NEW x \in Children(d) \ InExcludeD
      PROVE  FilesBelow(x) \subseteq FilesBelow(d)
  <2>1. CASE x \in Dirs
    <3>1. Below(x) \subseteq Below(d)
      BY <2>1, BelowStarts
    <3> QED
      BY <2>1, <3>1 DEF FilesBelow
  <2>2. CASE x \notin Dirs
    <3>1. x \in Files /\ d \in Below(d)
      BY <2>2, NodesIn, BelowIs DEF Nodes
    <3> QED
      BY <2>2, <3>1 DEF FilesBelow
  <2> QED
    BY <2>1, <2>2
<1>2. ASSUME NEW f \in FilesBelow(d)
      PROVE  \E x \in Children(d) \ InExcludeD : f \in FilesBelow(x)
  <2>1. PICK e \in Below(d) : f \in Files /\ f \in Children(e)
    BY DEF FilesBelow
  <2>2. CASE e = d
    <3>1. f \notin Dirs /\ f \notin InExcludeD
      BY <2>1, NodesIn
    <3> QED
      BY <2>1, <2>2, <3>1 DEF FilesBelow
  <2>3. CASE e # d
    <3>1. PICK c \in Children(d) : c \in Dirs \ InExcludeD /\ e \in Below(c)
      BY <2>3, BelowStarts
    <3>2. f \in FilesBelow(c)
      BY <2>1, <3>1 DEF FilesBelow
    <3> QED
      BY <3>1, <3>2
  <2> QED
    BY <2>2, <2>3
<1> QED
  BY <1>1, <1>2

(* In a tree a node stands in one directory only, ...                      *)
LEMMA OneParent ==
  ASSUME IsTree, NEW d \in Dirs, NEW e \in Dirs, NEW x, x \in Children(d), x \in Children(e)
  PROVE  d = e
BY DEF IsTree, Children

(* ... and what is below one entry of a directory is not below another.    *)
LEMMA SiblingsApart ==
  ASSUME IsTree, NEW d \in Dirs, NEW x \in Children(d), NEW y \in Children(d), x # y
  PROVE  FilesBelow(x) \cap FilesBelow(y) = {}
<1>1. ASSUME NEW c \in Children(d), c \in Dirs
      PROVE  d \notin Below(c)
  BY <1>1 DEF IsTree, Children
<1>2. ASSUME NEW u \in Children(d), NEW c \in Children(d), c \in Dirs, u # c
      PROVE  \A p \in Below(c) : u \notin Children(p)
  <2> SUFFICES ASSUME NEW p \in Below(c), u \in Children(p) PROVE FALSE
    OBVIOUS
  <2>1. p \in Dirs
    BY <1>2, BelowIs
  <2>2. p = d
    BY <2>1, OneParent
  <2> QED
    BY <1>1, <1>2, <2>2
<1>3. ASSUME x \in Dirs, y \in Dirs, NEW e \in Below(x), e \in Below(y)
      PROVE  FALSE
  <2> DEFINE S == {z \in Below(x) : z \notin Below(y)}
  <2>1. S \in SUBSET Dirs
    BY <1>3, BelowIs
  <2>2. x \in S
    <3>1. x \in Below(x)
      BY <1>3, BelowIs
    <3>2. ASSUME x \in Below(y) PROVE FALSE
      <4>1. PICK p \in Below(y) : x \in Children(p)
        BY <1>3, <3>2, BelowEnds
      <4> QED
        BY <1>2, <1>3, <4>1
    <3> QED
      BY <3>1, <3>2
  <2>3. Closed(S)
    <3> SUFFICES ASSUME NEW z \in S, NEW i \in DOMAIN Entries[z],
                        Entries[z][i] \in Dirs \ InExcludeD,
                        Entries[z][i] \in Below(y)
                 PROVE  FALSE
      <4>1. Closed(Below(x))
        BY <1>3, BelowIs
      <4> QED
        BY <4>1 DEF Closed
    <3> DEFINE w == Entries[z][i]
    <3>1. w \in Children(z) /\ z \in Dirs /\ z \in Below(x)
      BY <2>1 DEF Children
    <3> HIDE DEF w
    <3>2. CASE w = y
      BY <1>2, <1>3, <3>1, <3>2
    <3>3. CASE w # y
      <4>1. w \in Below(y)
        BY DEF w
      <4>2. PICK p \in Below(y) : w \in Children(p)
        BY <1>3, <3>3, <4>1, BelowEnds
      <4>3. p = z
        <5>1. p \in Dirs
          BY <1>3, BelowIs
        <5> QED
          BY <3>1, <4>2, <5>1, OneParent
      <4> QED
        BY <4>3
    <3> QED
      BY <3>2, <3>3
  <2>4. e \in S
    BY <1>3, <2>1, <2>2, <2>3, BelowIs
  <2> QED
    BY <1>3, <2>4
<1>4. ASSUME NEW f \in FilesBelow(x), f \in FilesBelow(y)
      PROVE  FALSE
  <2>1. CASE x \in Dirs /\ y \in Dirs
    <3>1. PICK p \in Below(x) : f \in Children(p)
      BY <2>1 DEF FilesBelow
    <3>2. PICK q \in Below(y) : f \in Children(q)
      BY <1>4, <2>1 DEF FilesBelow
    <3>3. p = q
      <4>1. p \in Dirs /\ q \in Dirs
        BY <2>1, BelowIs
      <4> QED
        BY <3>1, <3>2, <4>1, OneParent
    <3> QED
      BY <1>3, <2>1, <3>3
  <2>2. CASE x \notin Dirs /\ y \in Dirs
    BY <1>2, <1>4, <2>2 DEF FilesBelow
  <2>3. CASE x \in Dirs /\ y \notin Dirs
    BY <1>2, <1>4, <2>3 DEF FilesBelow
  <2>4. CASE x \notin Dirs /\ y \notin Dirs
    BY <1>4, <2>4 DEF FilesBelow
  <2> QED
    BY <2>1, <2>2, <2>3, <2>4
<1> QED
  BY <1>4
-----------------------------------------------------------------------------
(* What the steps do.                                                      *)

(* readdir takes the first of what the innermost frame has left.           *)
LEMMA TailLeft ==
  ASSUME NEW s \in Seq(Nodes), s # <<>>
  PROVE  /\ {s[i] : i \in DOMAIN s} = {Tail(s)[i] : i \in DOMAIN Tail(s)} \cup {Head(s)}
         /\ Once(s) => Once(Tail(s)) /\ Head(s) \notin {Tail(s)[i] : i \in DOMAIN Tail(s)}
<1> DEFINE t == Tail(s)
<1>1. Len(s) \in Nat \ {0} /\ DOMAIN s = 1..Len(s)
  OBVIOUS
<1>2. /\ t \in Seq(Nodes) /\ Len(t) = Len(s) - 1 /\ DOMAIN t = 1..(Len(s) - 1)
      /\ \A i \in DOMAIN t : t[i] = s[i + 1] /\ i + 1 \in DOMAIN s
      /\ Head(s) = s[1] /\ 1 \in DOMAIN s
  BY <1>1
<1> HIDE DEF t
<1>3. ASSUME NEW i \in DOMAIN s
      PROVE  s[i] = s[1] \/ \E j \in DOMAIN t : t[j] = s[i]
  <2>1. CASE i = 1
    BY <2>1
  <2>2. CASE i # 1
    <3>1. i - 1 \in DOMAIN t /\ (i - 1) + 1 = i
      BY <1>1, <1>2, <2>2
    <3> QED
      BY <1>2, <3>1
  <2> QED
    BY <2>1, <2>2
<1>4. {s[i] : i \in DOMAIN s} = {t[i] : i \in DOMAIN t} \cup {Head(s)}
  BY <1>2, <1>3
<1>5. ASSUME Once(s)
      PROVE  Once(t) /\ Head(s) \notin {t[i] : i \in DOMAIN t}
  <2>1. ASSUME NEW j \in DOMAIN t, NEW k \in DOMAIN t, t[j] = t[k]
        PROVE  j = k
    <3>1. j + 1 = k + 1
      BY <1>2, <1>5, <2>1 DEF Once
    <3>2. j \in Nat /\ k \in Nat
      BY <1>1, <1>2
    <3> QED
      BY <3>1, <3>2
  <2>2. ASSUME NEW j \in DOMAIN t, t[j] = Head(s)
        PROVE  FALSE
    <3>1. j + 1 = 1
      BY <1>2, <1>5, <2>2 DEF Once
    <3>2. j \in Nat /\ j > 0
      BY <1>1, <1>2
    <3> QED
      BY <3>1, <3>2
  <2> QED
    BY <2>1, <2>2 DEF Once
<1> QED
  BY <1>4, <1>5 DEF t

LEMMA EntryTaken ==
  ASSUME TypeOK, Reading, TakeEntry, NEW l, l = Len(stack)
  PROVE  /\ l \in DOMAIN stack /\ DOMAIN stack' = DOMAIN stack
         /\ \A i \in DOMAIN stack : i # l => stack'[i] = stack[i]
         /\ stack'[l].dir = stack[l].dir /\ stack'[l].pat = stack[l].pat
         /\ stack[l].dir \in Dirs /\ stack' # <<>>
         /\ Left(stack[l]) = Left(stack'[l]) \cup {Entry}
         /\ Once(stack[l].todo) => Once(stack'[l].todo) /\ Entry \notin Left(stack'[l])
<1>1. stack \in Seq(Frame) /\ stack # <<>> /\ l \in 1..Len(stack)
  BY DEF TypeOK, Reading
<1>2. stack[l] \in Frame
  BY <1>1
<1>3. stack[l].todo \in Seq(Nodes) /\ stack[l].todo # <<>> /\ stack[l].dir \in Dirs
  BY <1>2 DEF Frame, Reading, Listing
<1>4. stack' = [stack EXCEPT ![l] = [stack[l] EXCEPT !.todo = Tail(@)]]
  BY DEF TakeEntry
<1>5. /\ DOMAIN stack' = DOMAIN stack /\ l \in DOMAIN stack
      /\ \A i \in DOMAIN stack : i # l => stack'[i] = stack[i]
      /\ stack'[l] = [stack[l] EXCEPT !.todo = Tail(@)]
  <2> DEFINE fr == [stack[l] EXCEPT !.todo = Tail(@)]
  <2>1. stack' = [stack EXCEPT ![l] = fr]
    BY <1>4
  <2>2. l \in DOMAIN stack
    BY <1>1
  <2> HIDE DEF fr
  <2>3. DOMAIN stack' = DOMAIN stack /\ stack'[l] = fr
        /\ \A i \in DOMAIN stack : i # l => stack'[i] = stack[i]
    BY <2>1, <2>2
  <2> QED
    BY <2>2, <2>3 DEF fr
<1>6. /\ stack'[l].dir = stack[l].dir /\ stack'[l].pat = stack[l].pat
      /\ stack'[l].todo = Tail(stack[l].todo)
  BY <1>2, <1>5 DEF Frame
<1>7. Entry = Head(stack[l].todo)
  BY DEF Entry, Listing
<1>8. stack' # <<>>
  BY TakeEntryType
<1>9. /\ Left(stack[l]) = Left(stack'[l]) \cup {Entry}
      /\ Once(stack[l].todo) => Once(stack'[l].todo) /\ Entry \notin Left(stack'[l])
  <2>1. PICK s : s = stack[l].todo
    OBVIOUS
  <2>2. /\ {s[i] : i \in DOMAIN s} = {Tail(s)[i] : i \in DOMAIN Tail(s)} \cup {Head(s)}
        /\ Once(s) => Once(Tail(s)) /\ Head(s) \notin {Tail(s)[i] : i \in DOMAIN Tail(s)}
    <3>1. s \in Seq(Nodes) /\ s # <<>>
      BY <1>3, <2>1
    <3> QED
      BY ONLY <3>1, TailLeft
  <2>3. Left(stack[l]) = {s[i] : i \in DOMAIN s}
    BY <2>1 DEF Left
  <2>4. PICK t : t = Tail(s)
    OBVIOUS
  <2>5. Left(stack'[l]) = {t[i] : i \in DOMAIN t} /\ stack'[l].todo = t
    BY <1>6, <2>1, <2>4 DEF Left
  <2>6. /\ {s[i] : i \in DOMAIN s} = {t[i] : i \in DOMAIN t} \cup {Entry}
        /\ Once(s) => Once(t) /\ Entry \notin {t[i] : i \in DOMAIN t}
    <3>1. Entry = Head(s)
      BY <1>7, <2>1
    <3> QED
      BY ONLY <2>2, <2>4, <3>1
  <2> QED
    BY ONLY <2>1, <2>3, <2>5, <2>6
<1> QED
  BY <1>3, <1>5, <1>6, <1>8, <1>9

LEMMA DirEntered ==
  ASSUME TypeOK, EnterDir, NEW l, l = Len(stack)
  PROVE  /\ l \in Nat /\ l + 1 \notin DOMAIN stack
         /\ DOMAIN stack' = DOMAIN stack \cup {l + 1}
         /\ \A i \in DOMAIN stack : stack'[i] = stack[i]
         /\ stack'[l + 1].dir = arg.dir /\ stack'[l + 1].pat = arg.pat
         /\ stack'[l + 1].todo = Entries[arg.dir]
         /\ Left(stack'[l + 1]) = Children(arg.dir)
         /\ arg.dir \in Dirs
<1> DEFINE fr == [dir |-> arg.dir, pat |-> arg.pat, todo |-> Entries[arg.dir]]
<1>1. stack \in Seq(Frame) /\ arg \in WalkMask
  BY DEF TypeOK, EnterDir
<1>2. arg.dir \in Dirs
  BY <1>1 DEF WalkMask
<1>3. Entries[arg.dir] \in Seq(Nodes)
  BY <1>2, NodesIn
<1>4. fr \in Frame
  BY <1>1, <1>2, <1>3 DEF WalkMask, Frame
<1>5. stack' = Append(stack, fr)
  BY DEF EnterDir
<1>6. fr.dir = arg.dir /\ fr.pat = arg.pat /\ fr.todo = Entries[arg.dir]
  OBVIOUS
<1> HIDE DEF fr
<1>7. /\ l \in Nat /\ l + 1 \notin DOMAIN stack
      /\ DOMAIN stack' = DOMAIN stack \cup {l + 1}
      /\ \A i \in DOMAIN stack : stack'[i] = stack[i]
      /\ stack'[l + 1] = fr
  BY <1>1, <1>4, <1>5
<1> QED
  BY <1>2, <1>6, <1>7 DEF Left, Children

LEMMA DirClosed ==
  ASSUME TypeOK, CloseDir
  PROVE  /\ DOMAIN stack' \subseteq DOMAIN stack
         /\ \A i \in DOMAIN stack' : stack'[i] = stack[i]
         /\ \A i \in DOMAIN stack : i \in DOMAIN stack' \/ Left(stack[i]) = {}
<1>1. stack \in Seq(Frame) /\ stack # <<>> /\ pc = "read"
  BY DEF TypeOK, CloseDir
<1>2. Len(stack) \in Nat \ {0} /\ DOMAIN stack = 1..Len(stack)
  BY <1>1
<1>3. stack' = SubSeq(stack, 1, Len(stack) - 1)
  BY DEF CloseDir
<1>4. /\ DOMAIN stack' = 1..(Len(stack) - 1)
      /\ \A i \in 1..(Len(stack) - 1) : stack'[i] = stack[i]
  BY <1>1, <1>2, <1>3
<1>5. stack[Len(stack)].todo = <<>>
  BY DEF CloseDir, Listing
<1>6. Left(stack[Len(stack)]) = {}
  BY <1>5 DEF Left
<1>7. /\ \A i \in DOMAIN stack : i \in 1..(Len(stack) - 1) \/ i = Len(stack)
      /\ 1..(Len(stack) - 1) \subseteq DOMAIN stack
  BY <1>2
<1>8. \A i \in DOMAIN stack : i \in DOMAIN stack' \/ Left(stack[i]) = {}
  <2> HIDE DEF Left
  <2> QED
    BY <1>4, <1>6, <1>7
<1>9. DOMAIN stack' \subseteq DOMAIN stack /\ \A i \in DOMAIN stack' : stack'[i] = stack[i]
  BY <1>4, <1>7
<1> QED
  BY <1>8, <1>9

(* A call of Process_Wilds or Find_In_File returns with nothing done.      *)
Returns ==
  /\ pc' = ReturnTo(stack) /\ UNCHANGED <<at, stack, glpActive, searched>>
  /\ \/ pc = "enter" /\ arg.dir \notin Dirs \cap present /\ ~NamesSingleFile
     \/ /\ InFile
        /\ \/ glpActive \in InExclude \/ glpActive \notin present \/ glpActive \in empty
           \/ sw.ignoreBin /\ glpActive \in IsBinary

(* Find_In_File goes on with its file, or the program ends with it.        *)
GoesOn ==
  /\ InFile /\ UNCHANGED <<at, stack, glpActive, searched>>
  /\ \/ pc = "find" /\ pc' = "open" /\ glpActive \notin InExclude
     \/ pc = "open" /\ pc' = "binary"
     \/ pc = "binary" /\ pc' = "search" /\ ~(sw.ignoreBin /\ glpActive \in IsBinary)
     \/ pc' \in {"exit", "killed"}

(* readdir yields what is passed over.                                     *)
PassesOver ==
  /\ Reading /\ TakeEntry /\ UNCHANGED <<pc, at, searched>>
  /\ \/ Entry \notin Dirs /\ Entry \notin Listing.pat
     \/ Entry \notin present
     \/ Entry \in Dirs /\ (~sw.recursive \/ Entry \in InExcludeD)

(* readdir yields a directory that is walked.                              *)
WalksDown ==
  /\ Reading /\ TakeEntry /\ UNCHANGED <<at, searched>>
  /\ Entry \in Dirs \ InExcludeD /\ sw.recursive /\ pc' = "enter"
  /\ arg' = [dir |-> Entry, pat |-> Listing.pat, single |-> NoFile]

WalkStep ==
  \/ NextMask \/ EnterSingle \/ EnterDir \/ ReadMatch \/ CloseDir \/ Search
  \/ Returns \/ GoesOn \/ PassesOver \/ WalksDown
  \/ pc = "list" /\ pc' = "done" /\ UNCHANGED <<at, arg, stack, glpActive, searched>>
  \/ UNCHANGED <<control, searched>>

LEMMA WalkSteps ==
  ASSUME TypeOK, [Next]_vars
  PROVE  /\ masks' = masks /\ sw' = sw
         /\ present' \subseteq present /\ empty \subseteq empty'
         /\ WalkStep
<1>1. masks' = masks /\ sw' = sw
  BY DEF Next, Walk, Environment, Vanish, Truncate, vars, inputs, NextMask, EndOfMasks,
     EnterSingle, EnterDir, EnterFails, ReadMatch, ReadReject, ReadDir, ReadOther, CloseDir,
     FindExcluded, StatFails, MapFails, StatFile, OpenFails, OpenFile, BusError, CheckBinary,
     Search, SearchFails
<1>2. present' \subseteq present /\ empty \subseteq empty'
  BY DEF Next, Walk, Environment, Vanish, Truncate, vars, fs, NextMask, EndOfMasks,
     EnterSingle, EnterDir, EnterFails, ReadMatch, ReadReject, ReadDir, ReadOther, CloseDir,
     FindExcluded, StatFails, MapFails, StatFile, OpenFails, OpenFile, BusError, CheckBinary,
     Search, SearchFails
<1>3. ASSUME NextMask \/ EnterSingle \/ EnterDir \/ ReadMatch \/ CloseDir \/ Search PROVE WalkStep
  BY <1>3 DEF WalkStep
<1>4. ASSUME EnterFails PROVE WalkStep
  BY <1>4 DEF EnterFails, WalkStep, Returns, IsValidDir
<1>5. ASSUME FindExcluded \/ StatFails \/ OpenFails PROVE WalkStep
  <2>1. InFile => glpActive \in Files
    BY DEF InFile, TypeOK
  <2> QED
    BY <1>5, <2>1 DEF FindExcluded, StatFails, OpenFails, MapFails, IsValidFile, WalkStep,
       Returns, InFile
<1>6. ASSUME StatFile \/ OpenFile \/ BusError \/ SearchFails PROVE WalkStep
  BY <1>6 DEF StatFile, OpenFile, BusError, SearchFails, WalkStep, GoesOn, InFile
<1>7. ASSUME CheckBinary PROVE WalkStep
  BY <1>7 DEF CheckBinary, WalkStep, GoesOn, Returns, InFile
<1>8. ASSUME ReadReject \/ ReadOther PROVE WalkStep
  <2>1. Entry \in Nodes /\ Dirs \cap Files = {}
    <3>1. Reading /\ TakeEntry
      BY <1>8 DEF ReadReject, ReadOther
    <3> QED
      BY <3>1, TakeEntryType, NodesIn
  <2> QED
    BY <1>8, <2>1 DEF ReadReject, ReadOther, IsValidFile, IsValidDir, WalkStep, PassesOver, Nodes
<1>9. ASSUME ReadDir PROVE WalkStep
  BY <1>9 DEF ReadDir, IsValidDir, WalkStep, PassesOver, WalksDown
<1>10. ASSUME EndOfMasks PROVE WalkStep
  BY <1>10 DEF EndOfMasks, WalkStep
<1>11. ASSUME Environment \/ UNCHANGED vars PROVE WalkStep
  BY <1>11 DEF Environment, Vanish, Truncate, vars, WalkStep
<1> QED
  BY <1>1, <1>2, <1>3, <1>4, <1>5, <1>6, <1>7, <1>8, <1>9, <1>10, <1>11 DEF Next, Walk
-----------------------------------------------------------------------------
(* The frames and the file in hand.                                        *)

LEMMA MaskAt ==
  ASSUME TypeOK, at > 0
  PROVE  at \in Nat /\ masks[at] \in WalkMask /\ masks[at].dir \in Dirs
         /\ masks[at].dir \in Walked(masks[at]) /\ Walked(masks[at]) \subseteq Dirs
<1>1. masks \in Seq(WalkMask) /\ at \in 1..Len(masks)
  BY MasksAssumption DEF TypeOK
<1>2. masks[at] \in WalkMask
  BY <1>1
<1>3. masks[at].dir \in Dirs
  BY <1>2 DEF WalkMask
<1> QED
  BY <1>1, <1>2, <1>3, BelowIs DEF Walked

(* The frame that reads, and what it takes.                                *)
LEMMA Reads ==
  ASSUME TypeOK, FramesRight, Reading, TakeEntry, masks' = masks, sw' = sw, at' = at
  PROVE  /\ at > 0 /\ Listing.dir \in Walked(masks[at]) /\ Listing.pat = masks[at].pat
         /\ Entry \in Children(Listing.dir)
         /\ stack' # <<>>
         /\ \A i \in DOMAIN stack' : FrameOf(masks[at], stack[i])'
<1> DEFINE l == Len(stack)
<1>1. /\ l \in DOMAIN stack /\ DOMAIN stack' = DOMAIN stack
      /\ \A i \in DOMAIN stack : i # l => stack'[i] = stack[i]
      /\ stack'[l].dir = stack[l].dir /\ stack'[l].pat = stack[l].pat
      /\ stack' # <<>>
      /\ Left(stack[l]) = Left(stack'[l]) \cup {Entry}
  BY EntryTaken
<1> HIDE DEF l
<1>2. at > 0 /\ Listing = stack[l] /\ FrameOf(masks[at], stack[l])
  BY <1>1 DEF FramesRight, Reading, Listing, l
<1>3. ASSUME NEW i \in DOMAIN stack'
      PROVE  FrameOf(masks[at], stack'[i])
  <2>1. CASE i = l
    BY <1>1, <1>2, <2>1 DEF FrameOf
  <2>2. CASE i # l
    BY <1>1, <1>3, <2>2 DEF FramesRight
  <2> QED
    BY <2>1, <2>2
<1>4. /\ Listing.dir \in Walked(masks[at]) /\ Listing.pat = masks[at].pat
      /\ Entry \in Children(Listing.dir)
  BY <1>1, <1>2 DEF FrameOf
<1> QED
  BY <1>1, <1>2, <1>3, <1>4 DEF FrameOf, Walked

LEMMA NextFramesRight == TypeOK /\ FramesRight /\ [Next]_vars => FramesRight'
<1> SUFFICES ASSUME TypeOK, FramesRight, [Next]_vars PROVE FramesRight'
  OBVIOUS
<1>0. masks' = masks /\ sw' = sw /\ WalkStep
  BY WalkSteps
<1>1. CASE NextMask
  <2>1. /\ stack = <<>> /\ stack' = <<>> /\ pc' = "enter" /\ arg' = masks[at + 1]
        /\ at' = at + 1
    BY <1>1 DEF NextMask, FramesRight
  <2>2. at' > 0
    <3>1. at \in Nat
      BY MasksAssumption DEF TypeOK
    <3> QED
      BY <2>1, <3>1
  <2> QED
    BY <1>0, <2>1, <2>2 DEF FramesRight
<1>2. CASE EnterDir
  <2> DEFINE l == Len(stack)
  <2>1. /\ l \in Nat /\ DOMAIN stack' = DOMAIN stack \cup {l + 1}
        /\ \A i \in DOMAIN stack : stack'[i] = stack[i]
        /\ stack'[l + 1].dir = arg.dir /\ stack'[l + 1].pat = arg.pat
        /\ Left(stack'[l + 1]) = Children(arg.dir)
    BY <1>2, DirEntered
  <2>2. pc = "enter" /\ pc' = "read" /\ at' = at
    BY <1>2 DEF EnterDir
  <2>3. at > 0
    BY <2>2 DEF FramesRight
  <2>4. arg.dir \in Walked(masks[at]) /\ arg.pat = masks[at].pat
    BY <2>2, <2>3, MaskAt DEF FramesRight
  <2> HIDE DEF l
  <2>5. ASSUME NEW i \in DOMAIN stack'
        PROVE  FrameOf(masks[at], stack'[i])
    <3>1. CASE i = l + 1
      BY <2>1, <2>4, <3>1 DEF FrameOf
    <3>2. CASE i \in DOMAIN stack
      BY <2>1, <3>2 DEF FramesRight
    <3> QED
      BY <2>1, <2>5, <3>1, <3>2
  <2>6. \A i \in DOMAIN stack' : FrameOf(masks[at], stack[i])'
    BY <1>0, <2>2, <2>5 DEF FrameOf, Walked
  <2> QED
    BY <2>2, <2>3, <2>6 DEF FramesRight
<1>3. CASE ReadMatch
  <2>1. Reading /\ TakeEntry /\ pc' = "find" /\ at' = at
    BY <1>3 DEF ReadMatch
  <2>2. at > 0 /\ \A i \in DOMAIN stack' : FrameOf(masks[at], stack[i])'
    BY <1>0, <2>1, Reads
  <2> QED
    BY <2>1, <2>2 DEF FramesRight
<1>4. CASE PassesOver
  <2>1. Reading /\ TakeEntry /\ pc' = "read" /\ at' = at
    BY <1>4 DEF PassesOver, Reading
  <2>2. at > 0 /\ \A i \in DOMAIN stack' : FrameOf(masks[at], stack[i])'
    BY <1>0, <2>1, Reads
  <2> QED
    BY <2>1, <2>2 DEF FramesRight
<1>5. CASE WalksDown
  <2>1. /\ Reading /\ TakeEntry /\ pc' = "enter" /\ at' = at /\ sw.recursive
        /\ Entry \in Dirs \ InExcludeD
        /\ arg' = [dir |-> Entry, pat |-> Listing.pat, single |-> NoFile]
    BY <1>5 DEF WalksDown
  <2>2. /\ at > 0 /\ Listing.dir \in Walked(masks[at]) /\ Listing.pat = masks[at].pat
        /\ Entry \in Children(Listing.dir) /\ stack' # <<>>
        /\ \A i \in DOMAIN stack' : FrameOf(masks[at], stack[i])'
    BY <1>0, <2>1, Reads
  <2>3. Entry \in Walked(masks[at])
    <3>1. masks[at].dir \in Dirs
      BY <2>2, MaskAt
    <3>2. Closed(Below(masks[at].dir)) /\ Walked(masks[at]) = Below(masks[at].dir)
      BY <2>1, <3>1, BelowIs DEF Walked
    <3> QED
      BY <2>1, <2>2, <3>2 DEF Closed, Children
  <2>4. arg'.dir = Entry /\ arg'.pat = Listing.pat /\ arg'.single = NoFile
    BY <2>1
  <2> QED
    BY <1>0, <2>1, <2>2, <2>3, <2>4 DEF FramesRight, Walked
<1>6. CASE CloseDir
  <2>1. /\ DOMAIN stack' \subseteq DOMAIN stack
        /\ \A i \in DOMAIN stack' : stack'[i] = stack[i]
    BY <1>6, DirClosed
  <2>2. pc = "read" /\ pc' = ReturnTo(stack') /\ at' = at
    BY <1>6 DEF CloseDir
  <2>3. \A i \in DOMAIN stack' : FrameOf(masks[at], stack[i])'
    BY <1>0, <2>1, <2>2 DEF FramesRight, FrameOf, Walked
  <2>4. at > 0 /\ pc' # "enter" /\ (pc' \in {"list", "done"} => stack' = <<>>)
    BY <2>2 DEF FramesRight, ReturnTo
  <2> QED
    BY <2>2, <2>3, <2>4 DEF FramesRight
<1>7. ASSUME UNCHANGED <<at, stack>>, at > 0 \/ pc' = "done", pc' # "enter",
             pc' \in {"list", "done"} => stack = <<>>
      PROVE  FramesRight'
  BY <1>0, <1>7 DEF FramesRight, FrameOf, Walked
<1>8. CASE EnterSingle \/ Search \/ Returns \/ GoesOn
           \/ (pc = "list" /\ pc' = "done" /\ UNCHANGED <<at, arg, stack, glpActive, searched>>)
  BY <1>7, <1>8 DEF EnterSingle, Search, Returns, GoesOn, InFile, ReturnTo, FramesRight
<1>9. CASE UNCHANGED <<control, searched>>
  BY <1>0, <1>9 DEF FramesRight, FrameOf, Walked, control
<1> QED
  BY <1>0, <1>1, <1>2, <1>3, <1>4, <1>5, <1>6, <1>8, <1>9 DEF WalkStep

LEMMA NextHandRight == TypeOK /\ FramesRight /\ HandRight /\ [Next]_vars => HandRight'
<1> SUFFICES ASSUME TypeOK, FramesRight, HandRight, [Next]_vars, InFile'
             PROVE  HandRight'
  BY DEF HandRight
<1>0. masks' = masks /\ sw' = sw /\ WalkStep
  BY WalkSteps
<1>1. CASE EnterSingle
  <2>1. /\ pc = "enter" /\ pc' = "find" /\ at' = at /\ glpActive' = arg.single
        /\ ~sw.recursive
    BY <1>1 DEF EnterSingle, NamesSingleFile
  <2>2. arg = masks[at]
    BY <2>1 DEF FramesRight
  <2> QED
    BY <1>0, <2>1, <2>2 DEF HandRight, Reaches
<1>2. CASE ReadMatch
  <2>1. /\ Reading /\ TakeEntry /\ pc' = "find" /\ at' = at /\ glpActive' = Entry
        /\ Entry \in Listing.pat
    BY <1>2 DEF ReadMatch, TakeEntry
  <2>2. /\ Listing.dir \in Walked(masks[at]) /\ Listing.pat = masks[at].pat
        /\ Entry \in Children(Listing.dir)
    BY <1>0, <2>1, Reads
  <2> QED
    BY <1>0, <2>1, <2>2 DEF HandRight, Reaches, Walked
<1>3. CASE GoesOn
  BY <1>0, <1>3 DEF GoesOn, HandRight, Reaches, Walked, InFile
<1>4. CASE UNCHANGED <<control, searched>>
  BY <1>0, <1>4 DEF control, HandRight, Reaches, Walked, InFile
<1>5. ASSUME NextMask \/ EnterDir \/ CloseDir \/ Search \/ Returns \/ PassesOver \/ WalksDown
             \/ (pc = "list" /\ pc' = "done")
      PROVE  FALSE
  BY <1>5 DEF NextMask, EnterDir, CloseDir, Search, Returns, PassesOver, Reading, WalksDown,
              ReturnTo, InFile
<1> QED
  BY <1>0, <1>1, <1>2, <1>3, <1>4, <1>5 DEF WalkStep

(* What a search adds to what has been searched.                           *)
LEMMA SearchAdds ==
  ASSUME TypeOK, Search
  PROVE  /\ pc = "search" /\ DOMAIN searched' = DOMAIN searched \cup {Len(searched) + 1}
         /\ Len(searched) + 1 \notin DOMAIN searched
         /\ searched'[Len(searched) + 1] = <<at, glpActive>>
         /\ \A i \in DOMAIN searched : searched'[i] = searched[i]
         /\ pc' = ReturnTo(stack) /\ UNCHANGED <<at, stack, glpActive>>
<1>1. searched \in Seq(Nat \X Files) /\ searched' = Append(searched, <<at, glpActive>>)
  BY DEF TypeOK, Search
<1>2. /\ DOMAIN searched' = DOMAIN searched \cup {Len(searched) + 1}
      /\ Len(searched) + 1 \notin DOMAIN searched
      /\ searched'[Len(searched) + 1] = <<at, glpActive>>
      /\ \A i \in DOMAIN searched : searched'[i] = searched[i]
  BY <1>1
<1> QED
  BY <1>2 DEF Search

LEMMA NextSearchedAllowed ==
  TypeOK /\ FramesRight /\ HandRight /\ SearchedAllowed /\ [Next]_vars => SearchedAllowed'
<1> SUFFICES ASSUME TypeOK, FramesRight, HandRight, SearchedAllowed, [Next]_vars
             PROVE  SearchedAllowed'
  OBVIOUS
<1>0. masks' = masks /\ sw' = sw /\ WalkStep /\ at \in Nat
  BY WalkSteps, MasksAssumption DEF TypeOK
<1>1. CASE Search
  <2> DEFINE d == Len(searched) + 1
  <2>1. /\ pc = "search" /\ DOMAIN searched' = DOMAIN searched \cup {d}
        /\ searched'[d] = <<at, glpActive>>
        /\ \A i \in DOMAIN searched : searched'[i] = searched[i]
        /\ at' = at
    BY <1>1, SearchAdds
  <2> HIDE DEF d
  <2>2. at > 0 /\ glpActive \in Allowed(masks[at])
    <3>1. glpActive \in Files /\ at > 0 /\ InFile
      BY <2>1 DEF TypeOK, FramesRight, InFile
    <3> QED
      BY <2>1, <3>1 DEF HandRight, Reaches, Allowed, Children
  <2>3. \A m : Allowed(m)' = Allowed(m)
    BY <1>0 DEF Allowed, Walked
  <2>4. \A i \in DOMAIN searched' :
          searched'[i][1] \in 1..at /\ searched'[i][2] \in Allowed(masks[searched'[i][1]])
    BY <1>0, <2>1, <2>2 DEF SearchedAllowed
  <2> QED
    BY <1>0, <2>1, <2>4 DEF SearchedAllowed, Allowed, Walked
<1>2. ASSUME searched' = searched, at' = at \/ at' = at + 1
      PROVE  SearchedAllowed'
  BY <1>0, <1>2 DEF SearchedAllowed, Allowed, Walked
<1>3. (searched' = searched /\ (at' = at \/ at' = at + 1)) \/ Search
  BY <1>0 DEF WalkStep, NextMask, EnterSingle, EnterDir, ReadMatch, CloseDir, Returns, GoesOn,
              PassesOver, WalksDown, control
<1> QED
  BY <1>1, <1>2, <1>3
-----------------------------------------------------------------------------
(* Nothing is lost.                                                        *)

(* What the frame that reads has ahead of it, with and without its entry.  *)
LEMMA ReadsOn ==
  ASSUME TypeOK, FramesRight, Reading, TakeEntry, masks' = masks, sw' = sw, at' = at,
         NEW f \in masks[at].pat, NEW i \in DOMAIN stack, f \in Coming(stack[i])
  PROVE  \/ i \in DOMAIN stack' /\ f \in stack'[i].pat /\ f \in Coming(stack'[i])
         \/ ~sw.recursive /\ f = Entry
         \/ sw.recursive /\ Entry \notin InExcludeD /\ f \in FilesBelow(Entry)
<1> DEFINE l == Len(stack)
<1>1. /\ DOMAIN stack' = DOMAIN stack
      /\ \A k \in DOMAIN stack : k # l => stack'[k] = stack[k]
      /\ Left(stack[l]) = Left(stack'[l]) \cup {Entry}
  BY EntryTaken
<1> HIDE DEF l
<1>2. f \in stack'[i].pat
  BY <1>1, Reads DEF FrameOf
<1>3. CASE i = l
  <2>1. CASE sw.recursive
    <3>1. PICK x \in Left(stack[i]) \ InExcludeD : f \in FilesBelow(x)
      BY <2>1 DEF Coming, Ahead
    <3>2. x \in Left(stack'[i]) \/ x = Entry
      BY <1>1, <1>3, <3>1
    <3> QED
      BY <1>1, <1>2, <2>1, <3>1, <3>2 DEF Coming, Ahead
  <2>2. CASE ~sw.recursive
    BY <1>1, <1>2, <1>3, <2>2 DEF Coming
  <2> QED
    BY <2>1, <2>2
<1>4. CASE i # l
  BY <1>1, <1>2, <1>4
<1> QED
  BY <1>3, <1>4

(* What has been searched stays so.                                        *)
LEMMA HasStays ==
  ASSUME TypeOK, [Next]_vars, NEW m, NEW f, Has(m, f)
  PROVE  Has(m, f)'
<1>1. CASE Search
  BY <1>1, SearchAdds DEF Has
<1>2. searched' = searched \/ Search
  BY WalkSteps DEF WalkStep, NextMask, EnterSingle, EnterDir, ReadMatch, CloseDir, Returns, GoesOn,
              PassesOver, WalksDown
<1> QED
  BY <1>1, <1>2 DEF Has

(* A file that is wanted is one that the walk comes to and lets pass.      *)
LEMMA WantedIs ==
  ASSUME NEW m, NEW f \in Wanted(m)
  PROVE  /\ f \in Files \ InExclude /\ ~(sw.ignoreBin /\ f \in IsBinary)
         /\ Reaches(m, f) /\ (sw.recursive \/ m.single \in {NoFile, f})
BY DEF Wanted, Allowed, Reaches, Children

LEMMA NextFaultsTake == TypeOK /\ FaultsTake /\ [Next]_vars => FaultsTake'
<1> SUFFICES ASSUME TypeOK, FaultsTake, [Next]_vars, faults' = 0
             PROVE  (present = Nodes /\ empty = {})'
  BY DEF FaultsTake
<1>1. UNCHANGED <<present, empty>> /\ faults = 0
  <2>1. CASE UNCHANGED fs
    BY <2>1 DEF fs
  <2>2. UNCHANGED fs \/ Environment
    BY DEF Next, Walk, vars, NextMask, EndOfMasks, EnterSingle, EnterDir, EnterFails,
       ReadMatch, ReadReject, ReadDir, ReadOther, CloseDir, FindExcluded, StatFails, MapFails,
       StatFile, OpenFails, OpenFile, BusError, CheckBinary, Search, SearchFails
  <2>3. CASE Environment
    <3>1. faults' = faults + 1 /\ faults \in Nat
      BY <2>3, FaultsAssumption DEF Environment, Vanish, Truncate, TypeOK
    <3> QED
      BY <3>1
  <2> QED
    BY <2>1, <2>2, <2>3
<1> QED
  BY <1>1 DEF FaultsTake, Nodes
(* A wanted file that is there is not passed over: ...                     *)
LEMMA StillComes ==
  ASSUME TypeOK, FramesRight, [Next]_vars, at' = at, at > 0,
         NEW f \in Wanted(masks[at]), f \in present \ empty, Dirs \subseteq present,
         Awaits(f)
  PROVE  Has(at, f)' \/ Awaits(f)'
<1>0. masks' = masks /\ sw' = sw /\ WalkStep
  BY WalkSteps
<1>1. /\ f \in Files \ InExclude /\ f \notin Dirs /\ ~(sw.ignoreBin /\ f \in IsBinary)
      /\ Reaches(masks[at], f) /\ (sw.recursive \/ masks[at].single \in {NoFile, f})
  BY WantedIs, NodesIn
<1>2. ASSUME UNCHANGED stack, NEW i \in DOMAIN stack, f \in stack[i].pat,
             f \in Coming(stack[i])
      PROVE  Awaits(f)'
  BY <1>0, <1>2 DEF Awaits, Coming, Ahead, FilesBelow, Below, Closed
<1>3. \A x : FilesBelow(x)' = FilesBelow(x)
  BY DEF FilesBelow, Below, Closed
<1>4. CASE NextMask \/ pc = "list"
  <2>1. pc = "list" /\ stack = <<>>
    BY <1>4 DEF NextMask, FramesRight
  <2> QED
    BY <2>1 DEF Awaits, InFile
<1>5. CASE EnterSingle
  <2>1. /\ pc = "enter" /\ ~sw.recursive /\ arg.single \in Files /\ glpActive' = arg.single
        /\ pc' = "find" /\ UNCHANGED stack
    BY <1>5 DEF EnterSingle, NamesSingleFile, IsValidFile
  <2>2. stack = <<>> /\ arg = masks[at]
    BY <2>1 DEF FramesRight
  <2>3. f = arg.single
    BY <1>1, <2>1, <2>2, NodesAssumption
  <2> QED
    BY <2>1, <2>3 DEF Awaits, InFile
<1>6. CASE EnterDir
  <2> DEFINE l == Len(stack)
  <2>1. /\ DOMAIN stack' = DOMAIN stack \cup {l + 1}
        /\ \A i \in DOMAIN stack : stack'[i] = stack[i]
        /\ stack'[l + 1].pat = arg.pat /\ Left(stack'[l + 1]) = Children(arg.dir)
        /\ arg.dir \in Dirs
    BY <1>6, DirEntered
  <2> HIDE DEF l
  <2>2. pc = "enter" /\ ~NamesSingleFile
    BY <1>6 DEF EnterDir
  <2>3. CASE \E i \in DOMAIN stack : f \in stack[i].pat /\ f \in Coming(stack[i])
    BY <1>0, <1>3, <2>1, <2>3 DEF Awaits, Coming, Ahead
  <2>4. CASE f \in Start(arg.dir)
    <3>1. f \in arg.pat
      <4>1. arg.pat = masks[at].pat /\ (~sw.recursive => arg = masks[at])
        BY <2>2 DEF FramesRight
      <4>2. ~sw.recursive => f # arg.single
        BY <1>1, <2>2 DEF NamesSingleFile, IsValidFile
      <4> QED
        BY <1>1, <4>1, <4>2 DEF Reaches
    <3>2. CASE sw.recursive
      <4>1. PICK x \in Children(arg.dir) \ InExcludeD : f \in FilesBelow(x)
        BY <2>1, <2>4, <3>2, FilesStart DEF Start
      <4> QED
        BY <1>0, <1>3, <2>1, <3>1, <3>2, <4>1 DEF Awaits, Coming, Ahead
    <3>3. CASE ~sw.recursive
      BY <1>0, <2>1, <2>4, <3>1, <3>3 DEF Awaits, Coming, Start
    <3> QED
      BY <3>2, <3>3
  <2>5. ~(~sw.recursive /\ f = arg.single)
    BY <1>1, <2>2 DEF NamesSingleFile, IsValidFile
  <2> QED
    BY <2>2, <2>3, <2>4, <2>5 DEF Awaits, InFile
<1>7. ASSUME Reading, TakeEntry
      PROVE  \/ Awaits(f)'
             \/ f \in masks[at].pat /\ ~sw.recursive /\ f = Entry
             \/ /\ f \in masks[at].pat /\ sw.recursive /\ Entry \notin InExcludeD
                /\ f \in FilesBelow(Entry)
  <2>1. PICK i \in DOMAIN stack : f \in stack[i].pat /\ f \in Coming(stack[i])
    BY <1>7 DEF Awaits, Reading, InFile
  <2>2. f \in masks[at].pat
    BY <2>1 DEF FramesRight, FrameOf
  <2>3. \/ i \in DOMAIN stack' /\ f \in stack'[i].pat /\ f \in Coming(stack'[i])
        \/ ~sw.recursive /\ f = Entry
        \/ sw.recursive /\ Entry \notin InExcludeD /\ f \in FilesBelow(Entry)
    BY <1>0, <1>7, <2>1, <2>2, ReadsOn
  <2> QED
    BY <1>0, <1>3, <2>2, <2>3 DEF Awaits, Coming, Ahead
<1>8. CASE ReadMatch
  <2>1. Reading /\ TakeEntry /\ pc' = "find" /\ glpActive' = Entry /\ Entry \in Files
    BY <1>8 DEF ReadMatch, TakeEntry, IsValidFile
  <2>2. Awaits(f)' \/ f = Entry
    BY <1>7, <2>1, NodesIn DEF FilesBelow
  <2> QED
    BY <2>1, <2>2 DEF Awaits, InFile
<1>9. CASE PassesOver
  <2>1. /\ Reading /\ TakeEntry
        /\ \/ Entry \notin Dirs /\ Entry \notin Listing.pat
           \/ Entry \notin present
           \/ Entry \in Dirs /\ (~sw.recursive \/ Entry \in InExcludeD)
    BY <1>9 DEF PassesOver
  <2>2. Listing.pat = masks[at].pat
    BY <1>0, <2>1, Reads
  <2> QED
    BY <1>1, <1>7, <2>1, <2>2 DEF FilesBelow
<1>10. CASE WalksDown
  <2>1. /\ Reading /\ TakeEntry /\ pc' = "enter" /\ sw.recursive /\ sw' = sw
        /\ arg' = [dir |-> Entry, pat |-> Listing.pat, single |-> NoFile]
    BY <1>0, <1>10 DEF WalksDown
  <2>2. arg'.dir = Entry
    BY <2>1
  <2>3. Awaits(f)' \/ f \in FilesBelow(Entry)
    BY <1>7, <2>1
  <2> QED
    BY <1>3, <2>1, <2>2, <2>3 DEF Awaits, Start
<1>11. CASE CloseDir
  <2>1. /\ DOMAIN stack' \subseteq DOMAIN stack
        /\ \A i \in DOMAIN stack' : stack'[i] = stack[i]
        /\ \A i \in DOMAIN stack : i \in DOMAIN stack' \/ Left(stack[i]) = {}
    BY <1>11, DirClosed
  <2>2. PICK i \in DOMAIN stack : f \in stack[i].pat /\ f \in Coming(stack[i])
    BY <1>11 DEF Awaits, CloseDir, InFile
  <2>3. Left(stack[i]) # {}
    BY <2>2 DEF Coming, Ahead
  <2> QED
    BY <1>0, <1>3, <2>1, <2>2, <2>3 DEF Awaits, Coming, Ahead
<1>12. CASE Search
  <2>1. /\ pc = "search" /\ UNCHANGED stack
        /\ DOMAIN searched' = DOMAIN searched \cup {Len(searched) + 1}
        /\ searched'[Len(searched) + 1] = <<at, glpActive>>
    BY <1>12, SearchAdds
  <2>2. CASE glpActive = f
    BY <2>1, <2>2 DEF Has
  <2>3. CASE glpActive # f
    BY <1>2, <2>1, <2>3 DEF Awaits
  <2> QED
    BY <2>2, <2>3
<1>13. CASE Returns
  <2>1. UNCHANGED stack
    BY <1>13 DEF Returns
  <2>2. pc = "enter" => arg.dir \in Dirs \cap present
    BY DEF TypeOK, WalkMask
  <2>3. InFile /\ glpActive # f
    BY <1>1, <1>13, <2>2 DEF Returns, Awaits, InFile
  <2> QED
    BY <1>2, <2>1, <2>3 DEF Awaits, InFile
<1>14. CASE GoesOn
  <2>1. UNCHANGED <<stack, glpActive>> /\ InFile /\ (InFile' \/ pc' \in {"exit", "killed"})
    BY <1>14 DEF GoesOn, InFile
  <2> QED
    BY <1>2, <2>1 DEF Awaits, InFile
<1>15. CASE UNCHANGED <<control, searched>>
  BY <1>0, <1>3, <1>15 DEF control, Awaits, Coming, Ahead, Start, InFile
<1> QED
  BY <1>0, <1>4, <1>5, <1>6, <1>8, <1>9, <1>10, <1>11, <1>12, <1>13, <1>14, <1>15 DEF WalkStep

LEMMA InSeq ==
  ASSUME NEW T, NEW s \in Seq(T), NEW i \in 1..Len(s)
  PROVE  s[i] \in T
OBVIOUS

(* ... and a new mask comes to all that it wants.                          *)
LEMMA NextNoneLost ==
  TypeOK /\ FramesRight /\ NoneLost /\ [Next]_vars => NoneLost'
<1> SUFFICES ASSUME TypeOK, FramesRight, NoneLost, [Next]_vars,
                    NEW m \in 1..at', NEW f \in Wanted(masks[m])',
                    f \in present' \ empty', Dirs \subseteq present'
             PROVE  Has(m, f)' \/ (m = at' /\ Awaits(f)')
  BY DEF NoneLost
<1>0. /\ masks' = masks /\ sw' = sw /\ present' \subseteq present /\ empty \subseteq empty'
      /\ WalkStep /\ at \in Nat
  BY WalkSteps, MasksAssumption DEF TypeOK
<1>1. f \in Wanted(masks[m]) /\ f \in present \ empty /\ Dirs \subseteq present
  BY <1>0 DEF Wanted, Allowed, Walked
<1>2. CASE at' = at
  <2>1. m \in 1..at
    BY <1>2
  <2>2. Has(m, f) \/ (m = at /\ Awaits(f))
    BY <1>1, <2>1 DEF NoneLost
  <2>3. CASE Has(m, f)
    BY <2>3, HasStays
  <2>4. CASE m = at /\ Awaits(f)
    <3>1. at > 0
      BY <1>0, <2>1
    <3>2. Has(at, f)' \/ Awaits(f)'
      BY <1>1, <1>2, <2>4, <3>1, StillComes
    <3> QED
      BY <1>2, <2>4, <3>2 DEF Has
  <2> QED
    BY <2>2, <2>3, <2>4
<1>3. CASE at' # at
  <2>1. NextMask
    BY <1>0, <1>3 DEF WalkStep, EnterSingle, EnterDir, ReadMatch, CloseDir, Search, Returns,
       GoesOn, PassesOver, WalksDown, control
  <2>2. /\ pc = "list" /\ stack = <<>> /\ at' = at + 1 /\ pc' = "enter"
        /\ arg' = masks[at + 1]
    BY <2>1 DEF NextMask, FramesRight
  <2>3. CASE m \in 1..at
    <3>1. Has(m, f)
      BY <1>1, <2>2, <2>3 DEF NoneLost, Awaits, InFile
    <3> QED
      BY <3>1, HasStays
  <2>4. CASE m = at + 1
    <3>1. Reaches(masks[m], f) /\ f \in Files
      BY <1>1, WantedIs
    <3>2. \A x : FilesBelow(x)' = FilesBelow(x)
      BY DEF FilesBelow, Below, Closed
    <3>3. masks[m] \in WalkMask
      <4>1. masks \in Seq(WalkMask) /\ at < Len(masks)
        BY <2>1, MasksAssumption DEF TypeOK, NextMask
      <4>2. PICK s : s = masks
        OBVIOUS
      <4>3. s \in Seq(WalkMask) /\ at < Len(s)
        BY <4>1, <4>2
      <4>4. m \in 1..Len(s)
        BY ONLY <1>0, <2>4, <4>3
      <4>5. s[m] \in WalkMask
        BY ONLY <4>3, <4>4, InSeq
      <4> QED
        BY <4>2, <4>5
    <3>4. masks[m].dir \in Dirs
      BY <3>3 DEF WalkMask
    <3>5. (~sw.recursive /\ f = masks[m].single) \/ f \in Start(masks[m].dir)
      BY <3>1, <3>4 DEF Reaches, Walked, Start, FilesBelow
    <3>6. arg' = masks[m]
      BY <2>2, <2>4
    <3>7. Awaits(f)'
      BY <1>0, <2>2, <3>2, <3>5, <3>6 DEF Awaits, Start
    <3> QED
      BY <2>2, <2>4, <3>7
  <2>5. m \in 1..at \/ m = at + 1
    BY <1>0, <2>2
  <2> QED
    BY <2>3, <2>4, <2>5
<1> QED
  BY <1>2, <1>3
-----------------------------------------------------------------------------
(* Nothing comes twice.                                                    *)

(* What readdir takes is no longer ahead.                                  *)
LEMMA ReadsApart ==
  ASSUME TypeOK, FramesRight, Apart, IsTree, Reading, TakeEntry,
         masks' = masks, sw' = sw, at' = at
  PROVE  /\ DOMAIN stack' = DOMAIN stack /\ Len(stack) \in DOMAIN stack /\ stack' # <<>>
         /\ \A i \in DOMAIN stack : Once(stack'[i].todo)
         /\ \A i \in DOMAIN stack : Ahead(stack'[i]) \subseteq Ahead(stack[i])
         /\ Entry \notin InExcludeD =>
              /\ FilesBelow(Entry) \subseteq Ahead(stack[Len(stack)])
              /\ \A i \in DOMAIN stack : FilesBelow(Entry) \cap Ahead(stack'[i]) = {}
<1> DEFINE l == Len(stack)
<1>1. /\ l \in DOMAIN stack /\ DOMAIN stack' = DOMAIN stack /\ stack' # <<>>
      /\ \A i \in DOMAIN stack : i # l => stack'[i] = stack[i]
      /\ stack'[l].dir = stack[l].dir /\ stack[l].dir \in Dirs
      /\ Left(stack[l]) = Left(stack'[l]) \cup {Entry}
      /\ Once(stack[l].todo) => Once(stack'[l].todo) /\ Entry \notin Left(stack'[l])
  BY EntryTaken
<1> HIDE DEF l
<1>2. /\ \A i \in DOMAIN stack : Once(stack[i].todo)
      /\ \A i, j \in DOMAIN stack : i # j => Ahead(stack[i]) \cap Ahead(stack[j]) = {}
  BY DEF Apart
<1>3. Once(stack'[l].todo) /\ Entry \notin Left(stack'[l])
  BY <1>1, <1>2
<1>4. Left(stack'[l]) \subseteq Children(stack[l].dir) /\ Entry \in Children(stack[l].dir)
  BY <1>1 DEF FramesRight, FrameOf
<1>5. Ahead(stack'[l]) \subseteq Ahead(stack[l])
  BY <1>1 DEF Ahead
<1>6. ASSUME Entry \notin InExcludeD
      PROVE  FilesBelow(Entry) \subseteq Ahead(stack[l])
             /\ FilesBelow(Entry) \cap Ahead(stack'[l]) = {}
  <2>1. FilesBelow(Entry) \subseteq Ahead(stack[l])
    BY <1>1, <1>6 DEF Ahead
  <2>2. ASSUME NEW x \in Left(stack'[l])
        PROVE  FilesBelow(Entry) \cap FilesBelow(x) = {}
    BY <1>1, <1>3, <1>4, SiblingsApart
  <2> QED
    BY <2>1, <2>2 DEF Ahead
<1>7. \A i \in DOMAIN stack : Once(stack'[i].todo) /\ Ahead(stack'[i]) \subseteq Ahead(stack[i])
  BY <1>1, <1>2, <1>3, <1>5
<1>8. ASSUME Entry \notin InExcludeD, NEW i \in DOMAIN stack
      PROVE  FilesBelow(Entry) \cap Ahead(stack'[i]) = {}
  BY <1>1, <1>2, <1>6, <1>8
<1> QED
  BY <1>1, <1>6, <1>7, <1>8 DEF l

LEMMA NextApart ==
  TypeOK /\ FramesRight /\ SearchedAllowed /\ ApartInTree /\ [Next]_vars => ApartInTree'
<1> SUFFICES ASSUME TypeOK, FramesRight, SearchedAllowed, Apart, [Next]_vars, IsTree
             PROVE  Apart'
  BY DEF ApartInTree, IsTree, Below, Closed
<1>0. masks' = masks /\ sw' = sw /\ WalkStep /\ at \in Nat
  BY WalkSteps, MasksAssumption DEF TypeOK
<1>1. /\ \A x : FilesBelow(x)' = FilesBelow(x)
      /\ \A i : Left(stack[i])' = Left(stack'[i]) /\ Ahead(stack[i])' = Ahead(stack'[i])
  BY DEF FilesBelow, Below, Closed, Left, Ahead
<1>2. /\ \A i \in DOMAIN stack : Once(stack[i].todo)
      /\ \A i, j \in DOMAIN stack : i # j => Ahead(stack[i]) \cap Ahead(stack[j]) = {}
      /\ \A i \in DOMAIN stack : Held \cap Ahead(stack[i]) = {}
      /\ \A f : Has(at, f) =>
           /\ f \notin Held
           /\ \A i \in DOMAIN stack : f \notin Ahead(stack[i])
           /\ pc = "enter" => stack # <<>>
      /\ Once(searched)
  BY DEF Apart
(* The frames shrink, and what is in hand was in hand or ahead.            *)
<1>3. ASSUME UNCHANGED <<at, searched>>,
             pc' = "enter" => stack' # <<>> \/ (pc = "enter" /\ stack' = stack),
             DOMAIN stack' \subseteq DOMAIN stack,
             \A i \in DOMAIN stack' : /\ Once(stack'[i].todo)
                                      /\ Ahead(stack'[i]) \subseteq Ahead(stack[i])
                                      /\ Held' \cap Ahead(stack'[i]) = {},
             \A f \in Held' : f \in Held \/ \E i \in DOMAIN stack : f \in Ahead(stack[i])
      PROVE  Apart'
  <2>1. \A f : Has(at, f)' = Has(at, f)
    BY <1>3 DEF Has
  <2>2. \A i, j \in DOMAIN stack' : i # j => Ahead(stack'[i]) \cap Ahead(stack'[j]) = {}
    BY <1>2, <1>3
  <2>3. ASSUME NEW f, Has(at, f)
        PROVE  /\ f \notin Held' /\ \A i \in DOMAIN stack' : f \notin Ahead(stack'[i])
               /\ pc' = "enter" => stack' # <<>>
    BY <1>2, <1>3, <2>3
  <2> QED
    BY <1>1, <1>2, <1>3, <2>1, <2>2, <2>3 DEF Apart
<1>4. CASE NextMask
  <2>1. /\ pc = "list" /\ stack = <<>> /\ stack' = <<>> /\ at' = at + 1
        /\ searched' = searched
    BY <1>4 DEF NextMask, FramesRight
  <2>2. ASSUME NEW f PROVE ~Has(at + 1, f)
    BY <1>0 DEF Has, SearchedAllowed
  <2>3. \A f : ~Has(at, f)'
    BY <2>1, <2>2 DEF Has
  <2>4. DOMAIN stack' = {}
    BY <2>1
  <2> QED
    BY <1>2, <2>1, <2>3, <2>4 DEF Apart
<1>5. CASE EnterSingle
  <2>1. /\ pc = "enter" /\ pc' = "find" /\ ~sw.recursive /\ at' = at
        /\ UNCHANGED <<stack, searched>>
    BY <1>5 DEF EnterSingle, NamesSingleFile
  <2>2. stack = <<>> /\ \A f : ~Has(at, f)
    BY <1>2, <2>1 DEF FramesRight
  <2>3. \A f : ~Has(at, f)'
    BY <2>1, <2>2 DEF Has
  <2>4. DOMAIN stack' = {}
    BY <2>1, <2>2
  <2> QED
    BY <1>2, <2>1, <2>3, <2>4 DEF Apart
<1>6. CASE EnterDir
  <2> DEFINE l == Len(stack)
  <2>1. /\ l + 1 \notin DOMAIN stack /\ DOMAIN stack' = DOMAIN stack \cup {l + 1}
        /\ \A i \in DOMAIN stack : stack'[i] = stack[i]
        /\ stack'[l + 1].todo = Entries[arg.dir] /\ Left(stack'[l + 1]) = Children(arg.dir)
        /\ arg.dir \in Dirs
    BY <1>6, DirEntered
  <2> HIDE DEF l
  <2>2. pc = "enter" /\ pc' = "read" /\ at' = at /\ searched' = searched
    BY <1>6 DEF EnterDir
  <2>3. Ahead(stack'[l + 1]) \subseteq Held
    BY <2>1, <2>2, FilesStart DEF Ahead, Held
  <2>4. Once(stack'[l + 1].todo)
    BY <2>1 DEF Once, IsTree
  <2>5. Held' = {} /\ \A f : Has(at, f)' = Has(at, f)
    BY <2>2 DEF Held, Has, InFile
  <2>6. \A i \in DOMAIN stack' : Once(stack'[i].todo)
    BY <1>2, <2>1, <2>4
  <2>7. \A i, j \in DOMAIN stack' : i # j => Ahead(stack'[i]) \cap Ahead(stack'[j]) = {}
    BY <1>2, <2>1, <2>3
  <2>8. \A f : Has(at, f) => \A i \in DOMAIN stack' : f \notin Ahead(stack'[i])
    BY <1>2, <2>1, <2>3
  <2> QED
    BY <1>1, <1>2, <2>2, <2>5, <2>6, <2>7, <2>8 DEF Apart
<1>7. CASE ReadMatch
  <2>1. /\ Reading /\ TakeEntry /\ pc' = "find" /\ glpActive' = Entry /\ Entry \in Files
        /\ UNCHANGED <<at, searched>>
    BY <1>7 DEF ReadMatch, TakeEntry, IsValidFile
  <2>2. Held' = {Entry} /\ FilesBelow(Entry) = {Entry} /\ Entry \notin InExcludeD
    BY <2>1, NodesIn DEF Held, InFile, FilesBelow
  <2> QED
    BY <1>0, <1>3, <2>1, <2>2, ReadsApart
<1>8. CASE PassesOver
  <2>1. Reading /\ TakeEntry /\ pc' = "read" /\ UNCHANGED <<at, searched>>
    BY <1>8 DEF PassesOver, Reading
  <2>2. Held' = {}
    BY <2>1 DEF Held, InFile
  <2> QED
    BY <1>0, <1>3, <2>1, <2>2, ReadsApart
<1>9. CASE WalksDown
  <2>1. /\ Reading /\ TakeEntry /\ pc' = "enter" /\ UNCHANGED <<at, searched>>
        /\ Entry \notin InExcludeD
        /\ arg' = [dir |-> Entry, pat |-> Listing.pat, single |-> NoFile]
    BY <1>9 DEF WalksDown
  <2>2. arg'.dir = Entry
    BY <2>1
  <2>3. Held' = FilesBelow(Entry)
    BY <1>1, <2>1, <2>2 DEF Held
  <2> QED
    BY <1>0, <1>3, <2>1, <2>3, ReadsApart
<1>10. CASE CloseDir
  <2>1. /\ DOMAIN stack' \subseteq DOMAIN stack
        /\ \A i \in DOMAIN stack' : stack'[i] = stack[i]
    BY <1>10, DirClosed
  <2>2. pc' \in {"list", "read"} /\ UNCHANGED <<at, searched>>
    BY <1>10 DEF CloseDir, ReturnTo
  <2>3. Held' = {}
    BY <2>2 DEF Held, InFile
  <2> QED
    BY <1>2, <1>3, <2>1, <2>2, <2>3
<1>11. CASE Search
  <2> DEFINE d == Len(searched) + 1
  <2>1. /\ pc = "search" /\ DOMAIN searched' = DOMAIN searched \cup {d}
        /\ searched'[d] = <<at, glpActive>>
        /\ \A i \in DOMAIN searched : searched'[i] = searched[i]
        /\ pc' \in {"list", "read"} /\ UNCHANGED <<at, stack, glpActive>>
    BY <1>11, SearchAdds DEF ReturnTo
  <2> HIDE DEF d
  <2>2. glpActive \in Held /\ Held' = {}
    BY <2>1 DEF Held, InFile
  <2>3. \A i \in DOMAIN searched : searched[i] # <<at, glpActive>>
    BY <1>2, <2>2 DEF Has
  <2>4. Once(searched')
    BY <1>2, <2>1, <2>3 DEF Once
  <2>5. \A f : Has(at, f)' => Has(at, f) \/ f = glpActive
    BY <2>1 DEF Has
  <2>6. \A f : Has(at, f)' => \A i \in DOMAIN stack' : f \notin Ahead(stack'[i])
    BY <1>2, <2>1, <2>2, <2>5
  <2> QED
    BY <1>1, <1>2, <2>1, <2>2, <2>4, <2>6 DEF Apart
<1>12. CASE Returns \/ GoesOn \/ (pc = "list" /\ pc' = "done"
                                  /\ UNCHANGED <<at, arg, stack, glpActive, searched>>)
  <2>1. UNCHANGED <<at, stack, searched>> /\ pc' # "enter" /\ Held' \subseteq Held
    BY <1>12 DEF Returns, GoesOn, ReturnTo, Held, InFile
  <2> QED
    BY <1>2, <1>3, <2>1
<1>13. CASE UNCHANGED <<control, searched>>
  <2>1. UNCHANGED <<pc, at, stack, searched>> /\ Held' = Held
    BY <1>1, <1>13 DEF control, Held, InFile
  <2> QED
    BY <1>2, <1>3, <2>1
<1> QED
  BY <1>0, <1>4, <1>5, <1>6, <1>7, <1>8, <1>9, <1>10, <1>11, <1>12, <1>13 DEF WalkStep
-----------------------------------------------------------------------------
(* The theorems.                                                           *)

(* The walk is over when all the masks are.                                *)
AllMasks == pc = "done" => at = Len(masks) /\ stack = <<>>

LEMMA NextAllMasks == TypeOK /\ FramesRight /\ AllMasks /\ [Next]_vars => AllMasks'
<1> SUFFICES ASSUME TypeOK, FramesRight, AllMasks, [Next]_vars, pc' = "done"
             PROVE  AllMasks'
  BY DEF AllMasks
<1>1. EndOfMasks \/ (pc = "done" /\ UNCHANGED <<masks, at, stack>>)
  BY DEF Next, Walk, Environment, Vanish, Truncate, vars, inputs, control, NextMask,
     EnterSingle, EnterDir, EnterFails, ReadMatch, ReadReject, ReadDir, ReadOther, CloseDir,
     FindExcluded, StatFails, MapFails, StatFile, OpenFails, OpenFile, BusError, CheckBinary,
     Search, SearchFails, ReturnTo, Reading
<1> QED
  BY <1>1 DEF AllMasks, EndOfMasks, inputs, FramesRight

LEMMA InitWalk ==
  Init => /\ FramesRight /\ HandRight /\ SearchedAllowed /\ NoneLost /\ FaultsTake
          /\ ApartInTree /\ AllMasks
<1> SUFFICES ASSUME Init
             PROVE  /\ FramesRight /\ HandRight /\ SearchedAllowed /\ NoneLost /\ FaultsTake
                    /\ ApartInTree /\ AllMasks
  OBVIOUS
<1>1. /\ pc = "list" /\ stack = <<>> /\ at = 0 /\ searched = <<>> /\ faults = 0
      /\ present = Nodes /\ empty = {}
  BY DEF Init, Nodes
<1>2. DOMAIN stack = {} /\ DOMAIN searched = {} /\ 1..at = {} /\ Held = {}
  BY <1>1 DEF Held, InFile
<1> QED
  BY <1>1, <1>2 DEF FramesRight, HandRight, SearchedAllowed, NoneLost, FaultsTake, ApartInTree,
     Apart, AllMasks, Has, InFile, Once

(* The walk is where it should be, in every reachable state.               *)
LEMMA WalkIsRight ==
  Spec => [](/\ TypeOK /\ FramesRight /\ HandRight /\ SearchedAllowed /\ NoneLost
             /\ FaultsTake /\ ApartInTree /\ AllMasks)
BY InitType, NextType, InitWalk, NextFramesRight, NextHandRight, NextSearchedAllowed,
   NextNoneLost, NextFaultsTake, NextApart, NextAllMasks, PTL DEF Spec

(* What a mask asks for and is there at the end is not still to come.      *)
LEMMA DoneHas ==
  ASSUME TypeOK, NoneLost, AllMasks, pc = "done", NEW m \in DOMAIN masks,
         NEW f \in Wanted(masks[m]), f \in present \ empty, Dirs \subseteq present
  PROVE  \E i \in DOMAIN searched : searched[i] = <<m, f>>
<1>1. masks \in Seq(WalkMask) /\ at = Len(masks) /\ stack = <<>>
  BY MasksAssumption DEF TypeOK, AllMasks
<1>2. m \in 1..at /\ DOMAIN stack = {}
  BY <1>1
<1>3. ~Awaits(f)
  BY <1>2 DEF Awaits, InFile
<1> QED
  BY <1>2, <1>3 DEF NoneLost, Has

(* For any directories, masks and switches: only what a mask allows is     *)
(* searched, and a walk from which nothing was taken away has searched all *)
(* that the masks ask for.                                                 *)
THEOREM WalkSearchesWanted == Spec => []AllWantedSearched
<1>1. TypeOK /\ SearchedAllowed /\ NoneLost /\ FaultsTake /\ AllMasks => AllWantedSearched
  <2> SUFFICES ASSUME TypeOK, SearchedAllowed, NoneLost, FaultsTake, AllMasks,
                      pc = "done", faults = 0, NEW m \in DOMAIN masks,
                      NEW f \in Wanted(masks[m])
               PROVE  \E i \in DOMAIN searched : searched[i] = <<m, f>>
    BY DEF AllWantedSearched, SearchedAllowed
  <2>1. f \in present \ empty /\ Dirs \subseteq present
    BY WantedIs DEF FaultsTake, Nodes
  <2> QED
    BY <2>1, DoneHas
<1> QED
  BY <1>1, WalkIsRight, PTL

(* Whatever vanishes or is emptied on the way, at whatever moment: a file  *)
(* that a mask asks for and that is still there when the walk ends has     *)
(* been searched, if the directories are there too.                        *)
THEOREM FaultsCostThemselves == Spec => []OnlyFaultsCost
<1>1. TypeOK /\ NoneLost /\ AllMasks => OnlyFaultsCost
  BY DoneHas DEF OnlyFaultsCost
<1> QED
  BY <1>1, WalkIsRight, PTL

(* In a directory tree of any shape and depth, no mask has a file searched *)
(* twice.                                                                  *)
THEOREM TreeSearchedOnce == Spec => []NothingTwice
<1>1. ApartInTree => NothingTwice
  BY DEF ApartInTree, Apart, NothingTwice, Once
<1> QED
  BY <1>1, WalkIsRight, PTL

-----------------------------------------------------------------------------
(***************************************************************************)
(* The compare with a mask, and the excluded names (WildMatch).            *)
(***************************************************************************)

(* One turn of the recursion that says what a mask fits.                   *)
FitsTurn(mask, s, g, i, j) ==
  IF i > Len(mask) THEN j > Len(s)
  ELSE IF mask[i] = STAR THEN \E k \in j..(Len(s) + 1) : g[i + 1][k]
  ELSE j <= Len(s) /\ mask[i] \in {s[j], ANY} /\ g[i + 1][j + 1]

(* There is a function that the turns define.                              *)
LEMMA FitsIs ==
  ASSUME NEW mask, Len(mask) \in Nat, NEW s, Len(s) \in Nat
  PROVE  \A i \in 1..(Len(mask) + 1), j \in 1..(Len(s) + 1) :
           Fits(mask, s)[i][j] <=> FitsTurn(mask, s, Fits(mask, s), i, j)
<1> DEFINE S == 1..(Len(mask) + 1)
           J == 1..(Len(s) + 1)
           T == [J -> BOOLEAN]
           FT == [S -> T]
           Row(g, i) == [j \in 1..(Len(s) + 1) |-> FitsTurn(mask, s, g, i, j)]
           Turned(g) == [i \in 1..(Len(mask) + 1) |-> Row(g, i)]
           the == CHOOSE g : g = Turned(g)
           m == [i \in S |-> Len(mask) + 1 - i]
           step == [p \in FT \X S |-> Row(p[1], p[2])]
<1>1. Fits(mask, s) = the
  BY DEF Fits, FitsTurn
<1>2. m \in [S -> 0..(Len(mask) + 1)]
  <2>1. \A i \in S : Len(mask) + 1 - i \in 0..(Len(mask) + 1)
    OBVIOUS
  <2> QED
    BY <2>1
<1>3. ASSUME NEW g \in FT, NEW i \in S PROVE Row(g, i) \in T
  <2>1. ASSUME NEW j \in J PROVE FitsTurn(mask, s, g, i, j) \in BOOLEAN
    <3>1. CASE i > Len(mask)
      BY <3>1 DEF FitsTurn
    <3>2. CASE ~(i > Len(mask)) /\ mask[i] = STAR
      BY <3>2 DEF FitsTurn
    <3>3. CASE ~(i > Len(mask)) /\ mask[i] # STAR
      BY <3>3 DEF FitsTurn
    <3> QED
      BY <3>1, <3>2, <3>3
  <2> QED
    BY <2>1
<1>4. step \in [FT \X S -> T]
  <2> HIDE DEF Row
  <2> QED
    BY <1>3
<1>5. \A g \in FT, i \in S : step[<<g, i>>] = Row(g, i)
  <2> HIDE DEF Row, FT, S
  <2> QED
    OBVIOUS
<1> HIDE DEF step
<1>6. Descends(S, T, m, step)
  <2> SUFFICES ASSUME NEW g \in FT, NEW h \in FT, NEW i \in S,
                      \A k \in S : m[k] < m[i] => g[k] = h[k]
               PROVE  step[<<g, i>>] = step[<<h, i>>]
    BY DEF Descends
  <2>1. i <= Len(mask) => g[i + 1] = h[i + 1]
    <3> SUFFICES ASSUME i <= Len(mask) PROVE g[i + 1] = h[i + 1]
      OBVIOUS
    <3>1. i + 1 \in S /\ m[i + 1] = Len(mask) + 1 - (i + 1) /\ m[i] = Len(mask) + 1 - i
      OBVIOUS
    <3>2. Len(mask) + 1 - (i + 1) < Len(mask) + 1 - i
      OBVIOUS
    <3> HIDE DEF m
    <3> QED
      BY <3>1, <3>2
  <2>2. ASSUME NEW j \in J
        PROVE  FitsTurn(mask, s, g, i, j) = FitsTurn(mask, s, h, i, j)
    <3>1. CASE i > Len(mask)
      BY <3>1 DEF FitsTurn
    <3>2. CASE ~(i > Len(mask))
      <4>1. g[i + 1] = h[i + 1]
        BY <2>1, <3>2
      <4> QED
        BY <3>2, <4>1 DEF FitsTurn
    <3> QED
      BY <3>1, <3>2
  <2>3. Row(g, i) = Row(h, i)
    BY <2>2
  <2> HIDE DEF Row
  <2> QED
    BY <1>5, <2>3
<1>7. PICK fits \in FT : Recursion(fits, S, step)
  <2>1. T # {}
    <3>1. [j \in J |-> TRUE] \in T
      OBVIOUS
    <3> QED
      BY <3>1
  <2>2. Len(mask) + 1 \in Nat
    OBVIOUS
  <2> HIDE DEF m, step, S, T
  <2> QED
    BY <1>2, <1>4, <1>6, <2>1, <2>2, RecursionExists
<1>8. fits = Turned(fits)
  <2>1. ASSUME NEW i \in S PROVE fits[i] = Row(fits, i)
    <3>1. fits[i] = step[<<fits, i>>]
      BY <1>7 DEF Recursion
    <3> HIDE DEF Row
    <3> QED
      BY <1>5, <3>1
  <2> HIDE DEF Row
  <2> QED
    BY <2>1
<1>9. the = Turned(the)
  <2> HIDE DEF Turned
  <2> QED
    BY <1>8
<1>10. ASSUME NEW i \in S, NEW j \in J
       PROVE  the[i][j] <=> FitsTurn(mask, s, the, i, j)
  <2> HIDE DEF the
  <2>1. the[i] = Row(the, i)
    <3> HIDE DEF Row
    <3> QED
      BY <1>9
  <2> QED
    BY <2>1
<1> HIDE DEF the
<1> QED
  BY <1>1, <1>10

(* Strong induction downwards from n + 1.                                  *)
LEMMA Downwards ==
  ASSUME NEW n \in Nat, NEW G,
         \A i \in 1..(n + 1) : (\A k \in (i + 1)..(n + 1) : k \in G) => i \in G
  PROVE  \A i \in 1..(n + 1) : i \in G
<1> SUFFICES ASSUME NEW i \in 1..(n + 1), i \notin G
             PROVE  FALSE
  OBVIOUS
<1> DEFINE LeftOver == {d \in 0..n : n + 1 - d \notin G}
<1>1. n + 1 - i \in LeftOver
  <2>1. n + 1 - i \in 0..n /\ n + 1 - (n + 1 - i) = i
    OBVIOUS
  <2> QED
    BY <2>1
<1>2. LeftOver \in SUBSET Nat /\ LeftOver # {}
  <2>1. LeftOver \subseteq Nat
    OBVIOUS
  <2> HIDE DEF LeftOver
  <2> QED
    BY <1>1, <2>1
<1>3. PICK d \in LeftOver : \A e \in LeftOver : d <= e
  <2> HIDE DEF LeftOver
  <2> QED
    BY <1>2, Least
<1>4. d \in 0..n /\ n + 1 - d \notin G /\ n + 1 - d \in 1..(n + 1)
  BY <1>3
<1>5. ASSUME NEW k \in (n + 1 - d + 1)..(n + 1) PROVE k \in G
  <2>1. n + 1 - k \in 0..n /\ n + 1 - (n + 1 - k) = k /\ ~(d <= n + 1 - k)
    BY <1>4
  <2>2. n + 1 - k \notin LeftOver
    BY <1>3, <2>1
  <2> QED
    BY <2>1, <2>2
<1> QED
  BY <1>4, <1>5

(* A mask with no star fits the string that it is, and with no ? either it *)
(* fits no other.                                                          *)
LEMMA FitsSame ==
  ASSUME NEW mask, Len(mask) \in Nat, NEW s, Len(s) \in Nat,
         NEW i \in 1..(Len(mask) + 1), NEW j \in 1..(Len(s) + 1),
         Len(mask) - i = Len(s) - j,
         \A k \in i..Len(mask) : mask[k] # STAR /\ mask[k] = s[j + k - i]
  PROVE  Fits(mask, s)[i][j]
<1> PICK n \in Nat, m \in Nat : n = Len(mask) /\ m = Len(s)
  OBVIOUS
<1>0. i \in 1..(n + 1) /\ j \in 1..(m + 1) /\ n - i = m - j
  OBVIOUS
<1> DEFINE f == Fits(mask, s)
           G == {k \in 1..(n + 1) : k >= i => f[k][j + k - i]}
<1>1. ASSUME NEW k \in 1..(n + 1), \A l \in (k + 1)..(n + 1) : l \in G, k >= i
      PROVE  f[k][j + k - i]
  <2>0. k \in 1..(n + 1) /\ k >= i
    BY <1>1
  <2>1. j + k - i \in 1..(m + 1)
    BY ONLY <1>0, <2>0, n \in Nat, m \in Nat
  <2>2. f[k][j + k - i] <=> FitsTurn(mask, s, f, k, j + k - i)
    <3> HIDE DEF f
    <3> QED
      BY <2>1, FitsIs DEF f
  <2>3. CASE k > n
    <3>1. j + k - i > m
      BY ONLY <1>0, <2>0, <2>3, n \in Nat, m \in Nat
    <3> QED
      BY <2>2, <2>3, <3>1 DEF FitsTurn
  <2>4. CASE ~(k > n)
    <3>1. /\ k + 1 \in (k + 1)..(n + 1) /\ k + 1 >= i /\ k \in i..n
          /\ j + k - i <= m /\ j + (k + 1) - i = j + k - i + 1
      BY ONLY <1>0, <2>0, <2>4, n \in Nat, m \in Nat
    <3>2. f[k + 1][j + k - i + 1]
      BY <1>1, <3>1
    <3>3. mask[k] # STAR /\ mask[k] = s[j + k - i]
      BY <3>1
    <3> HIDE DEF f
    <3> QED
      BY <2>2, <2>4, <3>1, <3>2, <3>3 DEF FitsTurn
  <2> QED
    BY <2>3, <2>4
<1>2. \A k \in 1..(n + 1) : k \in G
  <2>1. \A k \in 1..(n + 1) : (\A l \in (k + 1)..(n + 1) : l \in G) => k \in G
    BY <1>1
  <2> HIDE DEF G
  <2> QED
    BY <2>1, Downwards
<1>3. i \in G /\ j + i - i = j
  BY <1>2
<1> HIDE DEF f
<1> QED
  BY <1>3 DEF f

LEMMA FitsLiteral ==
  ASSUME NEW mask, Len(mask) \in Nat, NEW s, Len(s) \in Nat,
         \A k \in 1..Len(mask) : mask[k] \notin {STAR, ANY}, Glob(mask, s)
  PROVE  Len(mask) = Len(s) /\ \A k \in 1..Len(mask) : mask[k] = s[k]
<1> PICK n \in Nat, m \in Nat : n = Len(mask) /\ m = Len(s)
  OBVIOUS
<1> DEFINE f == Fits(mask, s)
           G == {i \in 1..(n + 1) : \A j \in 1..(m + 1) : f[i][j] =>
                   n - i = m - j /\ \A k \in i..n : mask[k] = s[j + k - i]}
<1>1. ASSUME NEW i \in 1..(n + 1), \A l \in (i + 1)..(n + 1) : l \in G,
             NEW j \in 1..(m + 1), f[i][j]
      PROVE  n - i = m - j /\ \A k \in i..n : mask[k] = s[j + k - i]
  <2>1. FitsTurn(mask, s, f, i, j)
    <3> HIDE DEF f
    <3> QED
      BY <1>1, FitsIs DEF f
  <2>2. CASE i > n
    <3>1. j > m
      BY <2>1, <2>2 DEF FitsTurn
    <3> QED
      BY <2>2, <3>1
  <2>3. CASE ~(i > n)
    <3>1. mask[i] # STAR /\ mask[i] # ANY
      BY <2>3
    <3>2. j <= m /\ mask[i] \in {s[j], ANY} /\ f[i + 1][j + 1]
      BY <2>1, <2>3, <3>1 DEF FitsTurn
    <3>3. i + 1 \in (i + 1)..(n + 1) /\ j + 1 \in 1..(m + 1)
      BY <2>3, <3>2
    <3>4. n - (i + 1) = m - (j + 1) /\ \A k \in (i + 1)..n : mask[k] = s[j + 1 + k - (i + 1)]
      <4>1. i + 1 \in G
        <5> HIDE DEF G
        <5> QED
          BY <1>1, <3>3
      <4> HIDE DEF f
      <4> QED
        BY <3>2, <3>3, <4>1
    <3>5. ASSUME NEW k \in i..n PROVE mask[k] = s[j + k - i]
      <4>1. CASE k = i
        <5>1. j + k - i = j
          BY <4>1
        <5> QED
          BY <3>1, <3>2, <4>1, <5>1
      <4>2. CASE k # i
        <5>1. k \in (i + 1)..n /\ j + 1 + k - (i + 1) = j + k - i
          BY <4>2
        <5> QED
          BY <3>4, <5>1
      <4> QED
        BY <4>1, <4>2
    <3> QED
      BY <3>4, <3>5
  <2> QED
    BY <2>2, <2>3
<1>2. \A i \in 1..(n + 1) : i \in G
  <2>1. \A i \in 1..(n + 1) : (\A l \in (i + 1)..(n + 1) : l \in G) => i \in G
    BY <1>1
  <2> HIDE DEF G
  <2> QED
    BY <2>1, Downwards
<1>3. 1 \in G /\ f[1][1]
  BY <1>2 DEF Glob
<1>4. n - 1 = m - 1 /\ \A k \in 1..n : mask[k] = s[1 + k - 1]
  <2>1. 1 \in 1..(m + 1)
    OBVIOUS
  <2> HIDE DEF f
  <2> QED
    BY <1>3, <2>1
<1>5. n = m /\ \A k \in 1..n : 1 + k - 1 = k
  BY <1>4
<1> QED
  BY <1>4, <1>5

(* Where the search behind a star ends.                                    *)
LEMMA SearchEndIs ==
  ASSUME NEW buf, NEW c, NEW j \in Nat, NEW ilen \in Nat
  PROVE  /\ SearchEnd(buf, c, j, ilen) \in Nat /\ j <= SearchEnd(buf, c, j, ilen)
         /\ SearchEnd(buf, c, j, ilen) < ilen =>
              /\ Char(buf, SearchEnd(buf, c, j, ilen)) \in {c, 0}
              /\ \A k \in j..(SearchEnd(buf, c, j, ilen) - 1) : Char(buf, k) \notin {c, 0}
<1> DEFINE hits == {k \in j..(ilen - 1) : Char(buf, k) \in {c, 0}}
           spot == SearchEnd(buf, c, j, ilen)
<1>1. CASE hits = {}
  <2>1. PICK x \in {j, ilen} : \A y \in {j, ilen} : x >= y
    <3>1. CASE j <= ilen
      <4>1. \A y \in {j, ilen} : ilen >= y
        BY <3>1
      <4> QED
        BY <4>1
    <3>2. CASE ~(j <= ilen)
      <4>1. \A y \in {j, ilen} : j >= y
        BY <3>2
      <4> QED
        BY <4>1
    <3> QED
      BY <3>1, <3>2
  <2>2. Max({j, ilen}) \in {j, ilen} /\ \A y \in {j, ilen} : Max({j, ilen}) >= y
    BY <2>1 DEF Max
  <2>3. spot = Max({j, ilen})
    BY <1>1 DEF SearchEnd
  <2>4. spot \in {j, ilen} /\ spot >= j /\ spot >= ilen
    BY <2>2, <2>3
  <2> HIDE DEF spot
  <2>5. spot \in Nat /\ ~(spot < ilen)
    BY <2>4
  <2> QED
    BY <2>4, <2>5 DEF spot
<1>2. CASE hits # {}
  <2>1. hits \in SUBSET Nat
    <3>1. hits \subseteq Nat
      OBVIOUS
    <3> HIDE DEF hits
    <3> QED
      BY <3>1
  <2>2. PICK x \in hits : \A y \in hits : x <= y
    <3> HIDE DEF hits
    <3> QED
      BY <1>2, <2>1, Least
  <2>3. Min(hits) \in hits /\ \A y \in hits : Min(hits) <= y
    <3> HIDE DEF hits
    <3> QED
      BY <2>2 DEF Min
  <2>4. spot = Min(hits)
    BY <1>2 DEF SearchEnd
  <2>5. spot \in hits /\ \A y \in hits : spot <= y
    <3> HIDE DEF hits
    <3> QED
      BY <2>3, <2>4
  <2> HIDE DEF spot
  <2>6. spot \in j..(ilen - 1) /\ Char(buf, spot) \in {c, 0}
    BY <2>5
  <2>7. ASSUME NEW k \in j..(spot - 1) PROVE Char(buf, k) \notin {c, 0}
    <3>1. k \in j..(ilen - 1) /\ ~(spot <= k)
      BY <2>6
    <3> QED
      BY <2>5, <3>1
  <2>8. spot \in Nat /\ j <= spot /\ spot < ilen
    BY <2>6
  <2> QED
    BY <2>6, <2>7, <2>8 DEF spot
<1> QED
  BY <1>1, <1>2

(* One turn of the loop of WildComp2.                                      *)
WildTurn(lp1, lp2, ilen, g, j1, j2) ==
  LET c == Char(lp1, j1)
      d == Char(lp2, j2)
      c1 == Char(lp1, j1 + 1)
      d1 == Char(lp2, j2 + 1)
  IN  CASE j1 >= ilen -> j1 = ilen
        [] j1 < ilen /\ c = d -> g[j1 + 1][j2 + 1]
        [] j1 < ilen /\ c = 0 /\ d # 0 -> d = STAR /\ d1 = 0
        [] j1 < ilen /\ c # 0 /\ d = 0 -> c = STAR /\ (c1 = 0 \/ j1 + 1 = ilen)
        [] j1 < ilen /\ c = STAR /\ d \notin {STAR, 0} ->
             IF c1 = 0 THEN TRUE
             ELSE IF d1 # 0 /\ Found(lp2, c1, d, j2 + 1, ilen)
             THEN g[j1 + 2][SearchEnd(lp2, c1, j2 + 1, ilen) + 1]
             ELSE j1 + 1 = ilen
        [] j1 < ilen /\ c \notin {STAR, 0} /\ d = STAR ->
             IF d1 = 0 THEN TRUE
             ELSE IF c1 = 0 THEN j1 + 1 = ilen
             ELSE IF Found(lp1, d1, c, j1 + 1, ilen)
             THEN g[SearchEnd(lp1, d1, j1 + 1, ilen) + 1][j2 + 2]
             ELSE SearchEnd(lp1, d1, j1 + 1, ilen) = ilen
        [] OTHER -> ANY \in {c, d} /\ g[j1 + 1][j2 + 1]

(* The turn by the two characters it looks at and those behind them.       *)
Told(turns, lp1, lp2, ilen, g, j1, j2, c, d, c1, d1) ==
  /\ j1 >= ilen => (turns = (j1 = ilen))
  /\ j1 < ilen /\ c = d => turns = g[j1 + 1][j2 + 1]
  /\ j1 < ilen /\ c # d /\ c = 0 => turns = (d = STAR /\ d1 = 0)
  /\ j1 < ilen /\ c # d /\ d = 0 => turns = (c = STAR /\ (c1 = 0 \/ j1 + 1 = ilen))
  /\ j1 < ilen /\ c # d /\ d # 0 /\ c = STAR =>
       turns = IF c1 = 0 THEN TRUE
               ELSE IF d1 # 0 /\ Found(lp2, c1, d, j2 + 1, ilen)
               THEN g[j1 + 2][SearchEnd(lp2, c1, j2 + 1, ilen) + 1]
               ELSE j1 + 1 = ilen
  /\ j1 < ilen /\ c # d /\ c # 0 /\ d = STAR =>
       turns = IF d1 = 0 THEN TRUE
               ELSE IF c1 = 0 THEN j1 + 1 = ilen
               ELSE IF Found(lp1, d1, c, j1 + 1, ilen)
               THEN g[SearchEnd(lp1, d1, j1 + 1, ilen) + 1][j2 + 2]
               ELSE SearchEnd(lp1, d1, j1 + 1, ilen) = ilen
  /\ j1 < ilen /\ c # d /\ c \notin {0, STAR} /\ d \notin {0, STAR} =>
       turns = (ANY \in {c, d} /\ g[j1 + 1][j2 + 1])

LEMMA WildTurnIs ==
  ASSUME NEW lp1, NEW lp2, NEW ilen \in Nat, NEW g, NEW j1 \in Nat, NEW j2 \in Nat
  PROVE  Told(WildTurn(lp1, lp2, ilen, g, j1, j2), lp1, lp2, ilen, g, j1, j2,
              Char(lp1, j1), Char(lp2, j2), Char(lp1, j1 + 1), Char(lp2, j2 + 1))
<1> DEFINE c == Char(lp1, j1)
           d == Char(lp2, j2)
           c1 == Char(lp1, j1 + 1)
           d1 == Char(lp2, j2 + 1)
<1>1. STAR # 0 /\ (j1 >= ilen <=> ~(j1 < ilen))
  BY DEF STAR
<1>2. ASSUME j1 >= ilen
      PROVE  WildTurn(lp1, lp2, ilen, g, j1, j2)
             = (j1 = ilen)
  BY <1>1, <1>2 DEF WildTurn
<1>3. ASSUME j1 < ilen, c = d
      PROVE  WildTurn(lp1, lp2, ilen, g, j1, j2)
             = g[j1 + 1][j2 + 1]
  BY <1>1, <1>3 DEF WildTurn
<1>4. ASSUME j1 < ilen, c # d, c = 0
      PROVE  WildTurn(lp1, lp2, ilen, g, j1, j2)
             = (d = STAR /\ d1 = 0)
  BY <1>1, <1>4 DEF WildTurn
<1>5. ASSUME j1 < ilen, c # d, d = 0
      PROVE  WildTurn(lp1, lp2, ilen, g, j1, j2)
             = (c = STAR /\ (c1 = 0 \/ j1 + 1 = ilen))
  BY <1>1, <1>5 DEF WildTurn
<1>6. ASSUME j1 < ilen, c # d, d # 0, c = STAR
      PROVE  WildTurn(lp1, lp2, ilen, g, j1, j2)
             = IF c1 = 0 THEN TRUE
               ELSE IF d1 # 0 /\ Found(lp2, c1, d, j2 + 1, ilen)
               THEN g[j1 + 2][SearchEnd(lp2, c1, j2 + 1, ilen) + 1]
               ELSE j1 + 1 = ilen
  BY <1>1, <1>6 DEF WildTurn
<1>7. ASSUME j1 < ilen, c # d, c # 0, d = STAR
      PROVE  WildTurn(lp1, lp2, ilen, g, j1, j2)
             = IF d1 = 0 THEN TRUE
               ELSE IF c1 = 0 THEN j1 + 1 = ilen
               ELSE IF Found(lp1, d1, c, j1 + 1, ilen)
               THEN g[SearchEnd(lp1, d1, j1 + 1, ilen) + 1][j2 + 2]
               ELSE SearchEnd(lp1, d1, j1 + 1, ilen) = ilen
  BY <1>1, <1>7 DEF WildTurn
<1>8. ASSUME j1 < ilen, c # d, c \notin {0, STAR}, d \notin {0, STAR}
      PROVE  WildTurn(lp1, lp2, ilen, g, j1, j2)
             = (ANY \in {c, d} /\ g[j1 + 1][j2 + 1])
  BY <1>1, <1>8 DEF WildTurn
<1> HIDE DEF c, d, c1, d1
<1>9. Told(WildTurn(lp1, lp2, ilen, g, j1, j2), lp1, lp2, ilen, g, j1, j2, c, d, c1, d1)
  BY <1>2, <1>3, <1>4, <1>5, <1>6, <1>7, <1>8 DEF Told
<1> QED
  BY <1>9 DEF c, d, c1, d1

(* A turn asks rows behind its own only.                                   *)
LEMMA WildTurnGoes ==
  ASSUME NEW lp1, NEW lp2, NEW ilen \in Nat, NEW j1 \in Nat, NEW j2 \in Nat,
         NEW g \in [Nat -> [Nat -> BOOLEAN]], NEW h \in [Nat -> [Nat -> BOOLEAN]],
         \A k \in Nat : j1 < ilen /\ j1 < k => g[k] = h[k]
  PROVE  /\ WildTurn(lp1, lp2, ilen, g, j1, j2) \in BOOLEAN
         /\ WildTurn(lp1, lp2, ilen, g, j1, j2) = WildTurn(lp1, lp2, ilen, h, j1, j2)
<1> DEFINE R(f) == WildTurn(lp1, lp2, ilen, f, j1, j2)
<1>1. PICK c, d, c1, d1 : /\ c = Char(lp1, j1) /\ d = Char(lp2, j2)
                          /\ c1 = Char(lp1, j1 + 1) /\ d1 = Char(lp2, j2 + 1)
  OBVIOUS
<1>0. ASSUME NEW f PROVE Told(R(f), lp1, lp2, ilen, f, j1, j2, c, d, c1, d1)
  <2> HIDE DEF R
  <2> QED
    BY <1>1, WildTurnIs DEF R
<1>2. CASE j1 >= ilen
  <2>1. Told(R(g), lp1, lp2, ilen, g, j1, j2, c, d, c1, d1) /\ Told(R(h), lp1, lp2, ilen, h, j1, j2, c, d, c1, d1)
    BY <1>0
  <2> QED
    BY <1>2, <2>1 DEF Told
<1>3. CASE j1 < ilen
  <2>0. /\ Told(R(g), lp1, lp2, ilen, g, j1, j2, c, d, c1, d1)
        /\ Told(R(h), lp1, lp2, ilen, h, j1, j2, c, d, c1, d1)
    BY <1>0
  <2>1. ASSUME NEW k \in Nat, NEW i \in Nat, j1 < k
        PROVE  g[k][i] \in BOOLEAN /\ g[k][i] = h[k][i]
    BY <1>3, <2>1
  <2>2. CASE c = d
    <3>1. R(g) = g[j1 + 1][j2 + 1] /\ R(h) = h[j1 + 1][j2 + 1]
      BY <1>3, <2>0, <2>2 DEF Told
    <3>2. j1 + 1 \in Nat /\ j2 + 1 \in Nat /\ j1 < j1 + 1
      OBVIOUS
    <3> HIDE DEF R
    <3>3. R(g) \in BOOLEAN /\ R(g) = R(h)
      BY <2>1, <3>1, <3>2
    <3> QED
      BY <3>3 DEF R
  <2>3. CASE c # d /\ (c = 0 \/ d = 0)
    BY <1>3, <2>0, <2>3 DEF Told
  <2>4. CASE c # d /\ d # 0 /\ c = STAR
    <3> DEFINE k == SearchEnd(lp2, c1, j2 + 1, ilen) + 1
    <3>1. k \in Nat /\ j1 + 2 \in Nat /\ j1 < j1 + 2
      BY SearchEndIs
    <3>2. g[j1 + 2][k] \in BOOLEAN /\ g[j1 + 2][k] = h[j1 + 2][k]
      <4> HIDE DEF k
      <4> QED
        BY <2>1, <3>1
    <3>3. /\ R(g) = IF c1 = 0 THEN TRUE
                    ELSE IF d1 # 0 /\ Found(lp2, c1, d, j2 + 1, ilen) THEN g[j1 + 2][k]
                    ELSE j1 + 1 = ilen
          /\ R(h) = IF c1 = 0 THEN TRUE
                    ELSE IF d1 # 0 /\ Found(lp2, c1, d, j2 + 1, ilen) THEN h[j1 + 2][k]
                    ELSE j1 + 1 = ilen
      BY <1>3, <2>0, <2>4 DEF Told
    <3> HIDE DEF R, k
    <3>4. R(g) \in BOOLEAN /\ R(g) = R(h)
      <4>1. CASE c1 = 0
        BY <3>3, <4>1
      <4>2. CASE c1 # 0 /\ d1 # 0 /\ Found(lp2, c1, d, j2 + 1, ilen)
        BY <3>2, <3>3, <4>2
      <4>3. CASE c1 # 0 /\ ~(d1 # 0 /\ Found(lp2, c1, d, j2 + 1, ilen))
        BY <3>3, <4>3
      <4> QED
        BY <4>1, <4>2, <4>3
    <3> QED
      BY <3>4 DEF R
  <2>5. CASE c # d /\ c # 0 /\ d = STAR
    <3> DEFINE k == SearchEnd(lp1, d1, j1 + 1, ilen) + 1
    <3>1. k \in Nat /\ j2 + 2 \in Nat /\ j1 < k
      <4>1. j1 + 1 \in Nat
        OBVIOUS
      <4>2. SearchEnd(lp1, d1, j1 + 1, ilen) \in Nat /\ j1 + 1 <= SearchEnd(lp1, d1, j1 + 1, ilen)
        BY <4>1, SearchEndIs
      <4> QED
        BY <4>2
    <3>2. g[k][j2 + 2] \in BOOLEAN /\ g[k][j2 + 2] = h[k][j2 + 2]
      <4> HIDE DEF k
      <4> QED
        BY <2>1, <3>1
    <3>3. /\ R(g) = IF d1 = 0 THEN TRUE ELSE IF c1 = 0 THEN j1 + 1 = ilen
                    ELSE IF Found(lp1, d1, c, j1 + 1, ilen) THEN g[k][j2 + 2]
                    ELSE SearchEnd(lp1, d1, j1 + 1, ilen) = ilen
          /\ R(h) = IF d1 = 0 THEN TRUE ELSE IF c1 = 0 THEN j1 + 1 = ilen
                    ELSE IF Found(lp1, d1, c, j1 + 1, ilen) THEN h[k][j2 + 2]
                    ELSE SearchEnd(lp1, d1, j1 + 1, ilen) = ilen
      BY <1>3, <2>0, <2>5 DEF Told
    <3> HIDE DEF R, k
    <3>4. R(g) \in BOOLEAN /\ R(g) = R(h)
      <4>1. CASE d1 = 0
        BY <3>3, <4>1
      <4>4. CASE d1 # 0 /\ c1 = 0
        <5>1. R(g) = (j1 + 1 = ilen) /\ R(h) = (j1 + 1 = ilen)
          BY <3>3, <4>4
        <5> QED
          BY <5>1
      <4>2. CASE d1 # 0 /\ c1 # 0 /\ Found(lp1, d1, c, j1 + 1, ilen)
        BY <3>2, <3>3, <4>2
      <4>3. CASE d1 # 0 /\ c1 # 0 /\ ~Found(lp1, d1, c, j1 + 1, ilen)
        BY <3>3, <4>3
      <4> QED
        BY <4>1, <4>2, <4>3, <4>4
    <3> QED
      BY <3>4 DEF R
  <2>6. CASE c # d /\ c \notin {0, STAR} /\ d \notin {0, STAR}
    <3>1. /\ R(g) = (ANY \in {c, d} /\ g[j1 + 1][j2 + 1])
          /\ R(h) = (ANY \in {c, d} /\ h[j1 + 1][j2 + 1])
      BY <1>3, <2>0, <2>6 DEF Told
    <3>2. j1 + 1 \in Nat /\ j2 + 1 \in Nat /\ j1 < j1 + 1
      OBVIOUS
    <3> HIDE DEF R
    <3>3. R(g) \in BOOLEAN /\ R(g) = R(h)
      BY <2>1, <3>1, <3>2
    <3> QED
      BY <3>3 DEF R
  <2> QED
    BY <2>2, <2>3, <2>4, <2>5, <2>6
<1> QED
  BY <1>2, <1>3

(* The loop is the recursion of its turns.                                 *)
LEMMA WildLoopIs ==
  ASSUME NEW lp1, NEW lp2, NEW ilen \in Nat
  PROVE  \A j1, j2 \in Nat :
           WildLoop(lp1, lp2, ilen)[j1][j2]
             = WildTurn(lp1, lp2, ilen, WildLoop(lp1, lp2, ilen), j1, j2)
<1> DEFINE T == [Nat -> BOOLEAN]
           FT == [Nat -> T]
           Row(g, j1) == [j2 \in Nat |-> WildTurn(lp1, lp2, ilen, g, j1, j2)]
           Turned(g) == [j1 \in Nat |-> Row(g, j1)]
           the == CHOOSE g : g = Turned(g)
           m == [j1 \in Nat |-> IF j1 >= ilen THEN 0 ELSE ilen - j1]
           step == [p \in FT \X Nat |-> Row(p[1], p[2])]
<1>1. WildLoop(lp1, lp2, ilen) = the
  BY DEF WildLoop, WildTurn
<1>2. m \in [Nat -> 0..ilen]
  <2>1. \A j1 \in Nat : (IF j1 >= ilen THEN 0 ELSE ilen - j1) \in 0..ilen
    OBVIOUS
  <2> QED
    BY <2>1
<1>3. ASSUME NEW g \in FT, NEW j1 \in Nat PROVE Row(g, j1) \in T
  <2>1. ASSUME NEW j2 \in Nat PROVE WildTurn(lp1, lp2, ilen, g, j1, j2) \in BOOLEAN
    BY WildTurnGoes
  <2> QED
    BY <2>1
<1>4. step \in [FT \X Nat -> T]
  <2> HIDE DEF Row
  <2> QED
    BY <1>3
<1>5. \A g \in FT, j1 \in Nat : step[<<g, j1>>] = Row(g, j1)
  <2> HIDE DEF Row, FT
  <2> QED
    OBVIOUS
<1> HIDE DEF step
<1>6. Descends(Nat, T, m, step)
  <2> SUFFICES ASSUME NEW g \in FT, NEW h \in FT, NEW j1 \in Nat,
                      \A k \in Nat : m[k] < m[j1] => g[k] = h[k]
               PROVE  step[<<g, j1>>] = step[<<h, j1>>]
    BY DEF Descends
  <2>1. \A k \in Nat : j1 < ilen /\ j1 < k => g[k] = h[k]
    <3> SUFFICES ASSUME NEW k \in Nat, j1 < ilen, j1 < k PROVE g[k] = h[k]
      OBVIOUS
    <3>1. m[k] < m[j1]
      OBVIOUS
    <3> HIDE DEF m
    <3> QED
      BY <3>1
  <2>2. ASSUME NEW j2 \in Nat
        PROVE  WildTurn(lp1, lp2, ilen, g, j1, j2) = WildTurn(lp1, lp2, ilen, h, j1, j2)
    BY <2>1, WildTurnGoes
  <2>3. Row(g, j1) = Row(h, j1)
    BY <2>2
  <2> HIDE DEF Row
  <2> QED
    BY <1>5, <2>3
<1>7. PICK loop \in FT : Recursion(loop, Nat, step)
  <2>1. T # {}
    <3>1. [j \in Nat |-> TRUE] \in T
      OBVIOUS
    <3> QED
      BY <3>1
  <2> HIDE DEF m, step, T
  <2> QED
    BY <1>2, <1>4, <1>6, <2>1, RecursionExists
<1>8. loop = Turned(loop)
  <2>1. ASSUME NEW j1 \in Nat PROVE loop[j1] = Row(loop, j1)
    <3>1. loop[j1] = step[<<loop, j1>>]
      BY <1>7 DEF Recursion
    <3> HIDE DEF Row
    <3> QED
      BY <1>5, <3>1
  <2> HIDE DEF Row
  <2> QED
    BY <2>1
<1>9. the = Turned(the)
  <2> HIDE DEF Turned
  <2> QED
    BY <1>8
<1>10. ASSUME NEW j1 \in Nat, NEW j2 \in Nat
       PROVE  the[j1][j2] = WildTurn(lp1, lp2, ilen, the, j1, j2)
  <2> HIDE DEF the
  <2>1. the[j1] = Row(the, j1)
    <3> HIDE DEF Row
    <3> QED
      BY <1>9
  <2> QED
    BY <2>1
<1> HIDE DEF the
<1> QED
  BY <1>1, <1>10

(* Where a run of stars ends.                                              *)
LEMMA PastStarsIs ==
  ASSUME NEW mask, Len(mask) \in Nat, NEW i \in 1..(Len(mask) + 1)
  PROVE  /\ PastStars(mask, i) \in i..(Len(mask) + 1)
         /\ PastStars(mask, i) = Len(mask) + 1 \/ mask[PastStars(mask, i)] # STAR
         /\ \A k \in i..(PastStars(mask, i) - 1) : mask[k] = STAR
<1> PICK n \in Nat : n = Len(mask)
  OBVIOUS
<1> DEFINE Ends == {r \in i..(n + 1) : r = n + 1 \/ mask[r] # STAR}
<1>1. Ends \in SUBSET Nat /\ Ends # {}
  <2>1. n + 1 \in Ends
    OBVIOUS
  <2>2. Ends \subseteq Nat
    OBVIOUS
  <2> HIDE DEF Ends
  <2> QED
    BY <2>1, <2>2
<1>2. PICK r \in Ends : \A e \in Ends : r <= e
  <2> HIDE DEF Ends
  <2> QED
    BY <1>1, Least
<1>3. r \in i..(n + 1) /\ (r = n + 1 \/ mask[r] # STAR)
  BY <1>2
<1>4. ASSUME NEW k \in i..(r - 1) PROVE mask[k] = STAR
  <2>1. k \in i..(n + 1) /\ ~(r <= k) /\ k # n + 1
    BY <1>3
  <2>2. k \notin Ends
    <3> HIDE DEF Ends
    <3> QED
      BY <1>2, <2>1
  <2> QED
    BY <2>1, <2>2
<1> QED
  BY <1>3, <1>4 DEF PastStars

(* One turn of KindofCompare.                                              *)
KindTurn(lpex, lpfn, g, i, j) ==
  LET n == Len(lpex)
      m == Len(lpfn)
      Rest(k) == SubSeq(lpex, k, n)
      r == PastStars(lpex, i)
  IN  IF i > n \/ j > m THEN FALSE
      ELSE IF lpex[i] \in {lpfn[j], ANY}
      THEN \/ i = n /\ j = m
           \/ i = n /\ SubSeq(lpfn, j + 1, m) = <<STAR>>
           \/ j = m /\ Rest(i + 1) \in {<<STAR>>, <<STAR, DOT, STAR>>}
           \/ g[i + 1][j + 1]
      ELSE IF lpex[i] # STAR THEN FALSE
      ELSE \/ i = n
           \/ r <= n /\ \E k \in j..m : /\ lpfn[k] = lpex[r]
                                        /\ Rest(r) = SubSeq(lpfn, k, m) \/ g[r][k]
           \/ Rest(r) = <<DOT, STAR>>

LEMMA KindLoopIs ==
  ASSUME NEW lpex, Len(lpex) \in Nat, NEW lpfn, Len(lpfn) \in Nat
  PROVE  \A i \in 1..(Len(lpex) + 1), j \in 1..(Len(lpfn) + 1) :
           KindLoop(lpex, lpfn)[i][j] <=> KindTurn(lpex, lpfn, KindLoop(lpex, lpfn), i, j)
<1> DEFINE S == 1..(Len(lpex) + 1)
           J == 1..(Len(lpfn) + 1)
           T == [J -> BOOLEAN]
           FT == [S -> T]
           Row(g, i) == [j \in 1..(Len(lpfn) + 1) |-> KindTurn(lpex, lpfn, g, i, j)]
           Turned(g) == [i \in 1..(Len(lpex) + 1) |-> Row(g, i)]
           the == CHOOSE g : g = Turned(g)
           m == [i \in S |-> Len(lpex) + 1 - i]
           step == [p \in FT \X S |-> Row(p[1], p[2])]
<1>1. KindLoop(lpex, lpfn) = the
  BY DEF KindLoop, KindTurn
<1>2. m \in [S -> 0..(Len(lpex) + 1)]
  <2>1. \A i \in S : Len(lpex) + 1 - i \in 0..(Len(lpex) + 1)
    OBVIOUS
  <2> QED
    BY <2>1
<1>3. ASSUME NEW g \in FT, NEW i \in S PROVE Row(g, i) \in T
  <2>1. ASSUME NEW j \in J PROVE KindTurn(lpex, lpfn, g, i, j) \in BOOLEAN
    <3>1. CASE i > Len(lpex) \/ j > Len(lpfn)
      BY <3>1 DEF KindTurn
    <3>2. CASE ~(i > Len(lpex) \/ j > Len(lpfn)) /\ lpex[i] \in {lpfn[j], ANY}
      BY <3>2 DEF KindTurn
    <3>3. CASE ~(i > Len(lpex) \/ j > Len(lpfn)) /\ lpex[i] \notin {lpfn[j], ANY}
      BY <3>3 DEF KindTurn
    <3> QED
      BY <3>1, <3>2, <3>3
  <2> QED
    BY <2>1
<1>4. step \in [FT \X S -> T]
  <2> HIDE DEF Row
  <2> QED
    BY <1>3
<1>5. \A g \in FT, i \in S : step[<<g, i>>] = Row(g, i)
  <2> HIDE DEF Row, FT, S
  <2> QED
    OBVIOUS
<1> HIDE DEF step
<1>6. Descends(S, T, m, step)
  <2> SUFFICES ASSUME NEW g \in FT, NEW h \in FT, NEW i \in S,
                      \A k \in S : m[k] < m[i] => g[k] = h[k]
               PROVE  step[<<g, i>>] = step[<<h, i>>]
    BY DEF Descends
  <2>1. ASSUME NEW k \in (i + 1)..(Len(lpex) + 1) PROVE g[k] = h[k]
    <3>1. k \in S /\ m[k] = Len(lpex) + 1 - k /\ m[i] = Len(lpex) + 1 - i
      OBVIOUS
    <3>2. Len(lpex) + 1 - k < Len(lpex) + 1 - i
      OBVIOUS
    <3> HIDE DEF m
    <3> QED
      BY <3>1, <3>2
  <2>2. ASSUME NEW j \in J
        PROVE  KindTurn(lpex, lpfn, g, i, j) = KindTurn(lpex, lpfn, h, i, j)
    <3>1. CASE i > Len(lpex) \/ j > Len(lpfn)
      BY <3>1 DEF KindTurn
    <3>2. CASE ~(i > Len(lpex) \/ j > Len(lpfn)) /\ lpex[i] \in {lpfn[j], ANY}
      <4>1. g[i + 1] = h[i + 1]
        BY <2>1, <3>2
      <4> QED
        BY <3>2, <4>1 DEF KindTurn
    <3>3. CASE ~(i > Len(lpex) \/ j > Len(lpfn)) /\ lpex[i] \notin {lpfn[j], ANY}
      <4> DEFINE r == PastStars(lpex, i)
      <4>1. lpex[i] = STAR => r \in (i + 1)..(Len(lpex) + 1)
        <5>1. /\ r \in i..(Len(lpex) + 1)
              /\ r = Len(lpex) + 1 \/ lpex[r] # STAR
          BY PastStarsIs
        <5> HIDE DEF r
        <5> QED
          BY <3>3, <5>1
      <4>2. lpex[i] = STAR => g[r] = h[r]
        <5> HIDE DEF r
        <5> QED
          BY <2>1, <4>1
      <4> QED
        BY <3>3, <4>2 DEF KindTurn
    <3> QED
      BY <3>1, <3>2, <3>3
  <2>3. Row(g, i) = Row(h, i)
    BY <2>2
  <2> HIDE DEF Row
  <2> QED
    BY <1>5, <2>3
<1>7. PICK loop \in FT : Recursion(loop, S, step)
  <2>1. T # {}
    <3>1. [j \in J |-> TRUE] \in T
      OBVIOUS
    <3> QED
      BY <3>1
  <2>2. Len(lpex) + 1 \in Nat
    OBVIOUS
  <2> HIDE DEF m, step, S, T
  <2> QED
    BY <1>2, <1>4, <1>6, <2>1, <2>2, RecursionExists
<1>8. loop = Turned(loop)
  <2>1. ASSUME NEW i \in S PROVE loop[i] = Row(loop, i)
    <3>1. loop[i] = step[<<loop, i>>]
      BY <1>7 DEF Recursion
    <3> HIDE DEF Row
    <3> QED
      BY <1>5, <3>1
  <2> HIDE DEF Row
  <2> QED
    BY <2>1
<1>9. the = Turned(the)
  <2> HIDE DEF Turned
  <2> QED
    BY <1>8
<1>10. ASSUME NEW i \in S, NEW j \in J
       PROVE  the[i][j] <=> KindTurn(lpex, lpfn, the, i, j)
  <2> HIDE DEF the
  <2>1. the[i] = Row(the, i)
    <3> HIDE DEF Row
    <3> QED
      BY <1>9
  <2>2. the[i][j] = KindTurn(lpex, lpfn, the, i, j)
    BY <2>1
  <2> QED
    BY <2>2
<1> HIDE DEF the
<1> QED
  BY <1>1, <1>10

(* What a mask fits at the end of a string: stars only.                    *)
LEMMA FitsBlank ==
  ASSUME NEW mask, Len(mask) \in Nat, NEW s, Len(s) \in Nat, NEW i \in 1..(Len(mask) + 1)
  PROVE  Fits(mask, s)[i][Len(s) + 1] <=> \A k \in i..Len(mask) : mask[k] = STAR
<1> PICK n \in Nat, m \in Nat : n = Len(mask) /\ m = Len(s)
  OBVIOUS
<1> DEFINE f == Fits(mask, s)
           G == {k \in 1..(n + 1) : f[k][m + 1] <=> \A l \in k..n : mask[l] = STAR}
<1>1. ASSUME NEW k \in 1..(n + 1), \A l \in (k + 1)..(n + 1) : l \in G
      PROVE  f[k][m + 1] <=> \A l \in k..n : mask[l] = STAR
  <2>1. f[k][m + 1] <=> FitsTurn(mask, s, f, k, m + 1)
    <3>1. m + 1 \in 1..(m + 1)
      OBVIOUS
    <3> HIDE DEF f
    <3> QED
      BY <3>1, FitsIs DEF f
  <2> HIDE DEF f
  <2>2. CASE k > n
    <3>1. FitsTurn(mask, s, f, k, m + 1)
      BY <2>2 DEF FitsTurn
    <3> QED
      BY <2>1, <2>2, <3>1
  <2>3. CASE ~(k > n)
    <3>1. k + 1 \in (k + 1)..(n + 1) /\ k \in k..n
      BY <2>3
    <3>2. f[k + 1][m + 1] <=> \A l \in (k + 1)..n : mask[l] = STAR
      BY <1>1, <3>1
    <3>3. f[k][m + 1] <=> mask[k] = STAR /\ f[k + 1][m + 1]
      <4>1. \A e \in (m + 1)..(m + 1) : e = m + 1
        OBVIOUS
      <4>2. m + 1 \in (m + 1)..(m + 1) /\ ~(m + 1 <= m)
        OBVIOUS
      <4>3. FitsTurn(mask, s, f, k, m + 1)
              <=> IF mask[k] = STAR THEN \E e \in (m + 1)..(m + 1) : f[k + 1][e] ELSE FALSE
        BY <2>3, <4>2 DEF FitsTurn
      <4> QED
        BY <2>1, <4>1, <4>2, <4>3
    <3>4. (\A l \in k..n : mask[l] = STAR)
            <=> mask[k] = STAR /\ \A l \in (k + 1)..n : mask[l] = STAR
      <4>1. k..n = {k} \cup ((k + 1)..n)
        BY <3>1
      <4> QED
        BY <4>1
    <3> QED
      BY <3>2, <3>3, <3>4
  <2> QED
    BY <2>2, <2>3
<1>2. \A k \in 1..(n + 1) : k \in G
  <2>1. \A k \in 1..(n + 1) : (\A l \in (k + 1)..(n + 1) : l \in G) => k \in G
    BY <1>1
  <2> HIDE DEF G
  <2> QED
    BY <2>1, Downwards
<1> QED
  BY <1>2

(* What a run of stars fits: what follows it may begin anywhere.           *)
LEMMA FitsPastStars ==
  ASSUME NEW mask, Len(mask) \in Nat, NEW s, Len(s) \in Nat,
         NEW r \in 1..(Len(mask) + 1), NEW i \in 1..(r - 1), NEW j \in 1..(Len(s) + 1),
         \A k \in i..(r - 1) : mask[k] = STAR
  PROVE  Fits(mask, s)[i][j] <=> \E k \in j..(Len(s) + 1) : Fits(mask, s)[r][k]
<1> PICK n \in Nat, m \in Nat : n = Len(mask) /\ m = Len(s)
  OBVIOUS
<1> DEFINE f == Fits(mask, s)
           Anywhere(e) == \E k \in e..(m + 1) : f[r][k]
           G == {k \in 1..(r - 1 + 1) : k >= i /\ k < r =>
                   \A e \in 1..(m + 1) : f[k][e] <=> Anywhere(e)}
<1>1. ASSUME NEW k \in 1..(r - 1 + 1), \A l \in (k + 1)..(r - 1 + 1) : l \in G,
             k >= i, k < r, NEW e \in 1..(m + 1)
      PROVE  f[k][e] <=> Anywhere(e)
  <2>0. k \in 1..n /\ k + 1 \in 1..(n + 1) /\ k \in i..(r - 1) /\ ~(k > n) /\ k \in 1..(n + 1)
    BY <1>1
  <2>1. f[k][e] <=> \E l \in e..(m + 1) : f[k + 1][l]
    <3>1. f[k][e] <=> FitsTurn(mask, s, f, k, e)
      <4> HIDE DEF f
      <4> QED
        BY <2>0, FitsIs DEF f
    <3> HIDE DEF f
    <3> QED
      BY <2>0, <3>1 DEF FitsTurn
  <2>2. CASE k + 1 = r
    BY <2>1, <2>2
  <2>3. CASE k + 1 # r
    <3>1. k + 1 \in (k + 1)..(r - 1 + 1) /\ k + 1 >= i /\ k + 1 < r
      BY <1>1, <2>3
    <3>2. \A l \in 1..(m + 1) : f[k + 1][l] <=> Anywhere(l)
      <4>1. k + 1 \in G
        <5> HIDE DEF G
        <5> QED
          BY <1>1, <3>1
      <4> HIDE DEF f, Anywhere
      <4> QED
        BY <3>1, <4>1
    <3>3. ASSUME NEW l \in e..(m + 1), f[k + 1][l] PROVE Anywhere(e)
      <4>1. l \in 1..(m + 1) /\ \A x \in l..(m + 1) : x \in e..(m + 1)
        OBVIOUS
      <4>2. Anywhere(l)
        <5> HIDE DEF Anywhere, f
        <5> QED
          BY <3>2, <3>3, <4>1
      <4> HIDE DEF f
      <4> QED
        BY <4>1, <4>2
    <3>4. ASSUME Anywhere(e) PROVE \E l \in e..(m + 1) : f[k + 1][l]
      <4>1. e \in e..(m + 1) /\ f[k + 1][e]
        <5> HIDE DEF Anywhere, f
        <5> QED
          BY <3>2, <3>4
      <4> HIDE DEF f
      <4> QED
        BY <4>1
    <3> HIDE DEF f, Anywhere
    <3> QED
      BY <2>1, <3>3, <3>4
  <2> QED
    BY <2>2, <2>3
<1>2. \A k \in 1..(r - 1 + 1) : k \in G
  <2>1. \A k \in 1..(r - 1 + 1) : (\A l \in (k + 1)..(r - 1 + 1) : l \in G) => k \in G
    <3> HIDE DEF f, Anywhere
    <3> QED
      BY <1>1
  <2>2. r - 1 \in Nat
    OBVIOUS
  <2> HIDE DEF G
  <2> QED
    BY <2>1, <2>2, Downwards
<1>3. i \in G /\ i >= i /\ i < r
  <2>1. i \in 1..(r - 1 + 1) /\ i >= i /\ i < r
    OBVIOUS
  <2> HIDE DEF G
  <2> QED
    BY <1>2, <2>1
<1>4. f[i][j] <=> Anywhere(j)
  <2> HIDE DEF f, Anywhere
  <2> QED
    BY <1>3
<1> QED
  BY <1>4

(* What a character that is no star fits.                                  *)
LEMMA FitsNext ==
  ASSUME NEW mask, Len(mask) \in Nat, NEW s, Len(s) \in Nat,
         NEW i \in 1..Len(mask), NEW j \in 1..(Len(s) + 1), mask[i] # STAR
  PROVE  Fits(mask, s)[i][j]
           <=> j <= Len(s) /\ mask[i] \in {s[j], ANY} /\ Fits(mask, s)[i + 1][j + 1]
<1>1. i \in 1..(Len(mask) + 1) /\ ~(i > Len(mask))
  OBVIOUS
<1> QED
  BY <1>1, FitsIs DEF FitsTurn

(* What a run of stars and a character behind it fit.                      *)
LEMMA FitsFound ==
  ASSUME NEW mask, Len(mask) \in Nat, NEW s, Len(s) \in Nat,
         NEW r \in 1..Len(mask), NEW i \in 1..(r - 1), NEW j \in 1..(Len(s) + 1),
         \A k \in i..(r - 1) : mask[k] = STAR, mask[r] \notin {STAR, ANY}
  PROVE  Fits(mask, s)[i][j]
           <=> \E k \in j..Len(s) : s[k] = mask[r] /\ Fits(mask, s)[r][k]
<1> PICK m \in Nat : m = Len(s)
  OBVIOUS
<1>1. Fits(mask, s)[i][j] <=> \E k \in j..(m + 1) : Fits(mask, s)[r][k]
  <2>1. r \in 1..(Len(mask) + 1)
    OBVIOUS
  <2> QED
    BY <2>1, FitsPastStars
<1>2. ASSUME NEW k \in j..(m + 1), Fits(mask, s)[r][k]
      PROVE  k \in j..m /\ s[k] = mask[r]
  <2>1. k \in 1..(m + 1)
    OBVIOUS
  <2>2. k <= m /\ mask[r] \in {s[k], ANY}
    BY <1>2, <2>1, FitsNext
  <2> QED
    BY <2>2
<1>3. j..m \subseteq j..(m + 1)
  OBVIOUS
<1> QED
  BY <1>1, <1>2, <1>3

(* A mask that ends in *.* and what is left of it without the dot.         *)
LEMMA NeedsNoDotIs ==
  ASSUME NEW mask \in String
  PROVE  /\ NeedsNoDot(mask) <=>
              /\ Len(mask) > 2
              /\ mask[Len(mask) - 2] = STAR /\ mask[Len(mask) - 1] = DOT /\ mask[Len(mask)] = STAR
         /\ NeedsNoDot(mask) =>
              /\ LessDot(mask) \in String /\ Len(LessDot(mask)) = Len(mask) - 2
              /\ \A k \in 1..(Len(mask) - 2) : LessDot(mask)[k] = mask[k]
<1> DEFINE n == Len(mask)
<1>1. ASSUME n > 2
      PROVE  SubSeq(mask, n - 2, n) = <<STAR, DOT, STAR>>
               <=> mask[n - 2] = STAR /\ mask[n - 1] = DOT /\ mask[n] = STAR
  <2> DEFINE e == SubSeq(mask, n - 2, n)
  <2>1. e \in Seq(Byte \ {0}) /\ Len(e) = 3 /\ e[1] = mask[n - 2] /\ e[2] = mask[n - 1] /\ e[3] = mask[n]
    BY <1>1 DEF String
  <2>2. e = <<STAR, DOT, STAR>> <=> e[1] = STAR /\ e[2] = DOT /\ e[3] = STAR
    <3> HIDE DEF e
    <3> QED
      BY <2>1
  <2> QED
    BY <2>1, <2>2
<1>2. n \in Nat
  BY DEF String
<1>3. ASSUME n > 2
      PROVE  /\ LessDot(mask) \in String /\ Len(LessDot(mask)) = n - 2
             /\ \A k \in 1..(n - 2) : LessDot(mask)[k] = mask[k]
  BY <1>3 DEF String, LessDot
<1> QED
  BY <1>1, <1>2, <1>3 DEF NeedsNoDot

LEMMA DotStarIs ==
  ASSUME NEW t \in String
  PROVE  /\ t = <<STAR>> <=> Len(t) = 1 /\ t[1] = STAR
         /\ t = <<DOT, STAR>> <=> Len(t) = 2 /\ t[1] = DOT /\ t[2] = STAR
         /\ t = <<STAR, DOT, STAR>> <=>
              Len(t) = 3 /\ t[1] = STAR /\ t[2] = DOT /\ t[3] = STAR
<1>1. t \in Seq(Byte \ {0})
  BY DEF String
<1>2. ASSUME Len(t) = 1, t[1] = STAR PROVE t = <<STAR>>
  BY <1>1, <1>2
<1>3. ASSUME Len(t) = 2, t[1] = DOT, t[2] = STAR PROVE t = <<DOT, STAR>>
  BY <1>1, <1>3
<1>4. ASSUME Len(t) = 3, t[1] = STAR, t[2] = DOT, t[3] = STAR PROVE t = <<STAR, DOT, STAR>>
  BY <1>1, <1>4
<1>5. ASSUME t = <<STAR>> PROVE Len(t) = 1 /\ t[1] = STAR
  BY <1>5
<1>6. ASSUME t = <<DOT, STAR>> PROVE Len(t) = 2 /\ t[1] = DOT /\ t[2] = STAR
  BY <1>6
<1>7. ASSUME t = <<STAR, DOT, STAR>>
      PROVE  Len(t) = 3 /\ t[1] = STAR /\ t[2] = DOT /\ t[3] = STAR
  BY <1>7
<1> QED
  BY <1>2, <1>3, <1>4, <1>5, <1>6, <1>7

(* What is left of a string.                                               *)
LEMMA RestIs ==
  ASSUME NEW t \in String, NEW a \in 1..(Len(t) + 1)
  PROVE  /\ SubSeq(t, a, Len(t)) \in String
         /\ Len(SubSeq(t, a, Len(t))) = Len(t) - a + 1
         /\ \A k \in 1..(Len(t) - a + 1) : SubSeq(t, a, Len(t))[k] = t[a + k - 1]
         /\ \A k \in 1..Len(SubSeq(t, a, Len(t))) : SubSeq(t, a, Len(t))[k] = t[a + k - 1]
<1>1. t \in Seq(Byte \ {0}) /\ Len(t) \in Nat
  BY DEF String
<1>2. /\ SubSeq(t, a, Len(t)) \in Seq(Byte \ {0})
      /\ Len(SubSeq(t, a, Len(t))) = Len(t) - a + 1
  BY <1>1
<1>3. ASSUME NEW k \in 1..(Len(t) - a + 1) PROVE SubSeq(t, a, Len(t))[k] = t[a + k - 1]
  BY <1>1
<1> QED
  BY <1>2, <1>3 DEF String

(* Whether what is left of a mask stands for what is left of a name.       *)
StandsAt(mask, name, i, j) ==
  \/ Fits(mask, name)[i][j]
  \/ NeedsNoDot(mask) /\ i <= Len(mask) - 2 /\ Fits(LessDot(mask), name)[i][j]

Matching(mask, name) ==
  /\ mask \in String /\ name \in String /\ WellMade(mask)
  /\ \A k \in DOMAIN name : name[k] # STAR

(* A character that is no star goes with one of the name.                  *)
LEMMA StandsNext ==
  ASSUME NEW mask, NEW name, Matching(mask, name),
         NEW i \in 1..Len(mask), NEW j \in 1..Len(name), mask[i] # STAR
  PROVE  StandsAt(mask, name, i, j)
           <=> mask[i] \in {name[j], ANY} /\ StandsAt(mask, name, i + 1, j + 1)
<1> PICK n \in Nat, m \in Nat : n = Len(mask) /\ m = Len(name)
  BY DEF Matching, String
<1>1. mask \in String /\ j \in 1..(m + 1) /\ j <= m
  BY DEF Matching
<1>2. Fits(mask, name)[i][j] <=> mask[i] \in {name[j], ANY} /\ Fits(mask, name)[i + 1][j + 1]
  BY <1>1, FitsNext
<1>3. ASSUME NeedsNoDot(mask), i <= n - 2
      PROVE  /\ i + 1 <= n - 2
             /\ Fits(LessDot(mask), name)[i][j]
                  <=> mask[i] \in {name[j], ANY} /\ Fits(LessDot(mask), name)[i + 1][j + 1]
  <2>1. mask[n - 2] = STAR /\ Len(LessDot(mask)) = n - 2 /\ LessDot(mask)[i] = mask[i]
    <3>1. i \in 1..(n - 2)
      BY <1>3
    <3> QED
      BY <1>1, <1>3, <3>1, NeedsNoDotIs
  <2>2. i \in 1..(n - 2) /\ i # n - 2 /\ i + 1 <= n - 2 /\ n - 2 \in Nat
    <3>1. i # n - 2
      BY <2>1
    <3>2. i \in 1..n
      OBVIOUS
    <3> QED
      BY ONLY <1>3, <3>1, <3>2, n \in Nat
  <2>3. Fits(LessDot(mask), name)[i][j]
          <=> mask[i] \in {name[j], ANY} /\ Fits(LessDot(mask), name)[i + 1][j + 1]
    <3> DEFINE dot == LessDot(mask)
    <3>1. Len(dot) \in Nat /\ i \in 1..Len(dot) /\ dot[i] = mask[i] /\ dot[i] # STAR
      BY <2>1, <2>2
    <3> HIDE DEF dot
    <3>2. Fits(dot, name)[i][j] <=> j <= m /\ dot[i] \in {name[j], ANY} /\ Fits(dot, name)[i + 1][j + 1]
      BY <1>1, <3>1, FitsNext
    <3> QED
      BY <1>1, <3>1, <3>2 DEF dot
  <2> QED
    BY <2>2, <2>3
<1>4. i + 1 <= n - 2 => i <= n - 2
  OBVIOUS
<1> QED
  BY <1>2, <1>3, <1>4 DEF StandsAt

(* At the end of the name, a star or *.* may be left.                      *)
LEMMA StandsBlank ==
  ASSUME NEW mask, NEW name, Matching(mask, name), NEW i \in 1..Len(mask)
  PROVE  StandsAt(mask, name, i, Len(name) + 1)
           <=> SubSeq(mask, i, Len(mask)) \in {<<STAR>>, <<STAR, DOT, STAR>>}
<1> PICK n \in Nat, m \in Nat : n = Len(mask) /\ m = Len(name)
  BY DEF Matching, String
<1> DEFINE rest == SubSeq(mask, i, n)
<1>1. mask \in String /\ WellMade(mask) /\ i \in 1..n /\ i \in 1..(n + 1)
  BY DEF Matching
<1>2. /\ rest \in Seq(Byte \ {0}) /\ Len(rest) = n - i + 1
      /\ \A k \in 1..(n - i + 1) : rest[k] = mask[i + k - 1]
  BY <1>1 DEF String
<1>3. rest = <<STAR>> <=> i = n /\ mask[n] = STAR
  <2>1. rest = <<STAR>> <=> Len(rest) = 1 /\ rest[1] = STAR
    <3> HIDE DEF rest
    <3> QED
      BY <1>2, DotStarIs DEF String
  <2>2. Len(rest) = 1 <=> i = n
    BY <1>2
  <2>3. i = n => rest[1] = mask[n]
    BY <1>1, <1>2
  <2> HIDE DEF rest
  <2> QED
    BY <2>1, <2>2, <2>3
<1>4. rest = <<STAR, DOT, STAR>> <=> NeedsNoDot(mask) /\ i = n - 2
  <2>1. rest = <<STAR, DOT, STAR>>
          <=> Len(rest) = 3 /\ rest[1] = STAR /\ rest[2] = DOT /\ rest[3] = STAR
    <3> HIDE DEF rest
    <3> QED
      BY <1>2, DotStarIs DEF String
  <2>2. Len(rest) = 3 <=> i = n - 2
    BY <1>2
  <2>3. i = n - 2 => rest[1] = mask[n - 2] /\ rest[2] = mask[n - 1] /\ rest[3] = mask[n] /\ n > 2
    <3> SUFFICES ASSUME i = n - 2
                 PROVE  rest[1] = mask[n - 2] /\ rest[2] = mask[n - 1] /\ rest[3] = mask[n] /\ n > 2
      OBVIOUS
    <3>1. /\ 1 \in 1..(n - i + 1) /\ 2 \in 1..(n - i + 1) /\ 3 \in 1..(n - i + 1)
          /\ i + 1 - 1 = n - 2 /\ i + 2 - 1 = n - 1 /\ i + 3 - 1 = n /\ n > 2
      BY <1>1
    <3> HIDE DEF rest
    <3> QED
      BY <1>2, <3>1
  <2> HIDE DEF rest
  <2> QED
    BY <1>1, <2>1, <2>2, <2>3, NeedsNoDotIs
<1>5. Fits(mask, name)[i][m + 1] <=> i = n /\ mask[n] = STAR
  <2>1. Fits(mask, name)[i][m + 1] <=> \A k \in i..n : mask[k] = STAR
    BY <1>1, FitsBlank
  <2>2. ASSUME \A k \in i..n : mask[k] = STAR, i # n PROVE FALSE
    <3>1. n - 1 \in i..n /\ n \in i..n /\ n \in 2..n /\ ~(n < n)
      BY <1>1, <2>2
    <3> QED
      BY <1>1, <2>2, <3>1 DEF WellMade, StarsApart
  <2>3. i = n => \A k \in i..n : k = n
    OBVIOUS
  <2>4. n \in i..n
    BY <1>1
  <2> QED
    BY <2>1, <2>2, <2>3, <2>4
<1>6. ASSUME NeedsNoDot(mask), i <= n - 2
      PROVE  Fits(LessDot(mask), name)[i][m + 1] <=> i = n - 2
  <2>1. /\ mask[n - 2] = STAR /\ Len(LessDot(mask)) = n - 2 /\ n - 2 \in Nat
        /\ \A k \in 1..(n - 2) : LessDot(mask)[k] = mask[k]
        /\ StarsApart(LessDot(mask))
    BY <1>1, <1>6, NeedsNoDotIs DEF WellMade
  <2>2. Fits(LessDot(mask), name)[i][m + 1] <=> \A k \in i..(n - 2) : LessDot(mask)[k] = STAR
    <3>1. i \in 1..(n - 2 + 1)
      BY <1>1, <1>6
    <3> QED
      BY <2>1, <3>1, FitsBlank
  <2>3. ASSUME \A k \in i..(n - 2) : LessDot(mask)[k] = STAR, i # n - 2 PROVE FALSE
    <3>1. /\ n - 2 - 1 \in i..(n - 2) /\ n - 2 \in i..(n - 2) /\ n - 2 \in 2..(n - 2)
          /\ ~(n - 2 < n - 2)
      BY <1>1, <1>6, <2>3
    <3> QED
      BY <2>1, <2>3, <3>1 DEF StarsApart
  <2>4. i = n - 2 => (\A k \in i..(n - 2) : k = n - 2) /\ n - 2 \in 1..(n - 2)
    BY <1>1, <1>6
  <2> QED
    BY <2>1, <2>2, <2>3, <2>4
<1>7. i = n - 2 => i <= n - 2
  OBVIOUS
<1> HIDE DEF rest
<1> QED
  BY <1>3, <1>4, <1>5, <1>6, <1>7 DEF StandsAt, rest

(* A star that something follows, in a mask that is well made: a character *)
(* stands behind the run of stars.                                         *)
LEMMA StarsFollowed ==
  ASSUME NEW mask, NEW name, Matching(mask, name),
         NEW i \in 1..(Len(mask) - 1), mask[i] = STAR
  PROVE  /\ PastStars(mask, i) \in (i + 1)..Len(mask)
         /\ mask[PastStars(mask, i)] \notin {STAR, ANY}
         /\ mask[PastStars(mask, i) - 1] = STAR
         /\ \A k \in i..(PastStars(mask, i) - 1) : mask[k] = STAR
         /\ NeedsNoDot(mask) /\ i < Len(mask) - 2 => PastStars(mask, i) < Len(mask) - 2
<1> PICK n \in Nat, m \in Nat : n = Len(mask) /\ m = Len(name)
  BY DEF Matching, String
<1>1. mask \in String /\ WellMade(mask) /\ i \in 1..(n - 1) /\ i \in 1..(n + 1)
  BY DEF Matching
<1> DEFINE r == PastStars(mask, i)
<1>2. /\ r \in i..(n + 1) /\ (r = n + 1 \/ mask[r] # STAR)
      /\ \A k \in i..(r - 1) : mask[k] = STAR
  BY <1>1, PastStarsIs
<1> HIDE DEF r
<1>3. r # i
  BY <1>1, <1>2
<1>4. r # n + 1
  <2> SUFFICES ASSUME r = n + 1 PROVE FALSE
    OBVIOUS
  <2>1. n - 1 \in i..(r - 1) /\ n \in i..(r - 1) /\ n \in 2..n /\ ~(n < n)
    BY <1>1
  <2> QED
    BY <1>1, <1>2, <2>1 DEF WellMade, StarsApart
<1>5. r \in (i + 1)..n /\ r - 1 \in i..(r - 1) /\ r \in 2..n
  BY <1>1, <1>2, <1>3, <1>4
<1>6. mask[r - 1] = STAR /\ mask[r] # STAR
  BY <1>2, <1>4, <1>5
<1>7. mask[r] # ANY
  BY <1>1, <1>5, <1>6 DEF WellMade, StarsApart
<1>8. ASSUME NeedsNoDot(mask), i < n - 2, ~(r < n - 2) PROVE FALSE
  <2>1. /\ mask[n - 2] = STAR /\ Len(LessDot(mask)) = n - 2 /\ n - 2 \in Nat
        /\ \A k \in 1..(n - 2) : LessDot(mask)[k] = mask[k]
        /\ StarsApart(LessDot(mask))
    BY <1>1, <1>8, NeedsNoDotIs DEF WellMade
  <2>2. n - 2 \in i..(n + 1)
    BY <1>1, <1>8
  <2>3. r # n - 2
    BY <1>6, <2>1
  <2>4. n - 2 - 1 \in i..(r - 1) /\ n - 2 - 1 \in 1..(n - 2) /\ n - 2 \in 1..(n - 2)
        /\ n - 2 \in 2..(n - 2) /\ ~(n - 2 < n - 2)
    BY <1>1, <1>5, <1>8, <2>3
  <2>5. LessDot(mask)[n - 2 - 1] = STAR /\ LessDot(mask)[n - 2] = STAR
    BY <1>2, <2>1, <2>4
  <2> QED
    BY <2>1, <2>4, <2>5 DEF StarsApart
<1> QED
  BY <1>2, <1>5, <1>6, <1>7, <1>8 DEF r

LEMMA StandsFollowed ==
  ASSUME NEW mask, NEW name, Matching(mask, name),
         NEW i \in 1..(Len(mask) - 1), mask[i] = STAR, NEW j \in 1..Len(name),
         ~(NeedsNoDot(mask) /\ i = Len(mask) - 2)
  PROVE  StandsAt(mask, name, i, j)
           <=> \E k \in j..Len(name) : /\ name[k] = mask[PastStars(mask, i)]
                                       /\ StandsAt(mask, name, PastStars(mask, i), k)
<1> PICK n \in Nat, m \in Nat : n = Len(mask) /\ m = Len(name)
  BY DEF Matching, String
<1> PICK r \in Nat : r = PastStars(mask, i)
  <2>1. PastStars(mask, i) \in (i + 1)..n
    BY StarsFollowed
  <2> QED
    BY <2>1
<1>1. mask \in String /\ i \in 1..(n - 1) /\ j \in 1..(m + 1)
  BY DEF Matching
<1>2. /\ r \in (i + 1)..n /\ mask[r] \notin {STAR, ANY} /\ \A k \in i..(r - 1) : mask[k] = STAR
      /\ NeedsNoDot(mask) /\ i < n - 2 => r < n - 2
  BY StarsFollowed
<1>3. r \in 1..n /\ i \in 1..(r - 1)
  BY <1>1, <1>2
<1>4. Fits(mask, name)[i][j] <=> \E k \in j..m : name[k] = mask[r] /\ Fits(mask, name)[r][k]
  <2>1. /\ Len(mask) \in Nat /\ Len(name) \in Nat /\ r \in 1..Len(mask) /\ i \in 1..(r - 1)
        /\ j \in 1..(Len(name) + 1) /\ mask[r] \notin {STAR, ANY}
        /\ \A k \in i..(r - 1) : mask[k] = STAR
    BY <1>1, <1>2, <1>3
  <2>2. Fits(mask, name)[i][j]
          <=> \E k \in j..Len(name) : name[k] = mask[r] /\ Fits(mask, name)[r][k]
    BY ONLY <2>1, FitsFound
  <2> QED
    BY <2>2
<1>5. NeedsNoDot(mask) => (i <= n - 2 <=> r <= n - 2)
  <2>1. NeedsNoDot(mask) => i # n - 2
    OBVIOUS
  <2> QED
    BY ONLY <1>1, <1>2, <2>1, n \in Nat
<1>6. ASSUME NeedsNoDot(mask), i <= n - 2
      PROVE  Fits(LessDot(mask), name)[i][j]
               <=> \E k \in j..m : name[k] = mask[r] /\ Fits(LessDot(mask), name)[r][k]
  <2> DEFINE dot == LessDot(mask)
  <2>1. Len(dot) = n - 2 /\ \A k \in 1..(n - 2) : dot[k] = mask[k]
    BY <1>1, <1>6, NeedsNoDotIs
  <2>2. r <= n - 2
    BY <1>5, <1>6
  <2> HIDE DEF dot
  <2>3. n - 2 \in Nat /\ r \in 1..(n - 2) /\ \A k \in i..(r - 1) : k \in 1..(n - 2)
    BY ONLY <1>1, <1>3, <2>2, n \in Nat, r \in Nat
  <2>4. dot[r] = mask[r] /\ \A k \in i..(r - 1) : dot[k] = STAR
    BY <1>2, <2>1, <2>3
  <2>5. Len(dot) \in Nat /\ r \in 1..Len(dot) /\ dot[r] \notin {STAR, ANY}
    BY <1>2, <2>1, <2>3, <2>4
  <2>6. Fits(dot, name)[i][j] <=> \E k \in j..m : name[k] = dot[r] /\ Fits(dot, name)[r][k]
    <3>1. /\ Len(dot) \in Nat /\ Len(name) \in Nat /\ r \in 1..Len(dot) /\ i \in 1..(r - 1)
          /\ j \in 1..(Len(name) + 1) /\ dot[r] \notin {STAR, ANY}
          /\ \A k \in i..(r - 1) : dot[k] = STAR
      BY <1>1, <1>3, <2>4, <2>5
    <3>2. Fits(dot, name)[i][j]
            <=> \E k \in j..Len(name) : name[k] = dot[r] /\ Fits(dot, name)[r][k]
      BY ONLY <3>1, FitsFound
    <3> QED
      BY <3>2
  <2> QED
    BY <2>4, <2>6 DEF dot
<1> QED
  BY <1>4, <1>5, <1>6 DEF StandsAt

(* KindofCompare takes a name just when a mask that is well made stands    *)
(* for it.                                                                 *)
LEMMA KindLoopStands ==
  ASSUME NEW mask, NEW name, Matching(mask, name), Len(mask) > 0, Len(name) > 0
  PROVE  KindLoop(mask, name)[1][1] <=> StandsAt(mask, name, 1, 1)
<1> PICK n \in Nat, m \in Nat : n = Len(mask) /\ m = Len(name)
  BY DEF Matching, String
<1> DEFINE loop == KindLoop(mask, name)
           At(i, j) == StandsAt(mask, name, i, j)
           G == {i \in 1..(n + 1) : i <= n => \A j \in 1..m : loop[i][j] <=> At(i, j)}
<1>0. mask \in String /\ name \in String /\ ANY # STAR /\ \A k \in 1..m : name[k] # STAR
  BY DEF Matching, ANY, STAR, String
<1>1. ASSUME NEW i \in 1..(n + 1), \A k \in (i + 1)..(n + 1) : k \in G, i <= n, NEW j \in 1..m
      PROVE  loop[i][j] <=> At(i, j)
  <2>0. i \in 1..n /\ ~(i > n \/ j > m) /\ j \in 1..(m + 1) /\ i + 1 \in 1..(n + 1)
        /\ j + 1 \in 1..(m + 1)
    BY <1>1
  <2>1. loop[i][j] <=> KindTurn(mask, name, loop, i, j)
    <3> HIDE DEF loop
    <3> QED
      BY <2>0, KindLoopIs DEF loop
  <2>2. \A k \in (i + 1)..n, l \in 1..m : loop[k][l] <=> At(k, l)
    <3> HIDE DEF loop, At
    <3> SUFFICES ASSUME NEW k \in (i + 1)..n, NEW l \in 1..m PROVE loop[k][l] <=> At(k, l)
      OBVIOUS
    <3>1. k \in (i + 1)..(n + 1) /\ k <= n
      OBVIOUS
    <3>2. k \in G
      <4> HIDE DEF G
      <4> QED
        BY <1>1, <3>1
    <3> QED
      BY <3>1, <3>2
  <2>3. CASE mask[i] \in {name[j], ANY}
    <3>1. mask[i] # STAR
      BY <1>0, <2>3
    <3>2. At(i, j) <=> At(i + 1, j + 1)
      BY <2>0, <2>3, <3>1, StandsNext
    <3>3. loop[i][j] <=> \/ i = n /\ j = m
                         \/ i = n /\ SubSeq(name, j + 1, m) = <<STAR>>
                         \/ j = m /\ SubSeq(mask, i + 1, n) \in {<<STAR>>, <<STAR, DOT, STAR>>}
                         \/ loop[i + 1][j + 1]
      <4> HIDE DEF loop
      <4> QED
        BY <2>0, <2>1, <2>3 DEF KindTurn
    <3>4. i = n => SubSeq(name, j + 1, m) # <<STAR>>
      <4> SUFFICES ASSUME SubSeq(name, j + 1, m) = <<STAR>> PROVE FALSE
        OBVIOUS
      <4> DEFINE rest == SubSeq(name, j + 1, m)
      <4>0. /\ rest \in String /\ Len(rest) = m - (j + 1) + 1
            /\ \A k \in 1..Len(rest) : rest[k] = name[j + 1 + k - 1]
        BY <1>0, <2>0, RestIs
      <4>1. Len(rest) = 1 /\ rest[1] = STAR
        <5>1. rest = <<STAR>>
          OBVIOUS
        <5> HIDE DEF rest
        <5> QED
          BY <4>0, <5>1, DotStarIs
      <4> HIDE DEF rest
      <4>2. j + 1 \in 1..m /\ j + 1 + 1 - 1 = j + 1
        <5>1. m - (j + 1) + 1 = 1
          BY <4>0, <4>1
        <5> QED
          BY ONLY <5>1, n \in Nat, m \in Nat, j \in 1..m
      <4>3. rest[1] = name[j + 1]
        <5>1. 1 \in 1..Len(rest)
          BY <4>1
        <5>2. rest[1] = name[j + 1 + 1 - 1]
          BY <4>0, <5>1
        <5> QED
          BY <4>2, <5>2
      <4> QED
        BY <1>0, <4>1, <4>2, <4>3
    <3>5. CASE i = n
      <4>1. ~loop[n + 1][j + 1]
        <5>1. n + 1 \in 1..(n + 1) /\ n + 1 > n
          OBVIOUS
        <5>2. loop[n + 1][j + 1] <=> KindTurn(mask, name, loop, n + 1, j + 1)
          <6> HIDE DEF loop
          <6> QED
            BY <2>0, <5>1, KindLoopIs DEF loop
        <5> HIDE DEF loop
        <5> QED
          BY <5>1, <5>2 DEF KindTurn
      <4>2. ~(SubSeq(mask, n + 1, n) \in {<<STAR>>, <<STAR, DOT, STAR>>})
        <5>1. SubSeq(mask, n + 1, n) \in String /\ Len(SubSeq(mask, n + 1, n)) = 0
          <6>1. n + 1 \in 1..(n + 1) /\ n - (n + 1) + 1 = 0
            OBVIOUS
          <6> QED
            BY <1>0, <6>1, RestIs
        <5>2. Len(SubSeq(mask, n + 1, n)) # 1 /\ Len(SubSeq(mask, n + 1, n)) # 3
          BY <5>1
        <5> QED
          BY <5>1, <5>2, DotStarIs
      <4>3. At(n + 1, j + 1) <=> j = m
        <5>1. Fits(mask, name)[n + 1][j + 1] <=> FitsTurn(mask, name, Fits(mask, name), n + 1, j + 1)
          BY <2>0, <3>5, FitsIs
        <5>2. FitsTurn(mask, name, Fits(mask, name), n + 1, j + 1) <=> j + 1 > m
          BY DEF FitsTurn
        <5>3. (j + 1 > m <=> j = m) /\ ~(n + 1 <= n - 2)
          OBVIOUS
        <5> QED
          BY <5>1, <5>2, <5>3 DEF StandsAt
      <4> HIDE DEF loop, At
      <4> QED
        BY <3>2, <3>3, <3>4, <3>5, <4>1, <4>2, <4>3
    <3>6. CASE i # n /\ j = m
      <4>1. ~loop[i + 1][m + 1]
        <5>1. m + 1 \in 1..(m + 1) /\ m + 1 > m
          OBVIOUS
        <5>2. loop[i + 1][m + 1] <=> KindTurn(mask, name, loop, i + 1, m + 1)
          <6> HIDE DEF loop
          <6> QED
            BY <2>0, <5>1, KindLoopIs DEF loop
        <5> HIDE DEF loop
        <5> QED
          BY <5>1, <5>2 DEF KindTurn
      <4>2. i + 1 \in 1..n
        BY <2>0, <3>6
      <4>3. At(i + 1, m + 1) <=> SubSeq(mask, i + 1, n) \in {<<STAR>>, <<STAR, DOT, STAR>>}
        BY <4>2, StandsBlank
      <4> HIDE DEF loop, At
      <4> QED
        BY <3>2, <3>3, <3>6, <4>1, <4>3
    <3>7. CASE i # n /\ j # m
      <4>1. i + 1 \in (i + 1)..n /\ j + 1 \in 1..m
        BY <2>0, <3>7
      <4> HIDE DEF loop, At
      <4> QED
        BY <2>2, <3>2, <3>3, <3>7, <4>1
    <3> QED
      BY <3>5, <3>6, <3>7
  <2>4. CASE mask[i] \notin {name[j], ANY} /\ mask[i] # STAR
    <3>1. ~At(i, j)
      BY <2>0, <2>4, StandsNext
    <3>2. ~loop[i][j]
      <4> HIDE DEF loop
      <4> QED
        BY <2>0, <2>1, <2>4 DEF KindTurn
    <3> QED
      BY <3>1, <3>2
  <2>5. CASE mask[i] \notin {name[j], ANY} /\ mask[i] = STAR
    <3> PICK r \in Nat : r = PastStars(mask, i)
      <4>1. PastStars(mask, i) \in i..(n + 1)
        BY <2>0, PastStarsIs
      <4> QED
        BY <4>1
    <3>1. loop[i][j] <=> \/ i = n
                         \/ r <= n /\ \E k \in j..m :
                              /\ name[k] = mask[r]
                              /\ SubSeq(mask, r, n) = SubSeq(name, k, m) \/ loop[r][k]
                         \/ SubSeq(mask, r, n) = <<DOT, STAR>>
      <4> HIDE DEF loop
      <4> QED
        BY <2>0, <2>1, <2>5 DEF KindTurn
    <3>2. CASE i = n
      <4>1. Fits(mask, name)[i][j] <=> FitsTurn(mask, name, Fits(mask, name), i, j)
        BY <2>0, FitsIs
      <4>2. Fits(mask, name)[n + 1][m + 1]
        <5>1. n + 1 \in 1..(n + 1) /\ ~(n + 1 <= n)
          OBVIOUS
        <5> QED
          BY <5>1, FitsBlank
      <4>3. m + 1 \in j..(m + 1)
        OBVIOUS
      <4>4. Fits(mask, name)[i][j]
        BY <2>0, <2>5, <3>2, <4>1, <4>2, <4>3 DEF FitsTurn
      <4> HIDE DEF loop
      <4> QED
        BY <3>1, <3>2, <4>4 DEF StandsAt
    <3>3. CASE i # n
      <4>1. i \in 1..(n - 1)
        BY <2>0, <3>3
      <4>2. /\ r \in (i + 1)..n /\ mask[r] \notin {STAR, ANY} /\ mask[r - 1] = STAR
            /\ \A k \in i..(r - 1) : mask[k] = STAR
            /\ NeedsNoDot(mask) /\ i < n - 2 => r < n - 2
        BY <2>5, <4>1, StarsFollowed
      <4>3. SubSeq(mask, r, n) = <<DOT, STAR>> <=> NeedsNoDot(mask) /\ i = n - 2
        <5> DEFINE rest == SubSeq(mask, r, n)
        <5>1. /\ rest \in String /\ Len(rest) = n - r + 1
              /\ r < n => rest[1] = mask[r] /\ rest[2] = mask[r + 1]
          <6>1. /\ rest \in String /\ Len(rest) = n - r + 1
                /\ \A k \in 1..Len(rest) : rest[k] = mask[r + k - 1]
            <7>1. r \in 1..(n + 1)
              BY <2>0, <4>2
            <7> QED
              BY <1>0, <7>1, RestIs
          <6>2. /\ r < n => 1 \in 1..(n - r + 1) /\ 2 \in 1..(n - r + 1)
                /\ r + 1 - 1 = r /\ r + 2 - 1 = r + 1
            OBVIOUS
          <6> HIDE DEF rest
          <6> QED
            BY <6>1, <6>2
        <5>2. rest = <<DOT, STAR>> <=> Len(rest) = 2 /\ rest[1] = DOT /\ rest[2] = STAR
          <6> HIDE DEF rest
          <6> QED
            BY <5>1, DotStarIs
        <5> HIDE DEF rest
        <5>3. ASSUME rest = <<DOT, STAR>> PROVE NeedsNoDot(mask) /\ i = n - 2
          <6>1. n - r + 1 = 2 /\ rest[1] = DOT /\ rest[2] = STAR
            BY <5>1, <5>2, <5>3
          <6>2. r = n - 1 /\ r < n /\ n > 2 /\ r - 1 = n - 2 /\ r + 1 = n
            BY ONLY <2>0, <4>2, <6>1, n \in Nat, r \in Nat, i \in 1..(n + 1)
          <6>3. NeedsNoDot(mask)
            <7>1. mask[n - 2] = STAR /\ mask[n - 1] = DOT /\ mask[n] = STAR
              BY <4>2, <5>1, <6>1, <6>2
            <7> QED
              BY <1>0, <6>2, <7>1, NeedsNoDotIs
          <6>4. ~(i < n - 2) /\ i <= n - 2
            BY <2>0, <4>2, <6>2, <6>3
          <6> QED
            BY <2>0, <6>3, <6>4
        <5>4. ASSUME NeedsNoDot(mask), i = n - 2 PROVE rest = <<DOT, STAR>>
          <6>1. n > 2 /\ mask[n - 2] = STAR /\ mask[n - 1] = DOT /\ mask[n] = STAR
            BY <1>0, <5>4, NeedsNoDotIs
          <6>2. r # n
            BY <4>2, <6>1
          <6>3. r = n - 1 /\ r + 1 = n /\ n - r + 1 = 2 /\ r < n
            BY ONLY <2>0, <4>2, <5>4, <6>2, n \in Nat, r \in Nat, i \in 1..(n + 1)
          <6> QED
            BY <5>1, <5>2, <6>1, <6>3
        <5> QED
          BY <5>3, <5>4 DEF rest
      <4>4. CASE NeedsNoDot(mask) /\ i = n - 2
        <5>1. Fits(LessDot(mask), name)[n - 2][j]
          <6> DEFINE dot == LessDot(mask)
          <6>1. Len(dot) = n - 2 /\ n - 2 \in 1..(n - 2) /\ n - 2 \in Nat /\ dot[n - 2] = mask[n - 2]
            <7>1. n - 2 \in 1..(n - 2) /\ n - 2 \in Nat
              BY <2>0, <4>4
            <7> QED
              BY <1>0, <4>4, <7>1, NeedsNoDotIs
          <6> HIDE DEF dot
          <6>2. Len(dot) \in Nat /\ Len(dot) + 1 \in 1..(Len(dot) + 1) /\ ~(Len(dot) + 1 <= Len(dot))
            BY <6>1
          <6>3. Fits(dot, name)[Len(dot) + 1][m + 1]
            <7>1. Fits(dot, name)[Len(dot) + 1][Len(name) + 1]
                    <=> \A l \in (Len(dot) + 1)..Len(dot) : dot[l] = STAR
              <8>1. Len(name) \in Nat
                OBVIOUS
              <8> QED
                BY ONLY <6>2, <8>1, FitsBlank
            <7>2. \A l \in (Len(dot) + 1)..Len(dot) : FALSE
              BY ONLY <6>2
            <7> QED
              BY <7>1, <7>2
          <6>4. Len(dot) \in 1..(Len(dot) + 1) /\ ~(Len(dot) > Len(dot)) /\ dot[Len(dot)] = STAR
            <7>1. dot[Len(dot)] = STAR
              BY <2>5, <4>4, <6>1
            <7>2. Len(dot) \in Nat /\ Len(dot) >= 1
              BY <6>1
            <7> QED
              BY ONLY <7>1, <7>2
          <6>5. Fits(dot, name)[Len(dot)][j] <=> FitsTurn(dot, name, Fits(dot, name), Len(dot), j)
            BY <2>0, <6>2, <6>4, FitsIs
          <6>6. m + 1 \in j..(m + 1)
            OBVIOUS
          <6>7. Fits(dot, name)[Len(dot)][j]
            BY <6>3, <6>4, <6>5, <6>6 DEF FitsTurn
          <6> QED
            BY <6>1, <6>7 DEF dot
        <5>2. At(i, j)
          BY <4>4, <5>1 DEF StandsAt
        <5> HIDE DEF loop, At
        <5> QED
          BY <3>1, <4>3, <4>4, <5>2
      <4>5. CASE ~(NeedsNoDot(mask) /\ i = n - 2)
        <5>1. At(i, j) <=> \E k \in j..m : name[k] = mask[r] /\ At(r, k)
          BY <2>5, <4>1, <4>5, StandsFollowed
        <5>2. ASSUME NEW k \in j..m, SubSeq(mask, r, n) = SubSeq(name, k, m) PROVE At(r, k)
          <6>1. k \in 1..m /\ r \in 1..n
            BY <2>0, <4>2
          <6>2. /\ Len(SubSeq(mask, r, n)) = n - r + 1 /\ Len(SubSeq(name, k, m)) = m - k + 1
                /\ \A l \in 1..(n - r + 1) : SubSeq(mask, r, n)[l] = mask[r + l - 1]
                /\ \A l \in 1..(m - k + 1) : SubSeq(name, k, m)[l] = name[k + l - 1]
            <7>1. r \in 1..(n + 1) /\ k \in 1..(m + 1)
              BY <6>1
            <7>2. mask \in String /\ name \in String
              BY <1>0
            <7> QED
              BY <7>1, <7>2, RestIs
          <6>3. n - r = m - k
            <7>1. n - r + 1 = m - k + 1
              BY <5>2, <6>2
            <7> QED
              BY ONLY <6>1, <7>1, n \in Nat, m \in Nat
          <6>4. ASSUME NEW l \in r..n PROVE mask[l] # STAR /\ mask[l] = name[k + l - r]
            <7>1. /\ l - r + 1 \in 1..(n - r + 1) /\ l - r + 1 \in 1..(m - k + 1)
                  /\ r + (l - r + 1) - 1 = l /\ k + (l - r + 1) - 1 = k + l - r
                  /\ k + l - r \in 1..m
              BY ONLY <6>1, <6>3, n \in Nat, m \in Nat, l \in r..n
            <7>2. mask[l] = SubSeq(mask, r, n)[l - r + 1]
              BY <6>2, <7>1
            <7>3. name[k + l - r] = SubSeq(name, k, m)[l - r + 1]
              BY <6>2, <7>1
            <7>4. mask[l] = name[k + l - r]
              BY <5>2, <7>2, <7>3
            <7> QED
              BY <1>0, <7>1, <7>4
          <6>5. Fits(mask, name)[r][k]
            <7>1. r \in 1..(n + 1) /\ k \in 1..(m + 1)
              BY <6>1
            <7> QED
              <8>1. /\ Len(mask) \in Nat /\ Len(name) \in Nat
                    /\ r \in 1..(Len(mask) + 1) /\ k \in 1..(Len(name) + 1)
                    /\ Len(mask) - r = Len(name) - k
                    /\ \A l \in r..Len(mask) : mask[l] # STAR /\ mask[l] = name[k + l - r]
                BY <6>3, <6>4, <7>1
              <8> QED
                BY ONLY <8>1, FitsSame
          <6> QED
            BY <6>5 DEF StandsAt
        <5>3. \A k \in j..m : loop[r][k] <=> At(r, k)
          <6>1. r \in (i + 1)..n /\ \A k \in j..m : k \in 1..m
            BY <4>2
          <6> HIDE DEF loop, At
          <6> QED
            BY <2>2, <6>1
        <5>4. r <= n
          BY <4>2
        <5> HIDE DEF loop, At
        <5> QED
          BY <3>1, <3>3, <4>3, <4>5, <5>1, <5>2, <5>3, <5>4
      <4> QED
        BY <4>4, <4>5
    <3> QED
      BY <3>2, <3>3
  <2> QED
    BY <2>3, <2>4, <2>5
<1>2. \A i \in 1..(n + 1) : i \in G
  <2>1. \A i \in 1..(n + 1) : (\A k \in (i + 1)..(n + 1) : k \in G) => i \in G
    <3> HIDE DEF loop, At
    <3> QED
      BY <1>1
  <2> HIDE DEF G
  <2> QED
    BY <2>1, Downwards
<1>3. 1 \in 1..(n + 1) /\ 1 <= n /\ 1 \in 1..m
  OBVIOUS
<1> HIDE DEF loop, At
<1>4. loop[1][1] <=> At(1, 1)
  BY <1>2, <1>3
<1> QED
  BY <1>4 DEF loop, At

(* KindofCompare takes a name just when the mask stands for it.            *)
LEMMA KindofCompareStands ==
  ASSUME NEW mask, NEW name, Matching(mask, name), mask # <<>>
  PROVE  KindofCompare(mask, name) <=> Stands(mask, name)
<1> PICK n \in Nat, m \in Nat : n = Len(mask) /\ m = Len(name)
  BY DEF Matching, String
<1>1. mask \in Seq(Byte \ {0}) /\ name \in Seq(Byte \ {0}) /\ mask \in String
  BY DEF Matching, String
<1>2. n > 0
  BY <1>1
<1>3. CASE name = <<>>
  <2>1. m = 0 /\ 1 \in 1..(n + 1) /\ 1 \in 1..(m + 1) /\ 1 > m
    BY <1>3
  <2>2. KindLoop(mask, name)[1][1] <=> KindTurn(mask, name, KindLoop(mask, name), 1, 1)
    <3>1. Len(mask) \in Nat /\ Len(name) \in Nat /\ 1 \in 1..(Len(mask) + 1) /\ 1 \in 1..(Len(name) + 1)
      BY <2>1
    <3> QED
      BY ONLY <3>1, KindLoopIs
  <2>3. ~KindLoop(mask, name)[1][1]
    BY <2>1, <2>2 DEF KindTurn
  <2> QED
    BY <1>3, <2>3 DEF KindofCompare, Stands
<1>4. CASE name # <<>>
  <2>1. m > 0
    BY <1>1, <1>4
  <2>2. KindLoop(mask, name)[1][1] <=> StandsAt(mask, name, 1, 1)
    BY <1>2, <2>1, KindLoopStands
  <2>3. NeedsNoDot(mask) => 1 <= n - 2
    BY <1>1, NeedsNoDotIs
  <2>4. StandsAt(mask, name, 1, 1) <=> Stands(mask, name)
    BY <1>4, <2>3 DEF StandsAt, Stands, Glob
  <2>5. ASSUME mask = name PROVE Stands(mask, name)
    <3>1. /\ Len(mask) \in Nat /\ Len(name) \in Nat /\ 1 \in 1..(Len(mask) + 1) /\ 1 \in 1..(Len(name) + 1)
          /\ Len(mask) - 1 = Len(name) - 1
          /\ \A k \in 1..Len(mask) : mask[k] # STAR /\ mask[k] = name[1 + k - 1]
      <4>1. n = m /\ \A k \in 1..n : mask[k] # STAR /\ k = 1 + k - 1
        BY <1>1, <2>5 DEF Matching
      <4> QED
        BY <2>5, <4>1
    <3>2. Fits(mask, name)[1][1]
      BY ONLY <3>1, FitsSame
    <3> QED
      BY <1>4, <3>2 DEF Stands, Glob
  <2> QED
    BY <2>2, <2>4, <2>5 DEF KindofCompare
<1> QED
  BY <1>3, <1>4

(* The lists of -X.                                                        *)
ItemsType == [list : Seq(Seq(Byte)), item : Seq(Byte)]

LEMMA TakeType ==
  ASSUME NEW items \in ItemsType, NEW c \in Byte, NEW skipped, NEW ends
  PROVE  Take(items, c, skipped, ends) \in ItemsType /\ Collect(items) \in ItemsType
<1>1. items.list \in Seq(Seq(Byte)) /\ items.item \in Seq(Byte)
  BY DEF ItemsType
<1>2. Append(items.list, items.item) \in Seq(Seq(Byte)) /\ Append(items.item, c) \in Seq(Byte)
      /\ <<>> \in Seq(Byte)
  BY <1>1
<1>3. Collect(items) \in ItemsType
  BY <1>2 DEF Collect, ItemsType
<1>4. [items EXCEPT !.item = Append(@, c)] \in ItemsType
  BY <1>2 DEF ItemsType
<1> QED
  BY <1>3, <1>4 DEF Take

LEMMA TakenIs ==
  ASSUME NEW t \in Seq(Byte), NEW skipped, NEW ends
  PROVE  /\ Taken(t, skipped, ends)[0] = NoItems
         /\ \A k \in 1..Len(t) :
              Taken(t, skipped, ends)[k] = Take(Taken(t, skipped, ends)[k - 1], t[k], skipped, ends)
         /\ \A k \in 0..Len(t) : Taken(t, skipped, ends)[k] \in ItemsType
<1> DEFINE S == 0..Len(t)
           T == ItemsType
           FT == [S -> T]
           NextItem(g, k) == IF k = 0 THEN NoItems ELSE Take(g[k - 1], t[k], skipped, ends)
           Turned(g) == [k \in 0..Len(t) |-> NextItem(g, k)]
           the == CHOOSE g : g = Turned(g)
           m == [k \in S |-> k]
           step == [p \in FT \X S |-> NextItem(p[1], p[2])]
<1>1. Taken(t, skipped, ends) = the
  BY DEF Taken
<1>2. m \in [S -> 0..Len(t)] /\ Len(t) \in Nat
  OBVIOUS
<1>3. ASSUME NEW g \in FT, NEW k \in S PROVE NextItem(g, k) \in T
  <2>1. NoItems \in T
    BY DEF NoItems, ItemsType
  <2>2. k # 0 => k - 1 \in S /\ k \in 1..Len(t)
    OBVIOUS
  <2>3. k # 0 => g[k - 1] \in ItemsType /\ t[k] \in Byte
    BY <2>2
  <2> QED
    BY <2>1, <2>3, TakeType
<1>4. step \in [FT \X S -> T]
  <2> HIDE DEF NextItem
  <2> QED
    BY <1>3
<1>5. \A g \in FT, k \in S : step[<<g, k>>] = NextItem(g, k)
  <2> HIDE DEF NextItem, FT, S
  <2> QED
    OBVIOUS
<1> HIDE DEF step
<1>6. Descends(S, T, m, step)
  <2> SUFFICES ASSUME NEW g \in FT, NEW h \in FT, NEW k \in S,
                      \A l \in S : m[l] < m[k] => g[l] = h[l]
               PROVE  step[<<g, k>>] = step[<<h, k>>]
    BY DEF Descends
  <2>1. k # 0 => g[k - 1] = h[k - 1]
    <3>1. k # 0 => k - 1 \in S /\ m[k - 1] = k - 1 /\ m[k] = k /\ k - 1 < k
      OBVIOUS
    <3> HIDE DEF m
    <3> QED
      BY <3>1
  <2>2. NextItem(g, k) = NextItem(h, k)
    BY <2>1
  <2> HIDE DEF NextItem
  <2> QED
    BY <1>5, <2>2
<1>7. PICK taken \in FT : Recursion(taken, S, step)
  <2>1. T # {}
    <3>1. NoItems \in T
      BY DEF NoItems, ItemsType
    <3> QED
      BY <3>1
  <2> HIDE DEF m, step, S, T
  <2> QED
    BY <1>2, <1>4, <1>6, <2>1, RecursionExists
<1>8. taken = Turned(taken)
  <2>1. ASSUME NEW k \in S PROVE taken[k] = NextItem(taken, k)
    <3>1. taken[k] = step[<<taken, k>>]
      BY <1>7 DEF Recursion
    <3> HIDE DEF NextItem
    <3> QED
      BY <1>5, <3>1
  <2> HIDE DEF NextItem
  <2> QED
    BY <2>1
<1>9. the = Turned(the)
  <2> HIDE DEF Turned
  <2> QED
    BY <1>8
<1> HIDE DEF the
<1>10. \A k \in S : the[k] = NextItem(the, k)
  <2> HIDE DEF NextItem
  <2> QED
    BY <1>9
<1>11. the[0] = NoItems /\ \A k \in 1..Len(t) : the[k] = Take(the[k - 1], t[k], skipped, ends)
  <2>1. 0 \in S /\ \A k \in 1..Len(t) : k \in S /\ k # 0
    OBVIOUS
  <2> QED
    BY <1>10, <2>1
<1>12. \A k \in 0..Len(t) : the[k] \in ItemsType
  <2> DEFINE Wrong == {k \in 0..Len(t) : the[k] \notin ItemsType}
  <2> SUFFICES ASSUME Wrong # {} PROVE FALSE
    OBVIOUS
  <2>1. Wrong \in SUBSET Nat
    <3>1. Wrong \subseteq Nat
      OBVIOUS
    <3> HIDE DEF Wrong
    <3> QED
      BY <3>1
  <2>2. PICK k \in Wrong : \A l \in Wrong : k <= l
    <3> HIDE DEF Wrong
    <3> QED
      BY <2>1, Least
  <2>3. k \in 0..Len(t) /\ the[k] \notin ItemsType
    BY <2>2
  <2>4. k # 0
    <3>1. NoItems \in ItemsType
      BY DEF NoItems, ItemsType
    <3>2. the[0] \in ItemsType
      BY ONLY <1>11, <3>1
    <3> QED
      BY ONLY <2>3, <3>2
  <2>5. k \in 1..Len(t) /\ k - 1 \in 0..Len(t) /\ ~(k <= k - 1)
    BY <2>3, <2>4
  <2>6. the[k - 1] \in ItemsType
    BY <2>2, <2>5
  <2>7. t[k] \in Byte
    BY <2>5
  <2>8. Take(the[k - 1], t[k], skipped, ends) \in ItemsType
    BY ONLY <2>6, <2>7, TakeType
  <2>9. the[k] = Take(the[k - 1], t[k], skipped, ends)
    BY ONLY <1>11, <2>5
  <2> QED
    BY ONLY <2>3, <2>8, <2>9
<1> QED
  BY <1>1, <1>11, <1>12

-----------------------------------------------------------------------------
(* What the switch -X gives: the items of its text.                        *)

(* The item of a text from b on: what is passed over goes to c, and it     *)
(* goes on to e at least.                                                  *)
ItemAt(t, skipped, ends, b, c, e) ==
  /\ b <= c /\ c <= e
  /\ \A k \in b..e : t[k] \notin ends
  /\ b = 1 \/ t[b - 1] \in ends
  /\ t[c] \notin skipped
  /\ \A k \in b..(c - 1) : t[k] \in skipped

(* What the list holds, and where the item that has begun is, when the     *)
(* first k characters are taken.                                           *)
ListHas(t, skipped, ends, k, list) ==
  \A w : (\E i \in 1..Len(list) : list[i] = w)
           <=> \E b, c, e \in 1..Len(t) : /\ ItemAt(t, skipped, ends, b, c, e)
                                          /\ e < k /\ t[e + 1] \in ends
                                          /\ w = SubSeq(t, c, e)

ItemIs(t, skipped, ends, k, item) ==
  \E b \in 1..(k + 1) :
    /\ b = 1 \/ t[b - 1] \in ends
    /\ \A l \in b..k : t[l] \notin ends
    /\ \/ item = <<>> /\ \A l \in b..k : t[l] \in skipped
       \/ \E c \in b..k : /\ t[c] \notin skipped /\ \A l \in b..(c - 1) : t[l] \in skipped
                          /\ item = SubSeq(t, c, k)

ItemUpTo(t, skipped, ends, k, w) ==
  \E b, c \in 1..Len(t) : ItemAt(t, skipped, ends, b, c, k) /\ w = SubSeq(t, c, k)

(* An item that ends before character k + 1, by the one that has begun.    *)
LEMMA ItemEnds ==
  ASSUME NEW t \in Seq(Byte), NEW skipped, NEW ends, NEW k \in 0..Len(t), NEW item \in Seq(Byte),
         ItemIs(t, skipped, ends, k, item)
  PROVE  \A w : ItemUpTo(t, skipped, ends, k, w) <=> item # <<>> /\ w = item
<1> PICK n \in Nat : n = Len(t)
  OBVIOUS
<1>1. PICK b \in 1..(k + 1) :
        /\ b = 1 \/ t[b - 1] \in ends
        /\ \A l \in b..k : t[l] \notin ends
        /\ \/ item = <<>> /\ \A l \in b..k : t[l] \in skipped
           \/ \E c \in b..k : /\ t[c] \notin skipped /\ \A l \in b..(c - 1) : t[l] \in skipped
                              /\ item = SubSeq(t, c, k)
  BY DEF ItemIs
<1>2. ASSUME NEW a \in 1..n, NEW c \in 1..n, ItemAt(t, skipped, ends, a, c, k)
      PROVE  a = b
  <2>1. /\ a <= c /\ c <= k
        /\ a = 1 \/ t[a - 1] \in ends
        /\ \A l \in a..k : t[l] \notin ends
    BY <1>2 DEF ItemAt
  <2>2. k \in Nat /\ a \in Nat /\ b \in Nat /\ c \in Nat
    BY <1>2
  <2>3. ~(a < b)
    <3>1. a < b => b - 1 \in a..k /\ b # 1
      BY <2>1, <2>2
    <3> QED
      BY <1>1, <2>1, <3>1
  <2>4. ~(b < a)
    <3>1. b < a => a - 1 \in b..k /\ a # 1
      BY <2>1, <2>2, <1>2 DEF ItemAt
    <3> QED
      BY <1>1, <1>2, <3>1 DEF ItemAt
  <2> QED
    BY <2>2, <2>3, <2>4
<1>3. CASE item = <<>> /\ \A l \in b..k : t[l] \in skipped
  <2>1. ASSUME NEW a \in 1..n, NEW c \in 1..n, ItemAt(t, skipped, ends, a, c, k)
        PROVE  FALSE
    <3>1. a = b
      BY <1>2, <2>1
    <3>2. b <= c /\ c <= k /\ t[c] \notin skipped
      BY <2>1, <3>1 DEF ItemAt
    <3>3. c \in b..k
      BY <3>2
    <3> QED
      BY <1>3, <3>2, <3>3
  <2> QED
    BY <1>3, <2>1 DEF ItemUpTo
<1>4. CASE \E c \in b..k : /\ t[c] \notin skipped /\ \A l \in b..(c - 1) : t[l] \in skipped
                           /\ item = SubSeq(t, c, k)
  <2>1. PICK c \in b..k : /\ t[c] \notin skipped /\ \A l \in b..(c - 1) : t[l] \in skipped
                          /\ item = SubSeq(t, c, k)
    BY <1>4
  <2>2. b \in 1..n /\ c \in 1..n /\ b <= c /\ c <= k /\ k \in Nat /\ k <= n
    BY <2>1
  <2>3. item # <<>>
    <3>1. Len(SubSeq(t, c, k)) = k - c + 1
      BY <2>2
    <3>2. Len(item) > 0
      BY <2>1, <2>2, <3>1
    <3> QED
      BY <3>2
  <2>4. ItemAt(t, skipped, ends, b, c, k)
    BY <1>1, <2>1, <2>2 DEF ItemAt
  <2>5. ASSUME NEW a \in 1..n, NEW d \in 1..n, ItemAt(t, skipped, ends, a, d, k)
        PROVE  d = c
    <3>1. a = b
      BY <1>2, <2>5
    <3>2. b <= d /\ d <= k /\ t[d] \notin skipped /\ \A l \in b..(d - 1) : t[l] \in skipped
      BY <2>5, <3>1 DEF ItemAt
    <3>3. d < c => d \in b..(c - 1)
      BY <2>2, <3>2
    <3>4. c < d => c \in b..(d - 1)
      BY <2>2, <3>2
    <3>5. ~(d < c) /\ ~(c < d)
      BY <2>1, <3>2, <3>3, <3>4
    <3> QED
      BY <2>2, <3>5
  <2> QED
    BY <2>1, <2>2, <2>3, <2>4, <2>5 DEF ItemUpTo
<1> QED
  BY <1>1, <1>3, <1>4
(* What the list has more when an item ends before a character.            *)
LEMMA ListGrows ==
  ASSUME NEW t \in Seq(Byte), NEW skipped, NEW ends, NEW k \in 1..Len(t), NEW items \in ItemsType,
         ListHas(t, skipped, ends, k - 1, items.list), ItemIs(t, skipped, ends, k - 1, items.item)
  PROVE  /\ t[k] \in ends => ListHas(t, skipped, ends, k, Collect(items).list)
         /\ t[k] \notin ends => ListHas(t, skipped, ends, k, items.list)
<1> PICK n \in Nat : n = Len(t)
  OBVIOUS
<1> DEFINE HasItem(list, w) == \E i \in 1..Len(list) : list[i] = w
           Before(l, w) == \E b, c, e \in 1..Len(t) : /\ ItemAt(t, skipped, ends, b, c, e)
                                                      /\ e < l /\ t[e + 1] \in ends
                                                      /\ w = SubSeq(t, c, e)
<1>1. \A w : HasItem(items.list, w) <=> Before(k - 1, w)
  BY DEF ListHas
<1>2. k \in Nat /\ 1 <= k /\ k <= n /\ k - 1 + 1 = k
  OBVIOUS
<1>3. CASE t[k] \notin ends
  <2>1. ASSUME NEW w PROVE Before(k, w) <=> Before(k - 1, w)
    <3>1. ASSUME NEW e \in 1..n PROVE (e < k /\ t[e + 1] \in ends) <=> (e < k - 1 /\ t[e + 1] \in ends)
      <4>1. e < k => e < k - 1 \/ e + 1 = k
        BY <1>2
      <4>2. e < k - 1 => e < k
        BY <1>2
      <4> QED
        BY <4>1, <4>2, <1>3
    <3> QED
      BY <3>1
  <2>2. \A w : HasItem(items.list, w) <=> Before(k, w)
    <3> HIDE DEF HasItem, Before
    <3> QED
      BY <1>1, <2>1
  <2> QED
    BY <1>3, <2>2 DEF ListHas
<1>4. CASE t[k] \in ends
  <2> DEFINE Ended(w) == \E b, c \in 1..Len(t) : /\ ItemAt(t, skipped, ends, b, c, k - 1)
                                                 /\ w = SubSeq(t, c, k - 1)
             list == Collect(items).list
  <2>1. ASSUME NEW w PROVE Ended(w) <=> items.item # <<>> /\ w = items.item
    <3> PICK l \in 0..Len(t) : l = k - 1
      BY <1>2
    <3>1. /\ t \in Seq(Byte) /\ l \in 0..Len(t) /\ items.item \in Seq(Byte)
          /\ ItemIs(t, skipped, ends, l, items.item)
      BY <1>2 DEF ItemsType
    <3>2. \A x : ItemUpTo(t, skipped, ends, l, x) <=> items.item # <<>> /\ x = items.item
      BY ONLY <3>1, ItemEnds
    <3> QED
      BY <3>2 DEF ItemUpTo
  <2>2. ASSUME NEW w PROVE Before(k, w) <=> Before(k - 1, w) \/ Ended(w)
    <3>1. ASSUME NEW e \in 1..n
          PROVE  (e < k /\ t[e + 1] \in ends) <=> (e < k - 1 /\ t[e + 1] \in ends) \/ e = k - 1
      <4>1. e < k => e < k - 1 \/ e = k - 1
        BY <1>2
      <4>2. e < k - 1 => e < k
        BY <1>2
      <4>3. e = k - 1 => e < k /\ t[e + 1] = t[k]
        BY <1>2
      <4> QED
        BY <4>1, <4>2, <4>3, <1>4
    <3>2. Ended(w) => k - 1 \in 1..n
      BY DEF ItemAt
    <3>3. Before(k, w) => Before(k - 1, w) \/ Ended(w)
      BY <3>1
    <3>4. Before(k - 1, w) => Before(k, w)
      BY <3>1
    <3>5. Ended(w) => Before(k, w)
      <4> SUFFICES ASSUME Ended(w) PROVE Before(k, w)
        OBVIOUS
      <4>1. k - 1 \in 1..Len(t) /\ k - 1 < k /\ t[k - 1 + 1] \in ends
        BY <3>2, <1>2, <1>4
      <4> QED
        BY <4>1
    <3> QED
      BY <3>3, <3>4, <3>5
  <2>3. ASSUME NEW w PROVE HasItem(list, w) <=> HasItem(items.list, w) \/ (items.item # <<>> /\ w = items.item)
    <3>1. CASE items.item = <<>>
      BY <3>1 DEF Collect
    <3>2. CASE items.item # <<>>
      <4>1. list = Append(items.list, items.item)
        BY <3>2 DEF Collect
      <4> PICK p \in Nat : p = Len(items.list)
        BY DEF ItemsType
      <4>2. /\ Len(list) = p + 1 /\ list[p + 1] = items.item
            /\ \A i \in 1..p : list[i] = items.list[i]
        BY <4>1 DEF ItemsType
      <4>3. p + 1 \in 1..(p + 1) /\ \A i \in 1..(p + 1) : i \in 1..p \/ i = p + 1
        OBVIOUS
      <4>4. 1..p \subseteq 1..(p + 1)
        OBVIOUS
      <4> HIDE DEF list
      <4> QED
        BY <3>2, <4>2, <4>3, <4>4
    <3> QED
      BY <3>1, <3>2
  <2>4. \A w : HasItem(list, w) <=> Before(k, w)
    <3> HIDE DEF HasItem, Before, Ended, list
    <3> QED
      BY <1>1, <2>1, <2>2, <2>3
  <2> QED
    BY <1>4, <2>4 DEF ListHas
<1> QED
  BY <1>3, <1>4

(* What is left of an item, a character later.                             *)
LEMMA ItemGrows ==
  ASSUME NEW t \in Seq(Byte), NEW skipped, NEW ends, NEW k \in 1..Len(t), NEW item \in Seq(Byte),
         ItemIs(t, skipped, ends, k - 1, item)
  PROVE  /\ t[k] \in ends => ItemIs(t, skipped, ends, k, <<>>)
         /\ t[k] \notin ends /\ item = <<>> /\ t[k] \in skipped => ItemIs(t, skipped, ends, k, <<>>)
         /\ t[k] \notin ends /\ ~(item = <<>> /\ t[k] \in skipped) =>
              ItemIs(t, skipped, ends, k, Append(item, t[k]))
<1> PICK n \in Nat : n = Len(t)
  OBVIOUS
<1>1. k \in Nat /\ 1 <= k /\ k <= n /\ k - 1 + 1 = k
  OBVIOUS
<1>2. PICK b \in 1..k :
        /\ b = 1 \/ t[b - 1] \in ends
        /\ \A l \in b..(k - 1) : t[l] \notin ends
        /\ \/ item = <<>> /\ \A l \in b..(k - 1) : t[l] \in skipped
           \/ \E c \in b..(k - 1) : /\ t[c] \notin skipped /\ \A l \in b..(c - 1) : t[l] \in skipped
                                    /\ item = SubSeq(t, c, k - 1)
  BY <1>1 DEF ItemIs
<1>3. ASSUME t[k] \in ends PROVE ItemIs(t, skipped, ends, k, <<>>)
  <2>1. k + 1 \in 1..(k + 1) /\ k + 1 - 1 = k /\ \A l \in (k + 1)..k : FALSE
    BY <1>1
  <2>2. /\ k + 1 = 1 \/ t[k + 1 - 1] \in ends
        /\ \A l \in (k + 1)..k : t[l] \notin ends
        /\ \A l \in (k + 1)..k : t[l] \in skipped
    BY ONLY <1>3, <2>1
  <2> PICK e \in 1..(k + 1) : e = k + 1
    BY <2>1
  <2>3. /\ e = 1 \/ t[e - 1] \in ends
        /\ \A l \in e..k : t[l] \notin ends
        /\ \A l \in e..k : t[l] \in skipped
    BY ONLY <2>2, e = k + 1
  <2> QED
    BY ONLY <2>3 DEF ItemIs
<1>4. ASSUME t[k] \notin ends
      PROVE  b \in 1..(k + 1) /\ \A l \in b..k : t[l] \notin ends
  <2>1. \A l \in b..k : l \in b..(k - 1) \/ l = k
    BY <1>1
  <2> QED
    BY <1>2, <1>4, <2>1
<1>5. ASSUME t[k] \notin ends, item = <<>> PROVE \A l \in b..(k - 1) : t[l] \in skipped
  <2>1. ASSUME NEW c \in b..(k - 1), item = SubSeq(t, c, k - 1) PROVE FALSE
    <3>1. Len(SubSeq(t, c, k - 1)) = k - 1 - c + 1
      BY <1>1
    <3> QED
      BY <1>1, <1>5, <2>1, <3>1
  <2> QED
    BY <1>2, <2>1
<1>6. ASSUME t[k] \notin ends, item = <<>>, t[k] \in skipped PROVE ItemIs(t, skipped, ends, k, <<>>)
  <2>1. \A l \in b..k : l \in b..(k - 1) \/ l = k
    BY <1>1
  <2>2. \A l \in b..k : t[l] \in skipped
    BY <1>5, <1>6, <2>1
  <2> QED
    BY <1>2, <1>4, <1>6, <2>2 DEF ItemIs
<1>7. ASSUME t[k] \notin ends, item = <<>>, t[k] \notin skipped
      PROVE  ItemIs(t, skipped, ends, k, Append(item, t[k]))
  <2>1. SubSeq(t, k, k) = <<t[k]>> /\ Append(item, t[k]) = <<t[k]>> /\ k \in b..k
    <3>1. Append(item, t[k]) = <<t[k]>> /\ k \in b..k
      BY <1>1, <1>7
    <3> DEFINE u == SubSeq(t, k, k)
    <3>2. u \in Seq(Byte) /\ Len(u) = 1 /\ u[1] = t[k]
      BY <1>1
    <3>3. u = <<u[1]>>
      <4> HIDE DEF u
      <4> QED
        BY ONLY <3>2
    <3> QED
      BY <3>1, <3>2, <3>3
  <2> QED
    BY <1>2, <1>4, <1>5, <1>7, <2>1 DEF ItemIs
<1>8. ASSUME t[k] \notin ends, item # <<>> PROVE ItemIs(t, skipped, ends, k, Append(item, t[k]))
  <2>1. PICK c \in b..(k - 1) : /\ t[c] \notin skipped /\ \A l \in b..(c - 1) : t[l] \in skipped
                                /\ item = SubSeq(t, c, k - 1)
    BY <1>2, <1>8
  <2>2. c \in b..k /\ c \in Nat /\ 1 <= c /\ c <= k - 1
    BY <1>1
  <2>3. Append(SubSeq(t, c, k - 1), t[k]) = SubSeq(t, c, k)
    <3> DEFINE u == SubSeq(t, c, k - 1)  v == SubSeq(t, c, k)
    <3>1. /\ u \in Seq(Byte) /\ Len(u) = k - c /\ \A l \in 1..(k - c) : u[l] = t[c + l - 1]
          /\ v \in Seq(Byte) /\ Len(v) = k - c + 1 /\ \A l \in 1..(k - c + 1) : v[l] = t[c + l - 1]
      BY <1>1, <2>2
    <3>2. t[k] \in Byte
      BY <1>1
    <3> HIDE DEF u, v
    <3> PICK q \in Nat : q = k - c
      BY <1>1, <2>2
    <3>3. /\ Append(u, t[k]) \in Seq(Byte) /\ Len(Append(u, t[k])) = q + 1
          /\ \A l \in 1..q : Append(u, t[k])[l] = u[l]
          /\ Append(u, t[k])[q + 1] = t[k]
      BY <3>1, <3>2
    <3>4. \A l \in 1..(q + 1) : l \in 1..q \/ (l = q + 1 /\ c + l - 1 = k)
      BY <1>1, <2>2
    <3>5. \A l \in 1..(q + 1) : Append(u, t[k])[l] = v[l]
      BY <3>1, <3>3, <3>4
    <3> DEFINE x == Append(u, t[k])
    <3>6. x = v
      <4>1. x \in Seq(Byte) /\ v \in Seq(Byte) /\ Len(x) = q + 1 /\ Len(v) = q + 1
            /\ \A l \in 1..(q + 1) : x[l] = v[l]
        BY <3>1, <3>3, <3>5
      <4> HIDE DEF x
      <4> QED
        BY ONLY <4>1
    <3> QED
      BY <3>6 DEF u, v
  <2> QED
    BY <1>2, <1>4, <1>8, <2>1, <2>2, <2>3 DEF ItemIs
<1> QED
  BY <1>3, <1>6, <1>7, <1>8
LEMMA TakeKeeps ==
  ASSUME NEW t \in Seq(Byte), NEW skipped, NEW ends, NEW k \in 1..Len(t), NEW items \in ItemsType,
         ListHas(t, skipped, ends, k - 1, items.list), ItemIs(t, skipped, ends, k - 1, items.item)
  PROVE  /\ ListHas(t, skipped, ends, k, Take(items, t[k], skipped, ends).list)
         /\ ItemIs(t, skipped, ends, k, Take(items, t[k], skipped, ends).item)
<1> DEFINE then == Take(items, t[k], skipped, ends)
<1> PICK item \in Seq(Byte) : item = items.item
  BY DEF ItemsType
<1>1. /\ t[k] \in ends => ListHas(t, skipped, ends, k, Collect(items).list)
      /\ t[k] \notin ends => ListHas(t, skipped, ends, k, items.list)
  BY ONLY t \in Seq(Byte), k \in 1..Len(t), items \in ItemsType, ListGrows,
          ListHas(t, skipped, ends, k - 1, items.list), ItemIs(t, skipped, ends, k - 1, items.item)
<1>2. /\ t[k] \in ends => ItemIs(t, skipped, ends, k, <<>>)
      /\ t[k] \notin ends /\ item = <<>> /\ t[k] \in skipped => ItemIs(t, skipped, ends, k, <<>>)
      /\ t[k] \notin ends /\ ~(item = <<>> /\ t[k] \in skipped) =>
           ItemIs(t, skipped, ends, k, Append(item, t[k]))
  <2>1. ItemIs(t, skipped, ends, k - 1, item)
    OBVIOUS
  <2> QED
    BY ONLY t \in Seq(Byte), k \in 1..Len(t), item \in Seq(Byte), ItemGrows, <2>1
<1>3. Collect(items).item = <<>> /\ (item = <<>> => Collect(items) = items)
  BY DEF Collect
<1>4. CASE item = <<>> /\ t[k] \in skipped
  <2>1. then = items
    BY <1>4 DEF Take
  <2>2. t[k] \in ends => then = Collect(items)
    BY <2>1, <1>3, <1>4
  <2> QED
    BY <1>1, <1>2, <1>4, <2>1, <2>2
<1>5. CASE ~(item = <<>> /\ t[k] \in skipped) /\ t[k] \in ends
  <2>1. then = Collect(items)
    BY <1>5 DEF Take
  <2> QED
    BY <1>1, <1>2, <1>3, <1>5, <2>1
<1>6. CASE ~(item = <<>> /\ t[k] \in skipped) /\ t[k] \notin ends
  <2>1. then = [items EXCEPT !.item = Append(@, t[k])]
    BY <1>6 DEF Take
  <2>2. then.list = items.list /\ then.item = Append(item, t[k])
    BY <2>1 DEF ItemsType
  <2> QED
    BY <1>1, <1>2, <1>6, <2>2
<1> QED
  BY <1>4, <1>5, <1>6

LEMMA TakenHas ==
  ASSUME NEW t \in Seq(Byte), NEW skipped, NEW ends
  PROVE  \A k \in 0..Len(t) : /\ ListHas(t, skipped, ends, k, Taken(t, skipped, ends)[k].list)
                              /\ ItemIs(t, skipped, ends, k, Taken(t, skipped, ends)[k].item)
<1> PICK n \in Nat : n = Len(t)
  OBVIOUS
<1> DEFINE taken == Taken(t, skipped, ends)
           Well(k) == /\ ListHas(t, skipped, ends, k, taken[k].list)
                      /\ ItemIs(t, skipped, ends, k, taken[k].item)
           Wrong == {k \in 0..n : ~Well(k)}
<1>1. /\ taken[0] = NoItems
      /\ \A k \in 1..n : taken[k] = Take(taken[k - 1], t[k], skipped, ends)
      /\ \A k \in 0..n : taken[k] \in ItemsType
  BY TakenIs
<1> HIDE DEF taken
<1>2. Well(0)
  <2>1. taken[0].list = <<>> /\ taken[0].item = <<>>
    BY <1>1 DEF NoItems
  <2>2. ListHas(t, skipped, ends, 0, <<>>)
    <3>1. \A e \in 1..Len(t) : ~(e < 0)
      OBVIOUS
    <3>2. \A i \in 1..Len(<<>>) : FALSE
      OBVIOUS
    <3> QED
      BY <3>1, <3>2 DEF ListHas
  <2>3. ItemIs(t, skipped, ends, 0, <<>>)
    <3>1. 1 \in 1..(0 + 1) /\ \A l \in 1..0 : FALSE
      OBVIOUS
    <3> QED
      BY <3>1 DEF ItemIs
  <2> QED
    BY <2>1, <2>2, <2>3
<1>3. ASSUME NEW k \in 1..n, Well(k - 1) PROVE Well(k)
  <2>1. /\ taken[k] = Take(taken[k - 1], t[k], skipped, ends) /\ taken[k - 1] \in ItemsType
        /\ t \in Seq(Byte) /\ k \in 1..Len(t)
    BY <1>1
  <2>2. /\ ListHas(t, skipped, ends, k - 1, taken[k - 1].list)
        /\ ItemIs(t, skipped, ends, k - 1, taken[k - 1].item)
    BY <1>3
  <2> QED
    BY ONLY <2>1, <2>2, TakeKeeps
<1> SUFFICES ASSUME Wrong # {} PROVE FALSE
  BY DEF taken
<1>4. Wrong \in SUBSET Nat
  <2>1. Wrong \subseteq Nat
    OBVIOUS
  <2> HIDE DEF Wrong
  <2> QED
    BY <2>1
<1>5. PICK k \in Wrong : \A l \in Wrong : k <= l
  <2> HIDE DEF Wrong
  <2> QED
    BY <1>4, Least
<1>6. k \in 0..n /\ ~Well(k)
  OBVIOUS
<1> HIDE DEF Well
<1>7. k # 0
  BY <1>2, <1>6
<1>8. k \in 1..n /\ k - 1 \in 0..n /\ ~(k <= k - 1)
  BY <1>6, <1>7
<1>9. Well(k - 1)
  BY <1>5, <1>8
<1> QED
  BY <1>3, <1>6, <1>8, <1>9

(* The list of a text: what stands between two ends, from its first        *)
(* character that is not passed over.                                      *)
ItemOf(t, skipped, ends, w) ==
  \E b, c, e \in 1..Len(t) : /\ ItemAt(t, skipped, ends, b, c, e)
                             /\ e = Len(t) \/ t[e + 1] \in ends
                             /\ w = SubSeq(t, c, e)

LEMMA SplitIs ==
  ASSUME NEW t \in Seq(Byte), NEW skipped, NEW ends
  PROVE  /\ Split(t, skipped, ends) \in Seq(Seq(Byte))
         /\ \A w : (\E i \in 1..Len(Split(t, skipped, ends)) : Split(t, skipped, ends)[i] = w)
              <=> ItemOf(t, skipped, ends, w)
<1> PICK n \in Nat : n = Len(t)
  OBVIOUS
<1> PICK items \in ItemsType : items = Taken(t, skipped, ends)[n]
  BY TakenIs
<1>1. /\ n \in 0..Len(t)
      /\ ListHas(t, skipped, ends, n, items.list) /\ ItemIs(t, skipped, ends, n, items.item)
  BY TakenHas
<1> DEFINE list == Split(t, skipped, ends)
           HasItem(x, w) == \E i \in 1..Len(x) : x[i] = w
           Before(w) == \E b, c, e \in 1..Len(t) : /\ ItemAt(t, skipped, ends, b, c, e)
                                                   /\ e < n /\ t[e + 1] \in ends
                                                   /\ w = SubSeq(t, c, e)
           All(w) == ItemOf(t, skipped, ends, w)
           LastItem(w) == items.item # <<>> /\ w = items.item
<1>2. list = Collect(items).list
  BY DEF Split
<1>3. list \in Seq(Seq(Byte))
  <2>1. PICK c \in Byte : TRUE
    BY DEF Byte
  <2>2. Collect(items) \in ItemsType
    BY <2>1, TakeType
  <2> QED
    BY <1>2, <2>2 DEF ItemsType
<1>4. \A w : HasItem(items.list, w) <=> Before(w)
  BY <1>1 DEF ListHas
<1>5. ASSUME NEW w PROVE HasItem(list, w) <=> HasItem(items.list, w) \/ LastItem(w)
  <2>1. CASE items.item = <<>>
    BY <1>2, <2>1 DEF Collect
  <2>2. CASE items.item # <<>>
    <3> PICK p \in Nat : p = Len(items.list)
      BY DEF ItemsType
    <3>1. /\ Len(list) = p + 1 /\ list[p + 1] = items.item
          /\ \A i \in 1..p : list[i] = items.list[i]
      BY <1>2, <2>2 DEF Collect, ItemsType
    <3>2. p + 1 \in 1..(p + 1) /\ \A i \in 1..(p + 1) : i \in 1..p \/ i = p + 1
      OBVIOUS
    <3>3. 1..p \subseteq 1..(p + 1)
      OBVIOUS
    <3> HIDE DEF list
    <3> QED
      BY <2>2, <3>1, <3>2, <3>3
  <2> QED
    BY <2>1, <2>2
<1>6. ASSUME NEW w PROVE ItemUpTo(t, skipped, ends, n, w) <=> LastItem(w)
  <2>1. n \in 0..Len(t) /\ items.item \in Seq(Byte) /\ ItemIs(t, skipped, ends, n, items.item)
    BY <1>1 DEF ItemsType
  <2>2. \A x : ItemUpTo(t, skipped, ends, n, x) <=> items.item # <<>> /\ x = items.item
    BY ONLY t \in Seq(Byte), <2>1, ItemEnds
  <2> QED
    BY <2>2
<1>7. ASSUME NEW w PROVE All(w) <=> Before(w) \/ ItemUpTo(t, skipped, ends, n, w)
  <2>1. \A e \in 1..n : e < n \/ e = n
    OBVIOUS
  <2>2. All(w) => Before(w) \/ ItemUpTo(t, skipped, ends, n, w)
    BY <2>1 DEF ItemUpTo, ItemOf
  <2>3. Before(w) => All(w)
    BY DEF ItemOf
  <2>4. ItemUpTo(t, skipped, ends, n, w) => All(w)
    <3> SUFFICES ASSUME NEW b \in 1..n, NEW c \in 1..n, ItemAt(t, skipped, ends, b, c, n),
                        w = SubSeq(t, c, n)
                 PROVE  All(w)
      BY DEF ItemUpTo
    <3>1. n \in 1..n
      BY DEF ItemAt
    <3> QED
      BY <3>1 DEF ItemOf
  <2> QED
    BY <2>2, <2>3, <2>4
<1>8. \A w : HasItem(list, w) <=> All(w)
  <2> HIDE DEF HasItem, list, All, Before, LastItem
  <2> QED
    BY <1>4, <1>5, <1>6, <1>7
<1> QED
  BY <1>3, <1>8
LEMMA PartIs ==
  ASSUME NEW t \in Seq(Byte), NEW a \in 1..Len(t), NEW e \in 1..Len(t), a <= e
  PROVE  /\ SubSeq(t, a, e) \in Seq(Byte) /\ Len(SubSeq(t, a, e)) = e - a + 1
         /\ \A k \in 1..(e - a + 1) : SubSeq(t, a, e)[k] = t[a + k - 1]
<1> PICK n \in Nat : n = Len(t)
  OBVIOUS
<1>1. a \in Nat /\ e \in Nat /\ 1 <= a /\ e <= n /\ \A k \in a..e : t[k] \in Byte
  OBVIOUS
<1>2. SubSeq(t, a, e) \in Seq(Byte) /\ Len(SubSeq(t, a, e)) = e - a + 1
  BY <1>1
<1>3. \A k \in 1..(e - a + 1) : SubSeq(t, a, e)[k] = t[a + k - 1]
  BY <1>1
<1> QED
  BY <1>2, <1>3

LEMMA PartOfPart ==
  ASSUME NEW t \in Seq(Byte), NEW a \in 1..Len(t), NEW e \in 1..Len(t),
         NEW c \in 1..Len(t), a <= c, c <= e, NEW f, f = c - a + 1, NEW m, m = e - a + 1
  PROVE  SubSeq(SubSeq(t, a, e), f, m) = SubSeq(t, c, e)
<1> PICK n \in Nat : n = Len(t)
  OBVIOUS
<1>p. SubSeq(t, a, e) \in Seq(Byte) /\ Len(SubSeq(t, a, e)) = e - a + 1
      /\ \A k \in 1..(e - a + 1) : SubSeq(t, a, e)[k] = t[a + k - 1]
  BY PartIs
<1> PICK p \in Seq(Byte) : p = SubSeq(t, a, e)
  BY <1>p
<1>q. m \in Nat /\ f \in Nat
  OBVIOUS
<1>1. Len(p) = m /\ \A k \in 1..m : p[k] = t[a + k - 1]
  BY <1>p
<1>2. f \in 1..m /\ m \in 1..m
  BY <1>q
<1>3. /\ SubSeq(p, f, m) \in Seq(Byte) /\ Len(SubSeq(p, f, m)) = m - f + 1
      /\ \A k \in 1..(m - f + 1) : SubSeq(p, f, m)[k] = p[f + k - 1]
  BY <1>1, <1>2, PartIs
<1>4. /\ SubSeq(t, c, e) \in Seq(Byte) /\ Len(SubSeq(t, c, e)) = e - c + 1
      /\ \A k \in 1..(e - c + 1) : SubSeq(t, c, e)[k] = t[c + k - 1]
  BY PartIs
<1> DEFINE u == SubSeq(p, f, m)  v == SubSeq(t, c, e)
<1>5. m - f + 1 = e - c + 1 /\ e - c + 1 \in Nat
  BY <1>q
<1>6. ASSUME NEW k \in 1..(e - c + 1) PROVE u[k] = v[k]
  <2>1. f + k - 1 \in 1..m /\ a + (f + k - 1) - 1 = c + k - 1
    BY <1>q
  <2> QED
    BY <1>1, <1>3, <1>4, <1>5, <2>1
<1>7. u = v
  <2> PICK q \in Nat : q = e - c + 1
    BY <1>5
  <2>1. u \in Seq(Byte) /\ v \in Seq(Byte) /\ Len(u) = q /\ Len(v) = q
        /\ \A k \in 1..q : u[k] = v[k]
    BY <1>3, <1>4, <1>5, <1>6
  <2> HIDE DEF u, v
  <2> QED
    BY ONLY <2>1
<1> QED
  BY <1>7

(* A piece of a text.                                                      *)
PieceAt(t, ends, b, e) ==
  /\ b <= e /\ \A k \in b..e : t[k] \notin ends
  /\ b = 1 \/ t[b - 1] \in ends
  /\ e = Len(t) \/ t[e + 1] \in ends

LEMMA PiecesAre ==
  ASSUME NEW t \in Seq(Byte), NEW ends
  PROVE  \A w : w \in Pieces(t, ends) <=>
           \E b, e \in 1..Len(t) : PieceAt(t, ends, b, e) /\ w = SubSeq(t, b, e)
<1> DEFINE Good(p) == /\ p[1] <= p[2]
                      /\ \A k \in p[1]..p[2] : t[k] \notin ends
                      /\ p[1] = 1 \/ t[p[1] - 1] \in ends
                      /\ p[2] = Len(t) \/ t[p[2] + 1] \in ends
<1>1. DOMAIN t = 1..Len(t)
  OBVIOUS
<1>2. Pieces(t, ends) = {SubSeq(t, p[1], p[2]) : p \in {p \in (1..Len(t)) \X (1..Len(t)) : Good(p)}}
  BY <1>1 DEF Pieces
<1>3. ASSUME NEW b \in 1..Len(t), NEW e \in 1..Len(t)
      PROVE  /\ <<b, e>> \in (1..Len(t)) \X (1..Len(t)) /\ <<b, e>>[1] = b /\ <<b, e>>[2] = e
             /\ Good(<<b, e>>) <=> PieceAt(t, ends, b, e)
  BY DEF PieceAt
<1>4. ASSUME NEW p \in (1..Len(t)) \X (1..Len(t))
      PROVE  p[1] \in 1..Len(t) /\ p[2] \in 1..Len(t) /\ p = <<p[1], p[2]>>
  OBVIOUS
<1> HIDE DEF Good
<1>5. ASSUME NEW w, w \in Pieces(t, ends)
      PROVE  \E b, e \in 1..Len(t) : Good(<<b, e>>) /\ w = SubSeq(t, b, e)
  <2> PICK p \in (1..Len(t)) \X (1..Len(t)) : Good(p) /\ w = SubSeq(t, p[1], p[2])
    BY <1>2, <1>5
  <2> PICK b \in 1..Len(t), e \in 1..Len(t) : b = p[1] /\ e = p[2] /\ p = <<b, e>>
    BY <1>4
  <2>1. Good(<<b, e>>) /\ w = SubSeq(t, b, e)
    OBVIOUS
  <2> QED
    BY <2>1
<1>6. ASSUME NEW w, NEW b \in 1..Len(t), NEW e \in 1..Len(t), Good(<<b, e>>), w = SubSeq(t, b, e)
      PROVE  w \in Pieces(t, ends)
  <2> PICK p \in (1..Len(t)) \X (1..Len(t)) : p = <<b, e>>
    OBVIOUS
  <2>1. p \in {q \in (1..Len(t)) \X (1..Len(t)) : Good(q)} /\ w = SubSeq(t, p[1], p[2])
    BY <1>6
  <2> QED
    BY <1>2, <2>1
<1> QED
  BY <1>3, <1>5, <1>6

(* The lists hold what is given.                                           *)
LEMMA SemicolonsGive ==
  ASSUME NEW t \in Seq(Byte)
  PROVE  /\ Semicolons(t) \in Seq(Seq(Byte))
         /\ \A w : (\E i \in 1..Len(Semicolons(t)) : Semicolons(t)[i] = w) <=> w \in Pieces(t, {SEMI})
<1> DEFINE ends == {SEMI}
           list == Semicolons(t)
<1>1. ASSUME NEW b \in 1..Len(t), NEW c \in 1..Len(t), NEW e \in 1..Len(t)
      PROVE  ItemAt(t, {}, ends, b, c, e) /\ (e = Len(t) \/ t[e + 1] \in ends)
               <=> b = c /\ PieceAt(t, ends, b, e)
  <2>1. b < c => b \in b..(c - 1)
    OBVIOUS
  <2>2. b = c => \A k \in b..(c - 1) : FALSE
    OBVIOUS
  <2>3. b <= c <=> b < c \/ b = c
    OBVIOUS
  <2> HIDE DEF ends
  <2> QED
    BY <2>1, <2>2, <2>3 DEF ItemAt, PieceAt
<1>2. /\ list \in Seq(Seq(Byte))
      /\ \A w : (\E i \in 1..Len(list) : list[i] = w) <=> ItemOf(t, {}, ends, w)
  <2> HIDE DEF ends
  <2>1. /\ Split(t, {}, ends) \in Seq(Seq(Byte))
        /\ \A w : (\E i \in 1..Len(Split(t, {}, ends)) : Split(t, {}, ends)[i] = w)
                     <=> ItemOf(t, {}, ends, w)
    BY ONLY t \in Seq(Byte), SplitIs
  <2> QED
    BY <2>1 DEF Semicolons, ends
<1>3. \A w : w \in Pieces(t, ends) <=>
        \E b, e \in 1..Len(t) : PieceAt(t, ends, b, e) /\ w = SubSeq(t, b, e)
  <2> HIDE DEF ends
  <2> QED
    BY ONLY t \in Seq(Byte), PiecesAre
<1> HIDE DEF list, ends
<1>4. ASSUME NEW w PROVE ItemOf(t, {}, ends, w) <=> w \in Pieces(t, ends)
  BY <1>1, <1>3 DEF ItemOf
<1>5. \A w : (\E i \in 1..Len(list) : list[i] = w) <=> w \in Pieces(t, ends)
  BY <1>2, <1>4
<1> QED
  BY <1>2, <1>5 DEF list, ends

LEMMA LeadingSpacesIs ==
  ASSUME NEW s \in Seq(Byte)
  PROVE  /\ LeadingSpaces(s) \in 0..Len(s)
         /\ LeadingSpaces(s) = Len(s) \/ s[LeadingSpaces(s) + 1] # SPACE
         /\ \A k \in 1..LeadingSpaces(s) : s[k] = SPACE
<1> PICK n \in Nat : n = Len(s)
  OBVIOUS
<1> DEFINE Good(x) == /\ x = Len(s) \/ s[x + 1] # SPACE
                      /\ \A k \in 1..x : s[k] = SPACE
           Visible == {k \in 1..n : s[k] # SPACE}
<1>1. \E x \in 0..Len(s) : Good(x)
  <2>1. CASE Visible = {}
    BY <2>1
  <2>2. CASE Visible # {}
    <3>1. Visible \in SUBSET Nat
      <4>1. Visible \subseteq Nat
        OBVIOUS
      <4> HIDE DEF Visible
      <4> QED
        BY <4>1
    <3>2. PICK k \in Visible : \A l \in Visible : k <= l
      <4> HIDE DEF Visible
      <4> QED
        BY <2>2, <3>1, Least
    <3> PICK x \in 0..n : x = k - 1
      OBVIOUS
    <3>3. x + 1 = k /\ s[k] # SPACE
      OBVIOUS
    <3>4. ASSUME NEW l \in 1..x PROVE s[l] = SPACE
      <4>1. l \in 1..n /\ ~(k <= l)
        BY <3>3
      <4> QED
        BY <3>2, <4>1
    <3> QED
      BY <3>3, <3>4
  <2> QED
    BY <2>1, <2>2
<1>2. LeadingSpaces(s) = CHOOSE x \in 0..Len(s) : Good(x)
  BY DEF LeadingSpaces
<1> HIDE DEF Good
<1>3. LeadingSpaces(s) \in 0..Len(s) /\ Good(LeadingSpaces(s))
  BY <1>1, <1>2
<1> QED
  BY <1>3 DEF Good
FirstWord(p) == SubSeq(p, LeadingSpaces(p) + 1, Len(p))

WordAt(t, b, e, w) ==
  \E c \in b..e : /\ t[c] \notin Blanks /\ \A k \in b..(c - 1) : t[k] \in Blanks
                  /\ w = SubSeq(t, c, e)

LEMMA FirstWordIs ==
  ASSUME NEW t \in Seq(Byte), NEW b \in 1..Len(t), NEW e \in 1..Len(t), b <= e,
         \A k \in b..e : t[k] \notin Controls, NEW w
  PROVE  w = FirstWord(SubSeq(t, b, e)) /\ w # <<>> <=> WordAt(t, b, e, w)
<1> PICK n \in Nat : n = Len(t)
  OBVIOUS
<1>1. /\ SubSeq(t, b, e) \in Seq(Byte) /\ Len(SubSeq(t, b, e)) = e - b + 1
      /\ \A k \in 1..(e - b + 1) : SubSeq(t, b, e)[k] = t[b + k - 1]
  BY PartIs
<1> PICK p \in Seq(Byte) : p = SubSeq(t, b, e)
  BY <1>1
<1> PICK m \in Nat : m = e - b + 1
  OBVIOUS
<1>2. Len(p) = m /\ \A k \in 1..m : p[k] = t[b + k - 1]
  BY <1>1
<1> PICK x \in 0..m : x = LeadingSpaces(p)
  BY <1>2, LeadingSpacesIs
<1>3. /\ x = m \/ p[x + 1] # SPACE
      /\ \A k \in 1..x : p[k] = SPACE
  BY <1>2, LeadingSpacesIs
<1>4. \A k \in b..e : t[k] \in Blanks <=> t[k] = SPACE
  <2>1. \A c \in Byte : c \notin Controls => (c \in Blanks <=> c = SPACE)
    BY DEF Controls, Blanks, Byte, Signed, SPACE
  <2>2. \A k \in b..e : t[k] \in Byte
    OBVIOUS
  <2> QED
    BY <2>1, <2>2
<1>5. /\ b \in Nat /\ e \in Nat /\ 1 <= b /\ e <= n
      /\ \A k \in 1..m : b + k - 1 \in b..e
      /\ \A k \in b..e : k - b + 1 \in 1..m /\ b + (k - b + 1) - 1 = k
  OBVIOUS
<1>6. FirstWord(SubSeq(t, b, e)) = SubSeq(p, x + 1, m)
  BY <1>2 DEF FirstWord
<1>7. CASE x = m
  <2>1. ASSUME NEW k \in b..e PROVE t[k] \in Blanks
    <3>1. k - b + 1 \in 1..x /\ p[k - b + 1] = t[k]
      BY <1>2, <1>5, <1>7
    <3> QED
      BY <1>3, <1>4, <3>1
  <2>2. SubSeq(p, x + 1, m) = <<>>
    BY <1>7
  <2> QED
    BY <1>6, <2>1, <2>2 DEF WordAt
<1>8. CASE x # m
  <2>f. b + x \in b..e
    BY ONLY <1>8, b \in Nat, e \in Nat, m \in Nat, m = e - b + 1, x \in 0..m, <1>5
  <2> PICK f \in b..e : f = b + x
    BY ONLY <2>f
  <2>1. t[f] \notin Blanks
    <3>1. x + 1 \in 1..m /\ b + (x + 1) - 1 = f
      BY <1>5, <1>8
    <3>2. p[x + 1] = t[f]
      BY ONLY <1>2, <3>1
    <3> QED
      BY <1>3, <1>4, <1>8, <3>2
  <2>2. \A k \in b..(f - 1) : t[k] \in Blanks
    <3> SUFFICES ASSUME NEW k \in b..(f - 1) PROVE t[k] \in Blanks
      OBVIOUS
    <3>1. k \in b..e /\ k - b + 1 \in 1..x
      BY ONLY b \in 1..Len(t), e \in 1..Len(t), Len(t) \in Nat, x \in 0..m, m \in Nat,
              f \in b..e, f = b + x, k \in b..(f - 1)
    <3>2. p[k - b + 1] = t[k]
      BY <1>2, <1>5, <3>1
    <3> QED
      BY <1>3, <1>4, <3>1, <3>2
  <2>3. SubSeq(p, x + 1, m) = SubSeq(t, f, e)
    <3>1. /\ t \in Seq(Byte) /\ b \in 1..Len(t) /\ e \in 1..Len(t) /\ f \in 1..Len(t)
          /\ b <= f /\ f <= e /\ x + 1 = f - b + 1 /\ m = e - b + 1
      BY <1>5
    <3> PICK g \in Nat : g = x + 1
      BY <1>5
    <3>2. g = f - b + 1
      BY <3>1
    <3>3. SubSeq(SubSeq(t, b, e), g, m) = SubSeq(t, f, e)
      BY ONLY <3>1, <3>2, PartOfPart
    <3> QED
      BY <3>3
  <2>4. ASSUME NEW c \in b..e, t[c] \notin Blanks, \A k \in b..(c - 1) : t[k] \in Blanks
        PROVE  c = f
    <3>1. c < f => c \in b..(f - 1)
      BY <1>5
    <3>2. f < c => f \in b..(c - 1)
      BY <1>5
    <3>3. ~(c < f) /\ ~(f < c)
      BY <2>1, <2>2, <2>4, <3>1, <3>2
    <3> QED
      BY <1>5, <3>3
  <2>5. SubSeq(t, f, e) # <<>>
    <3>1. Len(SubSeq(t, f, e)) = e - f + 1
      BY <1>5
    <3>2. e - f + 1 > 0
      BY <1>5
    <3>3. Len(<<>>) = 0
      OBVIOUS
    <3> QED
      BY ONLY <3>1, <3>2, <3>3
  <2> QED
    BY <1>6, <2>1, <2>2, <2>3, <2>4, <2>5 DEF WordAt
<1> QED
  BY <1>7, <1>8

LEMMA LinesGive ==
  ASSUME NEW t \in Seq(Byte)
  PROVE  /\ LinesOf(t) \in Seq(Seq(Byte))
         /\ \A w : (\E i \in 1..Len(LinesOf(t)) : LinesOf(t)[i] = w)
              <=> w \in {FirstWord(p) : p \in Pieces(t, Controls)} \ {<<>>}
<1>1. /\ LinesOf(t) \in Seq(Seq(Byte))
      /\ \A w : (\E i \in 1..Len(LinesOf(t)) : LinesOf(t)[i] = w) <=> ItemOf(t, Blanks, Controls, w)
  <2>1. /\ Split(t, Blanks, Controls) \in Seq(Seq(Byte))
        /\ \A w : (\E i \in 1..Len(Split(t, Blanks, Controls)) : Split(t, Blanks, Controls)[i] = w)
                     <=> ItemOf(t, Blanks, Controls, w)
    BY ONLY t \in Seq(Byte), SplitIs
  <2> QED
    BY <2>1 DEF LinesOf
<1>2. \A w : w \in Pieces(t, Controls) <=>
        \E b, e \in 1..Len(t) : PieceAt(t, Controls, b, e) /\ w = SubSeq(t, b, e)
  BY ONLY t \in Seq(Byte), PiecesAre
<1>3. ASSUME NEW w, NEW b \in 1..Len(t), NEW e \in 1..Len(t), PieceAt(t, Controls, b, e)
      PROVE  w = FirstWord(SubSeq(t, b, e)) /\ w # <<>> <=> WordAt(t, b, e, w)
  <2>1. /\ t \in Seq(Byte) /\ b \in 1..Len(t) /\ e \in 1..Len(t) /\ b <= e
        /\ \A k \in b..e : t[k] \notin Controls
    BY <1>3 DEF PieceAt
  <2> QED
    BY ONLY <2>1, FirstWordIs
<1>4. ASSUME NEW w
      PROVE  ItemOf(t, Blanks, Controls, w)
               <=> \E b, e \in 1..Len(t) : PieceAt(t, Controls, b, e) /\ WordAt(t, b, e, w)
  <2>1. ASSUME NEW b \in 1..Len(t), NEW c \in 1..Len(t), NEW e \in 1..Len(t),
               ItemAt(t, Blanks, Controls, b, c, e), e = Len(t) \/ t[e + 1] \in Controls,
               w = SubSeq(t, c, e)
        PROVE  PieceAt(t, Controls, b, e) /\ WordAt(t, b, e, w)
    <3>1. b <= c /\ c <= e
      BY <2>1 DEF ItemAt
    <3>2. b <= e /\ c \in b..e
      BY <3>1
    <3> QED
      BY <2>1, <3>2 DEF ItemAt, PieceAt, WordAt
  <2>2. ASSUME NEW b \in 1..Len(t), NEW e \in 1..Len(t), NEW c \in b..e,
               PieceAt(t, Controls, b, e), t[c] \notin Blanks,
               \A k \in b..(c - 1) : t[k] \in Blanks, w = SubSeq(t, c, e)
        PROVE  ItemOf(t, Blanks, Controls, w)
    <3>1. c \in 1..Len(t) /\ b <= c /\ c <= e
      OBVIOUS
    <3>2. ItemAt(t, Blanks, Controls, b, c, e) /\ (e = Len(t) \/ t[e + 1] \in Controls)
      BY <2>2, <3>1 DEF ItemAt, PieceAt
    <3> QED
      BY <2>2, <3>1, <3>2 DEF ItemOf
  <2> QED
    BY <2>1, <2>2 DEF ItemOf, WordAt
<1>5. ASSUME NEW w
      PROVE  w \in {FirstWord(p) : p \in Pieces(t, Controls)} \ {<<>>}
               <=> ItemOf(t, Blanks, Controls, w)
  <2>1. w \in {FirstWord(p) : p \in Pieces(t, Controls)} \ {<<>>}
          <=> w # <<>> /\ \E p \in Pieces(t, Controls) : w = FirstWord(p)
    OBVIOUS
  <2>2. ASSUME NEW p \in Pieces(t, Controls), w = FirstWord(p), w # <<>>
        PROVE  ItemOf(t, Blanks, Controls, w)
    <3> PICK b \in 1..Len(t), e \in 1..Len(t) : PieceAt(t, Controls, b, e) /\ p = SubSeq(t, b, e)
      BY <1>2
    <3> QED
      BY <1>3, <1>4, <2>2
  <2>3. ASSUME NEW b \in 1..Len(t), NEW e \in 1..Len(t), PieceAt(t, Controls, b, e),
               WordAt(t, b, e, w)
        PROVE  w # <<>> /\ \E p \in Pieces(t, Controls) : w = FirstWord(p)
    <3>1. SubSeq(t, b, e) \in Pieces(t, Controls)
      BY <1>2, <2>3
    <3>2. w = FirstWord(SubSeq(t, b, e)) /\ w # <<>>
      BY <1>3, <2>3
    <3> QED
      BY <3>1, <3>2
  <2> QED
    BY <2>1, <2>2, <2>3, <1>4
<1> QED
  BY <1>1, <1>5

-----------------------------------------------------------------------------
(* What the lists of excluded names leave out.                             *)

LEMMA MaxIs ==
  ASSUME NEW n \in Nat, NEW S \in SUBSET (1..n), S # {}
  PROVE  Max(S) \in S /\ \A k \in S : k <= Max(S)
<1>1. S \in SUBSET Nat /\ \A s \in S : s <= n
  OBVIOUS
<1>2. PICK m \in S : \A s \in S : s <= m
  BY <1>1, Greatest
<1>3. \A y \in S : m >= y
  BY <1>1, <1>2
<1>4. Max(S) \in S /\ \A y \in S : Max(S) >= y
  BY <1>3 DEF Max
<1> QED
  BY <1>1, <1>4

(* What follows the last separator of a path.                              *)
LEMMA FileNameIs ==
  ASSUME NEW s \in String
  PROVE  /\ FileName(s) \in String
         /\ (\A k \in DOMAIN s : s[k] # STAR) =>
               \A k \in DOMAIN FileName(s) : FileName(s)[k] # STAR
<1> PICK n \in Nat : n = Len(s)
  BY DEF String
<1> DEFINE I == {i \in 1..Len(s) : s[i] = COLON \/ Separator(s[i])}
<1> PICK p \in 0..n : p = SelectLastInSeq(s, LAMBDA c : c = COLON \/ Separator(c))
  <2>1. I # {} => Max(I) \in I
    BY MaxIs
  <2>2. I \subseteq 1..n
    OBVIOUS
  <2>3. SelectLastInSeq(s, LAMBDA c : c = COLON \/ Separator(c)) = IF I # {} THEN Max(I) ELSE 0
    BY DEF SelectLastInSeq
  <2>4. 0 \in 0..n /\ 1..n \subseteq 0..n
    OBVIOUS
  <2> HIDE DEF I
  <2>5. (IF I # {} THEN Max(I) ELSE 0) \in 0..n
    BY <2>1, <2>2, <2>4
  <2> QED
    BY <2>3, <2>5
<1> PICK a \in 1..(Len(s) + 1) : a = p + 1
  <2>1. p + 1 \in 1..(n + 1)
    BY ONLY n \in Nat, p \in 0..n
  <2> QED
    BY <2>1
<1>1. FileName(s) = SubSeq(s, a, Len(s))
  BY DEF FileName
<1>2. /\ SubSeq(s, a, Len(s)) \in String
      /\ Len(SubSeq(s, a, Len(s))) = Len(s) - a + 1
      /\ \A k \in 1..(Len(s) - a + 1) : SubSeq(s, a, Len(s))[k] = s[a + k - 1]
  BY RestIs
<1> DEFINE f == SubSeq(s, a, Len(s))
<1>3. DOMAIN s = 1..n
  BY DEF String
<1>4. DOMAIN f = 1..(n - a + 1)
  <2> HIDE DEF f
  <2>1. f \in Seq(Byte \ {0}) /\ Len(f) = n - a + 1
    BY <1>2 DEF String, f
  <2> QED
    BY <2>1
<1>5. \A k \in 1..(n - a + 1) : a + k - 1 \in 1..n
  <2>1. a \in 1..(n + 1)
    OBVIOUS
  <2> QED
    BY ONLY n \in Nat, <2>1
<1>6. f \in String /\ \A k \in 1..(n - a + 1) : f[k] = s[a + k - 1]
  BY <1>2
<1> HIDE DEF f
<1>7. FileName(s) = f
  BY <1>1 DEF f
<1> QED
  BY ONLY <1>3, <1>4, <1>5, <1>6, <1>7

(* A file is excluded by its path, or by a mask that stands for its name.  *)
LEMMA CompKindIs ==
  ASSUME NEW mask \in String, NEW name \in String, WellMade(mask), mask # <<>>,
         \A k \in DOMAIN name : name[k] # STAR
  PROVE  CompKind(name, mask) <=> Upper(mask) = Upper(name) \/ Stands(mask, FileName(name))
<1>1. Matching(mask, FileName(name))
  BY FileNameIs DEF Matching
<1>2. KindofCompare(mask, FileName(name)) <=> Stands(mask, FileName(name))
  BY <1>1, KindofCompareStands
<1> QED
  BY <1>2 DEF CompKind

(* The masks given are strings with a character at least.                  *)
LEMMA GivenAre ==
  ASSUME NEW t \in String, switch.infile \in Seq(Byte), NEW m \in Given(t)
  PROVE  m \in String /\ m # <<>>
<1>1. t \in Seq(Byte) /\ \A k \in 1..Len(t) : t[k] # 0
  <2>1. t \in Seq(Byte \ {0})
    BY DEF String
  <2> QED
    BY <2>1
<1>2. ASSUME NEW u \in Seq(Byte), NEW a \in 1..Len(u), NEW e \in 1..Len(u), a <= e,
             \A k \in a..e : u[k] # 0
      PROVE  SubSeq(u, a, e) \in String /\ SubSeq(u, a, e) # <<>>
  <2> DEFINE v == SubSeq(u, a, e)
  <2>1. /\ v \in Seq(Byte) /\ Len(v) = e - a + 1
        /\ \A k \in 1..(e - a + 1) : v[k] = u[a + k - 1]
    BY <1>2, PartIs
  <2> HIDE DEF v
  <2> PICK q \in Nat : q = e - a + 1
    BY <1>2
  <2>2. \A k \in 1..q : a + k - 1 \in a..e
    BY <1>2
  <2>3. v \in Seq(Byte) /\ Len(v) = q /\ q > 0 /\ \A k \in 1..q : v[k] # 0
    <3>1. q > 0 /\ e - a + 1 = q
      BY <1>2
    <3>2. \A k \in 1..q : v[k] = u[a + k - 1]
      BY <2>1, <3>1
    <3> QED
      BY ONLY <1>2, <2>1, <2>2, <3>1, <3>2
  <2>4. v \in Seq(Byte \ {0}) /\ v # <<>>
    BY ONLY <2>3
  <2> QED
    BY <2>4 DEF v, String
<1>3. CASE StartsWith(t, ATSIGN)
  <2>1. m # <<>> /\ \E p \in Pieces(switch.infile, Controls) : m = FirstWord(p)
    BY <1>3 DEF Given, FirstWord
  <2> PICK u \in Seq(Byte) : u = switch.infile
    OBVIOUS
  <2> PICK p \in Pieces(u, Controls) : m = FirstWord(p)
    BY <2>1
  <2> PICK b \in 1..Len(u), e \in 1..Len(u) : PieceAt(u, Controls, b, e) /\ p = SubSeq(u, b, e)
    BY PiecesAre
  <2>2. b <= e /\ \A k \in b..e : u[k] \notin Controls
    BY DEF PieceAt
  <2>3. WordAt(u, b, e, m)
    BY <2>1, <2>2, FirstWordIs
  <2> PICK c \in b..e : m = SubSeq(u, c, e)
    BY <2>3 DEF WordAt
  <2>4. 0 \in Controls
    BY DEF Controls, Byte, Signed, SPACE
  <2>5. c \in 1..Len(u) /\ c <= e /\ \A k \in c..e : u[k] # 0
    BY <2>2, <2>4
  <2> QED
    BY <1>2, <2>5
<1>4. CASE ~StartsWith(t, ATSIGN)
  <2>1. m \in Pieces(t, {SEMI})
    BY <1>4 DEF Given
  <2> PICK b \in 1..Len(t), e \in 1..Len(t) : PieceAt(t, {SEMI}, b, e) /\ m = SubSeq(t, b, e)
    BY <1>1, <2>1, PiecesAre
  <2>2. b <= e /\ \A k \in b..e : t[k] # 0
    BY <1>1 DEF PieceAt
  <2> QED
    BY <1>1, <1>2, <2>2
<1> QED
  BY <1>3, <1>4

(* What the lists hold.                                                    *)
Holds(list, given) ==
  /\ list \in Seq(Seq(Byte))
  /\ \A w : (\E i \in 1..Len(list) : list[i] = w) <=> w \in given

LEMMA ItemsGive ==
  ASSUME NEW t \in String, switch.infile \in Seq(Byte),
         StartsWith(t, ATSIGN) => switch.exists
  PROVE  Holds(Items(t), Given(t))
<1>1. t \in Seq(Byte)
  BY DEF String
<1>2. CASE StartsWith(t, ATSIGN)
  <2> PICK u \in Seq(Byte) : u = switch.infile
    OBVIOUS
  <2>1. Items(t) = LinesOf(u)
    BY <1>2 DEF Items
  <2>2. Given(t) = {FirstWord(p) : p \in Pieces(u, Controls)} \ {<<>>}
    BY <1>2 DEF Given, FirstWord
  <2>3. /\ LinesOf(u) \in Seq(Seq(Byte))
        /\ \A w : (\E i \in 1..Len(LinesOf(u)) : LinesOf(u)[i] = w)
             <=> w \in {FirstWord(p) : p \in Pieces(u, Controls)} \ {<<>>}
    BY LinesGive
  <2> QED
    BY <2>1, <2>2, <2>3 DEF Holds
<1>3. CASE ~StartsWith(t, ATSIGN)
  <2>1. Items(t) = Semicolons(t) /\ Given(t) = Pieces(t, {SEMI})
    BY <1>3 DEF Items, Given
  <2>2. /\ Semicolons(t) \in Seq(Seq(Byte))
        /\ \A w : (\E i \in 1..Len(Semicolons(t)) : Semicolons(t)[i] = w)
             <=> w \in Pieces(t, {SEMI})
    BY <1>1, SemicolonsGive
  <2> QED
    BY <2>1, <2>2 DEF Holds
<1> QED
  BY <1>2, <1>3
LEMMA LastSeparator ==
  ASSUME NEW s \in String
  PROVE  /\ SelectLastInSeq(s, Separator) \in 0..Len(s)
         /\ SelectLastInSeq(s, Separator) # 0 => Separator(s[SelectLastInSeq(s, Separator)])
         /\ \A k \in 1..Len(s) : Separator(s[k]) => k <= SelectLastInSeq(s, Separator)
<1> PICK n \in Nat : n = Len(s)
  BY DEF String
<1> DEFINE I == {i \in 1..Len(s) : Separator(s[i])}
           L == SelectLastInSeq(s, Separator)
<1>1. L = IF I # {} THEN Max(I) ELSE 0
  BY DEF SelectLastInSeq
<1>2. I # {} => Max(I) \in I /\ \A k \in I : k <= Max(I)
  BY MaxIs
<1>3. 0 \in 0..n /\ 1..n \subseteq 0..n /\ 0 \notin 1..n
  OBVIOUS
<1>4. \A k \in 1..n : k \in I <=> Separator(s[k])
  OBVIOUS
<1>5. I \subseteq 1..n
  OBVIOUS
<1> HIDE DEF I, L
<1>6. CASE I = {}
  <2>1. L = 0
    BY <1>1, <1>6
  <2> QED
    BY <1>3, <1>4, <1>6, <2>1 DEF L
<1>7. CASE I # {}
  <2>1. L \in I /\ \A k \in I : k <= L
    BY <1>1, <1>2, <1>7
  <2> QED
    BY <1>3, <1>4, <1>5, <2>1 DEF L
<1> QED
  BY <1>6, <1>7

(* The directories of a path.                                              *)
DirAt(path, b, e) ==
  /\ b <= e /\ e < Len(path) /\ Separator(path[e + 1])
  /\ b = 1 \/ Separator(path[b - 1])
  /\ \A k \in b..e : ~Separator(path[k])

DirOf(path, d) ==
  \E b, e \in 1..Len(path) : DirAt(path, b, e) /\ d = SubSeq(path, b, e)

LEMMA DirsAre ==
  ASSUME NEW path \in String
  PROVE  \A d : d \in DirsOf(path) <=> DirOf(path, d)
<1>0. path \in Seq(Byte)
  BY DEF String
<1> PICK n \in Nat : n = Len(path)
  BY <1>0
<1> PICK L \in 0..n : L = SelectLastInSeq(path, Separator)
  BY LastSeparator
<1>1. /\ L # 0 => Separator(path[L])
      /\ \A k \in 1..n : Separator(path[k]) => k <= L
  BY LastSeparator
<1>2. \A k \in 1..n : path[k] \in Separators <=> Separator(path[k])
  BY <1>0 DEF Separators
<1>q. /\ SubSeq(path, 1, L) \in Seq(Byte) /\ Len(SubSeq(path, 1, L)) = L
      /\ \A k \in 1..L : SubSeq(path, 1, L)[k] = path[k]
  <2>1. L \in Nat /\ L <= n /\ \A k \in 1..L : path[k] \in Byte
    BY <1>0
  <2>2. SubSeq(path, 1, L) \in Seq(Byte) /\ Len(SubSeq(path, 1, L)) = L
    BY ONLY n \in Nat, n = Len(path), <1>0, <2>1
  <2>3. \A k \in 1..L : SubSeq(path, 1, L)[k] = path[k]
    BY ONLY n \in Nat, n = Len(path), <1>0, <2>1
  <2> QED
    BY <2>2, <2>3
<1> PICK q \in Seq(Byte) : q = SubSeq(path, 1, L)
  BY <1>q
<1>3. Len(q) = L /\ \A k \in 1..L : q[k] = path[k]
  BY <1>q
<1> DEFINE Piece(d) == \E b \in 1..L, e \in 1..L : PieceAt(q, Separators, b, e) /\ d = SubSeq(q, b, e)
<1>4. \A d : d \in DirsOf(path) <=> Piece(d)
  <2>1. \A d : d \in Pieces(q, Separators) <=>
          \E b, e \in 1..Len(q) : PieceAt(q, Separators, b, e) /\ d = SubSeq(q, b, e)
    BY ONLY q \in Seq(Byte), PiecesAre
  <2>2. DirsOf(path) = Pieces(q, Separators)
    BY DEF DirsOf
  <2>3. Len(q) = L
    BY <1>3
  <2> QED
    BY ONLY <2>1, <2>2, <2>3
<1>5. ASSUME NEW b \in 1..L, NEW e \in 1..L, b <= e
      PROVE  PieceAt(q, Separators, b, e) <=> DirAt(path, b, e)
  <2>1. \A k \in b..e : k \in 1..L /\ k \in 1..n
    BY <1>5
  <2>2. (\A k \in b..e : q[k] \notin Separators) <=> \A k \in b..e : ~Separator(path[k])
    BY <1>2, <1>3, <2>1
  <2>3. b = 1 \/ q[b - 1] \in Separators <=> b = 1 \/ Separator(path[b - 1])
    <3>1. b # 1 => b - 1 \in 1..L /\ b - 1 \in 1..n
      OBVIOUS
    <3> QED
      BY <1>2, <1>3, <3>1
  <2>4. CASE e = L
    <3>1. e \in b..e /\ L # 0
      BY <1>5, <2>4
    <3>2. ~\A k \in b..e : ~Separator(path[k])
      BY <1>1, <2>4, <3>1
    <3> QED
      BY <2>2, <3>2 DEF PieceAt, DirAt
  <2>5. CASE e # L
    <3>1. e + 1 \in 1..L /\ e + 1 \in 1..n /\ e < n
      BY <2>5
    <3>2. q[e + 1] \in Separators <=> Separator(path[e + 1])
      BY <1>2, <1>3, <3>1
    <3> QED
      BY <1>3, <1>5, <2>2, <2>3, <2>5, <3>1, <3>2 DEF PieceAt, DirAt
  <2> QED
    BY <2>4, <2>5
<1>6. ASSUME NEW b \in 1..L, NEW e \in 1..L, b <= e
      PROVE  SubSeq(q, b, e) = SubSeq(path, b, e)
  <2> DEFINE u == SubSeq(q, b, e)  v == SubSeq(path, b, e)
  <2> PICK m \in Nat : m = e - b + 1
    BY <1>6
  <2>1. u \in Seq(Byte) /\ Len(u) = e - b + 1 /\ \A k \in 1..(e - b + 1) : u[k] = q[b + k - 1]
    BY <1>3, <1>6, PartIs
  <2>2. b \in 1..Len(path) /\ e \in 1..Len(path)
    OBVIOUS
  <2>3. v \in Seq(Byte) /\ Len(v) = e - b + 1 /\ \A k \in 1..(e - b + 1) : v[k] = path[b + k - 1]
    BY <1>0, <1>6, <2>2, PartIs
  <2> HIDE DEF u, v
  <2>4. \A k \in 1..m : b + k - 1 \in 1..L
    BY <1>6
  <2>5. \A k \in 1..m : u[k] = v[k]
    BY <1>3, <2>1, <2>3, <2>4
  <2>6. u = v
    <3>1. Len(u) = m /\ Len(v) = m
      BY <2>1, <2>3
    <3> QED
      BY ONLY m \in Nat, <2>1, <2>3, <2>5, <3>1
  <2> QED
    BY <2>6 DEF u, v
<1>7. ASSUME NEW b \in 1..n, NEW e \in 1..n, DirAt(path, b, e)
      PROVE  b \in 1..L /\ e \in 1..L /\ b <= e
  <2>1. b <= e /\ e < n /\ Separator(path[e + 1])
    BY <1>7 DEF DirAt
  <2>2. e + 1 \in 1..n
    BY <2>1
  <2>3. e + 1 <= L
    BY <1>1, <2>1, <2>2
  <2> QED
    BY <2>1, <2>3
<1>8. ASSUME NEW b \in 1..L, NEW e \in 1..L, PieceAt(q, Separators, b, e)
      PROVE  b <= e /\ b \in 1..n /\ e \in 1..n
  BY <1>8 DEF PieceAt
<1>9. ASSUME NEW d, d \in DirsOf(path)
      PROVE  DirOf(path, d)
  <2>0. Piece(d)
    BY <1>4, <1>9
  <2> PICK b \in 1..L, e \in 1..L : PieceAt(q, Separators, b, e) /\ d = SubSeq(q, b, e)
    BY ONLY <2>0
  <2>1. b <= e /\ b \in 1..n /\ e \in 1..n
    BY <1>8
  <2>2. DirAt(path, b, e) /\ d = SubSeq(path, b, e)
    BY <1>5, <1>6, <2>1
  <2> QED
    BY ONLY <2>1, <2>2, n = Len(path) DEF DirOf
<1>10. ASSUME NEW b \in 1..n, NEW e \in 1..n, DirAt(path, b, e)
       PROVE  SubSeq(path, b, e) \in DirsOf(path)
  <2>1. b \in 1..L /\ e \in 1..L /\ b <= e
    BY <1>7, <1>10
  <2>2. PieceAt(q, Separators, b, e) /\ SubSeq(path, b, e) = SubSeq(q, b, e)
    BY <1>5, <1>6, <1>10, <2>1
  <2> QED
    BY <1>3, <1>4, <2>1, <2>2
<1>11. ASSUME NEW d, DirOf(path, d) PROVE d \in DirsOf(path)
  BY <1>10, <1>11 DEF DirOf
<1> QED
  BY ONLY <1>9, <1>11

(* What the lists say, by the masks they hold.                             *)
NoStar(name) == \A k \in DOMAIN name : name[k] # STAR

MasksWell(given) == \A m \in given : m \in String /\ m # <<>> /\ WellMade(m)

LEMMA DirExcluded ==
  ASSUME NEW given, Holds(g_sExclListD, given), MasksWell(given), NEW name \in String, NoStar(name)
  PROVE  ExcludedDir(name) <=> \E m \in given : Stands(m, name)
<1>1. DOMAIN g_sExclListD = 1..Len(g_sExclListD)
  BY DEF Holds
<1>2. ExcludedDir(name) <=> \E m \in given : KindofCompare(m, name)
  BY <1>1 DEF ExcludedDir, Holds
<1>3. ASSUME NEW m \in given PROVE KindofCompare(m, name) <=> Stands(m, name)
  <2>1. Matching(m, name) /\ m # <<>>
    BY DEF MasksWell, NoStar, Matching
  <2> QED
    BY <2>1, KindofCompareStands
<1> QED
  BY <1>2, <1>3

LEMMA FileExcluded ==
  ASSUME NEW given, Holds(g_sExclList, given), MasksWell(given), NEW name \in String, NoStar(name)
  PROVE  Excluded(name) <=> \/ \E m \in given : Stands(m, FileName(name))
                            \/ \E m \in given : Upper(m) = Upper(name)
<1>1. DOMAIN g_sExclList = 1..Len(g_sExclList)
  BY DEF Holds
<1>2. Excluded(name) <=> \E m \in given : CompKind(name, m)
  BY <1>1 DEF Excluded, Holds
<1>3. ASSUME NEW m \in given
      PROVE  CompKind(name, m) <=> Upper(m) = Upper(name) \/ Stands(m, FileName(name))
  BY CompKindIs DEF MasksWell, NoStar
<1> QED
  BY <1>2, <1>3

LEMMA PathExcluded ==
  ASSUME NEW given, Holds(g_sExclListD, given), MasksWell(given), NEW path \in String, NoStar(path)
  PROVE  ~Check4ExcludedDir(path) <=> \E d \in DirsOf(path) : \E m \in given : Stands(m, d)
<1>0. path \in Seq(Byte) /\ path \in Seq(Byte \ {0})
  BY DEF String
<1> PICK n \in Nat : n = Len(path)
  BY <1>0
<1> DEFINE Between(i, j) == /\ i < j /\ Separator(path[j])
                            /\ i = 0 \/ Separator(path[i])
                            /\ \A k \in (i + 1)..(j - 1) : ~Separator(path[k])
<1>1. ~Check4ExcludedDir(path)
        <=> \E i \in 0..n, j \in 1..n : Between(i, j) /\ ExcludedDir(SubSeq(path, i + 1, j - 1))
  BY DEF Check4ExcludedDir
<1>2. \A d : d \in DirsOf(path) <=>
        \E b, e \in 1..n : DirAt(path, b, e) /\ d = SubSeq(path, b, e)
  BY DirsAre DEF DirOf
<1>3. ASSUME NEW b \in 1..n, NEW e \in 1..n, b <= e
      PROVE  ExcludedDir(SubSeq(path, b, e)) <=> \E m \in given : Stands(m, SubSeq(path, b, e))
  <2> DEFINE d == SubSeq(path, b, e)
  <2>1. /\ d \in Seq(Byte) /\ Len(d) = e - b + 1
        /\ \A k \in 1..(e - b + 1) : d[k] = path[b + k - 1]
    BY <1>0, <1>3, PartIs
  <2> HIDE DEF d
  <2> PICK m \in Nat : m = e - b + 1
    BY <1>3
  <2>2. \A k \in 1..m : b + k - 1 \in 1..n
    BY <1>3
  <2>3. \A k \in 1..n : path[k] # 0 /\ path[k] # STAR
    BY <1>0 DEF NoStar
  <2>4. Len(d) = m /\ \A k \in 1..m : d[k] # 0 /\ d[k] # STAR
    BY <2>1, <2>2, <2>3
  <2>5. d \in String /\ NoStar(d)
    BY ONLY m \in Nat, <2>1, <2>4 DEF String, NoStar
  <2> QED
    BY <2>5, DirExcluded DEF d
<1>4. ~ExcludedDir(<<>>)
  <2>1. <<>> \in String /\ NoStar(<<>>)
    BY DEF String, NoStar
  <2>2. ExcludedDir(<<>>) <=> \E m \in given : Stands(m, <<>>)
    BY <2>1, DirExcluded
  <2> QED
    BY <2>2 DEF Stands
<1>5. ASSUME NEW b \in 1..n, NEW e \in 1..n, DirAt(path, b, e)
      PROVE  \E i \in 0..n, j \in 1..n : /\ Between(i, j)
                                         /\ SubSeq(path, i + 1, j - 1) = SubSeq(path, b, e)
  <2>1. b <= e /\ e < n
    BY <1>5 DEF DirAt
  <2> PICK i \in 0..n, j \in 1..n : i = b - 1 /\ j = e + 1
    BY <2>1
  <2>2. i + 1 = b /\ j - 1 = e /\ i < j /\ (i = 0 <=> b = 1)
    BY <2>1
  <2> QED
    BY <1>5, <2>2 DEF DirAt
<1>6. ASSUME NEW i \in 0..n, NEW j \in 1..n, Between(i, j), ExcludedDir(SubSeq(path, i + 1, j - 1))
      PROVE  i + 1 \in 1..n /\ j - 1 \in 1..n /\ DirAt(path, i + 1, j - 1)
  <2>1. i + 1 <= j - 1
    <3> SUFFICES ASSUME ~(i + 1 <= j - 1) PROVE FALSE
      OBVIOUS
    <3>1. SubSeq(path, i + 1, j - 1) = <<>>
      BY <1>0
    <3> QED
      BY <1>4, <1>6, <3>1
  <2>2. i + 1 \in 1..n /\ j - 1 \in 1..n /\ j - 1 < n /\ j - 1 + 1 = j /\ i + 1 - 1 = i
        /\ (i = 0 <=> i + 1 = 1)
    BY <2>1
  <2> QED
    BY <1>6, <2>1, <2>2 DEF DirAt
<1> HIDE DEF Between
<1>7. ASSUME ~Check4ExcludedDir(path)
      PROVE  \E d \in DirsOf(path) : \E m \in given : Stands(m, d)
  <2> PICK i \in 0..n, j \in 1..n : Between(i, j) /\ ExcludedDir(SubSeq(path, i + 1, j - 1))
    BY <1>1, <1>7
  <2> PICK b \in 1..n, e \in 1..n : b = i + 1 /\ e = j - 1 /\ DirAt(path, b, e)
    BY <1>6
  <2>1. b <= e /\ SubSeq(path, b, e) \in DirsOf(path) /\ ExcludedDir(SubSeq(path, b, e))
    BY <1>2 DEF DirAt
  <2> QED
    BY <1>3, <2>1
<1>8. ASSUME NEW d \in DirsOf(path), NEW m \in given, Stands(m, d)
      PROVE  ~Check4ExcludedDir(path)
  <2> PICK b \in 1..n, e \in 1..n : DirAt(path, b, e) /\ d = SubSeq(path, b, e)
    BY <1>2
  <2>1. ExcludedDir(SubSeq(path, b, e))
    BY <1>3, <1>8 DEF DirAt
  <2> PICK i \in 0..n, j \in 1..n : /\ Between(i, j)
                                    /\ SubSeq(path, i + 1, j - 1) = SubSeq(path, b, e)
    BY <1>5
  <2> QED
    BY <1>1, <2>1
<1> QED
  BY <1>7, <1>8
MatchTyped ==
  /\ switch \in XSwitches /\ turn \in Nat /\ glpError \in BOOLEAN
  /\ body1 \in Seq(Byte) /\ ext1 \in Seq(Byte) /\ body2 \in Seq(Byte) /\ ext2 \in Seq(Byte)
  /\ asked.name \in String /\ asked.mask \in String

(* From the switch read on the lists hold the masks of its text.           *)
ListsHold ==
  /\ turn = 0 => g_sExclList = <<>> /\ g_sExclListD = <<>>
  /\ turn # 0 /\ ~glpError => Holds(g_sExclList, FileMasks) /\ Holds(g_sExclListD, DirMasks)

LEMMA HoldsFew ==
  ASSUME NEW m \in Seq(Byte)
  PROVE  Holds(<<>>, {}) /\ Holds(<<m>>, {m})
<1>1. <<>> \in Seq(Seq(Byte)) /\ Len(<<>>) = 0 /\ \A i \in 1..0 : FALSE
  OBVIOUS
<1>2. <<m>> \in Seq(Seq(Byte)) /\ Len(<<m>>) = 1 /\ <<m>>[1] = m /\ 1 \in 1..1 /\ \A i \in 1..1 : i = 1
  OBVIOUS
<1>3. ASSUME NEW w PROVE (\E i \in 1..1 : <<m>>[i] = w) <=> w \in {m}
  BY <1>2
<1> QED
  BY <1>1, <1>2, <1>3 DEF Holds

LEMMA ColonsAre ==
  ASSUME NEW s \in Seq(Byte \ {0})
  PROVE  /\ s = <<COLON>> <=> Len(s) = 1 /\ s[1] = COLON
         /\ s = <<COLON, COLON>> <=> Len(s) = 2 /\ s[1] = COLON /\ s[2] = COLON
         /\ s = <<COLON, COLON, COLON>> <=>
              Len(s) = 3 /\ s[1] = COLON /\ s[2] = COLON /\ s[3] = COLON
<1>1. ASSUME Len(s) = 1, s[1] = COLON PROVE s = <<COLON>>
  <2>1. s = <<s[1]>>
    BY ONLY <1>1, s \in Seq(Byte \ {0})
  <2> QED
    BY <1>1, <2>1
<1>2. ASSUME Len(s) = 2, s[1] = COLON, s[2] = COLON PROVE s = <<COLON, COLON>>
  <2>1. s = <<s[1], s[2]>>
    BY ONLY <1>2, s \in Seq(Byte \ {0})
  <2> QED
    BY <1>2, <2>1
<1>3. ASSUME Len(s) = 3, s[1] = COLON, s[2] = COLON, s[3] = COLON
      PROVE  s = <<COLON, COLON, COLON>>
  <2>1. s = <<s[1], s[2], s[3]>>
    BY ONLY <1>3, s \in Seq(Byte \ {0})
  <2> QED
    BY <1>3, <2>1
<1>4. /\ Len(<<COLON>>) = 1 /\ <<COLON>>[1] = COLON
      /\ Len(<<COLON, COLON>>) = 2 /\ <<COLON, COLON>>[1] = COLON /\ <<COLON, COLON>>[2] = COLON
      /\ Len(<<COLON, COLON, COLON>>) = 3 /\ <<COLON, COLON, COLON>>[1] = COLON
      /\ <<COLON, COLON, COLON>>[2] = COLON /\ <<COLON, COLON, COLON>>[3] = COLON
  OBVIOUS
<1> QED
  BY <1>1, <1>2, <1>3, <1>4

LEMMA SwitchLists ==
  ASSUME MatchTyped, ListsHold, Do_X_Switch, ~glpError'
  PROVE  Holds(g_sExclList', FileMasks) /\ Holds(g_sExclListD', DirMasks)
<1>1. turn = 0 /\ g_sExclList = <<>> /\ g_sExclListD = <<>>
  BY DEF Do_X_Switch, ListsHold
<1>2. switch.text \in String /\ switch.infile \in Seq(Byte)
  BY SwitchesTyped DEF MatchTyped, SwitchType
<1> PICK cp \in String : cp = switch.text
  BY <1>2
<1>3. CASE ~StartsWith(cp, COLON)
  <2>1. g_sExclListD' = <<>> /\ g_sExclList' = Items(cp) /\ (StartsWith(cp, ATSIGN) => switch.exists)
    BY <1>1, <1>3 DEF Do_X_Switch
  <2>2. cp # <<COLON, COLON>> /\ cp # <<COLON, COLON, COLON>>
    BY <1>3 DEF StartsWith
  <2>3. FileMasks = Given(cp) /\ DirMasks = {}
    BY <1>3, <2>2 DEF FileMasks, DirMasks
  <2>4. Holds(Items(cp), Given(cp))
    BY <1>2, <2>1, ItemsGive
  <2>5. Holds(<<>>, {})
    BY <1>2, HoldsFew
  <2> QED
    BY <2>1, <2>3, <2>4, <2>5
<1>4. CASE StartsWith(cp, COLON)
  <2>0. cp \in Seq(Byte \ {0}) /\ Len(cp) > 0 /\ cp[1] = COLON
    BY <1>4 DEF String, StartsWith
  <2>l. Tail(cp) \in Seq(Byte \ {0})
    BY ONLY <2>0
  <2> PICK list \in String : list = Tail(cp)
    BY <2>l DEF String
  <2>1. /\ g_sExclList' = <<>> /\ g_sExclListD' = DirItems(list)
        /\ StartsWith(list, ATSIGN) => switch.exists
        /\ ~(StartsWith(list, COLON) /\ list \notin {<<COLON>>, <<COLON, COLON>>})
    BY <1>1, <1>4 DEF Do_X_Switch
  <2>2. FileMasks = {}
    BY <1>4 DEF FileMasks
  <2>3. Holds(<<>>, {}) /\ Holds(<<FrontPage>>, {FrontPage}) /\ Holds(<<CVSSVN>>, {CVSSVN})
    <3>1. FrontPage \in Seq(Byte) /\ CVSSVN \in Seq(Byte)
      BY DEF FrontPage, CVSSVN, Byte
    <3> QED
      BY <3>1, HoldsFew
  <2>4. /\ list = <<COLON>> <=> cp = <<COLON, COLON>>
        /\ list = <<COLON, COLON>> <=> cp = <<COLON, COLON, COLON>>
    <3> PICK n \in Nat : n = Len(cp)
      BY <2>0
    <3>1. Len(list) = n - 1 /\ \A k \in 1..(n - 1) : list[k] = cp[k + 1]
      BY <2>0
    <3>2. list \in Seq(Byte \ {0})
      BY DEF String
    <3>3. n > 0 /\ cp[1] = COLON /\ n = Len(cp) /\ cp \in Seq(Byte \ {0})
      BY <2>0
    <3>4. /\ list = <<COLON>> <=> n - 1 = 1 /\ list[1] = COLON
          /\ list = <<COLON, COLON>> <=> n - 1 = 2 /\ list[1] = COLON /\ list[2] = COLON
      BY ONLY <3>1, <3>2, ColonsAre
    <3>5. /\ cp = <<COLON, COLON>> <=> n = 2 /\ cp[1] = COLON /\ cp[2] = COLON
          /\ cp = <<COLON, COLON, COLON>> <=>
               n = 3 /\ cp[1] = COLON /\ cp[2] = COLON /\ cp[3] = COLON
      BY ONLY <3>3, ColonsAre
    <3>6. n = 2 => list[1] = cp[2]
      BY ONLY <3>1, n \in Nat
    <3>7. n = 3 => list[1] = cp[2] /\ list[2] = cp[3]
      BY ONLY <3>1, n \in Nat
    <3>8. (n - 1 = 1 <=> n = 2) /\ (n - 1 = 2 <=> n = 3)
      OBVIOUS
    <3> QED
      BY ONLY <3>3, <3>4, <3>5, <3>6, <3>7, <3>8
  <2>c. <<COLON>> # <<COLON, COLON>> /\ <<COLON, COLON>> # <<COLON, COLON, COLON>>
    OBVIOUS
  <2>5. CASE list = <<COLON>>
    <3>1. DirItems(list) = <<FrontPage>>
      <4>1. list \in {<<COLON>>, <<COLON, COLON>>} /\ list # <<COLON, COLON>>
        BY <2>5, <2>c
      <4> QED
        BY ONLY <2>5, <4>1 DEF DirItems
    <3>2. DirMasks = {FrontPage}
      <4>1. /\ switch.text = <<COLON, COLON>> /\ switch.text # <<COLON, COLON, COLON>>
            /\ Tail(switch.text) = <<COLON>>
        BY <2>4, <2>5, <2>c
      <4>2. StartsWith(Tail(switch.text), COLON)
        BY <4>1 DEF StartsWith
      <4> QED
        BY ONLY <4>1, <4>2 DEF DirMasks
    <3> QED
      BY <2>1, <2>2, <2>3, <3>1, <3>2
  <2>6. CASE list = <<COLON, COLON>>
    <3>1. DirItems(list) = <<CVSSVN>>
      <4>1. list \in {<<COLON>>, <<COLON, COLON>>} /\ list # <<COLON>>
        BY <2>6, <2>c
      <4> QED
        BY ONLY <2>6, <4>1 DEF DirItems
    <3>2. DirMasks = {CVSSVN}
      <4>1. /\ switch.text = <<COLON, COLON, COLON>> /\ switch.text # <<COLON, COLON>>
            /\ Tail(switch.text) = <<COLON, COLON>>
        BY <2>4, <2>6, <2>c
      <4>2. StartsWith(Tail(switch.text), COLON)
        BY <4>1 DEF StartsWith
      <4> QED
        BY ONLY <4>1, <4>2 DEF DirMasks
    <3> QED
      BY <2>1, <2>2, <2>3, <3>1, <3>2
  <2>7. CASE list # <<COLON>> /\ list # <<COLON, COLON>>
    <3>1. ~StartsWith(list, COLON)
      BY <2>1, <2>7
    <3>2. DirItems(list) = Items(list)
      BY <2>7, <3>1 DEF DirItems
    <3>3. DirMasks = Given(list)
      BY <1>4, <2>4, <2>7, <3>1 DEF DirMasks
    <3>4. Holds(Items(list), Given(list))
      BY <1>2, <2>1, ItemsGive
    <3> QED
      BY <2>1, <2>2, <2>3, <3>2, <3>3, <3>4
  <2> QED
    BY <2>5, <2>6, <2>7
<1> QED
  BY <1>3, <1>4

(* The masks that the property asks to be well made.                       *)
LEMMA MasksAre ==
  ASSUME MatchTyped, \A m \in FileMasks \cup DirMasks : WellMade(m)
  PROVE  MasksWell(FileMasks) /\ MasksWell(DirMasks)
<1>1. switch.text \in String /\ switch.infile \in Seq(Byte)
  BY SwitchesTyped DEF MatchTyped, SwitchType
<1>2. ASSUME NEW m \in FileMasks PROVE m \in String /\ m # <<>>
  BY <1>1, GivenAre DEF FileMasks
<1>3. ASSUME NEW m \in DirMasks PROVE m \in String /\ m # <<>>
  <2>1. CASE m \in {FrontPage, CVSSVN}
    <3>1. /\ FrontPage \in Seq(Byte \ {0}) /\ FrontPage # <<>>
          /\ CVSSVN \in Seq(Byte \ {0}) /\ CVSSVN # <<>>
      BY DEF FrontPage, CVSSVN, Byte
    <3> QED
      BY <2>1, <3>1 DEF String
  <2>2. CASE StartsWith(switch.text, COLON) /\ m \in Given(Tail(switch.text))
    <3>1. switch.text # <<>>
      BY <2>2 DEF StartsWith
    <3>2. Tail(switch.text) \in String
      BY <1>1, <3>1 DEF String
    <3> QED
      BY <1>1, <2>2, <3>2, GivenAre
  <2> QED
    BY <2>1, <2>2 DEF DirMasks
<1> QED
  BY <1>2, <1>3 DEF MasksWell

(* The answer to a question about a file, a directory or a path.           *)
LEMMA AnswersMasked ==
  ASSUME MatchTyped, ListsHold, turn # 0, ~glpError, NEW q \in QuestionType,
         \/ q.op = "file" /\ Answer(q, Excluded(q.name))
         \/ q.op = "dir" /\ Answer(q, ExcludedDir(q.name))
         \/ q.op = "path" /\ Answer(q, ~Check4ExcludedDir(q.name)),
         switch' = switch
  PROVE  ExcludedAsMasked'
<1> DEFINE Out(given, name) == \E m \in given : Stands(m, name)
           name == asked'.name
<1>1. q.name \in String /\ name = q.name /\ asked'.op = q.op
  BY DEF QuestionType, Answer
<1>2. FileMasks' = FileMasks /\ DirMasks' = DirMasks
  <2>1. \A t : Given(t)' = Given(t)
    BY DEF Given
  <2> QED
    BY <2>1 DEF FileMasks, DirMasks
<1>3. Holds(g_sExclList, FileMasks) /\ Holds(g_sExclListD, DirMasks)
  BY DEF ListsHold
<1> SUFFICES ASSUME \A m \in FileMasks \cup DirMasks : WellMade(m), \A k \in DOMAIN name : name[k] # STAR
             PROVE  CASE asked'.op = "file" ->
                           asked'.answer <=> \/ Out(FileMasks, FileName(name))
                                            \/ \E m \in FileMasks : Upper(m) = Upper(name)
                      [] asked'.op = "dir" -> asked'.answer <=> Out(DirMasks, name)
                      [] asked'.op = "path" ->
                           asked'.answer <=> \E d \in DirsOf(name) : Out(DirMasks, d)
                      [] OTHER -> TRUE
  BY <1>2 DEF ExcludedAsMasked
<1>4. MasksWell(FileMasks) /\ MasksWell(DirMasks)
  BY MasksAre
<1>5. NoStar(name) /\ name \in String
  BY <1>1 DEF NoStar
<1>6. Excluded(name) <=> \/ Out(FileMasks, FileName(name))
                         \/ \E m \in FileMasks : Upper(m) = Upper(name)
  BY <1>3, <1>4, <1>5, FileExcluded
<1>7. ExcludedDir(name) <=> Out(DirMasks, name)
  BY <1>3, <1>4, <1>5, DirExcluded
<1>8. ~Check4ExcludedDir(name) <=> \E d \in DirsOf(name) : Out(DirMasks, d)
  BY <1>3, <1>4, <1>5, PathExcluded
<1> HIDE DEF Out
<1>9. CASE q.op = "file" /\ Answer(q, Excluded(q.name))
  BY <1>1, <1>6, <1>9 DEF Answer
<1>10. CASE q.op = "dir" /\ Answer(q, ExcludedDir(q.name))
  BY <1>1, <1>7, <1>10 DEF Answer
<1>11. CASE q.op = "path" /\ Answer(q, ~Check4ExcludedDir(q.name))
  BY <1>1, <1>8, <1>11 DEF Answer
<1> QED
  BY <1>9, <1>10, <1>11

-----------------------------------------------------------------------------
(* The loop of WildComp2.                                                  *)

(* A buffer reads as a string when a NUL stands behind the string in it.   *)
ReadsAs(lp, u) ==
  /\ \A j \in Nat : j < Len(u) => Char(lp, j) = u[j + 1] /\ u[j + 1] # 0
  /\ Char(lp, Len(u)) = 0

LEMMA ReadsAt ==
  ASSUME NEW lp, NEW u \in String, ReadsAs(lp, u), NEW j \in Nat, j <= Len(u)
  PROVE  Char(lp, j) = 0 <=> j = Len(u)
<1>1. Len(u) \in Nat
  BY DEF String
<1> QED
  BY <1>1 DEF ReadsAs

(* The search in the other buffer stays in its string.                     *)
LEMMA SearchFinds ==
  ASSUME NEW lp, NEW v \in String, ReadsAs(lp, v), NEW c, NEW d, c # 0,
         NEW j \in Nat, j < Len(v), NEW ilen \in Nat, Len(v) <= ilen,
         Found(lp, c, d, j, ilen)
  PROVE  /\ SearchEnd(lp, c, j, ilen) \in Nat /\ j <= SearchEnd(lp, c, j, ilen)
         /\ SearchEnd(lp, c, j, ilen) < Len(v)
         /\ v[SearchEnd(lp, c, j, ilen) + 1] = c
<1> PICK m \in Nat : m = Len(v)
  BY DEF String
<1>1. /\ SearchEnd(lp, c, j, ilen) \in Nat /\ j <= SearchEnd(lp, c, j, ilen)
      /\ SearchEnd(lp, c, j, ilen) < ilen =>
           /\ Char(lp, SearchEnd(lp, c, j, ilen)) \in {c, 0}
           /\ \A k \in j..(SearchEnd(lp, c, j, ilen) - 1) : Char(lp, k) \notin {c, 0}
  BY SearchEndIs
<1> PICK spot \in Nat : spot = SearchEnd(lp, c, j, ilen)
  BY <1>1
<1>2. ~(j >= ilen)
  OBVIOUS
<1>3. spot < ilen /\ Char(lp, spot) = c
  BY <1>2 DEF Found
<1>4. ~(m < spot)
  <2>1. m < spot => m \in j..(spot - 1)
    OBVIOUS
  <2>2. Char(lp, m) = 0
    BY DEF ReadsAs
  <2> QED
    BY <1>1, <1>3, <2>1, <2>2
<1>5. spot # m
  BY <1>3 DEF ReadsAs
<1>6. spot < m
  BY <1>4, <1>5
<1> QED
  BY <1>1, <1>3, <1>6 DEF ReadsAs

(* What fits from a and b on.                                              *)
FitsAt(u, v, a, b) == Fits(u, v)[a + 1][b + 1]

LEMMA FitsAtStar ==
  ASSUME NEW u, NEW v, Len(u) \in Nat, Len(v) \in Nat,
         NEW a \in Nat, a < Len(u), NEW b \in Nat, b <= Len(v), u[a + 1] = STAR
  PROVE  FitsAt(u, v, a, b) <=> \E e \in Nat : b <= e /\ e <= Len(v) /\ FitsAt(u, v, a + 1, e)
<1> PICK n \in Nat, m \in Nat : n = Len(u) /\ m = Len(v)
  OBVIOUS
<1> PICK i \in 1..n, r \in 1..(n + 1), j \in 1..(m + 1) : i = a + 1 /\ r = i + 1 /\ j = b + 1
  BY ONLY a \in Nat, b \in Nat, n \in Nat, m \in Nat, a < Len(u), b <= Len(v), n = Len(u) /\ m = Len(v)
<1>1. /\ Len(u) \in Nat /\ Len(v) \in Nat /\ r \in 1..(Len(u) + 1) /\ i \in 1..(r - 1)
      /\ j \in 1..(Len(v) + 1) /\ \A k \in i..(r - 1) : u[k] = STAR
  <2>1. i \in 1..(r - 1) /\ \A k \in i..(r - 1) : k = a + 1
    BY ONLY a \in Nat, n \in Nat, i \in 1..n, r \in 1..(n + 1), i = a + 1 /\ r = i + 1 /\ j = b + 1
  <2> QED
    BY <2>1
<1>2. Fits(u, v)[i][j] <=> \E k \in j..(Len(v) + 1) : Fits(u, v)[r][k]
  BY ONLY <1>1, FitsPastStars
<1>3. ASSUME NEW e \in Nat, b <= e, e <= Len(v)
      PROVE  e + 1 \in j..(Len(v) + 1)
  BY <1>3
<1>4. ASSUME NEW k \in j..(Len(v) + 1)
      PROVE  k - 1 \in Nat /\ b <= k - 1 /\ k - 1 <= Len(v) /\ (k - 1) + 1 = k
  OBVIOUS
<1>5. FitsAt(u, v, a, b) <=> Fits(u, v)[i][j]
  BY DEF FitsAt
<1>6. r = a + 1 + 1
  OBVIOUS
<1>7. ASSUME NEW k \in j..(Len(v) + 1), Fits(u, v)[r][k]
      PROVE  \E e \in Nat : b <= e /\ e <= Len(v) /\ FitsAt(u, v, a + 1, e)
  <2> PICK e \in Nat : e = k - 1 /\ b <= e /\ e <= Len(v) /\ e + 1 = k
    BY <1>4
  <2>1. FitsAt(u, v, a + 1, e)
    BY ONLY <1>6, <1>7, e + 1 = k DEF FitsAt
  <2> QED
    BY <2>1
<1>8. ASSUME NEW e \in Nat, b <= e, e <= Len(v), FitsAt(u, v, a + 1, e)
      PROVE  \E k \in j..(Len(v) + 1) : Fits(u, v)[r][k]
  <2> PICK k \in j..(Len(v) + 1) : k = e + 1
    BY <1>3, <1>8
  <2>1. Fits(u, v)[r][k]
    BY ONLY <1>6, <1>8, k = e + 1 DEF FitsAt
  <2> QED
    BY <2>1
<1> QED
  BY ONLY <1>2, <1>5, <1>7, <1>8

LEMMA FitsAtNext ==
  ASSUME NEW u, NEW v, Len(u) \in Nat, Len(v) \in Nat,
         NEW a \in Nat, a < Len(u), NEW b \in Nat, b <= Len(v), u[a + 1] # STAR
  PROVE  FitsAt(u, v, a, b)
           <=> b < Len(v) /\ u[a + 1] \in {v[b + 1], ANY} /\ FitsAt(u, v, a + 1, b + 1)
<1> PICK n \in Nat, m \in Nat : n = Len(u) /\ m = Len(v)
  OBVIOUS
<1> PICK i \in 1..n, j \in 1..(m + 1) : i = a + 1 /\ j = b + 1
  BY ONLY a \in Nat, b \in Nat, n \in Nat, m \in Nat, a < Len(u), b <= Len(v), n = Len(u) /\ m = Len(v)
<1>1. /\ Len(u) \in Nat /\ Len(v) \in Nat /\ i \in 1..Len(u) /\ j \in 1..(Len(v) + 1)
      /\ u[i] # STAR
  OBVIOUS
<1>2. Fits(u, v)[i][j] <=> j <= Len(v) /\ u[i] \in {v[j], ANY} /\ Fits(u, v)[i + 1][j + 1]
  BY ONLY <1>1, FitsNext
<1>3. j <= Len(v) <=> b < Len(v)
  BY ONLY b \in Nat, m \in Nat, j \in 1..(m + 1), i = a + 1 /\ j = b + 1, n = Len(u) /\ m = Len(v)
<1> QED
  BY <1>2, <1>3 DEF FitsAt

LEMMA FitsAtEnd ==
  ASSUME NEW u, NEW v, Len(u) \in Nat, Len(v) \in Nat
  PROVE  /\ \A b \in Nat : b <= Len(v) => (FitsAt(u, v, Len(u), b) <=> b = Len(v))
         /\ \A a \in Nat : a <= Len(u) =>
              (FitsAt(u, v, a, Len(v)) <=> \A k \in (a + 1)..Len(u) : u[k] = STAR)
<1> PICK n \in Nat, m \in Nat : n = Len(u) /\ m = Len(v)
  OBVIOUS
<1>1. ASSUME NEW b \in Nat, b <= Len(v) PROVE FitsAt(u, v, Len(u), b) <=> b = Len(v)
  <2> PICK i \in 1..(n + 1), j \in 1..(m + 1) : i = n + 1 /\ j = b + 1
    BY <1>1
  <2>1. Fits(u, v)[i][j] <=> FitsTurn(u, v, Fits(u, v), i, j)
    BY FitsIs
  <2>2. i > Len(u) /\ (j > Len(v) <=> b = Len(v))
    BY <1>1
  <2>3. FitsTurn(u, v, Fits(u, v), i, j) <=> b = Len(v)
    BY <2>2 DEF FitsTurn
  <2> QED
    BY <2>1, <2>3 DEF FitsAt
<1>2. ASSUME NEW a \in Nat, a <= Len(u)
      PROVE  FitsAt(u, v, a, Len(v)) <=> \A k \in (a + 1)..Len(u) : u[k] = STAR
  <2> PICK i \in 1..(n + 1) : i = a + 1
    BY <1>2
  <2>1. Len(u) \in Nat /\ Len(v) \in Nat /\ i \in 1..(Len(u) + 1)
    OBVIOUS
  <2>2. Fits(u, v)[i][Len(v) + 1] <=> \A k \in i..Len(u) : u[k] = STAR
    BY ONLY <2>1, FitsBlank
  <2> QED
    BY <2>2 DEF FitsAt
<1> QED
  BY <1>1, <1>2
(* The loop compares two strings.                                          *)
Compared(lp1, lp2, u, v, ilen) ==
  /\ u \in String /\ v \in String /\ ReadsAs(lp1, u) /\ ReadsAs(lp2, v)
  /\ \A k \in 1..Len(v) : v[k] \notin {STAR, ANY}
  /\ ilen \in Nat /\ Len(u) <= ilen /\ Len(v) <= ilen /\ ilen \in {Len(u), Len(v)}

LEMMA ComparedAt ==
  ASSUME NEW lp1, NEW lp2, NEW u, NEW v, NEW ilen, Compared(lp1, lp2, u, v, ilen)
  PROVE  /\ Len(u) \in Nat /\ Len(v) \in Nat
         /\ \A a \in Nat : a < Len(u) => Char(lp1, a) = u[a + 1] /\ Char(lp1, a) # 0
         /\ \A b \in Nat : b < Len(v) => /\ Char(lp2, b) = v[b + 1]
                                         /\ Char(lp2, b) \notin {0, STAR, ANY}
         /\ Char(lp1, Len(u)) = 0 /\ Char(lp2, Len(v)) = 0
<1>1. Len(u) \in Nat /\ Len(v) \in Nat
  BY DEF Compared, String
<1>2. \A b \in Nat : b < Len(v) => b + 1 \in 1..Len(v)
  BY <1>1
<1> QED
  BY <1>1, <1>2 DEF Compared, ReadsAs

LEMMA LoopTold ==
  ASSUME NEW lp1, NEW lp2, NEW ilen \in Nat, NEW a \in Nat, NEW b \in Nat
  PROVE  Told(WildLoop(lp1, lp2, ilen)[a][b], lp1, lp2, ilen, WildLoop(lp1, lp2, ilen), a, b,
              Char(lp1, a), Char(lp2, b), Char(lp1, a + 1), Char(lp2, b + 1))
<1> DEFINE loop == WildLoop(lp1, lp2, ilen)
<1>1. loop[a][b] = WildTurn(lp1, lp2, ilen, loop, a, b)
  BY WildLoopIs
<1> HIDE DEF loop
<1>2. Told(WildTurn(lp1, lp2, ilen, loop, a, b), lp1, lp2, ilen, loop, a, b,
           Char(lp1, a), Char(lp2, b), Char(lp1, a + 1), Char(lp2, b + 1))
  BY WildTurnIs
<1>3. Told(loop[a][b], lp1, lp2, ilen, loop, a, b,
           Char(lp1, a), Char(lp2, b), Char(lp1, a + 1), Char(lp2, b + 1))
  BY ONLY <1>1, <1>2
<1> QED
  BY <1>3 DEF loop

(* What the loop takes from a and b on fits, if all it takes later does.   *)
LEMMA TurnSound ==
  ASSUME NEW lp1, NEW lp2, NEW u, NEW v, NEW ilen, Compared(lp1, lp2, u, v, ilen),
         NEW a \in Nat, NEW b \in Nat, a <= Len(u), a <= b, b <= Len(v),
         NEW loop, loop[a][b],
         Told(loop[a][b], lp1, lp2, ilen, loop, a, b,
              Char(lp1, a), Char(lp2, b), Char(lp1, a + 1), Char(lp2, b + 1)),
         \A k, l \in Nat : a < k /\ k <= Len(u) /\ k <= l /\ l <= Len(v) /\ loop[k][l]
                             => FitsAt(u, v, k, l)
  PROVE  FitsAt(u, v, a, b)
<1>0. Len(u) \in Nat /\ Len(v) \in Nat
  BY ComparedAt
<1> PICK n \in Nat, m \in Nat : n = Len(u) /\ m = Len(v)
  BY <1>0
<1> DEFINE c == Char(lp1, a)  d == Char(lp2, b)  c1 == Char(lp1, a + 1)  d1 == Char(lp2, b + 1)
<1>1. /\ \A k \in Nat : k < n => Char(lp1, k) = u[k + 1] /\ Char(lp1, k) # 0
      /\ \A k \in Nat : k < m => Char(lp2, k) = v[k + 1] /\ Char(lp2, k) \notin {0, STAR, ANY}
      /\ Char(lp1, n) = 0 /\ Char(lp2, m) = 0
  BY ComparedAt
<1>2. ilen \in Nat /\ n <= ilen /\ m <= ilen
  BY DEF Compared
<1>3. /\ a < n \/ a = n
      /\ b < m \/ b = m
  OBVIOUS
<1>4. /\ a < n => c = u[a + 1] /\ c # 0
      /\ a = n => c = 0
      /\ b < m => d = v[b + 1] /\ d \notin {0, STAR, ANY}
      /\ b = m => d = 0
  BY <1>1
<1>5. ASSUME NEW k \in Nat, NEW l \in Nat, a < k, k <= n, k <= l, l <= m, loop[k][l]
      PROVE  FitsAt(u, v, k, l)
  BY <1>5
<1>6. ASSUME a < n, u[a + 1] # STAR
      PROVE  FitsAt(u, v, a, b) <=> b < m /\ u[a + 1] \in {v[b + 1], ANY} /\ FitsAt(u, v, a + 1, b + 1)
  BY <1>0, <1>6, FitsAtNext
<1>7. ASSUME a < n, u[a + 1] = STAR
      PROVE  FitsAt(u, v, a, b) <=> \E e \in Nat : b <= e /\ e <= m /\ FitsAt(u, v, a + 1, e)
  BY <1>0, <1>7, FitsAtStar
<1>8. FitsAt(u, v, n, m)
  BY <1>0, FitsAtEnd
<1>9. ASSUME a + 1 = n, u[a + 1] = STAR PROVE FitsAt(u, v, a, b)
  <2>1. a < n /\ b <= m /\ FitsAt(u, v, a + 1, m)
    BY <1>3, <1>8, <1>9
  <2> QED
    BY ONLY <1>7, <1>9, <2>1, m \in Nat, m <= m
<1> HIDE DEF c, d, c1, d1
<1>10. Told(TRUE, lp1, lp2, ilen, loop, a, b, c, d, c1, d1)
  <2>1. Told(loop[a][b], lp1, lp2, ilen, loop, a, b, c, d, c1, d1)
    BY DEF c, d, c1, d1
  <2> QED
    BY <2>1 DEF Told
<1>11. CASE a >= ilen
  <2>1. a = n /\ b = m
    BY <1>2, <1>3, <1>11
  <2> QED
    BY <1>8, <2>1
<1>12. CASE a < ilen /\ c = d
  <2>1. loop[a + 1][b + 1]
    BY ONLY <1>10, <1>12 DEF Told
  <2>2. CASE a = n
    BY <1>3, <1>4, <1>8, <1>12, <2>2
  <2>3. CASE a < n
    <3>1. b < m
      BY <1>3, <1>4, <1>12, <2>3
    <3>2. FitsAt(u, v, a + 1, b + 1)
      <4>1. a + 1 \in Nat /\ b + 1 \in Nat /\ a < a + 1 /\ a + 1 <= n /\ a + 1 <= b + 1 /\ b + 1 <= m
        BY <2>3, <3>1
      <4> QED
        BY ONLY <1>5, <2>1, <4>1
    <3>3. u[a + 1] # STAR /\ u[a + 1] \in {v[b + 1], ANY}
      BY ONLY <1>4, <1>12, <2>3, <3>1
    <3> QED
      BY ONLY <1>6, <2>3, <3>1, <3>2, <3>3
  <2> QED
    BY <1>3, <2>2, <2>3
<1>13. CASE a < ilen /\ c # d /\ c = 0
  <2>1. d = STAR
    BY ONLY <1>10, <1>13 DEF Told
  <2>2. d \notin {STAR}
    BY <1>3, <1>4, <1>13
  <2> QED
    BY <2>1, <2>2
<1>14. CASE a < ilen /\ c # d /\ d = 0
  <2>1. c = STAR /\ (c1 = 0 \/ a + 1 = ilen)
    BY ONLY <1>10, <1>14 DEF Told
  <2>2. a < n
    BY <1>3, <1>4, <1>14
  <2>3. a + 1 = n
    <3>1. a + 1 < n => c1 # 0
      BY <1>1 DEF c1
    <3>2. a + 1 <= n
      BY ONLY <2>2, a \in Nat, n \in Nat
    <3> QED
      BY ONLY <1>2, <2>1, <3>1, <3>2, a \in Nat, n \in Nat
  <2> QED
    BY ONLY <1>4, <1>9, <2>1, <2>2, <2>3
<1>15. CASE a < ilen /\ c # d /\ d # 0 /\ c = STAR
  <2>1. a < n /\ b < m
    BY <1>3, <1>4, <1>15 DEF STAR
  <2>2. TRUE = IF c1 = 0 THEN TRUE
               ELSE IF d1 # 0 /\ Found(lp2, c1, d, b + 1, ilen)
               THEN loop[a + 2][SearchEnd(lp2, c1, b + 1, ilen) + 1]
               ELSE a + 1 = ilen
    BY ONLY <1>10, <1>15 DEF Told
  <2>3. u[a + 1] = STAR
    BY ONLY <1>4, <1>15, <2>1
  <2>4. CASE a + 1 = n
    BY ONLY <1>9, <2>3, <2>4
  <2>5. CASE a + 1 < n
    <3>1. a + 1 \in Nat /\ c1 = u[a + 1 + 1] /\ c1 # 0
      BY <1>1, <2>5 DEF c1
    <3>2. a + 1 # ilen
      BY <1>2, <2>5
    <3>3. /\ d1 # 0 /\ Found(lp2, c1, d, b + 1, ilen)
          /\ loop[a + 2][SearchEnd(lp2, c1, b + 1, ilen) + 1]
      BY ONLY <2>2, <3>1, <3>2
    <3>4. b + 1 < m
      <4>1. b + 1 = m => d1 = 0
        BY <1>1 DEF d1
      <4> QED
        BY ONLY <2>1, <3>3, <4>1, b \in Nat, m \in Nat
    <3> PICK s \in Nat : s = b + 1
      OBVIOUS
    <3>5. /\ v \in String /\ ReadsAs(lp2, v) /\ c1 # 0 /\ s < Len(v) /\ ilen \in Nat /\ Len(v) <= ilen
          /\ Found(lp2, c1, d, s, ilen)
      BY <1>2, <3>1, <3>3, <3>4 DEF Compared
    <3>6. /\ SearchEnd(lp2, c1, s, ilen) \in Nat /\ s <= SearchEnd(lp2, c1, s, ilen)
          /\ SearchEnd(lp2, c1, s, ilen) < Len(v)
          /\ v[SearchEnd(lp2, c1, s, ilen) + 1] = c1
      BY ONLY <3>5, s \in Nat, SearchFinds
    <3> PICK e \in Nat : e = SearchEnd(lp2, c1, s, ilen)
      BY <3>6
    <3>7. b < e /\ e < m /\ v[e + 1] = c1 /\ loop[a + 2][e + 1]
      <4>1. s <= e /\ e < m
        BY <3>6
      <4> QED
        BY <3>3, <3>6, <4>1
    <3>8. FitsAt(u, v, a + 2, e + 1)
      <4>1. /\ a + 2 \in Nat /\ e + 1 \in Nat /\ a < a + 2 /\ a + 2 <= n /\ a + 2 <= e + 1
            /\ e + 1 <= m
        BY ONLY <2>5, <3>7, a \in Nat, b \in Nat, e \in Nat, n \in Nat, m \in Nat, a <= b
      <4> QED
        BY ONLY <1>5, <3>7, <4>1
    <3>9. FitsAt(u, v, a + 1, e)
      <4>1. c1 \notin {STAR}
        <5>1. v[e + 1] \notin {STAR}
          BY <1>1, <3>7
        <5> QED
          BY ONLY <3>7, <5>1
      <4> PICK x \in Nat : x = a + 1
        OBVIOUS
      <4>2. /\ Len(u) \in Nat /\ Len(v) \in Nat /\ x < Len(u) /\ e <= Len(v) /\ u[x + 1] # STAR
            /\ e < Len(v) /\ u[x + 1] = v[e + 1]
        BY <1>0, <2>5, <3>1, <3>7, <4>1
      <4>3. FitsAt(u, v, x, e)
              <=> e < Len(v) /\ u[x + 1] \in {v[e + 1], ANY} /\ FitsAt(u, v, x + 1, e + 1)
        BY ONLY <4>2, x \in Nat, e \in Nat, FitsAtNext
      <4>4. x + 1 = a + 2
        BY ONLY x = a + 1, a \in Nat
      <4> QED
        BY ONLY <3>8, <4>2, <4>3, <4>4, x = a + 1
    <3>10. b <= e /\ e <= m
      BY <3>7
    <3> QED
      BY ONLY <1>7, <2>1, <2>3, <3>9, <3>10, e \in Nat
  <2> QED
    BY <2>1, <2>4, <2>5
<1>16. CASE a < ilen /\ c # d /\ c \notin {0, STAR} /\ d # 0
  <2>1. a < n /\ b < m
    BY <1>3, <1>4, <1>16
  <2>2. d \notin {0, STAR}
    BY <1>4, <2>1
  <2>3. ANY \in {c, d} /\ loop[a + 1][b + 1]
    BY ONLY <1>10, <1>16, <2>2 DEF Told
  <2>4. u[a + 1] = ANY /\ u[a + 1] # STAR
    BY ONLY <1>4, <1>16, <2>1, <2>3
  <2>5. FitsAt(u, v, a + 1, b + 1)
    <3>1. a + 1 \in Nat /\ b + 1 \in Nat /\ a < a + 1 /\ a + 1 <= n /\ a + 1 <= b + 1 /\ b + 1 <= m
      BY <2>1
    <3> QED
      BY ONLY <1>5, <2>3, <3>1
  <2> QED
    BY ONLY <1>6, <2>1, <2>4, <2>5
<1>17. a >= ilen \/ a < ilen
  BY <1>2
<1> QED
  BY ONLY <1>11, <1>12, <1>13, <1>14, <1>15, <1>16, <1>17
LEMMA LoopSound ==
  ASSUME NEW lp1, NEW lp2, NEW u, NEW v, NEW ilen, Compared(lp1, lp2, u, v, ilen),
         WildLoop(lp1, lp2, ilen)[0][0]
  PROVE  Glob(u, v)
<1> PICK n \in Nat, m \in Nat : n = Len(u) /\ m = Len(v)
  BY ComparedAt
<1> DEFINE loop == WildLoop(lp1, lp2, ilen)
           Good(a) == \A b \in Nat : a <= b /\ b <= m /\ loop[a][b] => FitsAt(u, v, a, b)
           G == {i \in 1..(n + 1) : \A a \in Nat : i = a + 1 => Good(a)}
<1>1. ilen \in Nat
  BY DEF Compared
<1>2. ASSUME NEW i \in 1..(n + 1), \A k \in (i + 1)..(n + 1) : k \in G
      PROVE  i \in G
  <2> SUFFICES ASSUME NEW a \in Nat, i = a + 1, NEW b \in Nat, a <= b, b <= m, loop[a][b]
               PROVE  FitsAt(u, v, a, b)
    OBVIOUS
  <2>1. a <= n
    OBVIOUS
  <2>2. Told(loop[a][b], lp1, lp2, ilen, loop, a, b,
             Char(lp1, a), Char(lp2, b), Char(lp1, a + 1), Char(lp2, b + 1))
    BY <1>1, LoopTold
  <2>3. ASSUME NEW k \in Nat, a < k, k <= n PROVE Good(k)
    <3>1. k + 1 \in (i + 1)..(n + 1)
      BY <2>3
    <3> HIDE DEF Good
    <3> QED
      BY <1>2, <3>1
  <2> HIDE DEF loop
  <2>4. \A k, l \in Nat : a < k /\ k <= n /\ k <= l /\ l <= m /\ loop[k][l] => FitsAt(u, v, k, l)
    BY <2>3
  <2>5. a <= Len(u) /\ b <= Len(v)
        /\ \A k, l \in Nat : a < k /\ k <= Len(u) /\ k <= l /\ l <= Len(v) /\ loop[k][l]
                               => FitsAt(u, v, k, l)
    BY <2>1, <2>4
  <2>6. a <= b /\ loop[a][b] /\ Compared(lp1, lp2, u, v, ilen)
    OBVIOUS
  <2> QED
    BY ONLY <2>2, <2>5, <2>6, a \in Nat, b \in Nat, TurnSound
<1> HIDE DEF G
<1>3. \A i \in 1..(n + 1) : i \in G
  BY ONLY n \in Nat, <1>2, Downwards
<1>4. 1 \in 1..(n + 1) /\ 1 = 0 + 1 /\ 0 \in Nat /\ 0 <= 0 /\ 0 <= m
  OBVIOUS
<1>5. Good(0)
  <2> HIDE DEF Good
  <2> QED
    BY <1>3, <1>4 DEF G
<1>6. FitsAt(u, v, 0, 0)
  BY <1>4, <1>5
<1>7. 0 + 1 = 1
  OBVIOUS
<1> QED
  BY ONLY <1>6, <1>7 DEF Glob, FitsAt

(* What fits is taken, when the mask has a star at its end only: up to it  *)
(* as many characters of the mask are passed as of the name.               *)
LEMMA TurnComplete ==
  ASSUME NEW lp1, NEW lp2, NEW u, NEW v, NEW ilen, Compared(lp1, lp2, u, v, ilen),
         \A k \in 1..Len(u) : u[k] = STAR => k = Len(u),
         NEW a \in Nat, a <= Len(u), a <= Len(v), FitsAt(u, v, a, a),
         NEW loop,
         Told(loop[a][a], lp1, lp2, ilen, loop, a, a,
              Char(lp1, a), Char(lp2, a), Char(lp1, a + 1), Char(lp2, a + 1)),
         a + 1 <= Len(u) /\ a + 1 <= Len(v) /\ FitsAt(u, v, a + 1, a + 1) => loop[a + 1][a + 1]
  PROVE  loop[a][a]
<1>0. Len(u) \in Nat /\ Len(v) \in Nat
  BY ComparedAt
<1> PICK n \in Nat, m \in Nat : n = Len(u) /\ m = Len(v)
  BY <1>0
<1> DEFINE c == Char(lp1, a)  d == Char(lp2, a)  c1 == Char(lp1, a + 1)  d1 == Char(lp2, a + 1)
<1>1. /\ \A k \in Nat : k < n => Char(lp1, k) = u[k + 1] /\ Char(lp1, k) # 0
      /\ \A k \in Nat : k < m => Char(lp2, k) = v[k + 1] /\ Char(lp2, k) \notin {0, STAR, ANY}
      /\ Char(lp1, n) = 0 /\ Char(lp2, m) = 0
  BY ComparedAt
<1>2. ilen \in Nat /\ n <= ilen /\ m <= ilen /\ ilen \in {n, m}
  BY DEF Compared
<1>3. /\ a < n \/ a = n
      /\ a < m \/ a = m
  OBVIOUS
<1>4. /\ a < n => c = u[a + 1] /\ c # 0
      /\ a = n => c = 0
      /\ a < m => d = v[a + 1] /\ d \notin {0, STAR, ANY}
      /\ a = m => d = 0
  BY <1>1
<1>5. ASSUME a < n, u[a + 1] # STAR
      PROVE  a < m /\ u[a + 1] \in {v[a + 1], ANY} /\ FitsAt(u, v, a + 1, a + 1)
  BY <1>0, <1>5, FitsAtNext
<1>6. ASSUME a < n, u[a + 1] # STAR PROVE loop[a + 1][a + 1]
  <2>1. a + 1 <= n /\ a + 1 <= m
    BY <1>5, <1>6
  <2> QED
    BY <1>5, <1>6, <2>1
<1>7. ASSUME a < n, u[a + 1] = STAR PROVE a + 1 = n
  BY <1>7
<1>8. Told(loop[a][a], lp1, lp2, ilen, loop, a, a, c, d, c1, d1)
  OBVIOUS
<1> HIDE DEF c, d, c1, d1
<1>9. CASE a >= ilen
  <2>1. a = ilen
    BY <1>2, <1>9
  <2> QED
    BY ONLY <1>8, <1>9, <2>1 DEF Told
<1>10. CASE a < ilen /\ c = d
  <2>1. a < n /\ c # STAR
    BY <1>2, <1>3, <1>4, <1>10
  <2>2. loop[a + 1][a + 1]
    BY ONLY <1>4, <1>6, <2>1
  <2> QED
    BY ONLY <1>8, <1>10, <2>2 DEF Told
<1>11. CASE a < ilen /\ c # d /\ c = 0
  <2>1. a = n /\ a < m
    BY <1>3, <1>4, <1>11
  <2>2. FitsAt(u, v, n, a) <=> a = m
    BY <1>0, FitsAtEnd
  <2> QED
    BY <2>1, <2>2
<1>12. CASE a < ilen /\ c # d /\ d = 0
  <2>1. a < n /\ a = m
    BY <1>3, <1>4, <1>12
  <2>2. u[a + 1] = STAR
    BY ONLY <1>5, <2>1, a \in Nat, m \in Nat, a < m <=> a < m
  <2>3. a + 1 = n /\ c = STAR
    BY ONLY <1>4, <1>7, <2>1, <2>2
  <2>4. c1 = 0
    BY <1>1, <2>3 DEF c1
  <2> QED
    BY ONLY <1>8, <1>12, <2>3, <2>4 DEF Told
<1>13. CASE a < ilen /\ c # d /\ d # 0 /\ c = STAR
  <2>1. a < n
    BY <1>3, <1>4, <1>13 DEF STAR
  <2>2. a + 1 = n
    BY ONLY <1>4, <1>7, <1>13, <2>1
  <2>3. c1 = 0
    BY <1>1, <2>2 DEF c1
  <2> QED
    BY ONLY <1>8, <1>13, <2>3 DEF Told
<1>14. CASE a < ilen /\ c # d /\ c \notin {0, STAR} /\ d # 0
  <2>1. a < n /\ a < m
    BY <1>3, <1>4, <1>14
  <2>2. d \notin {0, STAR} /\ u[a + 1] # STAR
    BY ONLY <1>4, <1>14, <2>1
  <2>3. c = ANY /\ loop[a + 1][a + 1]
    BY ONLY <1>4, <1>5, <1>6, <1>14, <2>1, <2>2
  <2> QED
    BY ONLY <1>8, <1>14, <2>2, <2>3 DEF Told
<1>15. a >= ilen \/ a < ilen
  BY <1>2
<1> QED
  BY ONLY <1>9, <1>10, <1>11, <1>12, <1>13, <1>14, <1>15

LEMMA LoopComplete ==
  ASSUME NEW lp1, NEW lp2, NEW u, NEW v, NEW ilen, Compared(lp1, lp2, u, v, ilen),
         \A k \in 1..Len(u) : u[k] = STAR => k = Len(u), Glob(u, v)
  PROVE  WildLoop(lp1, lp2, ilen)[0][0]
<1> PICK n \in Nat, m \in Nat : n = Len(u) /\ m = Len(v)
  BY ComparedAt
<1> DEFINE loop == WildLoop(lp1, lp2, ilen)
           Good(a) == a <= n /\ a <= m /\ FitsAt(u, v, a, a) => loop[a][a]
           G == {i \in 1..(n + 1) : \A a \in Nat : i = a + 1 => Good(a)}
<1>1. ilen \in Nat
  BY DEF Compared
<1>2. ASSUME NEW i \in 1..(n + 1), \A k \in (i + 1)..(n + 1) : k \in G
      PROVE  i \in G
  <2> SUFFICES ASSUME NEW a \in Nat, i = a + 1, a <= n, a <= m, FitsAt(u, v, a, a)
               PROVE  loop[a][a]
    OBVIOUS
  <2>2. Told(loop[a][a], lp1, lp2, ilen, loop, a, a,
             Char(lp1, a), Char(lp2, a), Char(lp1, a + 1), Char(lp2, a + 1))
    BY <1>1, LoopTold
  <2>3. ASSUME a + 1 <= n PROVE Good(a + 1)
    <3>1. a + 1 + 1 \in (i + 1)..(n + 1) /\ a + 1 \in Nat
      BY <2>3
    <3> HIDE DEF Good
    <3> QED
      BY <1>2, <3>1
  <2> HIDE DEF loop
  <2>4. /\ a <= Len(u) /\ a <= Len(v) /\ FitsAt(u, v, a, a) /\ Compared(lp1, lp2, u, v, ilen)
        /\ a + 1 <= Len(u) /\ a + 1 <= Len(v) /\ FitsAt(u, v, a + 1, a + 1) => loop[a + 1][a + 1]
        /\ \A k \in 1..Len(u) : u[k] = STAR => k = Len(u)
    BY <2>3
  <2> QED
    BY ONLY <2>2, <2>4, a \in Nat, TurnComplete
<1> HIDE DEF G
<1>3. \A i \in 1..(n + 1) : i \in G
  BY ONLY n \in Nat, <1>2, Downwards
<1>4. 1 \in 1..(n + 1) /\ 1 = 0 + 1 /\ 0 \in Nat /\ 0 <= n /\ 0 <= m
  OBVIOUS
<1>5. Good(0)
  <2> HIDE DEF Good
  <2> QED
    BY <1>3, <1>4 DEF G
<1>6. FitsAt(u, v, 0, 0)
  <2>1. 0 + 1 = 1
    OBVIOUS
  <2> QED
    BY <2>1 DEF Glob, FitsAt
<1> QED
  BY <1>4, <1>5, <1>6

-----------------------------------------------------------------------------
(* What the buffers of MatchFiles hold.                                    *)

LEMMA UpperIs ==
  ASSUME NEW w \in String
  PROVE  /\ Upper(w) \in String /\ Len(Upper(w)) = Len(w)
         /\ \A k \in 1..Len(w) : /\ Upper(w)[k] = ToUpper(w[k])
                                 /\ Upper(w)[k] = STAR <=> w[k] = STAR
                                 /\ Upper(w)[k] = ANY <=> w[k] = ANY
                                 /\ Upper(w)[k] = DOT <=> w[k] = DOT
<1>1. w \in Seq(Byte \ {0})
  BY DEF String
<1> PICK n \in Nat : n = Len(w)
  BY <1>1
<1>2. DOMAIN w = 1..n /\ \A k \in 1..n : w[k] \in Byte \ {0}
  BY <1>1
<1>3. \A c \in Byte \ {0} : /\ ToUpper(c) \in Byte \ {0}
                            /\ ToUpper(c) = STAR <=> c = STAR
                            /\ ToUpper(c) = ANY <=> c = ANY
                            /\ ToUpper(c) = DOT <=> c = DOT
  BY DEF ToUpper, Byte, STAR, ANY, DOT
<1>4. Upper(w) = [k \in 1..n |-> ToUpper(w[k])]
  BY <1>2 DEF Upper
<1>5. Upper(w) \in Seq(Byte \ {0}) /\ Len(Upper(w)) = n
  BY <1>2, <1>3, <1>4
<1> QED
  BY <1>2, <1>3, <1>4, <1>5 DEF String

(* A buffer that holds a string, with a NUL behind it.                     *)
Holding(buf, w) ==
  /\ buf \in Seq(Byte) /\ w \in String /\ Len(w) < Len(buf)
  /\ \A k \in 1..Len(w) : buf[k] = w[k]
  /\ buf[Len(w) + 1] = 0

LEMMA HoldingIs ==
  ASSUME NEW buf, NEW w, Holding(buf, w)
  PROVE  StrLen(buf) = Len(w) /\ SubSeq(buf, 1, Len(w)) = w /\ ReadsAs(buf, Upper(w))
<1>1. /\ buf \in Seq(Byte) /\ w \in Seq(Byte \ {0}) /\ w \in String /\ Len(w) < Len(buf)
      /\ \A k \in 1..Len(w) : buf[k] = w[k]
      /\ buf[Len(w) + 1] = 0
  BY DEF Holding, String
<1> PICK n \in Nat, l \in Nat : n = Len(w) /\ l = Len(buf)
  BY <1>1
<1>2. n < l /\ n + 1 \in 1..l /\ \A k \in 1..n : k \in 1..l /\ buf[k] # 0
  BY <1>1
<1>3. StrLen(buf) = n
  <2> DEFINE I == {i \in 1..Len(buf) : buf[i] = 0}
  <2>1. n + 1 \in I
    BY <1>1, <1>2
  <2>2. SelectInSeq(buf, LAMBDA c : c = 0) = Min(I)
    BY <2>1 DEF SelectInSeq
  <2>3. ASSUME NEW i \in I PROVE n + 1 <= i
    <3>1. i \in 1..l /\ buf[i] = 0
      OBVIOUS
    <3>2. i \notin 1..n
      BY <1>2, <3>1
    <3> QED
      BY <3>1, <3>2
  <2>4. \A i \in I : i \in Nat
    OBVIOUS
  <2> HIDE DEF I
  <2>5. Min(I) \in I /\ \A y \in I : Min(I) <= y
    BY <2>1, <2>3 DEF Min
  <2>6. Min(I) = n + 1
    BY <2>1, <2>3, <2>4, <2>5
  <2> QED
    BY <2>2, <2>6 DEF StrLen
<1>4. SubSeq(buf, 1, n) = w
  <2> DEFINE v == SubSeq(buf, 1, n)
  <2>1. v \in Seq(Byte) /\ Len(v) = n
    BY ONLY <1>1, <1>2, l = Len(buf), l \in Nat, n \in Nat
  <2>2. \A k \in 1..n : v[k] = buf[k]
    BY ONLY <1>1, <1>2, n \in Nat, l = Len(buf), l \in Nat
  <2> HIDE DEF v
  <2>3. \A k \in 1..n : v[k] = w[k]
    BY <1>1, <2>2
  <2>4. w \in Seq(Byte) /\ Len(w) = n
    BY <1>1
  <2>5. v = w
    BY ONLY <2>1, <2>3, <2>4, n \in Nat
  <2> QED
    BY <2>5 DEF v
<1>5. ReadsAs(buf, Upper(w))
  <2>1. /\ Upper(w) \in Seq(Byte \ {0}) /\ Len(Upper(w)) = n
        /\ \A k \in 1..n : Upper(w)[k] = ToUpper(w[k])
    BY <1>1, UpperIs DEF String
  <2>2. ASSUME NEW j \in Nat, j < n
        PROVE  Char(buf, j) = Upper(w)[j + 1] /\ Upper(w)[j + 1] # 0
    <3>1. j < Len(buf) /\ j + 1 \in 1..n
      BY <1>2, <2>2
    <3>2. Upper(w)[j + 1] \in Byte \ {0}
      BY ONLY <2>1, <3>1, n \in Nat
    <3> QED
      BY <1>1, <2>1, <3>1, <3>2 DEF Char
  <2>3. Char(buf, n) = 0
    <3>1. Char(buf, n) = ToUpper(0)
      BY <1>1, <1>2 DEF Char
    <3> QED
      BY <3>1 DEF ToUpper
  <2> QED
    BY <2>1, <2>2, <2>3 DEF ReadsAs
<1> QED
  BY <1>3, <1>4, <1>5

LEMMA ClosedBy ==
  ASSUME NEW s \in Seq(Byte), NEW rest \in Seq(Byte)
  PROVE  /\ s \o <<0>> \o rest \in Seq(Byte)
         /\ Len(s \o <<0>> \o rest) = Len(s) + 1 + Len(rest)
         /\ \A k \in 1..Len(s) : (s \o <<0>> \o rest)[k] = s[k]
         /\ (s \o <<0>> \o rest)[Len(s) + 1] = 0
<1> PICK n \in Nat, r \in Nat : n = Len(s) /\ r = Len(rest)
  OBVIOUS
<1> DEFINE head == s \o <<0>>
<1>1. head \in Seq(Byte) /\ Len(head) = n + 1 /\ head[n + 1] = 0 /\ \A k \in 1..n : head[k] = s[k]
  <2>1. <<0>> \in Seq(Byte) /\ Len(<<0>>) = 1 /\ <<0>>[1] = 0
    BY DEF Byte
  <2> QED
    BY <2>1
<1> HIDE DEF head
<1> DEFINE all == head \o rest
<1>2. all \in Seq(Byte) /\ Len(all) = n + 1 + r
  BY <1>1
<1>3. \A k \in 1..(n + 1) : all[k] = head[k]
  BY <1>1
<1> HIDE DEF all
<1>4. n + 1 \in 1..(n + 1) /\ \A k \in 1..n : k \in 1..(n + 1)
  OBVIOUS
<1>5. all = s \o <<0>> \o rest
  BY DEF all, head
<1>6. /\ all \in Seq(Byte) /\ Len(all) = n + 1 + r /\ all[n + 1] = 0
      /\ \A k \in 1..n : all[k] = s[k]
  BY <1>1, <1>2, <1>3, <1>4
<1> QED
  BY ONLY <1>5, <1>6, n = Len(s), r = Len(rest)

LEMMA CopiedHolds ==
  ASSUME NEW buf \in Seq(Byte), NEW s \in String
  PROVE  Holding(Copied(buf, s), s)
<1>1. s \in Seq(Byte \ {0}) /\ s \in Seq(Byte)
  BY DEF String
<1> PICK n \in Nat, l \in Nat : n = Len(s) /\ l = Len(buf)
  BY <1>1
<1> DEFINE rest == SubSeq(buf, Len(s) + 2, Len(buf))
<1>2. rest \in Seq(Byte)
  <2>1. \A k \in (n + 2)..l : k \in 1..l /\ buf[k] \in Byte
    OBVIOUS
  <2> QED
    BY <2>1
<1>3. Copied(buf, s) = s \o <<0>> \o rest
  BY DEF Copied
<1> HIDE DEF rest
<1>4. /\ Copied(buf, s) \in Seq(Byte)
      /\ Len(Copied(buf, s)) = Len(s) + 1 + Len(rest)
      /\ \A k \in 1..Len(s) : Copied(buf, s)[k] = s[k]
      /\ Copied(buf, s)[Len(s) + 1] = 0
  BY ONLY <1>1, <1>2, <1>3, ClosedBy
<1>5. Len(rest) \in Nat
  BY <1>2
<1>6. Len(s) < Len(Copied(buf, s))
  BY <1>4, <1>5
<1> QED
  BY <1>1, <1>4, <1>6 DEF Holding

-----------------------------------------------------------------------------
(* The parts of a name, before and from its last dot.                      *)

(* The last dot of a name, zero when it has none.                          *)
LastDot(s) == LastIndexOf(s, DOT)

LEMMA LastDotIs ==
  ASSUME NEW s \in String
  PROVE  /\ LastDot(s) \in 0..Len(s)
         /\ LastDot(s) # 0 => s[LastDot(s)] = DOT /\ Dots(s) # {} /\ Max(Dots(s)) = LastDot(s)
         /\ LastDot(s) = 0 => Dots(s) = {}
         /\ \A k \in 1..Len(s) : s[k] = DOT => k <= LastDot(s)
<1>0. s \in Seq(Byte \ {0})
  BY DEF String
<1> PICK n \in Nat : n = Len(s)
  BY <1>0
<1> DEFINE I == {i \in 1..Len(s) : s[i] = DOT}
           L == LastDot(s)
<1>1. L = IF I # {} THEN Max(I) ELSE 0
  BY DEF LastDot, LastIndexOf, SelectLastInSeq
<1>2. I # {} => Max(I) \in I /\ \A k \in I : k <= Max(I)
  BY MaxIs
<1>3. 0 \in 0..n /\ 1..n \subseteq 0..n /\ 0 \notin 1..n
  OBVIOUS
<1>4. \A k \in 1..n : k \in I <=> s[k] = DOT
  OBVIOUS
<1>5. I \subseteq 1..n
  OBVIOUS
<1>6. Dots(s) = I
  <2>1. DOMAIN s = 1..n
    BY <1>0
  <2> QED
    BY <2>1 DEF Dots
<1> HIDE DEF I, L
<1>7. CASE I = {}
  <2>1. L = 0
    BY <1>1, <1>7
  <2> QED
    BY <1>3, <1>4, <1>6, <1>7, <2>1 DEF L
<1>8. CASE I # {}
  <2>1. L \in I /\ (\A k \in I : k <= L) /\ L = Max(I)
    BY <1>1, <1>2, <1>8
  <2> QED
    BY <1>3, <1>4, <1>5, <1>6, <1>8, <2>1 DEF L
<1> QED
  BY <1>7, <1>8

LEMMA BodyIs ==
  ASSUME NEW s \in String
  PROVE  /\ Body(s) \in String
         /\ LastDot(s) = 0 => Body(s) = s
         /\ LastDot(s) # 0 => Len(Body(s)) = LastDot(s) - 1
         /\ Len(Body(s)) <= Len(s)
         /\ \A k \in 1..Len(Body(s)) : Body(s)[k] = s[k]
<1>0. s \in Seq(Byte \ {0})
  BY DEF String
<1> PICK n \in Nat, d \in Nat : n = Len(s) /\ d = LastDot(s) /\ d <= n
  BY <1>0, LastDotIs
<1>1. CASE d = 0
  <2>1. Body(s) = s
    BY <1>1, LastDotIs DEF Body
  <2> QED
    BY <1>1, <2>1
<1>2. CASE d # 0
  <2>1. Body(s) = SubSeq(s, 1, d - 1)
    BY <1>2, LastDotIs DEF Body
  <2>2. PICK e \in Nat : e = d - 1 /\ e < n
    BY <1>2
  <2> DEFINE v == SubSeq(s, 1, e)
  <2>3. v \in Seq(Byte \ {0}) /\ Len(v) = e /\ \A k \in 1..e : v[k] = s[k]
    BY <1>0, <2>2
  <2> HIDE DEF v
  <2>4. Body(s) = v
    BY <2>1, <2>2 DEF v
  <2> QED
    BY <1>2, <2>2, <2>3, <2>4 DEF String
<1> QED
  BY <1>1, <1>2

LEMMA ExtIs ==
  ASSUME NEW s \in String
  PROVE  /\ Ext(s) \in String
         /\ LastDot(s) = 0 => Ext(s) = <<>>
         /\ LastDot(s) # 0 => /\ Len(Ext(s)) = Len(s) - LastDot(s) + 1
                              /\ Ext(s) = ExtOf(s)
         /\ \A k \in 1..Len(Ext(s)) : Ext(s)[k] = s[LastDot(s) + k - 1]
<1>0. s \in Seq(Byte \ {0})
  BY DEF String
<1> PICK n \in Nat, d \in Nat : n = Len(s) /\ d = LastDot(s) /\ d <= n
  BY <1>0, LastDotIs
<1>1. CASE d = 0
  <2>1. Ext(s) = <<>>
    BY <1>1, LastDotIs DEF Ext
  <2> QED
    BY <1>1, <2>1 DEF String
<1>2. CASE d # 0
  <2>1. Ext(s) = SubSeq(s, d, Len(s))
    BY <1>2, LastDotIs DEF Ext
  <2>2. d \in 1..(Len(s) + 1)
    BY <1>2
  <2>3. /\ Ext(s) \in String /\ Len(Ext(s)) = n - d + 1
        /\ \A k \in 1..Len(Ext(s)) : Ext(s)[k] = s[d + k - 1]
    BY <2>1, <2>2, RestIs
  <2>4. Ext(s) = ExtOf(s)
    BY <1>2, <2>1 DEF ExtOf, LastDot
  <2> QED
    BY <1>2, <2>3, <2>4
<1> QED
  BY <1>1, <1>2

LEMMA ExtOfIs ==
  ASSUME NEW s \in String, s # <<>>
  PROVE  /\ ExtOf(s) \in String
         /\ LastDot(s) # 0 => ExtOf(s) = Ext(s)
         /\ LastDot(s) = 0 /\ s[Len(s)] = STAR => ExtOf(s) = <<STAR>>
         /\ LastDot(s) = 0 /\ s[Len(s)] # STAR => ExtOf(s) = <<>>
<1>1. <<STAR>> \in String /\ <<>> \in String
  BY DEF String, STAR, Byte
<1>2. LastDot(s) \in Nat
  BY LastDotIs DEF String
<1>3. CASE LastDot(s) # 0
  BY <1>3, ExtIs
<1>4. CASE LastDot(s) = 0
  <2>1. ExtOf(s) = IF s[Len(s)] = STAR THEN <<STAR>> ELSE <<>>
    BY <1>4 DEF ExtOf, LastDot
  <2> QED
    BY <1>1, <1>4, <2>1
<1> QED
  BY <1>3, <1>4

LEMMA SameString ==
  ASSUME NEW s \in String, NEW t \in String, Len(s) = Len(t), \A k \in 1..Len(s) : s[k] = t[k]
  PROVE  s = t
<1>1. s \in Seq(Byte \ {0}) /\ t \in Seq(Byte \ {0})
  BY DEF String
<1> PICK n \in Nat : n = Len(s) /\ n = Len(t)
  BY <1>1
<1> QED
  BY <1>1

LEMMA UpperParts ==
  ASSUME NEW s \in String
  PROVE  /\ LastDot(Upper(s)) = LastDot(s)
         /\ Body(Upper(s)) = Upper(Body(s))
         /\ Ext(Upper(s)) = Upper(Ext(s))
<1> DEFINE u == Upper(s)
<1>1. /\ u \in String /\ Len(u) = Len(s)
      /\ \A k \in 1..Len(s) : u[k] = ToUpper(s[k]) /\ (u[k] = DOT <=> s[k] = DOT)
  BY UpperIs
<1> HIDE DEF u
<1> PICK n \in Nat, d \in Nat, e \in Nat :
      n = Len(s) /\ d = LastDot(s) /\ d <= n /\ e = LastDot(u) /\ e <= n
  BY <1>1, LastDotIs DEF String
<1>2. d = e
  <2>1. d # 0 => d \in 1..n /\ s[d] = DOT
    BY LastDotIs
  <2>2. e # 0 => e \in 1..n /\ u[e] = DOT
    BY <1>1, LastDotIs
  <2>3. (\A k \in 1..n : s[k] = DOT => k <= d) /\ (\A k \in 1..n : u[k] = DOT => k <= e)
    BY <1>1, LastDotIs
  <2>4. d # 0 => d <= e
    BY <1>1, <2>1, <2>3
  <2>5. e # 0 => e <= d
    BY <1>1, <2>2, <2>3
  <2> QED
    BY ONLY <2>4, <2>5, d \in Nat, e \in Nat
<1>3. Body(u) = Upper(Body(s))
  <2> DEFINE b == Body(s)
             v == Upper(b)
             w == Body(u)
  <2>1. /\ b \in String /\ Len(b) <= n /\ \A k \in 1..Len(b) : b[k] = s[k]
        /\ d = 0 => b = s
        /\ d # 0 => Len(b) = d - 1
    BY BodyIs
  <2>2. /\ w \in String /\ Len(w) <= n /\ \A k \in 1..Len(w) : w[k] = u[k]
        /\ d = 0 => w = u
        /\ d # 0 => Len(w) = d - 1
    BY <1>1, <1>2, BodyIs
  <2>3. v \in String /\ Len(v) = Len(b) /\ \A k \in 1..Len(b) : v[k] = ToUpper(b[k])
    BY <2>1, UpperIs
  <2> HIDE DEF b, v, w
  <2>4. Len(b) = Len(w)
    BY <1>1, <2>1, <2>2
  <2>5. \A k \in 1..Len(b) : k \in 1..n
    BY <2>1 DEF String
  <2>6. \A k \in 1..Len(w) : w[k] = v[k]
    BY <1>1, <2>1, <2>2, <2>3, <2>4, <2>5
  <2>7. w = v
    BY <2>2, <2>3, <2>4, <2>6, SameString
  <2> QED
    BY <2>7 DEF b, v, w
<1>4. Ext(u) = Upper(Ext(s))
  <2> DEFINE b == Ext(s)
             v == Upper(b)
             w == Ext(u)
  <2>1. /\ b \in String /\ \A k \in 1..Len(b) : b[k] = s[d + k - 1]
        /\ d = 0 => b = <<>>
        /\ d # 0 => Len(b) = n - d + 1
    BY ExtIs
  <2>2. /\ w \in String /\ \A k \in 1..Len(w) : w[k] = u[d + k - 1]
        /\ d = 0 => w = <<>>
        /\ d # 0 => Len(w) = n - d + 1
    BY <1>1, <1>2, ExtIs
  <2>3. v \in String /\ Len(v) = Len(b) /\ \A k \in 1..Len(b) : v[k] = ToUpper(b[k])
    BY <2>1, UpperIs
  <2> HIDE DEF b, v, w
  <2>4. Len(b) = Len(w)
    BY <1>1, <2>1, <2>2
  <2>5. ASSUME NEW k \in 1..Len(b) PROVE d + k - 1 \in 1..n
    <3>1. CASE d = 0
      <4>1. Len(b) = 0
        BY <2>1, <3>1
      <4> QED
        BY <4>1
    <3>2. CASE d # 0
      <4>1. k \in 1..(n - d + 1)
        BY <2>1, <3>2
      <4> QED
        BY ONLY <3>2, <4>1, d \in Nat, n \in Nat
    <3> QED
      BY <3>1, <3>2
  <2>6. \A k \in 1..Len(w) : w[k] = v[k]
    BY <1>1, <2>1, <2>2, <2>3, <2>4, <2>5
  <2>7. w = v
    BY <2>2, <2>3, <2>4, <2>6, SameString
  <2> QED
    BY <2>7 DEF b, v, w
<1> QED
  BY <1>2, <1>3, <1>4 DEF u

LEMMA BodyBufHolds ==
  ASSUME NEW buf \in Seq(Byte), NEW s \in String
  PROVE  Holding(BodyBuf(buf, s), Body(s))
<1> DEFINE c == Copied(buf, s)
<1>1. Holding(c, s)
  BY CopiedHolds
<1> HIDE DEF c
<1>2. /\ c \in Seq(Byte) /\ Len(s) < Len(c) /\ \A k \in 1..Len(s) : c[k] = s[k]
      /\ c[Len(s) + 1] = 0
  BY <1>1 DEF Holding
<1> PICK n \in Nat, d \in Nat, m \in Nat :
      n = Len(s) /\ d = LastDot(s) /\ d <= n /\ m = Len(c)
  BY <1>2, LastDotIs DEF String
<1>3. CASE d = 0
  <2>1. BodyBuf(buf, s) = c
    BY <1>3 DEF BodyBuf, LastDot, c
  <2>2. Body(s) = s
    BY <1>3, BodyIs
  <2> QED
    BY <1>1, <2>1, <2>2
<1>4. CASE d # 0
  <2>1. BodyBuf(buf, s) = [c EXCEPT ![d] = 0]
    BY <1>4 DEF BodyBuf, LastDot, c
  <2>2. d \in 1..m /\ 0 \in Byte
    BY <1>2, <1>4 DEF Byte
  <2> DEFINE v == [c EXCEPT ![d] = 0]
  <2>3. v \in Seq(Byte) /\ Len(v) = m /\ v[d] = 0 /\ \A k \in 1..m : k # d => v[k] = c[k]
    BY <1>2, <2>2
  <2> HIDE DEF v
  <2>4. Body(s) \in String /\ Len(Body(s)) = d - 1 /\ \A k \in 1..Len(Body(s)) : Body(s)[k] = s[k]
    BY <1>4, BodyIs
  <2>5. \A k \in 1..(d - 1) : k \in 1..n /\ k \in 1..m /\ k # d
    BY <1>2
  <2>6. \A k \in 1..Len(Body(s)) : v[k] = Body(s)[k]
    BY <1>2, <2>3, <2>4, <2>5
  <2>7. Len(Body(s)) + 1 = d /\ Len(Body(s)) < m
    BY <1>2, <1>4, <2>4
  <2>8. Holding(v, Body(s))
    BY <2>3, <2>4, <2>6, <2>7 DEF Holding
  <2> QED
    BY <2>1, <2>8 DEF v
<1> QED
  BY <1>3, <1>4

-----------------------------------------------------------------------------
(* WildComp2 on two buffers.                                               *)

(* A string with no wild card.                                             *)
NoWild(w) == \A k \in 1..Len(w) : w[k] \notin {STAR, ANY}

LEMMA BlankIs ==
  ASSUME NEW w \in String
  PROVE  w = <<>> <=> Len(w) = 0
<1>1. <<>> \in String /\ Len(<<>>) = 0
  BY DEF String
<1>2. ASSUME Len(w) = 0 PROVE w = <<>>
  <2>1. Len(w) = Len(<<>>) /\ \A k \in 1..Len(w) : w[k] = <<>>[k]
    BY <1>1, <1>2
  <2> QED
    BY <1>1, <2>1, SameString
<1> QED
  BY <1>1, <1>2

LEMMA WildSplit ==
  ASSUME NEW b1, NEW w1, Holding(b1, w1), NEW b2, NEW w2, Holding(b2, w2), NoWild(w2)
  PROVE  /\ Len(w1) = 0 => (WildComp2(b1, b2) <=> w2 \in {<<STAR>>, <<DOT, STAR>>})
         /\ Len(w1) # 0 /\ Len(w2) = 0 =>
              (WildComp2(b1, b2) <=> w1 \in {<<STAR>>, <<DOT, STAR>>})
         /\ Len(w1) # 0 /\ Len(w2) # 0 =>
              \E ilen \in Nat : /\ Compared(b1, b2, Upper(w1), Upper(w2), ilen)
                                /\ WildComp2(b1, b2) <=> WildLoop(b1, b2, ilen)[0][0]
<1>1. /\ StrLen(b1) = Len(w1) /\ SubSeq(b1, 1, Len(w1)) = w1 /\ ReadsAs(b1, Upper(w1))
      /\ StrLen(b2) = Len(w2) /\ SubSeq(b2, 1, Len(w2)) = w2 /\ ReadsAs(b2, Upper(w2))
      /\ w1 \in String /\ w2 \in String
  BY HoldingIs DEF Holding
<1> PICK n \in Nat, m \in Nat : n = Len(w1) /\ m = Len(w2)
  BY <1>1 DEF String
<1>2. SubSeq(b1, 1, StrLen(b1)) = w1 /\ SubSeq(b2, 1, StrLen(b2)) = w2
  BY <1>1
<1>3. CASE n = 0
  BY <1>1, <1>2, <1>3 DEF WildComp2
<1>4. CASE n # 0 /\ m = 0
  BY <1>1, <1>2, <1>4 DEF WildComp2
<1>5. CASE n # 0 /\ m # 0
  <2> DEFINE ilen == IF n < m THEN m ELSE n
  <2>1. WildComp2(b1, b2) = WildLoop(b1, b2, ilen)[0][0]
    BY <1>1, <1>5 DEF WildComp2
  <2>2. /\ Upper(w1) \in String /\ Len(Upper(w1)) = n
        /\ Upper(w2) \in String /\ Len(Upper(w2)) = m
        /\ \A k \in 1..m : /\ Upper(w2)[k] = STAR <=> w2[k] = STAR
                           /\ Upper(w2)[k] = ANY <=> w2[k] = ANY
    BY <1>1, UpperIs
  <2>3. ilen \in Nat /\ n <= ilen /\ m <= ilen /\ ilen \in {n, m}
    OBVIOUS
  <2> HIDE DEF ilen
  <2>4. Compared(b1, b2, Upper(w1), Upper(w2), ilen)
    BY <1>1, <2>2, <2>3 DEF Compared, NoWild
  <2> QED
    BY <1>5, <2>1, <2>3, <2>4
<1> QED
  BY <1>3, <1>4, <1>5

LEMMA WildSound ==
  ASSUME NEW b1, NEW w1, Holding(b1, w1), NEW b2, NEW w2, Holding(b2, w2), NoWild(w2),
         WildComp2(b1, b2)
  PROVE  Glob(Upper(w1), Upper(w2)) \/ (w1 = <<DOT, STAR>> /\ w2 = <<>>)
<1>1. w1 \in String /\ w2 \in String
  BY DEF Holding
<1> PICK n \in Nat, m \in Nat : n = Len(w1) /\ m = Len(w2)
  BY <1>1 DEF String
<1>2. CASE n = 0
  <2>1. w2 \in {<<STAR>>, <<DOT, STAR>>}
    BY <1>2, WildSplit
  <2>2. \E k \in 1..Len(w2) : w2[k] = STAR
    <3>1. CASE w2 = <<STAR>>
      <4>1. Len(w2) = 1 /\ w2[1] = STAR /\ 1 \in 1..1
        BY <3>1
      <4> QED
        BY <4>1
    <3>2. CASE w2 = <<DOT, STAR>>
      <4>1. Len(w2) = 2 /\ w2[2] = STAR /\ 2 \in 1..2
        BY <3>2
      <4> QED
        BY <4>1
    <3> QED
      BY <2>1, <3>1, <3>2
  <2> QED
    BY <2>2 DEF NoWild
<1>3. CASE n # 0 /\ m = 0
  <2>1. w2 = <<>>
    BY <1>1, <1>3, BlankIs
  <2>2. w1 \in {<<STAR>>, <<DOT, STAR>>}
    BY <1>3, WildSplit
  <2>3. CASE w1 = <<STAR>>
    <3> DEFINE u == Upper(w1)
               v == Upper(w2)
    <3>1. n = 1 /\ w1[1] = STAR
      BY <2>3
    <3>2. Len(u) = 1 /\ Len(v) = 0 /\ u[1] = STAR
      <4>1. Len(u) = Len(w1) /\ Len(v) = Len(w2) /\ \A k \in 1..Len(w1) : u[k] = STAR <=> w1[k] = STAR
        BY <1>1, UpperIs
      <4>2. 1 \in 1..n
        BY <3>1
      <4> QED
        BY <1>3, <3>1, <4>1, <4>2
    <3> HIDE DEF u, v
    <3>3. \A k \in (0 + 1)..Len(u) : u[k] = STAR
      BY <3>2
    <3>4. FitsAt(u, v, 0, Len(v))
      <4>1. Len(u) \in Nat /\ Len(v) \in Nat /\ 0 \in Nat /\ 0 <= Len(u)
        BY <3>2
      <4> QED
        BY <3>3, <4>1, FitsAtEnd
    <3>5. Glob(u, v)
      BY <3>2, <3>4 DEF FitsAt, Glob
    <3> QED
      BY <3>5 DEF u, v
  <2> QED
    BY <2>1, <2>2, <2>3
<1>4. CASE n # 0 /\ m # 0
  <2>1. PICK ilen \in Nat : /\ Compared(b1, b2, Upper(w1), Upper(w2), ilen)
                            /\ WildLoop(b1, b2, ilen)[0][0]
    BY <1>4, WildSplit
  <2> QED
    BY <2>1, LoopSound
<1> QED
  BY <1>2, <1>3, <1>4

LEMMA WildComplete ==
  ASSUME NEW b1, NEW w1, Holding(b1, w1), NEW b2, NEW w2, Holding(b2, w2), NoWild(w2),
         w1 # <<>>, \A k \in 1..Len(w1) : w1[k] = STAR => k = Len(w1),
         Glob(Upper(w1), Upper(w2)) \/ (w1 = <<DOT, STAR>> /\ w2 = <<>>)
  PROVE  WildComp2(b1, b2)
<1>1. w1 \in String /\ w2 \in String
  BY DEF Holding
<1> PICK n \in Nat, m \in Nat : n = Len(w1) /\ m = Len(w2)
  BY <1>1 DEF String
<1>2. n # 0
  BY <1>1 DEF String
<1> DEFINE u == Upper(w1)
           v == Upper(w2)
<1>3. Len(u) = n /\ Len(v) = m /\ \A k \in 1..n : u[k] = STAR <=> w1[k] = STAR
  BY <1>1, UpperIs
<1>4. CASE m = 0
  <2>1. CASE w1 = <<DOT, STAR>>
    BY <1>2, <1>4, <2>1, WildSplit
  <2>2. CASE Glob(u, v)
    <3> HIDE DEF u, v
    <3>1. FitsAt(u, v, 0, Len(v))
      BY <1>3, <1>4, <2>2 DEF FitsAt, Glob
    <3>2. Len(u) \in Nat /\ Len(v) \in Nat /\ 0 \in Nat /\ 0 <= Len(u)
      BY <1>3
    <3>3. \A k \in (0 + 1)..Len(u) : u[k] = STAR
      BY ONLY <3>1, <3>2, FitsAtEnd
    <3>4. \A k \in 1..n : w1[k] = STAR
      BY <1>3, <3>3
    <3>5. n = 1 /\ w1[1] = STAR
      <4>1. 1 \in 1..n
        BY <1>2
      <4> QED
        BY <3>4, <4>1
    <3>6. w1 = <<STAR>>
      BY <1>1, <3>5, DotStarIs
    <3> QED
      BY <1>2, <1>4, <3>6, WildSplit
  <2> QED
    BY <2>1, <2>2
<1>5. CASE m # 0
  <2>1. Glob(u, v)
    BY <1>5
  <2>2. PICK ilen \in Nat : /\ Compared(b1, b2, u, v, ilen)
                            /\ WildComp2(b1, b2) <=> WildLoop(b1, b2, ilen)[0][0]
    BY <1>2, <1>5, WildSplit
  <2> HIDE DEF u, v
  <2>3. \A k \in 1..Len(u) : u[k] = STAR => k = Len(u)
    BY <1>3
  <2>4. WildLoop(b1, b2, ilen)[0][0]
    BY ONLY <2>1, <2>2, <2>3, LoopComplete
  <2> QED
    BY <2>2, <2>4
<1> QED
  BY <1>4, <1>5

(* What * and .* fit.                                                      *)
LEMMA StarFits ==
  ASSUME NEW u \in String, NEW v \in String, Len(u) # 0, u[Len(u)] = STAR,
         \A k \in 1..Len(u) : k < Len(u) => k <= Len(v) /\ u[k] = v[k],
         Len(u) <= 2
  PROVE  Glob(u, v)
<1> PICK n \in Nat, m \in Nat : n = Len(u) /\ m = Len(v)
  BY DEF String
<1>0. Len(u) \in Nat /\ Len(v) \in Nat
  OBVIOUS
<1>1. FitsAt(u, v, Len(u), Len(v))
  BY FitsAtEnd
<1>2. PICK a \in Nat : a + 1 = n /\ a < n /\ (a = 0 \/ a = 1)
  <2>1. n - 1 \in Nat /\ n - 1 + 1 = n /\ (n - 1 = 0 \/ n - 1 = 1)
    OBVIOUS
  <2> QED
    BY <2>1
<1>3. a <= m
  <2>1. CASE a = 0
    BY <2>1
  <2>2. CASE a = 1
    <3>1. 1 \in 1..n /\ 1 < n
      BY <1>2, <2>2
    <3> QED
      BY <2>2, <3>1
  <2> QED
    BY <1>2, <2>1, <2>2
<1>4. FitsAt(u, v, a, a)
  <2>1. FitsAt(u, v, a, a) <=> \E e \in Nat : a <= e /\ e <= Len(v) /\ FitsAt(u, v, a + 1, e)
    BY <1>0, <1>2, <1>3, FitsAtStar
  <2> QED
    BY <1>1, <1>2, <1>3, <2>1
<1>5. CASE a = 0
  BY <1>4, <1>5 DEF FitsAt, Glob
<1>6. CASE a = 1
  <2>1. 1 \in 1..n /\ 1 < n
    BY <1>2, <1>6
  <2>2. u[0 + 1] = v[0 + 1] /\ 0 < Len(v) /\ 0 < Len(u) /\ 0 <= Len(v) /\ 0 \in Nat
    BY <2>1
  <2>3. CASE u[1] = STAR
    <3>1. FitsAt(u, v, 0, 0) <=>
            \E e \in Nat : 0 <= e /\ e <= Len(v) /\ FitsAt(u, v, 0 + 1, e)
      BY <1>0, <2>2, <2>3, FitsAtStar
    <3> QED
      BY <1>3, <1>4, <1>6, <3>1 DEF FitsAt, Glob
  <2>4. CASE u[1] # STAR
    <3>1. FitsAt(u, v, 0, 0)
            <=> 0 < Len(v) /\ u[0 + 1] \in {v[0 + 1], ANY} /\ FitsAt(u, v, 0 + 1, 0 + 1)
      BY <1>0, <2>2, <2>4, FitsAtNext
    <3> QED
      BY <1>4, <1>6, <2>2, <3>1 DEF FitsAt, Glob
  <2> QED
    BY <2>3, <2>4
<1> QED
  BY <1>2, <1>5, <1>6

-----------------------------------------------------------------------------
(* The compare of a name with a mask.                                      *)

(* What a mask means, in terms of the parts of the mask itself.            *)
LEMMA GlobNameIs ==
  ASSUME NEW mask \in String, mask # <<>>, NEW name \in String
  PROVE  /\ GlobName(mask, name) <=>
              /\ \/ Glob(Upper(Body(mask)), Upper(Body(name)))
                 \/ Body(mask) = <<DOT, STAR>> /\ Body(name) = <<>>
              /\ AnyExt(mask) \/ Glob(Upper(Ext(mask)), Upper(Ext(name)))
         /\ AnyExt(mask) <=> \/ Ext(mask) = <<DOT, STAR>>
                             \/ LastDot(mask) = 0 /\ mask[Len(mask)] = STAR
<1> DEFINE m == Upper(mask)
           s == Upper(name)
<1> PICK n \in Nat : n = Len(mask)
  BY DEF String
<1>0. n # 0 /\ n \in 1..n
  BY BlankIs
<1>1. /\ m \in String /\ Len(m) = n
      /\ m[n] = STAR <=> mask[n] = STAR
      /\ s \in String
  BY <1>0, UpperIs
<1>2. /\ Body(m) = Upper(Body(mask)) /\ Ext(m) = Upper(Ext(mask)) /\ LastDot(m) = LastDot(mask)
      /\ Body(s) = Upper(Body(name)) /\ Ext(s) = Upper(Ext(name))
  BY UpperParts
<1>3. Body(mask) \in String /\ Ext(mask) \in String /\ Body(name) \in String
  BY BodyIs, ExtIs
<1>4. ASSUME NEW w \in String PROVE Upper(w) = <<DOT, STAR>> <=> w = <<DOT, STAR>>
  <2>1. /\ Upper(w) \in String /\ Len(Upper(w)) = Len(w)
        /\ \A k \in 1..Len(w) : /\ Upper(w)[k] = STAR <=> w[k] = STAR
                                /\ Upper(w)[k] = DOT <=> w[k] = DOT
    BY UpperIs
  <2>2. ASSUME Len(w) = 2
        PROVE  /\ Upper(w)[1] = DOT <=> w[1] = DOT
               /\ Upper(w)[2] = STAR <=> w[2] = STAR
    <3>1. 1 \in 1..2 /\ 2 \in 1..2
      OBVIOUS
    <3> QED
      BY <2>1, <2>2, <3>1
  <2>3. w = <<DOT, STAR>> <=> Len(w) = 2 /\ w[1] = DOT /\ w[2] = STAR
    BY DotStarIs
  <2>4. Upper(w) = <<DOT, STAR>>
          <=> Len(Upper(w)) = 2 /\ Upper(w)[1] = DOT /\ Upper(w)[2] = STAR
    BY ONLY <2>1, DotStarIs
  <2> QED
    BY ONLY <2>1, <2>2, <2>3, <2>4
<1>5. ASSUME NEW w \in String PROVE Upper(w) = <<>> <=> w = <<>>
  <2>1. Upper(w) \in String /\ Len(Upper(w)) = Len(w)
    BY UpperIs
  <2>2. Upper(w) = <<>> <=> Len(Upper(w)) = 0
    BY ONLY <2>1, BlankIs
  <2>3. w = <<>> <=> Len(w) = 0
    BY BlankIs
  <2> QED
    BY ONLY <2>1, <2>2, <2>3
<1>6. LastDot(mask) = 0 <=> Dots(mask) = {}
  BY LastDotIs
<1>7. LastDot(m) = 0 <=> Dots(m) = {}
  BY <1>1, LastDotIs
<1> HIDE DEF m, s
<1>8. /\ AnyExt(mask) <=> \/ Ext(mask) = <<DOT, STAR>>
                          \/ LastDot(mask) = 0 /\ mask[Len(mask)] = STAR
      /\ AnyExt(m) <=> AnyExt(mask)
  <2>1. Ext(m) = <<DOT, STAR>> <=> Ext(mask) = <<DOT, STAR>>
    BY <1>2, <1>3, <1>4
  <2>2. m[Len(m)] = STAR <=> mask[Len(mask)] = STAR
    BY <1>1
  <2>3. Dots(m) = {} <=> Dots(mask) = {}
    BY <1>2, <1>6, <1>7
  <2>4. AnyExt(mask) <=> Ext(mask) = <<DOT, STAR>> \/ (Dots(mask) = {} /\ mask[Len(mask)] = STAR)
    BY DEF AnyExt
  <2>5. AnyExt(m) <=> Ext(m) = <<DOT, STAR>> \/ (Dots(m) = {} /\ m[Len(m)] = STAR)
    BY DEF AnyExt
  <2> QED
    BY ONLY <1>6, <2>1, <2>2, <2>3, <2>4, <2>5
<1>9. Body(m) = <<DOT, STAR>> /\ Body(s) = <<>> <=> Body(mask) = <<DOT, STAR>> /\ Body(name) = <<>>
  BY <1>2, <1>3, <1>4, <1>5
<1>10. GlobName(mask, name) <=>
         /\ Glob(Body(m), Body(s)) \/ (Body(m) = <<DOT, STAR>> /\ Body(s) = <<>>)
         /\ AnyExt(m) \/ Glob(Ext(m), Ext(s))
  BY DEF GlobName, m, s
<1> QED
  BY ONLY <1>2, <1>8, <1>9, <1>10

(* The two parts are the whole.                                            *)
LEMMA WholeIs ==
  ASSUME NEW m \in String, NEW s \in String, Body(m) = Body(s), Ext(m) = Ext(s)
  PROVE  m = s
<1> PICK n \in Nat, d \in Nat, l \in Nat, e \in Nat :
      n = Len(m) /\ d = LastDot(m) /\ d <= n /\ l = Len(s) /\ e = LastDot(s) /\ e <= l
  BY LastDotIs DEF String
<1> PICK x \in Nat, b \in Nat : x = Len(Ext(m)) /\ x = Len(Ext(s)) /\ b = Len(Body(m)) /\ b = Len(Body(s))
  <2>1. Ext(m) \in String /\ Body(m) \in String
    BY BodyIs, ExtIs
  <2> QED
    BY <2>1 DEF String
<1>1. /\ d = 0 => x = 0 /\ Body(m) = m
      /\ d # 0 => x = n - d + 1 /\ b = d - 1
      /\ e = 0 => x = 0 /\ Body(s) = s
      /\ e # 0 => x = l - e + 1 /\ b = e - 1
  <2>1. /\ d = 0 => Ext(m) = <<>> /\ Body(m) = m
        /\ d # 0 => Len(Ext(m)) = n - d + 1 /\ Len(Body(m)) = d - 1
        /\ e = 0 => Ext(s) = <<>> /\ Body(s) = s
        /\ e # 0 => Len(Ext(s)) = l - e + 1 /\ Len(Body(s)) = e - 1
    BY BodyIs, ExtIs
  <2>2. Len(<<>>) = 0
    OBVIOUS
  <2>3. x = Len(Ext(m)) /\ x = Len(Ext(s)) /\ b = Len(Body(m)) /\ b = Len(Body(s))
    OBVIOUS
  <2> QED
    BY ONLY <2>1, <2>2, <2>3
<1>2. d <= n /\ e <= l
  OBVIOUS
<1>3. CASE d = 0
  <2>1. e = 0
    BY ONLY <1>1, <1>2, <1>3, n \in Nat, d \in Nat, l \in Nat, e \in Nat, x \in Nat
  <2> QED
    BY <1>1, <1>3, <2>1
<1>4. CASE d # 0
  <2>1. e = d /\ l = n
    <3>1. e # 0
      BY ONLY <1>1, <1>2, <1>4, n \in Nat, d \in Nat, l \in Nat, e \in Nat, x \in Nat
    <3> QED
      BY ONLY <1>1, <1>4, <3>1, n \in Nat, d \in Nat, l \in Nat, e \in Nat, x \in Nat, b \in Nat
  <2>2. ASSUME NEW k \in 1..n PROVE m[k] = s[k]
    <3>1. CASE k < d
      <4>1. k \in 1..b
        BY ONLY <1>1, <1>4, <3>1, k \in 1..n, d \in Nat, n \in Nat, b \in Nat
      <4>2. (\A h \in 1..Len(Body(m)) : Body(m)[h] = m[h]) /\ \A h \in 1..Len(Body(s)) : Body(s)[h] = s[h]
        BY BodyIs
      <4>3. Body(m)[k] = m[k] /\ Body(s)[k] = s[k]
        BY <4>1, <4>2
      <4> QED
        BY <4>3
    <3>2. CASE d <= k
      <4>1. PICK f \in 1..x : d + f - 1 = k
        <5>1. k - d + 1 \in 1..x /\ d + (k - d + 1) - 1 = k
          BY ONLY <1>1, <1>4, <3>2, k \in 1..n, d \in Nat, n \in Nat, x \in Nat
        <5> QED
          BY <5>1
      <4>2. (\A h \in 1..Len(Ext(m)) : Ext(m)[h] = m[LastDot(m) + h - 1])
            /\ \A h \in 1..Len(Ext(s)) : Ext(s)[h] = s[LastDot(s) + h - 1]
        BY ExtIs
      <4>3. Ext(m)[f] = m[LastDot(m) + f - 1] /\ Ext(s)[f] = s[LastDot(s) + f - 1]
        BY <4>2
      <4>4. LastDot(m) = d /\ LastDot(s) = d
        BY <2>1
      <4>5. Ext(m)[f] = m[k] /\ Ext(s)[f] = s[k] /\ Ext(m) = Ext(s)
        BY <4>1, <4>3, <4>4
      <4> QED
        BY ONLY <4>5
    <3> QED
      BY <3>1, <3>2
  <2>3. Len(m) = Len(s) /\ \A k \in 1..Len(m) : m[k] = s[k]
    BY <2>1, <2>2
  <2> QED
    BY ONLY <2>3, m \in String, s \in String, SameString
<1> QED
  BY <1>3, <1>4

(* What has no wild card fits itself and nothing else.                     *)
LEMMA GlobSame ==
  ASSUME NEW u \in String, NoWild(u), NEW v \in String
  PROVE  Glob(u, v) <=> u = v
<1> PICK n \in Nat, m \in Nat : n = Len(u) /\ m = Len(v)
  BY DEF String
<1>1. ASSUME u = v PROVE Glob(u, v)
  <2>1. 1 \in 1..(Len(u) + 1)
    OBVIOUS
  <2>2. \A k \in 1..Len(u) : u[k] # STAR /\ u[k] = u[1 + k - 1]
    BY DEF NoWild
  <2>3. Len(u) \in Nat /\ Len(u) - 1 = Len(u) - 1
    OBVIOUS
  <2>4. Fits(u, u)[1][1]
    BY ONLY <2>1, <2>2, <2>3, FitsSame
  <2> QED
    BY <1>1, <2>4 DEF Glob
<1>2. ASSUME Glob(u, v) PROVE u = v
  <2>1. Len(u) \in Nat /\ Len(v) \in Nat /\ \A k \in 1..Len(u) : u[k] \notin {STAR, ANY}
    BY DEF NoWild
  <2>2. Len(u) = Len(v) /\ \A k \in 1..Len(u) : u[k] = v[k]
    BY ONLY <1>2, <2>1, FitsLiteral
  <2> QED
    BY <2>2, SameString
<1> QED
  BY <1>1, <1>2

LEMMA NoWildIs ==
  ASSUME NEW s \in String, ~GotWild(s)
  PROVE  /\ NoWild(s) /\ NoWild(Upper(s)) /\ NoWild(Body(s)) /\ NoWild(Ext(s))
         /\ s # <<>> => ExtOf(s) = Ext(s)
<1> PICK n \in Nat, d \in Nat : n = Len(s) /\ d = LastDot(s) /\ d <= n
  BY LastDotIs DEF String
<1>1. NoWild(s)
  <2>1. DOMAIN s = 1..Len(s)
    BY DEF String
  <2> QED
    BY <2>1 DEF GotWild, NoWild
<1>2. NoWild(Upper(s))
  BY <1>1, UpperIs DEF NoWild
<1>3. NoWild(Body(s))
  <2>1. /\ Len(Body(s)) <= Len(s) /\ Body(s) \in String
        /\ \A k \in 1..Len(Body(s)) : Body(s)[k] = s[k]
    BY BodyIs
  <2>2. \A k \in 1..Len(Body(s)) : k \in 1..Len(s)
    BY <2>1 DEF String
  <2> QED
    BY <1>1, <2>1, <2>2 DEF NoWild
<1>4. NoWild(Ext(s))
  <2>1. /\ \A k \in 1..Len(Ext(s)) : Ext(s)[k] = s[d + k - 1]
        /\ d = 0 => Ext(s) = <<>>
        /\ d # 0 => Len(Ext(s)) = n - d + 1
    BY ExtIs
  <2>2. ASSUME NEW k \in 1..Len(Ext(s)) PROVE d + k - 1 \in 1..n
    <3>1. CASE d = 0
      <4>1. Len(Ext(s)) = 0
        BY <2>1, <3>1
      <4> QED
        BY <4>1
    <3>2. CASE d # 0
      <4>1. k \in 1..(n - d + 1)
        BY <2>1, <3>2
      <4> QED
        BY ONLY <3>2, <4>1, d \in Nat, n \in Nat
    <3> QED
      BY <3>1, <3>2
  <2> QED
    BY <1>1, <2>1, <2>2 DEF NoWild
<1>5. ASSUME s # <<>> PROVE ExtOf(s) = Ext(s)
  <2>1. n \in 1..n
    BY <1>5, BlankIs
  <2>2. s[n] # STAR
    BY <1>1, <2>1 DEF NoWild
  <2> QED
    BY <1>5, <2>2, ExtOfIs, ExtIs
<1> QED
  BY <1>1, <1>2, <1>3, <1>4, <1>5

(* What MatchFiles compares, apart from where it stands.                   *)
PartsHeld(b1, e1, b2, e2, mask, name) ==
  /\ Holding(b1, Body(mask)) /\ Holding(e1, ExtOf(mask))
  /\ Holding(b2, Body(name)) /\ Holding(e2, ExtOf(name))

LEMMA StarLast ==
  ASSUME NEW w \in String, StarsAtEnd(w)
  PROVE  \A k \in 1..Len(w) : w[k] = STAR => k = Len(w)
<1>1. w \in Seq(Byte \ {0})
  BY DEF String
<1>2. ASSUME NEW k \in 1..Len(w), w[k] = STAR PROVE k = Len(w)
  <2>1. k \in DOMAIN w
    BY <1>1
  <2> QED
    BY <1>2, <2>1 DEF StarsAtEnd
<1> QED
  BY <1>2

LEMMA PartsMatched ==
  ASSUME NEW mask \in String, mask # <<>>, GotWild(mask),
         NEW name \in String, name # <<>>, ~GotWild(name),
         NEW b1, NEW e1, NEW b2, NEW e2, PartsHeld(b1, e1, b2, e2, mask, name)
  PROVE  /\ WildComp2(b1, b2) /\ WildComp2(e1, e2) => GlobName(mask, name)
         /\ Simple(mask) /\ GlobName(mask, name) => WildComp2(b1, b2) /\ WildComp2(e1, e2)
<1>1. /\ Holding(b1, Body(mask)) /\ Holding(b2, Body(name)) /\ NoWild(Body(name))
      /\ Holding(e1, ExtOf(mask)) /\ Holding(e2, Ext(name)) /\ NoWild(Ext(name))
  BY NoWildIs DEF PartsHeld
<1>2. /\ GlobName(mask, name) <=>
           /\ \/ Glob(Upper(Body(mask)), Upper(Body(name)))
              \/ Body(mask) = <<DOT, STAR>> /\ Body(name) = <<>>
           /\ AnyExt(mask) \/ Glob(Upper(Ext(mask)), Upper(Ext(name)))
      /\ AnyExt(mask) <=> \/ Ext(mask) = <<DOT, STAR>>
                          \/ LastDot(mask) = 0 /\ mask[Len(mask)] = STAR
  BY GlobNameIs
<1>3. /\ LastDot(mask) # 0 => ExtOf(mask) = Ext(mask)
      /\ LastDot(mask) = 0 /\ mask[Len(mask)] = STAR => ExtOf(mask) = <<STAR>>
      /\ LastDot(mask) = 0 /\ mask[Len(mask)] # STAR => ExtOf(mask) = <<>>
      /\ LastDot(mask) = 0 => Ext(mask) = <<>>
  BY ExtOfIs, ExtIs
<1>4. ASSUME WildComp2(b1, b2), WildComp2(e1, e2) PROVE GlobName(mask, name)
  <2>1. \/ Glob(Upper(Body(mask)), Upper(Body(name)))
        \/ Body(mask) = <<DOT, STAR>> /\ Body(name) = <<>>
    BY ONLY <1>1, <1>4, WildSound
  <2>2. AnyExt(mask) \/ Glob(Upper(Ext(mask)), Upper(Ext(name)))
    <3>1. CASE LastDot(mask) = 0 /\ mask[Len(mask)] = STAR
      BY <1>2, <3>1
    <3>2. CASE ~(LastDot(mask) = 0 /\ mask[Len(mask)] = STAR)
      <4>1. ExtOf(mask) = Ext(mask)
        BY <1>3, <3>2
      <4>2. Holding(e1, Ext(mask))
        BY <1>1, <4>1
      <4>3. \/ Glob(Upper(Ext(mask)), Upper(Ext(name)))
            \/ Ext(mask) = <<DOT, STAR>> /\ Ext(name) = <<>>
        BY ONLY <1>1, <1>4, <4>2, WildSound
      <4> QED
        BY <1>2, <4>3
    <3> QED
      BY <3>1, <3>2
  <2> QED
    BY ONLY <1>2, <2>1, <2>2
<1>5. ASSUME Simple(mask), GlobName(mask, name) PROVE WildComp2(b1, b2) /\ WildComp2(e1, e2)
  <2>1. /\ StarsAtEnd(Body(mask)) /\ StarsAtEnd(Ext(mask)) /\ Body(mask) # <<>>
        /\ Dots(mask) = {} => AnyExt(mask)
    BY <1>5 DEF Simple
  <2>2. WildComp2(b1, b2)
    <3>1. \A k \in 1..Len(Body(mask)) : Body(mask)[k] = STAR => k = Len(Body(mask))
      <4>1. Body(mask) \in String
        BY BodyIs
      <4> QED
        BY <2>1, <4>1, StarLast
    <3>2. \/ Glob(Upper(Body(mask)), Upper(Body(name)))
          \/ Body(mask) = <<DOT, STAR>> /\ Body(name) = <<>>
      BY <1>2, <1>5
    <3> QED
      BY ONLY <1>1, <2>1, <3>1, <3>2, WildComplete
  <2>3. WildComp2(e1, e2)
    <3>1. Ext(mask) \in String /\ Ext(name) \in String
      BY ExtIs
    <3>2. CASE LastDot(mask) = 0
      <4>1. AnyExt(mask)
        BY <2>1, <3>2, LastDotIs
      <4>2. Ext(mask) # <<DOT, STAR>>
        BY <1>3, <3>2
      <4>3. ExtOf(mask) = <<STAR>>
        BY <1>2, <1>3, <3>2, <4>1, <4>2
      <4> DEFINE w == <<STAR>>
      <4>4. w \in String /\ Len(w) = 1 /\ w[1] = STAR /\ w # <<>> /\ Len(w) # 0
        BY DEF String, Byte, STAR
      <4>5. Holding(e1, w)
        BY <1>1, <4>3
      <4> HIDE DEF w
      <4>6. \A k \in 1..Len(w) : w[k] = STAR => k = Len(w)
        BY <4>4
      <4>7. Glob(Upper(w), Upper(Ext(name)))
        <5>1. /\ Upper(w) \in String /\ Len(Upper(w)) = 1
              /\ \A k \in 1..1 : Upper(w)[k] = STAR <=> w[k] = STAR
          BY <4>4, UpperIs
        <5>2. 1 \in 1..1 /\ \A k \in 1..1 : ~(k < 1)
          OBVIOUS
        <5>3. Upper(w)[Len(Upper(w))] = STAR
          BY <4>4, <5>1, <5>2
        <5>4. \A k \in 1..Len(Upper(w)) :
                k < Len(Upper(w)) => k <= Len(Upper(Ext(name))) /\ Upper(w)[k] = Upper(Ext(name))[k]
          BY <5>1, <5>2
        <5>5. Upper(Ext(name)) \in String
          BY <3>1, UpperIs
        <5>6. Len(Upper(w)) # 0 /\ Len(Upper(w)) <= 2
          BY <5>1
        <5> QED
          BY ONLY <5>1, <5>3, <5>4, <5>5, <5>6, StarFits
      <4> QED
        BY ONLY <1>1, <4>4, <4>5, <4>6, <4>7, WildComplete
    <3>3. CASE LastDot(mask) # 0
      <4>1. Holding(e1, Ext(mask))
        BY <1>1, <1>3, <3>3
      <4>2. Ext(mask) # <<>>
        <5>1. Len(Ext(mask)) = Len(mask) - LastDot(mask) + 1
          BY <3>3, ExtIs
        <5>2. PICK n \in Nat, d \in Nat : n = Len(mask) /\ d = LastDot(mask) /\ d <= n
          BY LastDotIs DEF String
        <5>3. n - d + 1 # 0
          BY ONLY <5>2
        <5>4. Len(Ext(mask)) # 0
          BY <5>1, <5>2, <5>3
        <5> QED
          BY <3>1, <5>4, BlankIs
      <4>3. \A k \in 1..Len(Ext(mask)) : Ext(mask)[k] = STAR => k = Len(Ext(mask))
        BY <2>1, <3>1, StarLast
      <4>4. \/ Glob(Upper(Ext(mask)), Upper(Ext(name)))
            \/ Ext(mask) = <<DOT, STAR>> /\ Ext(name) = <<>>
        <5>1. CASE Glob(Upper(Ext(mask)), Upper(Ext(name)))
          BY <5>1
        <5>2. CASE Ext(mask) = <<DOT, STAR>> /\ Ext(name) # <<>>
          <6> DEFINE u == Upper(Ext(mask))
                     v == Upper(Ext(name))
          <6>1. Len(Ext(mask)) = 2 /\ Ext(mask)[1] = DOT /\ Ext(mask)[2] = STAR
            BY <5>2
          <6>2. LastDot(name) # 0
            BY <5>2, ExtIs
          <6>3. Ext(name)[1] = DOT /\ Len(Ext(name)) # 0
            <7>1. Len(Ext(name)) # 0 /\ Len(Ext(name)) \in Nat
              BY <3>1, <5>2, BlankIs DEF String
            <7>2. 1 \in 1..Len(Ext(name))
              BY ONLY <7>1
            <7>3. Ext(name)[1] = name[LastDot(name) + 1 - 1]
              BY <7>2, ExtIs
            <7>4. LastDot(name) + 1 - 1 = LastDot(name)
              BY LastDotIs DEF String
            <7>5. name[LastDot(name)] = DOT
              BY <6>2, LastDotIs
            <7> QED
              BY <7>1, <7>3, <7>4, <7>5
          <6>4. /\ u \in String /\ Len(u) = 2 /\ \A k \in 1..2 : u[k] = ToUpper(Ext(mask)[k])
                /\ v \in String /\ Len(v) = Len(Ext(name))
                /\ \A k \in 1..Len(Ext(name)) : v[k] = ToUpper(Ext(name)[k])
            BY <3>1, <6>1, UpperIs
          <6>5. 1 \in 1..2 /\ 2 \in 1..2 /\ 1 \in 1..Len(Ext(name)) /\ Len(Ext(name)) \in Nat
            BY <3>1, <6>3 DEF String
          <6>6. ToUpper(DOT) = DOT /\ ToUpper(STAR) = STAR
            BY DEF ToUpper, DOT, STAR
          <6>7. u[1] = DOT /\ v[1] = DOT /\ u[2] = STAR /\ 1 <= Len(v)
            BY <6>1, <6>3, <6>4, <6>5, <6>6
          <6> HIDE DEF u, v
          <6>8. \A k \in 1..Len(u) : k < Len(u) => k <= Len(v) /\ u[k] = v[k]
            <7>1. ASSUME NEW k \in 1..2, k < 2 PROVE k = 1
              BY <7>1
            <7> QED
              BY <6>4, <6>7, <7>1
          <6>9. Len(u) # 0 /\ u[Len(u)] = STAR /\ Len(u) <= 2
            BY <6>4, <6>7
          <6>10. u \in String /\ v \in String
            BY <6>4
          <6>11. Glob(u, v)
            BY ONLY <6>8, <6>9, <6>10, StarFits
          <6> QED
            BY <6>11 DEF u, v
        <5>3. CASE Ext(mask) = <<DOT, STAR>> /\ Ext(name) = <<>>
          BY <5>3
        <5> QED
          BY <1>2, <1>5, <3>3, <5>1, <5>2, <5>3
      <4> QED
        BY ONLY <1>1, <4>1, <4>2, <4>3, <4>4, WildComplete
    <3> QED
      BY <3>2, <3>3
  <2> QED
    BY <2>2, <2>3
<1> QED
  BY <1>4, <1>5

(* Without wild cards the names are compared as a whole.                   *)
LEMMA NamesMatched ==
  ASSUME NEW mask \in String, mask # <<>>, ~GotWild(mask),
         NEW name \in String, ~GotWild(name)
  PROVE  GlobName(mask, name) <=> Upper(mask) = Upper(name)
<1> DEFINE m == Upper(mask)
           s == Upper(name)
<1>1. /\ GlobName(mask, name) <=>
           /\ \/ Glob(Upper(Body(mask)), Upper(Body(name)))
              \/ Body(mask) = <<DOT, STAR>> /\ Body(name) = <<>>
           /\ AnyExt(mask) \/ Glob(Upper(Ext(mask)), Upper(Ext(name)))
      /\ AnyExt(mask) <=> \/ Ext(mask) = <<DOT, STAR>>
                          \/ LastDot(mask) = 0 /\ mask[Len(mask)] = STAR
  BY GlobNameIs
<1>2. NoWild(mask) /\ NoWild(Body(mask)) /\ NoWild(Ext(mask))
  BY NoWildIs
<1>3. ASSUME NEW w, NoWild(w) PROVE w # <<DOT, STAR>>
  <2>1. ASSUME w = <<DOT, STAR>> PROVE FALSE
    <3>1. Len(w) = 2 /\ w[2] = STAR /\ 2 \in 1..2
      BY <2>1
    <3> QED
      BY <1>3, <3>1 DEF NoWild
  <2> QED
    BY <2>1
<1>4. mask[Len(mask)] # STAR
  <2>1. Len(mask) # 0 /\ Len(mask) \in Nat
    BY BlankIs DEF String
  <2>2. Len(mask) \in 1..Len(mask)
    BY ONLY <2>1
  <2> QED
    BY <1>2, <2>2 DEF NoWild
<1>5. GlobName(mask, name) <=>
        /\ Glob(Upper(Body(mask)), Upper(Body(name)))
        /\ Glob(Upper(Ext(mask)), Upper(Ext(name)))
  <2>1. Body(mask) # <<DOT, STAR>> /\ Ext(mask) # <<DOT, STAR>>
    BY <1>2, <1>3
  <2> QED
    BY ONLY <1>1, <1>4, <2>1
<1>6. /\ m \in String /\ s \in String
      /\ Body(m) = Upper(Body(mask)) /\ Body(s) = Upper(Body(name))
      /\ Ext(m) = Upper(Ext(mask)) /\ Ext(s) = Upper(Ext(name))
  BY UpperIs, UpperParts
<1> HIDE DEF m, s
<1>7. NoWild(Body(m)) /\ NoWild(Ext(m))
  <2>1. ASSUME NEW w \in String, NoWild(w) PROVE NoWild(Upper(w))
    BY <2>1, UpperIs DEF NoWild
  <2>2. Body(mask) \in String /\ Ext(mask) \in String
    BY BodyIs, ExtIs
  <2> QED
    BY <1>2, <1>6, <2>1, <2>2
<1>8. Body(m) \in String /\ Ext(m) \in String /\ Body(s) \in String /\ Ext(s) \in String
  BY <1>6, BodyIs, ExtIs
<1>9. (Glob(Body(m), Body(s)) <=> Body(m) = Body(s)) /\ (Glob(Ext(m), Ext(s)) <=> Ext(m) = Ext(s))
  BY ONLY <1>7, <1>8, GlobSame
<1>10. Body(m) = Body(s) /\ Ext(m) = Ext(s) <=> m = s
  BY ONLY <1>6, WholeIs
<1>11. GlobName(mask, name) <=> m = s
  BY ONLY <1>5, <1>6, <1>9, <1>10
<1> QED
  BY <1>11 DEF m, s

(* The four buffers after a question.                                      *)
LEMMA BuffersHeld ==
  ASSUME MatchTyped, NEW q \in QuestionType, q.mask # <<>>, q.name # <<>>,
         GotWild(q.mask) \/ GotWild(q.name), MatchFiles(q)
  PROVE  PartsHeld(body1', ext1', body2', ext2', q.mask, q.name)
<1>1. q.mask \in String /\ q.name \in String
  BY DEF QuestionType
<1>2. ExtOf(q.mask) \in String /\ ExtOf(q.name) \in String
  BY <1>1, ExtOfIs
<1>3. /\ body1' = BodyBuf(body1, q.mask) /\ ext1' = Copied(ext1, ExtOf(q.mask))
      /\ body2' = BodyBuf(body2, q.name) /\ ext2' = Copied(ext2, ExtOf(q.name))
  BY DEF MatchFiles
<1>4. body1 \in Seq(Byte) /\ ext1 \in Seq(Byte) /\ body2 \in Seq(Byte) /\ ext2 \in Seq(Byte)
  BY DEF MatchTyped
<1>5. Holding(body1', Body(q.mask)) /\ Holding(body2', Body(q.name))
  BY <1>1, <1>3, <1>4, BodyBufHolds
<1>6. Holding(ext1', ExtOf(q.mask)) /\ Holding(ext2', ExtOf(q.name))
  BY <1>2, <1>3, <1>4, CopiedHolds
<1> QED
  BY <1>5, <1>6 DEF PartsHeld

LEMMA AnswerIs ==
  ASSUME NEW q, NEW a \in BOOLEAN, Answer(q, a)
  PROVE  asked'.answer <=> a
BY DEF Answer

LEMMA AnswersMatch ==
  ASSUME MatchTyped, NEW q \in QuestionType, q.mask # <<>>, q.name # <<>>, MatchFiles(q)
  PROVE  MatchedAsMasked'
<1>1. q.mask \in String /\ q.name \in String
  BY DEF QuestionType
<1>2. asked'.mask = q.mask /\ asked'.name = q.name
  BY DEF MatchFiles, Answer
<1>3. ASSUME ~GotWild(q.name)
      PROVE  /\ asked'.answer => GlobName(q.mask, q.name)
             /\ Simple(q.mask) /\ GlobName(q.mask, q.name) => asked'.answer
  <2>1. CASE GotWild(q.mask)
    <3>1. PartsHeld(body1', ext1', body2', ext2', q.mask, q.name)
      BY <2>1, BuffersHeld
    <3>2. asked'.answer <=> WildComp2(body1', body2') /\ WildComp2(ext1', ext2')
      <4>1. Answer(q, WildComp2(body1', body2') /\ WildComp2(ext1', ext2'))
        BY <2>1 DEF MatchFiles
      <4> DEFINE a == WildComp2(body1', body2') /\ WildComp2(ext1', ext2')
      <4>2. a \in BOOLEAN
        OBVIOUS
      <4>3. Answer(q, a)
        BY <4>1
      <4> HIDE DEF a
      <4>4. asked'.answer <=> a
        BY <4>2, <4>3, AnswerIs
      <4> QED
        BY <4>4 DEF a
    <3>3. /\ WildComp2(body1', body2') /\ WildComp2(ext1', ext2') => GlobName(q.mask, q.name)
          /\ Simple(q.mask) /\ GlobName(q.mask, q.name) =>
               WildComp2(body1', body2') /\ WildComp2(ext1', ext2')
      BY <1>1, <1>3, <2>1, <3>1, PartsMatched
    <3> QED
      BY ONLY <3>2, <3>3
  <2>2. CASE ~GotWild(q.mask)
    <3>1. asked'.answer <=> Upper(q.mask) = Upper(q.name)
      <4>1. Answer(q, Upper(q.mask) = Upper(q.name))
        BY <1>3, <2>2 DEF MatchFiles
      <4>2. (Upper(q.mask) = Upper(q.name)) \in BOOLEAN
        OBVIOUS
      <4> QED
        BY <4>1, <4>2, AnswerIs
    <3>2. GlobName(q.mask, q.name) <=> Upper(q.mask) = Upper(q.name)
      BY <1>1, <1>3, <2>2, NamesMatched
    <3> QED
      BY ONLY <3>1, <3>2
  <2> QED
    BY <2>1, <2>2
<1> QED
  BY <1>2, <1>3 DEF MatchedAsMasked

-----------------------------------------------------------------------------
(* The steps.                                                              *)

(* The masks that the switch gives stay as they are.                       *)
LEMMA MasksKept ==
  ASSUME switch' = switch
  PROVE  FileMasks' = FileMasks /\ DirMasks' = DirMasks
<1>1. \A t : Given(t)' = Given(t)
  BY DEF Given
<1> QED
  BY <1>1 DEF FileMasks, DirMasks

LEMMA ExcludedKept ==
  ASSUME ExcludedAsMasked, switch' = switch, asked' = asked
  PROVE  ExcludedAsMasked'
BY MasksKept DEF ExcludedAsMasked

(* What holds in every state: the buffers are strings of bytes, the lists  *)
(* hold the masks given, and the last answer was right.                    *)
MatchInv == MatchTyped /\ ListsHold /\ MatchedAsMasked /\ ExcludedAsMasked

LEMMA MatchInitInv ==
  ASSUME MatchInit
  PROVE  MatchInv
<1>1. /\ asked.op = "none" /\ asked.name = <<>> /\ asked.mask = <<>>
      /\ switch \in XSwitches /\ turn = 0 /\ glpError = FALSE
      /\ g_sExclList = <<>> /\ g_sExclListD = <<>>
      /\ body1 = <<>> /\ ext1 = <<>> /\ body2 = <<>> /\ ext2 = <<>>
  BY DEF MatchInit, NoQuestion
<1>2. MatchTyped
  <2>1. <<>> \in Seq(Byte) /\ <<>> \in Seq(Byte \ {0})
    OBVIOUS
  <2> QED
    BY <1>1, <2>1 DEF MatchTyped, String
<1>3. ListsHold
  BY <1>1 DEF ListsHold
<1>4. MatchedAsMasked /\ ExcludedAsMasked
  BY <1>1 DEF MatchedAsMasked, ExcludedAsMasked
<1> QED
  BY <1>2, <1>3, <1>4 DEF MatchInv

LEMMA SwitchKeeps ==
  ASSUME MatchInv, Do_X_Switch
  PROVE  MatchInv'
<1>1. MatchTyped /\ ListsHold /\ MatchedAsMasked /\ ExcludedAsMasked
  BY DEF MatchInv
<1>2. turn' = 1 /\ switch' = switch /\ asked' = asked /\ buffers' = buffers
  BY DEF Do_X_Switch
<1>3. MatchTyped'
  <2>1. glpError' \in BOOLEAN
    BY DEF Do_X_Switch
  <2> QED
    BY <1>1, <1>2, <2>1 DEF MatchTyped, buffers
<1>4. ListsHold'
  <2>1. ~glpError' => Holds(g_sExclList', FileMasks) /\ Holds(g_sExclListD', DirMasks)
    BY <1>1, SwitchLists
  <2>2. FileMasks' = FileMasks /\ DirMasks' = DirMasks
    BY <1>2, MasksKept
  <2> QED
    BY <1>2, <2>1, <2>2 DEF ListsHold
<1>5. MatchedAsMasked'
  BY <1>1, <1>2 DEF MatchedAsMasked
<1>6. ExcludedAsMasked'
  BY <1>1, <1>2, ExcludedKept
<1> QED
  BY <1>3, <1>4, <1>5, <1>6 DEF MatchInv

LEMMA AskKeeps ==
  ASSUME MatchInv, Ask
  PROVE  MatchInv'
<1>1. MatchTyped /\ ListsHold
  BY DEF MatchInv
<1>2. /\ turn \in 1..Turns /\ ~glpError /\ turn' = turn + 1 /\ switch' = switch
      /\ g_sExclList' = g_sExclList /\ g_sExclListD' = g_sExclListD /\ glpError' = glpError
  BY DEF Ask, lists
<1>3. PICK q \in Questions(switch, turn) :
        \/ q.op = "match" /\ MatchFiles(q)
        \/ q.op = "file" /\ Answer(q, Excluded(q.name)) /\ UNCHANGED buffers
        \/ q.op = "dir" /\ Answer(q, ExcludedDir(q.name)) /\ UNCHANGED buffers
        \/ q.op = "path" /\ Answer(q, ~Check4ExcludedDir(q.name)) /\ UNCHANGED buffers
  BY DEF Ask
<1>4. q \in QuestionType /\ q.name # <<>> /\ (q.op = "match" => q.mask # <<>>)
  BY <1>1, <1>2, QuestionsAssumption DEF MatchTyped
<1>5. turn # 0 /\ turn' # 0 /\ turn' \in Nat
  BY <1>2, TurnsAssumption
<1>6. q.name \in String /\ q.mask \in String
  BY <1>4 DEF QuestionType
<1>7. ListsHold'
  <2>1. FileMasks' = FileMasks /\ DirMasks' = DirMasks
    BY <1>2, MasksKept
  <2> QED
    BY <1>1, <1>2, <1>5, <2>1 DEF ListsHold
<1>8. CASE q.op = "match" /\ MatchFiles(q)
  <2>1. asked'.op = "match" /\ asked'.name = q.name /\ asked'.mask = q.mask
    BY <1>8 DEF MatchFiles, Answer
  <2>2. /\ body1' \in Seq(Byte) /\ ext1' \in Seq(Byte)
        /\ body2' \in Seq(Byte) /\ ext2' \in Seq(Byte)
    <3>1. CASE GotWild(q.mask) \/ GotWild(q.name)
      <4>1. PartsHeld(body1', ext1', body2', ext2', q.mask, q.name)
        BY <1>1, <1>4, <1>8, <3>1, BuffersHeld
      <4> QED
        BY <4>1 DEF PartsHeld, Holding
    <3>2. CASE ~(GotWild(q.mask) \/ GotWild(q.name))
      BY <1>1, <1>8, <3>2 DEF MatchFiles, buffers, MatchTyped
    <3> QED
      BY <3>1, <3>2
  <2>3. MatchTyped'
    BY <1>1, <1>2, <1>5, <1>6, <2>1, <2>2 DEF MatchTyped
  <2>4. MatchedAsMasked'
    BY <1>1, <1>4, <1>8, AnswersMatch
  <2>5. ExcludedAsMasked'
    BY <2>1 DEF ExcludedAsMasked
  <2> QED
    BY <1>7, <2>3, <2>4, <2>5 DEF MatchInv
<1>9. CASE /\ \/ q.op = "file" /\ Answer(q, Excluded(q.name))
              \/ q.op = "dir" /\ Answer(q, ExcludedDir(q.name))
              \/ q.op = "path" /\ Answer(q, ~Check4ExcludedDir(q.name))
           /\ UNCHANGED buffers
  <2>1. asked'.op = q.op /\ q.op # "match" /\ asked'.name = q.name /\ asked'.mask = q.mask
    BY <1>9 DEF Answer
  <2>2. MatchTyped'
    BY <1>1, <1>2, <1>5, <1>6, <1>9, <2>1 DEF MatchTyped, buffers
  <2>3. MatchedAsMasked'
    BY <2>1 DEF MatchedAsMasked
  <2>4. ExcludedAsMasked'
    BY <1>1, <1>2, <1>4, <1>5, <1>9, AnswersMasked
  <2> QED
    BY <1>7, <2>2, <2>3, <2>4 DEF MatchInv
<1> QED
  BY <1>3, <1>8, <1>9

LEMMA StutterKeeps ==
  ASSUME MatchInv, UNCHANGED matchVars
  PROVE  MatchInv'
<1>1. MatchTyped /\ ListsHold /\ MatchedAsMasked /\ ExcludedAsMasked
  BY DEF MatchInv
<1>2. /\ switch' = switch /\ turn' = turn /\ asked' = asked
      /\ g_sExclList' = g_sExclList /\ g_sExclListD' = g_sExclListD /\ glpError' = glpError
      /\ body1' = body1 /\ ext1' = ext1 /\ body2' = body2 /\ ext2' = ext2
  BY DEF matchVars, lists, buffers
<1>3. FileMasks' = FileMasks /\ DirMasks' = DirMasks
  BY <1>2, MasksKept
<1>4. MatchTyped' /\ ListsHold'
  BY <1>1, <1>2, <1>3 DEF MatchTyped, ListsHold
<1>5. MatchedAsMasked'
  BY <1>1, <1>2 DEF MatchedAsMasked
<1>6. ExcludedAsMasked'
  BY <1>1, <1>2, ExcludedKept
<1> QED
  BY <1>4, <1>5, <1>6 DEF MatchInv

LEMMA MatchInvHolds == MatchSpec => []MatchInv
<1>1. MatchInv /\ [MatchNext]_matchVars => MatchInv'
  BY SwitchKeeps, AskKeeps, StutterKeeps DEF MatchNext
<1> QED
  BY <1>1, MatchInitInv, PTL DEF MatchSpec

(* A file is taken by the mask of the walk only if the mask stands for its *)
(* name, and always when it does and is simple (MatchFiles, whatever its   *)
(* static buffers hold from the names before).                             *)
THEOREM WalkTakesMasked == MatchSpec => []MatchedAsMasked
<1>1. MatchInv => MatchedAsMasked
  BY DEF MatchInv
<1> QED
  BY <1>1, MatchInvHolds, PTL

(* What is left out is what the text behind -X says: Do_X_Switch, InExclude, *)
(* InExcludeD and Check4ExcludedDir, from the text to the answer.          *)
THEOREM WalkLeavesMasked == MatchSpec => []ExcludedAsMasked
<1>1. MatchInv => ExcludedAsMasked
  BY DEF MatchInv
<1> QED
  BY <1>1, MatchInvHolds, PTL

=============================================================================
