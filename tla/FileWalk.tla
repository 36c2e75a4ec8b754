------------------------------- MODULE FileWalk -------------------------------
(***************************************************************************)
(* The walk over the files to search: Process_Finds takes the masks of     *)
(* g_sFileList one by one, Process_Wilds goes through a directory and,     *)
(* under -r, calls itself for those in it, Find_In_File excludes, maps and *)
(* searches one file.  The calls are an explicit stack of frames; the      *)
(* buffer glpActive, which all the frames share, is one variable.          *)
(*                                                                         *)
(* The file system is shared with other programs: while FA4 walks, files   *)
(* and empty directories vanish and files are truncated.  The search of a  *)
(* mapped file is one step here; FindInGen has its detail.                 *)
(***************************************************************************)
EXTENDS Integers, Sequences, FiniteSets

CONSTANTS
  Dirs, Files,   (* The directories and files that stat tells apart.       *)
  Entries,       (* Entries[d]: what readdir yields for d, in its order,   *)
                 (* without "." and "..".                                  *)
  MaskLists,     (* The lists g_sFileList may be.                          *)
  Switches,      (* The switches -r and -b-, and whether the find is a     *)
                 (* regular expression that does not compile.              *)
  InExclude,     (* The files that -x: excludes by name, ...               *)
  InExcludeD,    (* ... and the directories.                               *)
  IsBinary,      (* The files with a control character near their start.   *)
  MaxFaults      (* How many files the environment takes away or empties.  *)

NoFile == "no file"

(* A mask is split by SplitFN into a directory and a pattern, here the set *)
(* of the files whose names MatchFiles accepts; single is the file that    *)
(* the whole mask names, if it names one.                                  *)
WalkMask == [dir : Dirs, pat : SUBSET Files, single : Files \cup {NoFile}]

Switch == [recursive : BOOLEAN, ignoreBin : BOOLEAN, badRegex : BOOLEAN]

ASSUME NodesAssumption == Dirs \cap Files = {} /\ NoFile \notin Files
ASSUME EntriesAssumption == Entries \in [Dirs -> Seq(Dirs \cup Files)]
ASSUME MasksAssumption == MaskLists \subseteq Seq(WalkMask)
ASSUME SwitchesAssumption == Switches \subseteq Switch
ASSUME ExcludeAssumption == InExclude \subseteq Files /\ InExcludeD \subseteq Dirs
ASSUME BinaryAssumption == IsBinary \subseteq Files
ASSUME FaultsAssumption == MaxFaults \in Nat

VARIABLES
  masks, sw,       (* The inputs: g_sFileList and the switches.            *)
  present, empty,  (* The file system: what exists, which files are empty. *)
  faults,          (* How many times the environment has struck.           *)
  pc, at,          (* Where the walk is, and the mask it is at.            *)
  arg,             (* The argument of the call of Process_Wilds to come.   *)
  stack,           (* The frames of Process_Wilds.                         *)
  glpActive,       (* The file or directory in the shared buffer.          *)
  mapped,          (* glpMapView, ghActFile: the file that is mapped.      *)
  g_dwFoundFileCnt, g_dwFoundRejCnt, g_dwFoundDirsCnt, g_dwDirsExcl,
  g_dwExclCnt, g_dwDoneCnt, g_dwMapFailedCnt,
  g_sFailList,     (* The files that could not be opened, in order.        *)
  searched         (* The pairs of mask and file searched, in order.       *)

inputs == <<masks, sw>>
fs == <<present, empty, faults>>
control == <<pc, at, arg, stack, glpActive>>
counts == <<g_dwFoundFileCnt, g_dwFoundRejCnt, g_dwFoundDirsCnt, g_dwDirsExcl,
            g_dwExclCnt, g_dwDoneCnt, g_dwMapFailedCnt>>
vars == <<inputs, fs, control, mapped, counts, g_sFailList, searched>>

Init ==
  /\ masks \in MaskLists /\ sw \in Switches
  /\ present = Dirs \cup Files /\ empty = {} /\ faults = 0
  /\ pc = "list" /\ at = 0 /\ stack = <<>>
  /\ arg = <<>> /\ glpActive = NoFile /\ mapped = NoFile
  /\ g_dwFoundFileCnt = 0 /\ g_dwFoundRejCnt = 0 /\ g_dwFoundDirsCnt = 0
  /\ g_dwDirsExcl = 0 /\ g_dwExclCnt = 0 /\ g_dwDoneCnt = 0
  /\ g_dwMapFailedCnt = 0
  /\ g_sFailList = <<>> /\ searched = <<>>

IsValidFile(x) == x \in Files \cap present
IsValidDir(x) == x \in Dirs \cap present

-----------------------------------------------------------------------------
(* Process_Finds: the traversal of g_sFileList.                            *)

NextMask ==
  /\ pc = "list" /\ at < Len(masks)
  /\ at' = at + 1
  /\ arg' = masks[at + 1]
  /\ pc' = "enter"
  /\ UNCHANGED <<inputs, fs, stack, glpActive, mapped, counts, g_sFailList, searched>>

EndOfMasks ==
  /\ pc = "list" /\ at = Len(masks)
  /\ pc' = "done"
  /\ UNCHANGED <<inputs, fs, at, arg, stack, glpActive, mapped, counts,
                 g_sFailList, searched>>

-----------------------------------------------------------------------------
(* Process_Wilds.                                                          *)

NamesSingleFile == ~sw.recursive /\ IsValidFile(arg.single)

(* A fault that the checks must notice: Process_Wilds does not return      *)
(* after the single file, but goes on to its directory.                    *)
EnterSingleAndDir ==
  /\ pc = "enter" /\ NamesSingleFile
  /\ glpActive' = arg.single
  /\ g_dwFoundFileCnt' = g_dwFoundFileCnt + 1
  /\ stack' = Append(stack, [dir |-> arg.dir, pat |-> arg.pat,
                             todo |-> Entries[arg.dir]])
  /\ pc' = "find"
  /\ UNCHANGED <<inputs, fs, at, arg, mapped, g_dwFoundRejCnt,
                 g_dwFoundDirsCnt, g_dwDirsExcl, g_dwExclCnt, g_dwDoneCnt,
                 g_dwMapFailedCnt, g_sFailList, searched>>

(* The mask names one file, and -r was not given.                          *)
EnterSingle ==
  /\ pc = "enter" /\ NamesSingleFile
  /\ glpActive' = arg.single
  /\ g_dwFoundFileCnt' = g_dwFoundFileCnt + 1
  /\ pc' = "find"
  /\ UNCHANGED <<inputs, fs, at, arg, stack, mapped, g_dwFoundRejCnt,
                 g_dwFoundDirsCnt, g_dwDirsExcl, g_dwExclCnt, g_dwDoneCnt,
                 g_dwMapFailedCnt, g_sFailList, searched>>

EnterDir ==
  /\ pc = "enter" /\ ~NamesSingleFile
  /\ IsValidDir(arg.dir)
  /\ stack' = Append(stack, [dir |-> arg.dir, pat |-> arg.pat,
                             todo |-> Entries[arg.dir]])
  /\ pc' = "read"
  /\ UNCHANGED <<inputs, fs, at, arg, glpActive, mapped, counts, g_sFailList, searched>>

(* Where a call of Process_Wilds or of Find_In_File returns to.            *)
ReturnTo(s) == IF s = <<>> THEN "list" ELSE "read"

(* opendir fails.                                                          *)
EnterFails ==
  /\ pc = "enter" /\ ~NamesSingleFile
  /\ ~IsValidDir(arg.dir)
  /\ pc' = ReturnTo(stack)
  /\ UNCHANGED <<inputs, fs, at, arg, stack, glpActive, mapped, counts,
                 g_sFailList, searched>>

Listing == stack[Len(stack)]
Reading == pc = "read" /\ Listing.todo # <<>>
Entry == Head(Listing.todo)

(* readdir moves on, and the path of the entry goes to glpActive.          *)
TakeEntry ==
  /\ stack' = [stack EXCEPT ![Len(stack)].todo = Tail(@)]
  /\ glpActive' = Entry

ReadMatch ==
  /\ Reading /\ IsValidFile(Entry) /\ Entry \in Listing.pat
  /\ TakeEntry
  /\ g_dwFoundFileCnt' = g_dwFoundFileCnt + 1
  /\ pc' = "find"
  /\ UNCHANGED <<inputs, fs, at, arg, mapped, g_dwFoundRejCnt, g_dwFoundDirsCnt,
                 g_dwDirsExcl, g_dwExclCnt, g_dwDoneCnt, g_dwMapFailedCnt,
                 g_sFailList, searched>>

ReadReject ==
  /\ Reading /\ IsValidFile(Entry) /\ Entry \notin Listing.pat
  /\ TakeEntry
  /\ g_dwFoundFileCnt' = g_dwFoundFileCnt + 1
  /\ g_dwFoundRejCnt' = g_dwFoundRejCnt + 1
  /\ UNCHANGED <<inputs, fs, pc, at, arg, mapped, g_dwFoundDirsCnt, g_dwDirsExcl,
                 g_dwExclCnt, g_dwDoneCnt, g_dwMapFailedCnt, g_sFailList, searched>>

(* A fault that the checks must notice: -x: is not heeded for directories. *)
ReadDirUnchecked ==
  /\ Reading /\ IsValidDir(Entry) /\ sw.recursive
  /\ TakeEntry
  /\ g_dwFoundDirsCnt' = g_dwFoundDirsCnt + 1
  /\ arg' = [dir |-> Entry, pat |-> Listing.pat, single |-> NoFile]
  /\ pc' = "enter"
  /\ UNCHANGED <<inputs, fs, at, mapped, g_dwFoundFileCnt, g_dwFoundRejCnt,
                 g_dwDirsExcl, g_dwExclCnt, g_dwDoneCnt, g_dwMapFailedCnt,
                 g_sFailList, searched>>

(* A directory under -r: the recursive call, unless -x: excludes it.       *)
ReadDir ==
  /\ Reading /\ IsValidDir(Entry) /\ sw.recursive
  /\ TakeEntry
  /\ g_dwFoundDirsCnt' = g_dwFoundDirsCnt + 1
  /\ \/ /\ Entry \in InExcludeD
        /\ g_dwDirsExcl' = g_dwDirsExcl + 1
        /\ UNCHANGED <<pc, arg>>
     \/ /\ Entry \notin InExcludeD
        /\ arg' = [dir |-> Entry, pat |-> Listing.pat, single |-> NoFile]
        /\ pc' = "enter"
        /\ UNCHANGED g_dwDirsExcl
  /\ UNCHANGED <<inputs, fs, at, mapped, g_dwFoundFileCnt, g_dwFoundRejCnt,
                 g_dwExclCnt, g_dwDoneCnt, g_dwMapFailedCnt, g_sFailList, searched>>

(* A fault that the checks must notice: the loop goes on without readdir.  *)
ReadOtherAgain ==
  /\ Reading /\ ~IsValidFile(Entry) /\ ~(IsValidDir(Entry) /\ sw.recursive)
  /\ glpActive' = Entry
  /\ UNCHANGED <<inputs, fs, pc, at, arg, stack, mapped, counts, g_sFailList, searched>>

(* A directory without -r, and an entry that has vanished.                 *)
ReadOther ==
  /\ Reading /\ ~IsValidFile(Entry) /\ ~(IsValidDir(Entry) /\ sw.recursive)
  /\ TakeEntry
  /\ UNCHANGED <<inputs, fs, pc, at, arg, mapped, counts, g_sFailList, searched>>

(* A fault that the checks must notice: the caller's frame is not looked   *)
(* for when the directory is closed.                                       *)
CloseDirReadsOn ==
  /\ pc = "read" /\ Listing.todo = <<>>
  /\ stack' = SubSeq(stack, 1, Len(stack) - 1)
  /\ UNCHANGED <<inputs, fs, pc, at, arg, glpActive, mapped, counts, g_sFailList, searched>>

CloseDir ==
  /\ pc = "read" /\ Listing.todo = <<>>
  /\ stack' = SubSeq(stack, 1, Len(stack) - 1)
  /\ pc' = ReturnTo(stack')
  /\ UNCHANGED <<inputs, fs, at, arg, glpActive, mapped, counts, g_sFailList, searched>>

-----------------------------------------------------------------------------
(* Find_In_File, for the file in glpActive.                                *)

FindExcluded ==
  /\ pc = "find" /\ glpActive \in InExclude
  /\ g_dwExclCnt' = g_dwExclCnt + 1
  /\ pc' = ReturnTo(stack)
  /\ UNCHANGED <<inputs, fs, at, arg, stack, glpActive, mapped, g_dwFoundFileCnt,
                 g_dwFoundRejCnt, g_dwFoundDirsCnt, g_dwDirsExcl, g_dwDoneCnt,
                 g_dwMapFailedCnt, g_sFailList, searched>>

(* Faults that the checks must notice: a file that cannot be mapped is not *)
(* counted; it ends the walk for its mask.                                 *)
MapFailsUncounted ==
  /\ g_sFailList' = Append(g_sFailList, glpActive)
  /\ pc' = ReturnTo(stack)
  /\ UNCHANGED <<inputs, fs, at, arg, stack, glpActive, mapped, counts, searched>>
MapFailsEndsMask ==
  /\ g_sFailList' = Append(g_sFailList, glpActive)
  /\ g_dwMapFailedCnt' = g_dwMapFailedCnt + 1
  /\ pc' = "list" /\ stack' = <<>>
  /\ UNCHANGED <<inputs, fs, at, arg, glpActive, mapped, g_dwFoundFileCnt,
                 g_dwFoundRejCnt, g_dwFoundDirsCnt, g_dwDirsExcl, g_dwExclCnt,
                 g_dwDoneCnt, searched>>

(* GetFileMap fails: ShowFail lists the file, Find_In_File counts it.      *)
MapFails ==
  /\ g_sFailList' = Append(g_sFailList, glpActive)
  /\ g_dwMapFailedCnt' = g_dwMapFailedCnt + 1
  /\ pc' = ReturnTo(stack)
  /\ UNCHANGED <<inputs, fs, at, arg, stack, glpActive, mapped, g_dwFoundFileCnt,
                 g_dwFoundRejCnt, g_dwFoundDirsCnt, g_dwDirsExcl, g_dwExclCnt,
                 g_dwDoneCnt, searched>>

(* The stat of GetFileMap; mmap fails for the length 0 it yields.          *)
StatFails ==
  /\ pc = "find" /\ glpActive \notin InExclude
  /\ ~IsValidFile(glpActive) \/ glpActive \in empty
  /\ MapFails

StatFile ==
  /\ pc = "find" /\ glpActive \notin InExclude
  /\ IsValidFile(glpActive) /\ glpActive \notin empty
  /\ pc' = "open"
  /\ UNCHANGED <<inputs, fs, at, arg, stack, glpActive, mapped, counts,
                 g_sFailList, searched>>

OpenFails ==
  /\ pc = "open" /\ ~IsValidFile(glpActive)
  /\ MapFails

(* open and mmap, with the length that stat gave.                          *)
OpenFile ==
  /\ pc = "open" /\ IsValidFile(glpActive)
  /\ mapped' = glpActive
  /\ pc' = "binary"
  /\ UNCHANGED <<inputs, fs, at, arg, stack, glpActive, counts, g_sFailList, searched>>

(* A mapping longer than the file it maps: SIGBUS when it is read.         *)
BusError ==
  /\ pc \in {"binary", "search"} /\ glpActive \in empty
  /\ pc' = "killed"
  /\ UNCHANGED <<inputs, fs, at, arg, stack, glpActive, mapped, counts,
                 g_sFailList, searched>>

(* Is_Binary_File counts every binary file as excluded; only -b- makes     *)
(* Find_In_File pass over it.                                              *)
CheckBinary ==
  /\ pc = "binary" /\ glpActive \notin empty
  /\ g_dwExclCnt' = IF glpActive \in IsBinary THEN g_dwExclCnt + 1 ELSE g_dwExclCnt
  /\ IF sw.ignoreBin /\ glpActive \in IsBinary
     THEN mapped' = NoFile /\ pc' = ReturnTo(stack)
     ELSE mapped' = mapped /\ pc' = "search"
  /\ UNCHANGED <<inputs, fs, at, arg, stack, glpActive, g_dwFoundFileCnt,
                 g_dwFoundRejCnt, g_dwFoundDirsCnt, g_dwDirsExcl, g_dwDoneCnt,
                 g_dwMapFailedCnt, g_sFailList, searched>>

(* FindInType, ShutFileMap and the count of the file.                      *)
Search ==
  /\ pc = "search" /\ glpActive \notin empty /\ ~sw.badRegex
  /\ searched' = Append(searched, <<at, glpActive>>)
  /\ mapped' = NoFile
  /\ g_dwDoneCnt' = g_dwDoneCnt + 1
  /\ pc' = ReturnTo(stack)
  /\ UNCHANGED <<inputs, fs, at, arg, stack, glpActive, g_dwFoundFileCnt,
                 g_dwFoundRejCnt, g_dwFoundDirsCnt, g_dwDirsExcl, g_dwExclCnt,
                 g_dwMapFailedCnt, g_sFailList>>

(* A fault that the checks must notice: Pgm_Exit leaves the file mapped.   *)
SearchFailsMapped ==
  /\ pc = "search" /\ glpActive \notin empty /\ sw.badRegex
  /\ pc' = "exit"
  /\ UNCHANGED <<inputs, fs, at, arg, stack, glpActive, mapped, counts,
                 g_sFailList, searched>>

(* Err_Exit in Find_In_Gen: Pgm_Exit shuts the map and jumps to main.      *)
SearchFails ==
  /\ pc = "search" /\ glpActive \notin empty /\ sw.badRegex
  /\ mapped' = NoFile
  /\ pc' = "exit"
  /\ UNCHANGED <<inputs, fs, at, arg, stack, glpActive, counts, g_sFailList, searched>>

-----------------------------------------------------------------------------
(* The other programs that use the file system.                            *)

Vanish(x) ==
  /\ faults < MaxFaults /\ x \in present
  /\ x \in Dirs => \A i \in DOMAIN Entries[x] : Entries[x][i] \notin present
  /\ present' = present \ {x}
  /\ faults' = faults + 1
  /\ UNCHANGED <<inputs, empty, control, mapped, counts, g_sFailList, searched>>

Truncate(x) ==
  /\ faults < MaxFaults /\ x \in Files \cap (present \ empty)
  /\ empty' = empty \cup {x}
  /\ faults' = faults + 1
  /\ UNCHANGED <<inputs, present, control, mapped, counts, g_sFailList, searched>>

Environment ==
  \/ \E x \in Dirs \cup Files : Vanish(x)
  \/ \E x \in Files : Truncate(x)

Walk ==
  \/ NextMask \/ EndOfMasks
  \/ EnterSingle \/ EnterDir \/ EnterFails
  \/ ReadMatch \/ ReadReject \/ ReadDir \/ ReadOther \/ CloseDir
  \/ FindExcluded \/ StatFails \/ StatFile \/ OpenFails \/ OpenFile
  \/ BusError \/ CheckBinary \/ Search \/ SearchFails

Next == Walk \/ Environment

(* The one thread of FA4 goes on; the environment need not do anything.    *)
Spec == Init /\ [][Next]_vars /\ WF_vars(Walk)

-----------------------------------------------------------------------------
(* What the properties speak of.                                           *)

Nodes == Dirs \cup Files
Frame == [dir : Dirs, pat : SUBSET Files, todo : Seq(Nodes)]

(* A file that has been counted and whose fate has not.                    *)
InHand == IF pc \in {"find", "open", "binary", "search", "exit", "killed"}
          THEN 1 ELSE 0

(* A set of directories that the walk does not leave.                      *)
Closed(S) ==
  \A d \in S : \A i \in DOMAIN Entries[d] :
    Entries[d][i] \in Dirs \ InExcludeD => Entries[d][i] \in S

(* The directories that a recursive walk from d enters, itself the first.  *)
Below(d) == {e \in Dirs : \A S \in SUBSET Dirs : d \in S /\ Closed(S) => e \in S}

(* The directories that the walk for a mask enters, if nothing vanishes.   *)
Walked(m) == IF sw.recursive THEN Below(m.dir) ELSE {m.dir}

(* The files that may be searched for the mask.                            *)
Allowed(m) ==
  {f \in Files \ InExclude :
     /\ ~(sw.ignoreBin /\ f \in IsBinary)
     /\ \/ f \in m.pat /\ \E d \in Walked(m) : \E i \in DOMAIN Entries[d] : Entries[d][i] = f
        \/ ~sw.recursive /\ f = m.single}

(* The files that the mask asks to be searched: without -r, a mask that    *)
(* names a file asks for that one alone.                                   *)
Wanted(m) == {f \in Allowed(m) : sw.recursive \/ m.single \in {NoFile, f}}

(* The directory tree has each node once, and no cycle.                    *)
IsTree ==
  /\ \A d, e \in Dirs : \A i \in DOMAIN Entries[d], j \in DOMAIN Entries[e] :
       Entries[d][i] = Entries[e][j] => d = e /\ i = j
  /\ \A d \in Dirs : \A i \in DOMAIN Entries[d] :
       Entries[d][i] \in Dirs => d \notin Below(Entries[d][i])

-----------------------------------------------------------------------------
TypeOK ==
  /\ masks \in MaskLists /\ sw \in Switches
  /\ present \in SUBSET Nodes /\ empty \in SUBSET Files /\ faults \in 0..MaxFaults
  /\ pc \in {"list", "enter", "read", "find", "open", "binary", "search",
             "done", "exit", "killed"}
  /\ at \in 0..Len(masks) /\ stack \in Seq(Frame)
  /\ arg \in WalkMask \cup {<<>>} /\ (pc = "enter" => arg \in WalkMask)
  /\ (pc = "read" => stack # <<>>)
  /\ glpActive \in Nodes \cup {NoFile}
  /\ (pc \in {"find", "open", "binary", "search"} => glpActive \in Files)
  /\ mapped \in Files \cup {NoFile}
  /\ g_dwFoundFileCnt \in Nat /\ g_dwFoundRejCnt \in Nat
  /\ g_dwFoundDirsCnt \in Nat /\ g_dwDirsExcl \in Nat /\ g_dwExclCnt \in Nat
  /\ g_dwDoneCnt \in Nat /\ g_dwMapFailedCnt \in Nat
  /\ g_sFailList \in Seq(Files) /\ searched \in Seq(Nat \X Files)

(* Fa4Wild.c:285-385, Fa4.c:3635-3706: with -b-, or without binary files,  *)
(* the counters that Show_Found_Nums reports account for every file found, *)
(* whatever vanishes or is truncated on the way: each is rejected,         *)
(* excluded, could not be mapped, was searched or is in hand, once.        *)
FilesAccounted ==
  sw.ignoreBin \/ IsBinary = {} =>
    g_dwFoundFileCnt =
      g_dwFoundRejCnt + g_dwExclCnt + g_dwMapFailedCnt + g_dwDoneCnt + InHand

(* Fa4.c:3997-4138, 5346: whichever way a file is left, none stays mapped  *)
(* or open; and while one is mapped it is the one in glpActive, which the  *)
(* frames of the recursion share.                                          *)
MapIsShut ==
  IF pc \in {"binary", "search", "killed"} THEN mapped = glpActive
  ELSE mapped = NoFile

(* Fa4Wild.c:222-232 tells of directories that were searched repeatedly:   *)
(* in a tree, a mask has no file searched twice.                           *)
NothingTwice ==
  IsTree => \A i, j \in DOMAIN searched : searched[i] = searched[j] => i = j

(* Fa4Wild.c:264-413: when the walk ends, a file that a mask asks for has  *)
(* been searched, unless something was taken away; and none has that it    *)
(* does not allow.                                                         *)
AllWantedSearched ==
  /\ \A i \in DOMAIN searched : searched[i][2] \in Allowed(masks[searched[i][1]])
  /\ pc = "done" /\ faults = 0 =>
       \A m \in DOMAIN masks : \A f \in Wanted(masks[m]) :
         \E i \in DOMAIN searched : searched[i] = <<m, f>>

(* Fa4.c:3898-3910, 3674: a file that vanishes or is emptied while another *)
(* is searched costs that file only: a wanted file that is still there     *)
(* when the walk ends has been searched, if the directories on its way are.*)
OnlyFaultsCost ==
  pc = "done" =>
    \A m \in DOMAIN masks : \A f \in Wanted(masks[m]) :
      f \in present \ empty /\ Dirs \subseteq present =>
        \E i \in DOMAIN searched : searched[i] = <<m, f>>

(* Fa4Wild.c:264-413: the walk ends, though other programs interfere.      *)
WalkEnds == <>(pc \in {"done", "exit", "killed"})
=============================================================================
