# TLA+ models of FA4

FA4 is a search program for the command line, in the manner of grep: it takes
one or more texts or regular expressions, one or more file masks and some thirty
switches, walks the directories, maps each file into memory and shows the lines
in which the texts stand. This directory holds TLA+ modules for its own logic,
the TLC configurations that check them on small instances, and proofs, checked
by TLAPS, of the properties that matter most.

What is modelled is the program that `CMakeLists.txt` builds on a Unix system.
Code under `WIN32`, and switches that only Windows has (`-D`, `-cvs`, `-8`), are
left out; PCRE and dirent are vendored and appear as constants.

Contents: [the system](#the-system) · [what is hard](#what-is-hard-in-this-code) ·
[modules](#modules-and-the-code-they-model) · [runs](#runs) · [bounds](#bounds) ·
[fairness](#fairness) · [proofs](#proofs) · [divergences](#divergences-met) ·
[not modelled](#not-modelled-and-why) · [plan](#plan)

## The system

FA4 has one thread. Its parts call one another; they share one work structure
(`WORKSTR`, the macros `W.` and `GW.` of `Fa4Work.h`) and a set of globals.

    main > JMP_main (setjmp)
             Fa4_main
               DoSetup
               ProcessArgs ......... switches, finds, masks, nested @files
               Process_Finds
                 Process_Wilds ..... one mask; recursive under -r
                   Find_In_File .... one file: exclude, map, search, unmap
                     Find_In_Gen   or  Find_In_Lines (-F:2)
                       FullComp / pcre_exec
                       ShowLine > GettheLine, OutALine > DO_OUT
                     ShowFLines, prtoutlist    at the end of the file
               Show_Found_Nums ..... the summary
             Pgm_Exit .............. lists, clean-up, longjmp
             Error_Exit > Pgm_Exit   from anywhere

| Component | State it keeps | Operations | What makes it correct |
|---|---|---|---|
| Command line (`Fa4Help.c`) | `g_sFind`, `g_sFileList`, flags, `giFirst`, `glpError`, the slots `gsGFS` | `ProcessArgs`, `DoAnINP`, `DoReadBuf`, `Add2Finds`, `Add2Files`, `Do_*_Switch` | what is searched for is what was written, through any nesting of `@` files; an error anywhere stops everything; no handle or buffer is lost or used after it is gone |
| Start and exit (`Fa4Con.c`, `Fa4.c`) | `iCritErr`, `iRetVal`, `mark`, `lpWS` | `Fa4_main`, `Error_Exit`, `Pgm_Exit` | one way out from everywhere; the exit code tells an error, else the finds |
| Walk (`Fa4Wild.c`, `Fa4.c`) | the call stack, the shared buffer `glpActive`, counters, `g_sFailList` | `Process_Finds`, `Process_Wilds` | each wanted file once for a mask, none forgotten, whatever other programs do meanwhile; the walk ends |
| Fate of a file (`Fa4.c`) | `glpMapView`, `ghActFile`, `gdwActLen`, counters | `Find_In_File`, `GetFileMap`, `ShutFileMap`, `Is_Binary_File`, `ShowFail` | every file found is counted once as searched, failed or left out; no map outlives its file |
| Wild cards, excludes (`grmLib.c`, `Fa4.c`) | exclude lists | `MatchFiles`, `WildComp2`, `KindofCompare`, `InExclude`, `SplitFN` | the matching that `*` and `?` promise |
| Compare (`Fa4Comp.c`) | none | `FullComp`, `Move2Find`, `Get_Chr` | a find is reported exactly where it stands, under `-c -p -i -w -w2` |
| Search by finds (`Fa4Find.c`) | `dwi`, `dwl`, `dwLnBgn`, `lpoff[]`, `g_dwFndFlg` | `Find_In_Gen` | each line with a find once, in order, with its number and text; the flags tell which finds stood in the file |
| Search by lines (`Fa4Find.c`) | the same | `Find_In_Lines`, `Process_Line_For_Finds` | the lines in which all finds stand, once, in order |
| Search past comments (`Fa4Find.c`) | quote, escape and comment states | `Find_Skip`, `Find_Skip_Perl` | no find in a comment, all others |
| Output (`Fa4Show.c`, `Fa4.c`, `Fa4Out.c`) | `g_sLines`, `g_sOutList`, `gfDoneFile`, `g_ioHold`, `gdwFindsOut` | `ShowLine`, `OutALine`, `ShowFLines`, `DO_OUT`, `prtoutlist` | a name heads its lines, lines are in order, `-F:1` shows all or nothing, typed finds show what their type says |
| Text of a line (`Fa4.c`) | the growing `glpLineBuf` | `GettheLine` | never past the buffer; the text shown is the line's |
| Lists (`Fa4List.h`) | `Flink`, `Blink` | the `LIST_ENTRY` macros | both chains agree, nothing is freed twice |

How they meet: the walk gives the search a mapped file in `glpMapView` and
`gdwActLen`; the search gives the output an offset, a line number and the
history of line starts; the output leaves lines in lists that the search empties
at the end of the file; errors travel as text in `glpError`, as counts, or as a
`longjmp`.

## What is hard in this code

`PROJECT.json` lists the hazards at their lines. In short:

- **Stale state.** Nearly everything is global: what the search of one file, or
  of one find, leaves behind meets the next one. Flags, line history, the name
  already shown, the held list, the compiled pattern, the rotating slots.
- **Edges.** Ends of files, of lines and of the compare are off by one in
  places, with bytes that are signed in one place and not in another.
- **The file system moves.** stat, open and mmap are three moments.
- **Failure in the middle.** `Err_Exit` leaves from deep inside the walk; an
  unreadable `@` file must unwind every level above it.
- **Order.** A file is searched once for each find, yet shown in line order;
  `ShowFLines` changes the list it goes over.
- **Limits.** Ten input slots, 512 arguments, 32 find flags, open files.

## Modules and the code they model

| Module | Models | State and actions |
|---|---|---|
| `FA4Bytes` | `Fa4Comp.c`, `getachar`, `getupchar`, `Move2Find` | no state. Bytes are 0..255; where the C code compares a signed char the operator says so. `FullComp`, `ScanHit` (the test that comes before it) and their parts. At its end, beside what is translated, the reference they are measured by: `FindStands` (the bytes of the find are there) and `FindAlone` (no word goes on around them) |
| `FA4Lines` | `IncLine`, `lpoff`, CR and LF | no state. `IncLine`, and the notions of line that the properties use |
| `FullCompare` | one call of `FullComp` | a file, a find, switches; the action moves through the offsets and records the verdicts |
| `FindReport` | (abstract) | what a search promises: the places wanted are reported once each, in order, file after file, and none is missing from a file that was left |
| `FindInGen` | `Find_In_Gen` | `pc` is open / find / scan / regex; one action is one turn of a loop of the code: open a file, take the next find (compiling a pattern), look at a byte and perhaps report and skip to the end of the line, take a line for `pcre_exec`. `Err_Exit` is an action |
| `FindInLines` | `Find_In_Lines`, `Process_Line_For_Finds` | as above, by lines |
| `FileWalk` | `Process_Finds`, `Process_Wilds`, `Find_In_File`, `GetFileMap`, `Is_Binary_File`, the counters | the recursion is a stack of frames; one action is one entry of a directory or one outcome of a system call. The environment deletes and truncates between any two steps |
| `FindSkip` | `Find_Skip`, `Find_Skip_Perl` | the loop over the bytes with its states: in a comment of either kind, in a quote, behind a backslash, the compare of a find under way; one action is one turn of the loop, and the end of the file is an action of its own, for that is where a comment or a quote without end bites |
| `LineText` | `GettheLine`, `ReAllocate_LineBuffer`, the rest of `ShowLine` (`-S`, `-L`, `-LF`, `-LL`, make files, binary files, wrapping) | the growing buffer is its size and what is in it; one action is one byte put into it, or one line handed on |
| `WildMatch` | `MatchFiles`, `SplitExt`, `WildComp2`, `Do_X_Switch` with the files of `-X:@`, `KindofCompare`, `InExclude`, `InExcludeD`, `Check4ExcludedDir`, `SplitFN` | the static buffers of body and extension outlive a call, so the state is what they hold; actions are the reading of the excludes, and one question after another |
| `FindOutput` | `ShowLine`, `DO_OUT`, `OutALine`, `OutGFName`, `ShowFLines`, `Fa4Out.c`, the end of `Find_In_Gen` | a hit is a pair of find and line, found by `FullComp`, which counts it, or by `pcre_exec`, which does not; lists are sequences; actions are the ways a hit goes and the ways a file ends |
| `CommandLine` | `ProcessArgs`, `DoAnINP`, `DoReadBuf`, `Open4Read`, `Add2Finds`, `Add2Files`, `Do_U_Switch`, `Fa4_main`, `Error_Exit`, `Pgm_Exit`, `JMP_main` | calls of `ProcessArgs` are a stack; an argument is a record of what it asks for; handles and buffers are numbered so that a stale one shows |
| `MC...` | | the constants of the runs |
| `FA4Lemmas` | | facts about sets of offsets, ends of lines, counts of lines and folded finds that the proofs share, and the three theorems on the compare (`FoundStands`, `StandsFound`, `FoundStandsSpacey`) |
| `FindInGen_proofs`, `FindInLines_proofs`, `FindSkip_proofs`, `FindOutput_proofs`, `LineText_proofs`, `FileWalk_proofs`, `CommandLine_proofs` | | the theorems, each of the module it is named for; `FindInGen_proofs` has those of `FullCompare` too, `FileWalk_proofs` those of `WildMatch` |

Definitions keep the names of the source (`g_dwFndFlg`, `lpoff`, `gsGFS`), and
every definition that stands for code has its lines in `map` of `PROJECT.json`.
Offsets are those of the code, from 0; files and finds are sequences, so the byte
at offset `o` is `file[o + 1]`. A definition introduced as "a fault that the
checks must notice" is a plausible bug kept beside the right definition: put in
its place it makes the property named in `mutants` fail.

`FindReport` is the abstract specification. `FindInGen` and `FindInLines` each
instantiate it at their end with a mapping of their own (what is wanted are lines
that hold a find, or lines that hold all of them) and name it `ReportsInOrder`:
two quite different loops keep the same promise.

The pieces fit together at the values they hand on. `FindSkip` and `FindInGen`
report pairs of find and line; the hits that `FindOutput` takes are sets of just
these. `FindOutput` prints a line as an entry; what the entry's text is, is
`LineText`. `WildMatch` decides of one name; the sets of names and directories
that `FileWalk` takes are what it accepts. `CommandLine` ends where the search
begins, with the finds and masks that the others start from.

## Runs

| Run | Question | Distinct states |
|---|---|---|
| `full_compare` | Does `FullComp` report a find exactly where the switches say that it stands? `FindsAreReal` one way, `RealFindsFound` the other, against a reference that is not written byte by byte. Under `-i` the first says that the find stands there up to the length of the runs of white space, without `-p` or in files of 7-bit bytes; the second is claimed without `-i` and before the last byte of the file, see [divergences](#divergences-met) | 421 920 |
| `find_in_gen` | Over small texts, for plain finds and for patterns: is every line with a find reported once, in order (`ReportsInOrder`, the refinement of `FindReport`), with the right number and text (`LinesCounted`, `ShownLineHoldsFind`), do the flags on which `-F:1` decides tell the truth for every file (`FlagsTellFinds`), are the lines that a pattern matches reported, each once (`RegexLinesReported`), and does the search end, also where a pattern does not compile (`SearchEnds`)? | 129 490 |
| `find_lines` | The same of the search by lines: the lines shown are those that hold every find (`HoldingLinesShown`), the text shown is that of the line searched (`ShownIsSearched`), in the order of `FindReport` (`ReportsInOrder`) | 252 029 |
| `find_skip` | Does the search past comments show each find that stands in code, and none in a comment (`CodeFindsShown`), against a machine that tells comments from code and knows nothing of finds? Has what is shown the right line and number (`ShownLineRight`), whatever was passed over? | 135 524 |
| `line_text` | For every line of small files and every place of a find in it, as text, wrapped, stripped, with lines before and after, as a make file and as a binary file: has the growing buffer room for each byte (`LineFits`), is what is handed on the text of the lines asked for (`TextKept`), is the find in it (`FindShown`)? | 433 272 |
| `wild_match` | Does a name match a mask exactly when `*` and `?` say so, whatever was asked before and is still in the static buffers (`MatchedAsMasked`)? Is excluded just what `-X` named, as a file, a path or a directory (`ExcludedAsMasked`)? Both but for the masks listed under [divergences](#divergences-met) | 236 405 |
| `file_walk` | While other programs delete and truncate: do the counters of the summary account for every file (`FilesAccounted`), is no map left behind on any way out (`MapIsShut`), is nothing searched twice for a mask (`NothingTwice`), is nothing searched that the mask does not allow and, when no fault struck, everything that it wants (`AllWantedSearched`), does a fault cost only what it took (`OnlyFaultsCost`), and does the walk end? | 174 120 |
| `find_output` | Does one name head the lines of each file (`NamesHeadLines`), are the lines in order (`LinesInOrder`), does `-F:1` show all or nothing (`ShownAsAsked`), are typed finds shown as the comments of `ShowFLines` say (`TypedNeedCompany`, `TypedShareLine`), is the exit code the number of the finds that are not inhibited, less the lines that a pattern has matched, which nothing counts (`ExitTellsFinds`)? | 322 680 |
| `command_line` | Does the search get the finds and masks as written, through nested `@` files (`ItemsTaken`, against a flattening of the files to a depth)? Does no slot hold a dead handle (`SlotsAlive`), are the arguments in use never freed (`ArgsAlive`), is no handle lost before the slots wrap (`HandlesAreInputs`), does the exit code follow from what was written (`ExitAsWritten`), does the program end even where an input names itself (`Ends`)? | 54 552 |
| `regex_files`, `skip_all_in_one`, `name_taken` | expected violations: a sentence of the help or of a comment that the code does not keep, see [divergences](#divergences-met) | few |

Deadlock is not checked: the program ends, and so does every behaviour.
`SearchEnds`, `WalkEnds` and `Ends` say that it ends where it should.

## Bounds

- `full_compare`: files of up to 4 bytes over a letter in three forms (small,
  capital, with the 8th bit), a space and a hyphen; finds of up to 4 bytes,
  under eight mixes of the switches, `-i` with and without `-p` among them. All
  branches of `FullComp` depend on the byte before the find, the bytes of the
  find and the one after it.
- `find_in_gen`: every text of up to four pieces out of `ab`, `a`, LF and CR LF, and
  of up to three out of `ab`, `b`, LF and a lone CR, so of up to eight bytes; and pairs of
  files of up to 3 and 2 bytes. The finds are of one and two bytes, alone and in
  pairs. Four pieces hold two lines with a find each, empty lines, CR LF, a last
  line without end, and a find across the places where the code is off by one; a
  second file shows what the first left. `lpoff` keeps as many entries as `MXLPS` does
  in the code.
- Patterns in `find_in_gen`: in the same files, one of a letter and a dot that matches
  anywhere in a line, before a plain find; one that does not compile. What PCRE does
  is a constant.
- `find_lines`: every text of up to 5 bytes over two letters, CR and LF, and over a
  letter, a space and LF, and pairs of files of up to 3 and 2 bytes; two finds, of up to
  three bytes, one of them with a space, without switches, under `-w`, and under `-i`.
- `find_skip`: texts of up to 6 bytes over a letter, slash, star and end of line:
  a comment of each kind with one byte before, in and behind it, and one that
  the file ends in. For Perl up to 5 bytes, with quotes, `#` and the backslash.
- `line_text`: the sizes are constants of the module and small in the run: a
  buffer of 6 that grows by 6 (`MXLINEBUF`), lines that wrap at
  4 (`Max1`) or 6 (`End1`), two bytes back and one on in a binary file. A line
  of ten bytes makes the buffer grow, with bytes that put one and bytes that put
  two at the place where it is full. Binary files have one piece more than the
  others, so that the backing up can end before it comes to the start. `LineAlwaysFits` is proved for every size above four.
- `wild_match`: masks of up to three characters out of a letter, another, `*` and
  `?`, with and without an extension, against names of up to three characters and
  some longer; two questions are asked in a row (`Turns`), the second after a
  longer or shorter one, which is all that the static buffers can remember. Exclude texts of up to three
  characters, given directly and in a file.
- `file_walk`: four directories, one of them excluded, in a depth of three, six
  files, among them binary and excluded ones, masks that name a file, one of
  which its own wild card matches as well, and up to three faults at any moment: enough for the file in hand, its directory and
  another file of it.
- `find_output`: two finds, files of up to three lines (pairs of files of two),
  every set of hits, all mixes of the switches, neither or either find a pattern. Typed finds are compared in
  pairs, so a third adds no new case to type 2; the same find on another line is
  in.
- `command_line`: a search that ends with a count from -2 to 2 (`MaxFinds`); three slots, files of at most three arguments (`MXARGS` = 5
  counts the dummy one and refuses one more), six handles. The nesting `four`
  wraps onto a slot in use, `lost` finds nothing at the bottom of a wrap, `self`
  runs out of handles, `many`, `much` and `deep` have too many arguments: of such
  an input only the first is read, also of the input `tail` that `deep` names with
  it. Command lines are all those of up to two arguments out of 24, and of three
  out of 12.

## Fairness

Each specification with a liveness property has weak fairness of the whole next
step, or, in `FileWalk`, of the program's steps and not of the environment's.
FA4 is one thread that never waits for an event: as long as the operating system
runs it, it takes its next step. No property relies on which of two steps is
taken.

## Proofs

TLC checks the small instances above; the theorems hold for every value of the
constants (any files, finds, patterns, trees, numbers of faults, command lines,
input files, numbers of slots).

| Theorem | States |
|---|---|
| `FindInGen_proofs!TypeCorrect` | `Spec => []TypeOK` |
| `FindInGen_proofs!LineCountsRight` | `Spec => []LinesCounted`: in a text of any length the scan has counted just the LFs behind it, and `lpoff[0]` is the last of them |
| `FindInGen_proofs!ShownLinesRight` | `Spec => []ShownLineHoldsFind`: in a text without a lone CR the line shown for a find is the one that holds it, with its number |
| `FindInGen_proofs!FlagsRightFinds` | `Spec => []FlagsTellFinds`: the flags on which `-F:1` decides tell, for every file, which plain finds stand in it |
| `FindInGen_proofs!SearchReports` | `Spec => ReportsInOrder`: `Find_In_Gen` implements `FindReport` |
| `FindInGen_proofs!RegexReports` | `Spec => []RegexLinesReported`: the lines of the first file that a pattern matches are reported, each once, for every matcher |
| `FindInLines_proofs!TypeCorrect` | `Spec => []TypeOK` |
| `FindInLines_proofs!SearchedIsShown` | `Spec => []ShownIsSearched`: under `-F:2`, in a file without a lone CR, the text shown begins where the line searched begins, with its number |
| `FindInLines_proofs!HoldingShown` | `Spec => []HoldingLinesShown`: the lines shown are those that hold every find, each once, in order, and as many as are counted |
| `FindInLines_proofs!LinesReport` | `Spec /\ Plain => ReportsInOrder`: `Find_In_Lines` implements `FindReport`, when no find is a pattern |
| `FindSkip_proofs!TypeCorrect` | `Spec => []TypeOK` |
| `FindSkip_proofs!ShownLinesRight` | `Spec => []ShownLineRight`: past any comments, a find of a text file is shown on the line that holds it, with its number |
| `FindSkip_proofs!CodeFindsRight` | `Spec => []CodeFindsShown`: the lines shown are those in which the find stands in code, each once; the end of a comment that the file ends in may come besides |
| `FindOutput_proofs!TypeCorrect` | `Spec => []TypeOK` |
| `FindOutput_proofs!OutputInOrder` | `Spec => []LinesInOrder`: any number of finds and files, whatever is kept, picked by type or held back |
| `FindOutput_proofs!LinesUnderNames` | `Spec => []NamesHeadLines` |
| `FindOutput_proofs!ExitRight` | `Spec => []ExitTellsFinds`: the exit code is the number of the finds that are not inhibited less the lines that a pattern has matched; the number of the finds, where no pattern has |
| `FindOutput_proofs!ShownAllOrNone` | `Spec => []ShownAsAsked`: a file that was left has shown its name and, if no find has a type, all of its lines that are not inhibited, each once; or, under `-F:1`, when a find is missing, nothing; and leaves nothing held back |
| `FindOutput_proofs!TypedInCompany` | `Spec => []TypedNeedCompany`: a line is shown for a find of type 1 exactly when the file has lines of two such finds |
| `FindOutput_proofs!TypedOnLine` | `Spec => []TypedShareLine`: for finds of type 2, exactly the lines that hold two of them |
| `LineText_proofs!TypeCorrect` | `Spec => []TypeOK` |
| `LineText_proofs!LineAlwaysFits` | `Spec => []LineFits`: the line buffer has room for every byte and the NUL behind, for every file and every size of the buffer above four |
| `LineText_proofs!TextIsKept` | `Spec => []TextKept`: what is shown of a text is the text of whole lines from that of the find on, nothing lost or added where it wraps, and the lines asked for when none wraps, for any file, switches and sizes |
| `LineText_proofs!FindIsShown` | `Spec => []FindShown`: the text shown for a find contains it, for any file, find, switches and sizes under the conditions that `FindShown` names |
| `FileWalk_proofs!TypeCorrect` | `Spec => []TypeOK` |
| `FileWalk_proofs!WalkAccounts` | `Spec => []FilesAccounted` |
| `FileWalk_proofs!MapAlwaysShut` | `Spec => []MapIsShut` |
| `FileWalk_proofs!TreeSearchedOnce` | `Spec => []NothingTwice`: in a tree of any shape no mask has a file searched twice |
| `FileWalk_proofs!WalkSearchesWanted` | `Spec => []AllWantedSearched`: nothing is searched that its mask does not allow, and when nothing was taken away everything that it wants |
| `FileWalk_proofs!FaultsCostThemselves` | `Spec => []OnlyFaultsCost`: what other programs delete or truncate costs only itself |
| `CommandLine_proofs!TypeCorrect` | `Spec => []TypeOK` |
| `CommandLine_proofs!SlotsStayAlive` | `Spec => []SlotsAlive`: no slot holds a closed handle or a freed buffer, for any number of slots and any nesting of inputs |
| `CommandLine_proofs!ArgsStayAlive` | `Spec => []ArgsAlive`: the buffer of a call in flight is not freed, also when its slot was given to an input that it names |
| `CommandLine_proofs!HandlesHeld` | `Spec => []HandlesAreInputs`: while no slot was given out twice, the handles and buffers held are those of the inputs still being read: none is lost |
| `CommandLine_proofs!ItemsFromAll` | `Spec => []ItemsTaken`: what is searched for, and in which files, is what the arguments name, in the order in which they stand when every `@` is replaced by its file, for any files and any nesting |
| `CommandLine_proofs!ExitFollows` | `Spec => []ExitAsWritten`: the exit code follows from what was written, also of an error deep in a nest of inputs, unless more inputs were opened, in turn, than handles can be open |
| `FindInGen_proofs!ComparesReal` | `CompareSpec => []FindsAreReal`: for every file, find, offset and mix of the switches, what `FullComp` reports stands there; under `-i` up to the length of the runs of white space |
| `FindInGen_proofs!ComparesFound` | `CompareSpec => []RealFindsFound`: without `-i`, what stands there is reported |
| `FileWalk_proofs!WalkTakesMasked` | `MatchSpec => []MatchedAsMasked`: whatever was compared before, a name is taken only if its body and extension are in the shape of the mask's, and every such name is taken when the stars end the parts of the mask; for every mask, and every name without wild cards |
| `FileWalk_proofs!WalkLeavesMasked` | `MatchSpec => []ExcludedAsMasked`: from the text of `-X`, or the file it names, to the answer: just the files, paths and directories that its masks stand for are left out; for every text whose masks have their stars apart (`WellMade`), and every name without `*` |
| `FA4Lemmas!FoundStands` | of the operators: without `-i`, what `FullComp` reports stands there, byte for byte as `-c` and `-p` fold them, and alone if `-w` or `-w2` asks for that (finds of one byte with `-w` excepted) |
| `FA4Lemmas!StandsFound` | of the operators: without `-i`, a find of two or more 7-bit bytes that stands before the last byte of the file is reported (`-p` without `-c` excepted) |
| `FA4Lemmas!FoundStandsSpacey` | of the operators: with `-i`, what `FullComp` reports stands there when each run of white space, in the file and in the find, is taken for one space (with `-p` in files of 7-bit bytes) |

*Assumptions.* Only the named `ASSUME`s of the modules: files are sequences of
bytes, finds are not empty and have no NUL, the tree's entries are its nodes,
command lines and input files are sequences of arguments, there is a slot, a
name that is asked about is not empty, nor is the mask it is matched with (`MatchFiles`
is called with a name that the directory gave and the mask of the list), the
name that stands for what `-U` adds is not one an argument gives. Of the sizes of
`LineText`: `gdwMax1Line <= gdwEnd1Line` (90 and 120, or what `-LW` gives and 40
more, `Fa4Help.c:2206`) and `g_dwBackup > 0` (40, or what `-B` gives, which takes no
0, `Fa4Help.c:1638`).
TLC evaluates them on every run.

*The argument for the line counts.* `LinesCounted` speaks of the number of LFs
before the scan's offset. That number is a cardinality of a set that the skip to
the end of a line enlarges by no element (`EndOfLineIs`: between the find and the
end there is no LF) and the step over the LF by one (`CountStep`). The counting
happens after the skip, in the same turn of the loop, so the invariant is stated
for the state between two turns. `ShownLineHoldsFind` is not inductive by
itself: the line shown is computed from `lpoff[0]` and the find's offset, so it
needs `LinesCounted`, the type of the scan, and that a find that begins with no
CR or LF does not move the start of its line (`HitIsNoBreak`). `FA4Lemmas` holds
what is needed of least and greatest members of sets of offsets and of counting.

*The search by lines and the one past comments* stand on the same lemmas.
`ShownIsSearched` needs `LineKept`: at the start of a turn `lpoff[0]` is the last
LF before the line in hand, and that line begins behind the CRs and LFs that
follow it. In `FindSkip` a turn may pass over a comment's first bytes, an escaped
byte or a find before it looks at the byte in hand; `LinesKept` says that between
any two turns, in a comment as in code, the count and `lpoff[0]` are right, and
`TurnCounts` that no LF is lost on any way through a turn.

*The line buffer.* `LineFits` is not inductive: one byte of the file may put two
or three into the buffer, and the code looks at the room only afterwards.
`RoomLeft` says that at the head of the loop five are free: the code enlarges the
buffer when four or fewer are left, by more than four, so that what a turn puts
and the NUL behind it always fit. That is where sizes above four are needed.

*The text kept.* `TextKept` speaks of what is put out for a call, joined. `Way` says
of the state between two turns that this, with what is collected and not yet put
out, is just what the bytes from the line's start to the scan look like
(`LooksOf`). That `FlattenSeq`, a recursive function of the community modules, is
what it is for one more element is again an argument from the least place
(`FlattenIs`, `FlattenMore`); `LooksGrow` then gives what one byte adds, and
`LooksSkipFront` and `LooksSkipBack` that ends of line add nothing. How many lines
are shown follows from `ByLine`: while no line is wrapped, the lines behind the scan
that do not go on in the next (`Whole`) and those still to come are those asked for.
`ByLine` needs that a text not empty is all of its line (`LineOf`), which is where a
wrap at the last character of a line breaks it, and `ShortLines` excludes that.

*The order of the output.* A line goes to the end of what is printed, or before
the first line kept with a greater number. `InsertLineOrders` shows that the
lines kept stay in order. That `ShowFLines` picks a subsequence (`PickedIs`) is a
fact about a recursive function, which would be an induction; it is argued by the
least place at which it fails (`Least`), and that the recursion defines a function
at all is argued the same way (`UptoExists`). The invariant `InOrder` adds what is
printed of the file in hand while its search goes on: with several finds only the
name, which stands at line 0; with one find no line greater than a hit still to
come. For the names the invariant `Heading` tells the two ways apart: under
`-F:1` nothing of the file in hand is printed and the name is all that the held
list has; otherwise the name, once `gfDoneFile` is set, is among what is printed.
That no other name stands between is then a consequence of the order.

*The walk.* `FilesAccounted` is a conjunction of sums that each action moves on
both sides; `MapIsShut` ties `mapped` to `pc` and `glpActive`: a file is mapped
only between a successful `GetFileMap` and the end of the search of that same
file. Both are inductive with the types.

*The slots of inputs.* When an input ends, what is freed is what its slot holds
*now*, which is another input's buffer if the slot was given out again. That this
never takes the arguments from under a call still running needs three facts
besides `SlotsAlive` and `ArgsAlive`: no two slots hold the same handle or buffer
(`SlotsApart`), a call reads a later input than every call below it
(`LaterInputs`), and what is in the slot of a call is not older than the input of
the call (`NoOlder`). By the last two, what the topmost call frees is its own
buffer or a later one, never that of a call below. Together with the types these
are inductive.

*No handle lost.* `HandlesAreInputs` is claimed while no slot was given out again.
Then what is held is what the calls in flight read (`HeldByCalls`), because each
call but the lowest has its input in its own slot (`OwnSlots`) and the slots to
come hold no handle (`SlotsToCome`). That the next slot is the one behind those
used (`SlotsInOrder`) has one exception: an input that cannot be opened takes a
slot and opens nothing, but then no call is left that goes on to another input
(`LoopEnds`), for the error unwinds them all.

*What is taken of the arguments.* `ItemsTaken` compares the lists with `AsWritten`,
in which each `@` is replaced by its file to the depth `MaxOpen`. While no error is
noted every call in flight has a handle (`CallsOpen`), so the depth of the calls
is bounded by the handles (`DepthBound`) and a call at place `k` of the stack is at
the depth `MaxOpen - k + 1` of the flattening (`ReadAt`). `Reads` says: there is, for each
call, what was written before its first argument (`Before`), each call continues
what the call below it is waiting in (`Waits`), and the finds and masks so far are
those of what the last call has come to (`Taken(SoFar(stack, pre))`). An input that ends
gives its caller just the words by which the flattening continues (`Returns`).
That the recursions over arguments and over depth define functions at all is
argued from the least place or depth at which they would not (`UpToIs`, `BegunIs`,
`ExpandedIs`).

*What is returned.* An error need not be the next of what is written when it is
noted: of an input with too many arguments the first is still taken, which may
ask for help and win. `FateInv` says what is left after an error: either the
first stop of what is written is that error and each call is past its first
argument, or the last call stands before its first, and what comes of that and then an
error is what is written next (`Begins`). How deep the flattening still reads there
is tied to the handles (`Left`): at least as many as can still be opened, and, if
none was closed so far (`UnclosedInv`), just as many. So an input that finds no
handle is one that the flattening refuses too, as long as no more inputs were
opened than there are handles; read in turn, more can make the two differ, and the
property does not speak of that.

*The flags of `-F:1`.* `FlagsTellFinds` speaks of the end of the last scan; `FlagsRight`
says for each find what its flag is before, during (of the offsets behind the
scan) and after its own scan, and that no flag is set ahead of it.

*The refinement of `FindReport`.* A report of the code maps to `Report`, the step
to the next file to `Leave`, all others stutter. Three facts are needed of the
state before a step. Every report so far is of a place that the scan has passed
(`ToldBehind`); every place that the scan has passed has been reported
(`BehindTold`); and under `-B` the scan stands at the start of a line between two turns
(`AtStart`), as it does nowhere else. The second is where the skip to the end of a line matters: the
finds it passes over stand in the line just reported. From both follows that a
new report is of the next place in order, and that a file is left only when none
is missing. For a pattern the lines of the first file take the place of the
offsets: `RegexAtLine` (the scan stands at the start of a line, with the count
right), `MatchesShown`, `MatchesOnce`, `MatchesRight`, and `FirstOnce`, by which no
pattern is scanned for as text in the file for which it was compiled.

*The search by lines* keeps `ShownSoFar`: the lines shown are those behind the
scan that hold every find, in order, and as many as the count says. With it and
`LineKept`, `HoldingLinesShown` and the refinement follow. `LinesReport` asks that
no find is a pattern: the stretch that is handed to the matcher has the end of
line before the line in it, and what a matcher does with that is not `Holding`.

*Finds in code.* What tells comments from code for the property is a machine that
reads every byte; that its recursion defines a function is the argument of
`StepsExist` once more (`ModesAre`). The scan knows less: the byte before and, in
Perl, the quote. `ModeKept` says that between two turns this is the machine's mode
at `dwi`, except at an LF behind a CR, where in Perl the code still believes in a
quote that the find it skipped from was in; that LF ends the quote for both. A
turn at a comment goes over the bytes at which the machine stays in it
(`LineGoesOn`, `BlockGoesOn`), so that no find in code is passed; a turn at a find
leaves its line, and where the hypothesis `NoneOpensBehind` and `NoLoneCR` are
needed is just there (`ModeBehindFind`). `ShownKept` adds that the lines shown are
those of the finds in code behind the scan, no two of them one line, and that
what is shown at the end of the file comes last and from inside a comment.

*What -F:1 and the types show.* `ShownRight` has two halves. For the file in
hand it says what the search has noted of the hits it has taken: their flags, that
the name is set, that something is held (`Noting`), and the lines kept or, with a
single find, printed (`KeepsLines`, `PrintsLines`). For each file left it says
what is printed of it (`FileRight`). Between the two stands `ShowFLines`, which goes
over the kept lines and changes the types of those behind and before it: `Turn` is
one turn of that loop, and which lines it leaves for printing is shown from the
least place that breaks the claim, as above. Types 1 and 2 each without the
other, as `TypedNeedCompany` and `TypedShareLine` are stated. For `ExitTellsFinds`
the invariant `Counting` weighs two sets against the two counters: the hits met, in any file,
that are not inhibited (`Seen`), and those that a pattern has matched (`Matched`),
which grow with the same step; a hit that is both matched and inhibited adds to
the second set and to the count that is subtracted.

*What the walk searches.* `FramesRight` says that all frames work for the mask in
hand, on directories that it reaches; `HandRight` that the file in hand is one the
mask comes to and has passed the questions already asked. `NoneLost` is the heart:
a file that the mask wants, and that is still there, is searched, in hand, or
still ahead in one of the frames or below a directory ahead in one (`Awaits`). A
fault takes only what it names, so nothing else leaves this set. In a tree,
`ApartInTree` says that what the frames have ahead, what is in hand and what was
searched are pairwise apart; that a directory's nodes are not below one of its
own needs `IsTree`, and a link back would break it.

*The compare.* `FoundStands` and `StandsFound` are facts about the operators, for
files and finds of every length; `ComparesReal` and `ComparesFound` state them, and
`FoundStandsSpacey`, of the one call that `FullCompare` makes at each offset:
`VerdictStands`, that a verdict is that of `FoundAt` at the offset the state has,
is what a step keeps. The scan compares the first byte as `GetChr` reads it,
`FullComp` the others as signed characters against a find that `Move2Find` has folded
before; that both ways see the same letter is `BytesCompared` and `FoldedBytes`, and
where they do not, with 8-bit finds or `-p` without `-c`, is what the theorems except.

*The compare under `-i`.* Here the loop of `FullComp` and the reference, which
squeezes runs of white space to one space (`Squeeze`), are both recursions over the
text. That each defines a function is one lemma, `RecursionExists`: a recursion
that at each place asks only for places of a smaller measure, and whose measure is
bounded, is satisfied by some function; as often as it is repeated it is right for one measure more, and if it
were never right everywhere there would be a least number of repeats that fails. Then
`ReadsAlike` says of the loop between two turns that what it has passed in the file
and what it has passed in the find, both squeezed, are the same; a byte adds a byte
to both, and a run of white space is passed as a whole on either side
(`SqueezeRun`). That finds are *missed* under `-i` is the code's, not the proof's:
the converse is not claimed, see [divergences](#divergences-met).

*Names and masks.* The invariant `MatchInv` is the types of the static buffers, what
the lists of excludes hold, and the two properties. What `*` and `?` promise (`Glob`),
and the loops of `WildComp2`, `KindofCompare` and `Do_X_Switch`, are recursions over
mask and name; `FitsIs`, `WildLoopIs`, `KindLoopIs` and `TakenIs` give what one step
of each is, by the argument from the least place at which it would not be so.
That what an earlier name left in the buffers does no harm is `Holding`: the
buffer reads as the part of the name in it, and behind that a NUL. `LoopSound`
shows that a match of the loop is one of `Glob`, for any mask and whatever stands
behind the NUL; `LoopComplete` the converse for parts with a star at their end only,
where the loop stops before it comes to the NULs of both. So `name_taken`, below, is about
names that are missed, never about one that is wrongly taken.

For excludes, `KindofCompareStands` says that the compare is `Stands` for each mask
in which stars are apart (`StarsApart`): the loop tries again further on, unlike
that of `WildComp2`, so stars in the middle are in. `ListHas` and `ItemIs` say what
`Do_X_Switch` has put into a list; that it is the pieces between semicolons, or the
lines of the file less their leading blanks, is `SemicolonsGive` and `LinesGive`
from what is left of the text at each step (`SplitIs`). `DirsAre` says that `SplitFN` and the loop of
`InExcludeD` ask about each directory of the path and nothing else.

*The find shown.* Two texts are built over the same bytes, and `FindOnWay` says of
each where the find is in it. In the line buffer (`FindGot`) it is at the offset
noted, as far as the scan is in it, and when the scan is past, whole; its end is
noted only by a byte behind it, which is why `FindShown` leaves out a find that
ends its line under `-LL`. In what is put out, joined with what is collected
(`FindComes`), either the find is there already, or the part of it behind the scan
is the end of the text (`UpTo`), wherever the text was wrapped meanwhile. Neither
loop stops before the find: no end of line is between the begin of the call and
the find (`CallInLine`, `BreakBefore`), and in a binary file nothing unprintable
is between the place the loop backwards found and the find (`BackUpIs`), nor is
the text cut, being not longer than `g_dwBackup` and the find are together.

*Only model-checked*: the liveness properties (`SearchEnds`, `WalkEnds`, `Ends`), which
need fairness and `ENABLED`, out of reach of this prover; and the three runs that
find a violation. Every other property of a run is a theorem. What no theorem
states, because the code does not do it: that each find under `-i` is reported, and
that each name is taken whose mask has a `*` inside a part.

## Divergences met

Shown by a run that must find the violation, with a finding in `PROJECT.json`:

- `regex_files`: `doregex` is set only in the file for which the pattern is
  compiled; in all later files the text of the pattern is searched literally.
- `skip_all_in_one`: `Find_Skip` sets no `g_dwFndFlg`, so `-F:1` with `-I+` shows
  nothing at all.
- `name_taken`: `WildComp2` runs to the longer of the two lengths; where it meets
  the NULs of mask and name together, as after a `*` that took several
  characters, it goes on to compare what earlier, longer ones left in the static
  buffers: whether a name matches depends on the names seen before.

Met while modelling, and in the models as the code has them:

*Compare and search.*

- With `-i`, the loop of `FullComp` runs `i`, an offset of the file, up to
  `dwrem`, a length: past the middle of a file finds are missed. `-i` takes bytes
  with the high bit, being signed, for spaces; such bytes in a find never compare
  equal after its first.
- A find of two bytes or more at the very end of a file is missed, with `-F:2` at
  the end of each line (`flen < dwrem`); `HoldingLinesShown`, `RealFindsFound` and
  the mapping of `ReportsInOrder` except that place. A last line without end is
  never given to `pcre_exec`.
- In a binary file, a find directly after another is skipped (`Fa4Find.c:926`).
- With `-i` and `-p`, a byte with its 8th bit set is a letter where `-p` strips the
  bit and white space where `-i` looks; `FindsAreReal` leaves such files out.
- `-w` never finds a text of one letter: the byte it takes for the following one
  is the find itself. `-p` without `-c` folds the first byte before it strips the
  8th bit, and the other bytes after.
- The line shown for a regular expression in a file with bare LFs is looked up
  from the start of the line the scan saw, and `GettheLine` may show the next.
  With `-F:2` a pattern may match the end of line before an empty line, and then
  the next line is shown; anchors see the end of line as part of the line.
- A comment that opens directly behind a find is not seen (`Fa4Find.c:1136`), and
  the last byte of a comment without end is taken for code.
- "Errorlevel gives the find count" (`Fa4Help.c:160`): only `FullComp` adds to
  `gdwFinds` (`Fa4Comp.c:193`). A line that `pcre_exec` matches is shown and raises
  `g_dwFinds` (`Fa4Find.c:876-879`), but is not in the exit code; if `-I:` inhibits it,
  it is subtracted all the same (`Fa4Show.c:220`), so that one such line makes the
  program exit with -1, which is also `GEN_ERROR`. With one plain find in a first file the exit code
  is 1, with one line matched it is 0. `ExitTellsFinds` has the code as it is and says by
  how much it falls short; the sentence of the help is kept where no pattern has
  matched. The parts that matched of a line that `-F:2` did not show are counted.

*Lines shown.*

- In a binary file the loop backwards does not look at the byte at which it has
  gone back far enough, `g_dwBackup + 1` before the find, nor at that at offset 0
  (`Fa4Show.c:280-292`); if it is unprintable, the text is taken to end there, and
  nothing of the find is shown. The first of the two was found by the proof of
  `FindShown`, in files longer than those of the run at the time. A find of one
  byte is shown as if it ended where it begins.
- `-LL` goes on from the end of the last line it showed, which is a stale one
  after a line without letters (`Fa4.c:2753`), and takes bytes with the high bit
  for less than a space.
- A line whose last character falls on the wrap brings the next line with it
  (`Fa4Show.c:552`). `-LF` is one more line, whatever the number.
- A make file drops a line whose only visible character is its first, and the
  rest of a wrapped one. `-S` with a line of no letter or digit runs on into the
  next line.

*Names and excludes.*

- A mask with `?` and no extension (`Makefil?`) never matches a name without one:
  both extensions are empty, and the compare of nothing with nothing fails.
- `**` at the end of an exclude, and `*?`, never match in `KindofCompare`. A `*`
  inside a mask takes at least one character, and the letter behind it is looked
  for once: it does not try a later one. Neither does a `?` behind a star of an
  exclude match (`a**.*` is of the same kind), and an exclude that ends in `.*`
  after another star, `*.*`, needs no dot in the name.
- A mask with a wild card and nothing before its dot (`.git*`) matches no file, for two
  blank bodies fail the same compare; but a body `.*` (`.*.c`) also takes a blank one.
- A name with a `*` or `?` in it is itself compared as a mask; the properties are
  about names without (`*` only, for excludes).

*Counts, output, command line.*

- `g_dwExclCnt` counts binary files that are searched, so "done" in the summary
  is too small; `FilesAccounted` says what the counters do add up to.
- `-F1` and `-F2` finds together: a line of type 2 can be shown because a find of
  type 1 stands on another line; `TypedShareLine` is stated without type 1.
- `-UInFile`, "Use InFile as list of files to search" (`Fa4Help.c:148`): the end
  of a name is looked for at `pb[len]`, memory that is never set, so that the
  list is ignored or taken for one name. `TakeList` takes both.
- Past ten inputs, `GetNxtGFS` hands out slots that may be in use. `SlotsAlive`
  and `ArgsAlive` hold all the same, but handles and buffers are lost, and
  where the inner file is missing an outer one's handle is closed early.
- After "Exceeded maximum ARGUMENTS" `ProcessArgs` is called nonetheless: a help
  switch among those arguments makes the program exit with 0.
- Only the first plain argument of an `@` file that comes first is a find, the
  others are masks, whatever the file is called.

## Not modelled, and why

- `LineText` has one switch for a binary file, where the code asks `g_bIsBinary2`, `FT_BIN`
  and `g_fBinary` in different places; that they differ, as for a text file that is
  forced to be shown as a binary one, is not there.
- In `FileWalk` a file that may not be read is one that cannot be opened, as if
  it had gone; its tree has no links to directories, so that `WalkEnds` says nothing of a
  link to a parent, through which the code goes on to the limit of the path.
- The list macros (`Fa4List.h`). Outside `-cvs` entries are put at the tail, or
  before the entry at which a traversal stands, and a list is emptied as a whole;
  the sequences of the models are what the macros then keep.
- How the text of a switch is read: `ProcessArgs` decides by an argument's kind
  (`-X` is in `WildMatch`). `-I:@file` (always refused, since `GetIFile` returns
  FALSE), the lists of `-F` and `-L` with their numbers, and the `FA4`
  environment variable are not there.
- The files of FrontPage and of CVS or SVN that are passed over are one set of
  names; `add_wild_file` and `FixDir`, which move text about, are left out.
- The macros that `-m2` substitutes (`ChkMake2`), the date behind a name at `-V3`,
  the messages at `-V5` and above, the summary's wording: output that feeds
  nothing back.
- Both `-F:1` and `-F:2` at once, and more than 32 finds, whose flags are shifted
  out of their word, which C does not define.
- The signal when a mapped file is truncated under the search, memory that runs out:
  the code has no answer to them.
- `-D` with its sorted lists, `-cvs`, and all that is compiled for Windows alone.
- PCRE and dirent, which are vendored and are two thirds of the C lines of the
  repository; what they do is a constant of the models.

## Plan

In the order in which a wrong result would cost: the search itself
(`FullCompare`, `FindInGen`, `FindInLines`, `FindSkip`), what is shown of it
(`FindOutput`, `LineText`), which files it sees (`FileWalk`, `WildMatch`), what it
is asked (`CommandLine`). These stand, and each of their safety properties is
proved. Where the project could grow:

- `Search`: `FileWalk`, `FindInGen` and `FindOutput` composed for a tree of two
  files, with an exit code end to end.
- The reading of the switches that take numbers, `Do_I_Switch` and `Do_L_Switch`.
