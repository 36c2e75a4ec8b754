----------------------------- MODULE MCFileWalk -----------------------------
(* A tree of four directories and six files, walked for one or two masks *)
(* while the environment strikes up to MaxFaults times.                    *)
EXTENDS FileWalk

CONSTANTS root, sub, deep, skip, f1, f2, f3, f4, f5, f6

MCDirs == {root, sub, deep, skip}
MCFiles == {f1, f2, f3, f4, f5, f6}

MCEntries == [d \in MCDirs |->
  CASE d = root -> <<f1, skip, sub, f2>>
    [] d = sub  -> <<deep, f3, f6>>
    [] d = deep -> <<f4>>
    [] d = skip -> <<f5>>]

M(d, p, s) == [dir |-> d, pat |-> p, single |-> s]

(* The last one is a file by its name and by its wild card.               *)
MCMaskLists == {<<M(root, {f1, f2, f4, f5}, NoFile)>>,
                <<M(sub, {f3}, f3), M(root, {f2, f3}, NoFile)>>,
                <<M(sub, {f3, f6}, f6)>>}

MCSwitches == {[recursive |-> r, ignoreBin |-> b, badRegex |-> FALSE] :
                 r, b \in BOOLEAN}
                \cup {[recursive |-> TRUE, ignoreBin |-> FALSE, badRegex |-> TRUE]}

MCExclude == {f2}
MCExcludeD == {skip}
MCBinary == {f1, f3}
=============================================================================
