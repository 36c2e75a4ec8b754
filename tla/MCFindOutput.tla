---------------------------- MODULE MCFindOutput ----------------------------
(* Small instances of FindOutput.                                          *)
EXTENDS FindOutput

CONSTANT MaxLine

MCHits(last) == SUBSET (FindNum \X (1..last))

(* One file, pairs of files of fewer lines, and none.                      *)
MCHitLists == {<<>>} \cup {<<h>> : h \in MCHits(MaxLine)} \cup (MCHits(2) \X MCHits(2))

(* No type, one type, and one find of two that has none.                   *)
MCTypeLists == {[k \in FindNum |-> 0], [k \in FindNum |-> 1], [k \in FindNum |-> 2],
                [k \in FindNum |-> IF k = 1 THEN 0 ELSE 1]}
MCUntyped == {[k \in FindNum |-> 0]}

(* No pattern, and one that is the first or the second of the finds.       *)
MCRegexLists == {r \in [FindNum -> BOOLEAN] : Cardinality({k \in FindNum : r[k]}) < 2}
MCPlain == {[k \in FindNum |-> FALSE]}

MCInhibited == {<<1, 2>>, <<2, 1>>}

MCSwitches == {s \in Switch : s.skip => s.lines /\ ~s.noFile}
=============================================================================
