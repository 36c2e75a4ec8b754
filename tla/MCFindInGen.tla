---------------------------- MODULE MCFindInGen ----------------------------
(* Small instances of FindInGen.                                           *)
EXTENDS FindInGen, SequencesExt

CONSTANT MaxTokens

a == 97
b == 98
DOT == 46
OPEN == 40

MCFile(alphabet, len) == UNION {[1..i -> alphabet] : i \in 1..len}

(* One text file, of words and ends of line, and pairs of short files.     *)
MCFileLists ==
  {<<FlattenSeq(t)>> : t \in
     MCFile({<<a, b>>, <<a>>, <<LF>>, <<CR, LF>>}, MaxTokens)
       \cup MCFile({<<a, b>>, <<b>>, <<LF>>, <<CR>>}, MaxTokens - 1)}
    \cup (MCFile({a, b, LF}, 3) \X MCFile({a, b}, 2))

MCRegexFileLists == MCFile({a, LF}, 3) \X MCFile({a, LF}, 3)

P(t) == [text |-> t, regex |-> FALSE]
R(t) == [text |-> t, regex |-> TRUE]

(* Plain finds, a pattern before one, and one that does not compile after. *)
MCFindLists == {<<P(<<a, b>>)>>, <<P(<<b>>), P(<<a, b>>)>>,
                <<R(<<a, DOT>>), P(<<b>>)>>, <<P(<<a>>), R(<<OPEN>>)>>}
MCOneRegex == {<<R(<<a, DOT>>)>>}

Off == [case |-> FALSE, parity |-> FALSE, spacey |-> FALSE, whole |-> FALSE,
        whole2 |-> FALSE, bin |-> FALSE, begin |-> FALSE]

MCSwitches == {Off, [Off EXCEPT !.begin = TRUE], [Off EXCEPT !.bin = TRUE],
               [Off EXCEPT !.case = TRUE, !.whole = TRUE]}
MCNoSwitch == {Off}

(* The patterns are sequences of letters and dots, matched anywhere.       *)
MCPcreCompiles(t) == t # <<OPEN>>
MCPcreExec(t, line) ==
  \E o \in 0..(Len(line) - Len(t)) :
    \A i \in DOMAIN t : t[i] \in {DOT, line[o + i]}
=============================================================================
