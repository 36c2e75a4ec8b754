--------------------------- MODULE MCFindInLines ---------------------------
(* Small instances of FindInLines.                                         *)
EXTENDS FindInLines

CONSTANT MaxLen

a == 97
b == 98
OPEN == 40

MCFile(alphabet, len) == UNION {[1..i -> alphabet] : i \in 1..len}

(* One text file, shorter ones with spaces, and pairs of short ones.       *)
MCFileLists ==
  {<<f>> : f \in MCFile({a, b, LF, CR}, MaxLen) \cup MCFile({a, SPACE, LF}, MaxLen)}
    \cup (MCFile({a, b, LF}, 3) \X MCFile({a, b, LF}, 2))

P(t) == [text |-> t, regex |-> FALSE]
R(t) == [text |-> t, regex |-> TRUE]

MCFindLists == {<<P(<<a>>), P(<<b>>)>>, <<P(<<a, b>>), P(<<a>>)>>,
                <<P(<<a, SPACE, a>>), P(<<a>>)>>,
                <<P(<<b>>), R(<<a>>)>>, <<P(<<a>>), R(<<OPEN>>)>>}

Off == [case |-> TRUE, parity |-> FALSE, spacey |-> FALSE, whole |-> FALSE,
        whole2 |-> FALSE]

MCSwitches == {Off, [Off EXCEPT !.case = FALSE, !.whole = TRUE],
               [Off EXCEPT !.spacey = TRUE]}

(* The patterns are sequences of letters, matched anywhere in the line.    *)
MCPcreCompiles(t) == t # <<OPEN>>
MCPcreExec(t, line) ==
  \E o \in 0..(Len(line) - Len(t)) : \A i \in DOMAIN t : t[i] = line[o + i]
=============================================================================
