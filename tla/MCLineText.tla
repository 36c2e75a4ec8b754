----------------------------- MODULE MCLineText -----------------------------
(* Small instances of LineText.                                            *)
EXTENDS LineText

CONSTANT MaxTokens

a == 97
b == 98
CTRL == 1
HIGH == 233
HIGHTAB == 137

MCText(tokens, len) == {FlattenSeq(t) : t \in UNION {[1..i -> tokens] : i \in 1..len}}

Off == [bin |-> FALSE, strip |-> FALSE, make |-> FALSE, L |-> "off",
        n |-> 0, left |-> 0, right |-> 0]

Lines(k) == [Off EXCEPT !.L = "lines", !.n = k]
Limit2(l, r) == [Off EXCEPT !.L = "limit", !.left = l, !.right = r]

MCInputs ==
  [file : MCText({<<a, b>>, <<SPACE>>, <<HIGH>>, <<CTRL>>, <<LF>>}, MaxTokens)
            \cup MCText({<<a, b>>, <<TAB>>, <<HIGHTAB>>, <<CR, LF>>, <<CR>>}, MaxTokens - 1),
   find : {<<a, b>>}, sw : {Off, [Off EXCEPT !.strip = TRUE]}]
    \cup
  [file : MCText({<<a, b>>, <<SPACE>>, <<CLOSE>>, <<LF>>}, MaxTokens),
   find : {<<a, b>>}, sw : {Lines(1), Lines(2), [Off EXCEPT !.L = "func"]}]
    \cup
  [file : MCText({<<a, b>>, <<b>>, <<BACKSLASH>>, <<SPACE>>, <<LF>>}, MaxTokens),
   find : {<<a, b>>}, sw : {[Off EXCEPT !.make = TRUE], [Lines(1) EXCEPT !.make = TRUE]}]
    \cup
  [file : MCText({<<a, b>>, <<SPACE>>, <<CTRL>>, <<LF>>}, MaxTokens),
   find : {<<a, b>>, <<b>>}, sw : {Limit2(1, 1), Limit2(2, 2), Limit2(0, 1), Limit2(0, 0)}]
    \cup
  [file : MCText({<<a, b>>, <<b>>, <<SPACE>>, <<CTRL>>}, MaxTokens + 1),
   find : {<<a, b>>}, sw : {[Off EXCEPT !.bin = TRUE], [Lines(1) EXCEPT !.bin = TRUE]}]
=============================================================================
