----------------------------- MODULE MCFindSkip -----------------------------
(* Small instances of FindSkip.                                            *)
EXTENDS FindSkip

CONSTANT MaxLen

(* A capital, so that a byte in hand unfolded may be the find. *)
a == 65
QUOTE == 34
APOSTROPHE == 39

MCText(alphabet, len) == UNION {[1..i -> alphabet] : i \in 1..len}

Off == [case |-> FALSE, parity |-> FALSE, spacey |-> FALSE, whole |-> FALSE,
        whole2 |-> FALSE, bin |-> FALSE, perl |-> FALSE]

MCFinds == {<<a>>, <<a, a>>, <<SLASH, a>>}

(* Texts of C, longer ones without CR; the same taken as binary; of Perl.  *)
MCInputs ==
  [file : MCText({a, SLASH, STAR, LF}, MaxLen)
            \cup MCText({a, SLASH, STAR, CR, LF}, MaxLen - 2),
   find : MCFinds, sw : {Off}]
    \cup
  [file : MCText({a, SLASH, STAR, LF}, MaxLen - 2),
   find : MCFinds, sw : {[Off EXCEPT !.bin = TRUE]}]
    \cup
  [file : MCText({a, HASH, QUOTE, BACKSLASH, LF}, MaxLen - 1)
            \cup MCText({a, HASH, QUOTE, APOSTROPHE, CR, LF}, MaxLen - 2),
   find : {<<a>>, <<a, a>>}, sw : {[Off EXCEPT !.perl = TRUE]}]
=============================================================================
