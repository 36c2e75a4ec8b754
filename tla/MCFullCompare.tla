--------------------------- MODULE MCFullCompare ---------------------------
(* A small instance of FullCompare: every file of up to MaxLen bytes over  *)
(* two letters of which one comes in three forms (a, A and a with the 8th  *)
(* bit set), a space and a hyphen.                                         *)
EXTENDS FullCompare

CONSTANT MaxLen

MCBytes == {97, 65, 225, 32, 45}

MCFiles == UNION {[1..n -> MCBytes] : n \in 1..MaxLen}

MCFinds == {<<97>>, <<45>>, <<97, 97>>, <<97, 65>>, <<97, 32>>, <<225, 97>>,
            <<97, 32, 97>>, <<97, 32, 32, 97>>, <<97, 45, 97>>}

NoSwitch == [case |-> FALSE, parity |-> FALSE, spacey |-> FALSE,
             whole |-> FALSE, whole2 |-> FALSE]

MCOptions == {NoSwitch, [NoSwitch EXCEPT !.case = TRUE],
              [NoSwitch EXCEPT !.whole = TRUE],
              [NoSwitch EXCEPT !.whole = TRUE, !.whole2 = TRUE],
              [NoSwitch EXCEPT !.spacey = TRUE],
              [NoSwitch EXCEPT !.spacey = TRUE, !.parity = TRUE],
              [NoSwitch EXCEPT !.parity = TRUE],
              [NoSwitch EXCEPT !.parity = TRUE, !.case = TRUE,
                               !.whole = TRUE]}
=============================================================================
