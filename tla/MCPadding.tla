----------------------------- MODULE MCPadding -----------------------------
(***************************************************************************)
(* An instance of Padding for TLC, with all lengths scaled down.           *)
(***************************************************************************)
EXTENDS Padding

C       == [kind |-> "check"]
J       == [kind |-> "junk"]
R(a, b) == [kind |-> "range", a |-> a, b |-> b]
L(k, items) == [key |-> k, items |-> items]

\* Like the default scheme: one size, a check mark between sizes, several sizes.
Default ==
  [ok |-> TRUE, stop |-> 4,
   lines |-> {L(0, <<R(2, 2)>>), L(1, <<R(2, 4)>>), L(2, <<R(3, 3), C, R(4, 6), C, R(6, 6)>>),
              L(3, <<R(1, 1), R(5, 7)>>)}]

\* A server's: the larger number first, numbers out of range, two lines of one
\* packet, parts that cannot be used.
Odd ==
  [ok |-> TRUE, stop |-> 11,
   lines |-> {L(1, <<J, R(6, 4), R(0, 5), C>>), L(9, <<R(12, 9), R(3, 20)>>),
              L(-6, <<R(-3, 4), R(2, 6)>>)}]

\* Stop is -1: as an unsigned number, the last packet there is.
Endless == [ok |-> TRUE, stop |-> -1, lines |-> {L(3, <<C, R(5, 5)>>), L(4, <<R(7, 7), R(7, 9)>>)}]
Broken  == [ok |-> FALSE, stop |-> 0, lines |-> {}]

MCRawSchemes == {Default, Odd, Endless, Broken}
=============================================================================
