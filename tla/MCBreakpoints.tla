---------------------------- MODULE MCBreakpoints ----------------------------
(***************************************************************************)
(* A function of eight instructions with two loops, and the lines of it at *)
(* which breakpoints may be set.                                           *)
(***************************************************************************)
EXTENDS Breakpoints, TLC

\* A jump back may follow the fourth and the last instruction.
Loops ==
  [a \in 1..8 |-> CASE a = 4 -> {5, 1} [] a = 8 -> {0, 3} [] OTHER -> {a + 1}]

\* No two lines begin at the same instruction or at successive ones.
Spread == {10 :> 1 @@ 20 :> 3 @@ 30 :> 5 @@ 40 :> 8,
           10 :> 2 @@ 20 :> 0 @@ 30 :> 5 @@ 40 :> 7}
\* Line 20 has no code: a breakpoint there is where that of line 30 is.
Shared == {10 :> 1 @@ 20 :> 3 @@ 30 :> 3 @@ 40 :> 5}
=============================================================================
