---------------------------- MODULE StackMachine ----------------------------
(***************************************************************************)
(* The instructions of the stack engine (engine.cpp, start_exec()) that    *)
(* the expressions and statements of one function are compiled to.         *)
(*                                                                         *)
(* A stack slot is a VMWord and an int variable a VMInt of half its width, *)
(* so the data segment is a sequence of VMInt cells, two to the word.  A   *)
(* call of another function is one instruction named after the function:   *)
(* one() returns 1, same(v) returns v, nothing() is void and empty.        *)
(***************************************************************************)
EXTENDS Integers, SequencesExt

CONSTANT IntBits    \* width of VMInt; a VMWord has twice as many bits

ASSUME IntBitsAssumption == IntBits \in Nat \ {0, 1}

Radix == 2 ^ IntBits

Signed(v, r) == ((v + r \div 2) % r) - r \div 2
VMInt(v)  == Signed(v, Radix)
VMWord(v) == Signed(v, Radix * Radix)

\* The quotient of C, rounded towards zero.
Abs(v)  == IF v < 0 THEN -v ELSE v
Quo(l, r) == IF (l < 0) = (r < 0) THEN Abs(l) \div Abs(r) ELSE -(Abs(l) \div Abs(r))
Truth(b) == IF b THEN 1 ELSE 0

Dividing == {"DIV", "MOD"}
Comparing == {"EQ", "LESS", "GREAT"}
Arithmetic == {"ADD", "SUB", "MUL", "SHL"} \cup Dividing \cup Comparing

Binary(op, l, r) ==
  VMWord(CASE op = "ADD"   -> l + r
         [] op = "SUB"   -> l - r
         [] op = "MUL"   -> l * r
         [] op = "SHL"   -> l * 2 ^ (r % (2 * IntBits))
         [] op = "DIV"   -> Quo(l, r)
         [] op = "MOD"   -> l - r * Quo(l, r)
         [] op = "EQ"    -> Truth(l = r)
         [] op = "LESS"  -> Truth(l < r)
         [] op = "GREAT" -> Truth(l > r))

Unaries == {"NEG", "NOT", "BNOT", "I2B"}

Unary(op, v) ==
  VMWord(CASE op = "NEG"  -> -v
         [] op = "NOT"  -> Truth(v = 0)
         [] op = "BNOT" -> -v - 1
         [] op = "I2B"  -> Truth(v # 0))

Calls == {"one", "same", "nothing"}
Jumps == {"JMP", "JZ", "JNZ", "JZND", "JNZND"}

Instruction(op, rmode, data) == [op |-> op, rmode |-> rmode, data |-> data]

-----------------------------------------------------------------------------
(* A machine runs one activation of the function: [ip, stack, end, seen],  *)
(* the top of the stack first; end is "" until it returns a "value" or     *)
(* nothing ("void") or divides by zero ("trap"); seen is history, the      *)
(* statements it came by.                                                  *)

Start == [ip |-> 1, stack |-> <<>>, end |-> "", seen |-> <<>>]

\* What a machine needs to know of its surroundings: the cells of the data
\* segment as they are now, and the argument of the function.
Surroundings(cells, arg) == [cells |-> cells, arg |-> arg]

Next1(m, stack) == [m EXCEPT !.ip = @ + 1, !.stack = stack]

StepPush(i, env, m) ==
  Next1(m, <<IF i.rmode = "DIRECT" THEN env.cells[i.data] ELSE env.arg>> \o m.stack)

StepBinary(i, m) ==
  LET r == m.stack[1]  l == m.stack[2]
  IN  IF i.op \in Dividing /\ r = 0 THEN [m EXCEPT !.end = "trap"]
      ELSE Next1(m, <<Binary(i.op, l, r)>> \o SubSeq(m.stack, 3, Len(m.stack)))

StepUnary(i, m) == Next1(m, [m.stack EXCEPT ![1] = Unary(i.op, @)])

\* JZ and JNZ pop what they test; JZND and JNZND keep it when they jump.
StepJump(i, m) ==
  LET taken == CASE i.op = "JMP" -> TRUE
                 [] i.op \in {"JZ", "JZND"}   -> m.stack[1] = 0
                 [] i.op \in {"JNZ", "JNZND"} -> m.stack[1] # 0
      keeps == i.op = "JMP" \/ (taken /\ i.op \in {"JZND", "JNZND"})
      stack == IF keeps THEN m.stack ELSE Tail(m.stack)
  IN  [m EXCEPT !.ip = IF taken THEN i.data ELSE @ + 1, !.stack = stack]

\* A called function takes its arguments off the stack and leaves its value.
StepCall(i, m) ==
  CASE i.op = "one"     -> Next1(m, <<1>> \o m.stack)
    [] i.op = "same"    -> Next1(m, m.stack)
    [] i.op = "nothing" -> Next1(m, m.stack)

Executed(i, env, m) ==
  CASE i.op = "PUSHI"       -> StepPush(i, env, m)
    [] i.op \in Arithmetic  -> StepBinary(i, m)
    [] i.op \in Unaries     -> StepUnary(i, m)
    [] i.op \in Jumps       -> StepJump(i, m)
    [] i.op \in Calls       -> StepCall(i, m)
    [] i.op = "DROP"        -> Next1(m, Tail(m.stack))
    [] i.op = "NOP"         -> Next1(m, m.stack)
    [] i.op = "RETI"        -> [m EXCEPT !.end = "value"]
    [] i.op = "RET"         -> [m EXCEPT !.end = "void"]

\* starts are the positions at which the statements begin.
Step(code, starts, env, m) ==
  IF m.end # "" THEN m
  ELSE Executed(code[m.ip], env,
                IF m.ip \in starts THEN [m EXCEPT !.seen = Append(@, m.ip)] ELSE m)

\* Nothing in this fragment assigns, so that a machine that has taken more
\* steps than there are instructions without an end never ends.
Run(code, starts, env) ==
  FoldLeft(LAMBDA m, k : Step(code, starts, env, m), Start,
           [k \in 1..Len(code) + 1 |-> k])

\* The value a function returns; nothing else of its stack outlives it.
Value(m) == IF m.end = "value" THEN m.stack[1] ELSE 0
=============================================================================
