----------------------------- MODULE Optimizer -----------------------------
(***************************************************************************)
(* A function's expressions and statements are compiled to instructions    *)
(* (code.cpp, UCContext::compile(), and the control statements of          *)
(* common.cpp), and when its code is complete the peephole optimizer goes  *)
(* over it in place (bytecode_optimizer.cpp), as far as -O says.           *)
(*                                                                         *)
(* Every function that a fragment of the language has within its bounds is *)
(* compiled.  The code as it was compiled is kept beside the optimized     *)
(* one, and the two are run (StackMachine).  Positions count from 1.       *)
(***************************************************************************)
EXTENDS StackMachine

CONSTANTS
  Fragments,  \* fragments of the language, each a member of Fragment
  Heap,       \* what a cell past the last allocated one may hold
  Levels,     \* the levels of -O
  Arguments   \* what the argument and the global may be when the function runs

AllLeaves == {"argument", "global"} \cup Calls
AllKinds  == {"expr", "empty", "if", "ifelse", "while", "do", "goto", "return"}

Fragment ==
  [literals  : SUBSET {VMInt(v) : v \in 0..Radix - 1},  \* values of int literals
   leaves    : SUBSET AllLeaves,
   operators : SUBSET (Arithmetic \cup Unaries),
   flows     : SUBSET {"if", "and", "or", "comma"},
   kinds     : SUBSET AllKinds,          \* kinds of statement
   body      : Nat,                      \* statements before the last return
   size      : Nat]                      \* bound: instructions

ASSUME OptimizerAssumption ==
  /\ Fragments \subseteq Fragment
  /\ Levels \subseteq 0..3
  /\ \A v \in Arguments \cup Heap : v = VMInt(v)

VARIABLES
  lang,     \* the fragment that the function is written in
  goals,    \* what is left to compile, the next thing first
  labels,   \* Label::m_offset of each label; 0 while it is not known
  source,   \* the code as it would be without the optimizer and inlining
  code,     \* the code, in the generator's buffer
  data,     \* the data segment
  heap,     \* what the memory behind it holds
  starts,   \* where the statements begin, but for those that are one JMP
  level,    \* debug.optimization_level
  inline,   \* debug.attempt_inline
  stage,    \* "compile", the pass that is next, or "done"
  blame     \* history: what was done that cannot be right, see below

vars == <<lang, goals, labels, source, code, data, heap, starts, level, inline, stage, blame>>

\* A global int, and how a goal is written.
Global == 1
Goal(k, op, label) == [k |-> k, op |-> op, label |-> label]
Expr(flags) == Goal("expr", flags, 0)    \* flags is "drop" (DROP_VALUE) or ""
Emits(op)   == Goal("emit", op, 0)
To(op, l)   == Goal("jump", op, l)
Here(l)     == Goal("here", "", l)
Stmt        == Goal("stmt", "", 0)

\* Each statement of the body, and the last return, has a label of its own
\* for goto; one more is that of the end of the function.
Return == lang.body + 2
Statements == FlattenSeq([k \in 1..lang.body |-> <<Here(k), Stmt>>])

Init ==
  /\ lang \in Fragments
  /\ goals = Statements \o <<Here(lang.body + 1), Goal("last", "", 0), Expr(""),
                             Here(Return), Emits("RETI")>>
  /\ labels = [k \in 1..Return |-> 0]
  /\ source = <<>> /\ code = <<>>
  /\ heap \in Heap
  /\ data = <<0, heap>>
  /\ starts = {}
  /\ level \in Levels
  /\ inline \in BOOLEAN /\ (level = 3 => inline)
  /\ stage = "compile" /\ blame = {}

-----------------------------------------------------------------------------
(* The compiler.                                                           *)
IpOffset == Len(source) + 1
Top  == Head(goals)
Rest == Tail(goals)
Compiling(k) == stage = "compile" /\ goals # <<>> /\ Top.k = k

\* The instructions that a list of goals will be at the least.
Needs(gs) == Len(SelectSeq(gs, LAMBDA g : g.k \in {"expr", "emit", "jump"}))

Becomes(new) ==
  /\ Len(source) + Needs(new \o Rest) <= lang.size
  /\ goals' = new \o Rest
  /\ UNCHANGED <<source, code, data>>

Put(plain, optimized) ==
  /\ goals' = Rest
  /\ source' = Append(source, plain)
  /\ code' = Append(code, optimized)
Emit(i) == Put(i, i)

NewLabel(n) == labels' = labels \o [k \in 1..n |-> 0]
Label(k) == Len(labels) + k

Options == <<lang, heap, level, inline, stage>>

\* An int literal takes sizeof(int) of the data segment (constant_op()).
Literal ==
  /\ Compiling("expr")
  /\ \E v \in lang.literals :
       /\ data' = Append(data, v)
       /\ Emit(Instruction("PUSHI", "DIRECT", Len(data) + 1))
  /\ UNCHANGED <<labels, starts, blame, Options>>

Variable ==
  /\ Compiling("expr")
  /\ \/ "argument" \in lang.leaves /\ Emit(Instruction("PUSHI", "SREL", 0))
     \/ "global" \in lang.leaves /\ Emit(Instruction("PUSHI", "DIRECT", Global))
  /\ UNCHANGED <<labels, data, starts, blame, Options>>

\* Operators; the flags are not passed on.
Operate ==
  /\ Compiling("expr")
  /\ \E op \in lang.operators :
       Becomes((IF op \in Unaries THEN <<Expr("")>> ELSE <<Expr(""), Expr("")>>)
               \o <<Emits(op)>>)
  /\ UNCHANGED <<labels, starts, blame, Options>>

\* ||, &&, ?: and the comma.
Flow ==
  /\ Compiling("expr")
  /\ \/ \E op \in {"JNZND", "JZND"} :
          /\ (IF op = "JZND" THEN "and" ELSE "or") \in lang.flows
          /\ Becomes(<<Expr(""), To(op, Label(1)), Expr(""), Here(Label(1))>>)
          /\ NewLabel(1)
     \/ /\ "if" \in lang.flows
        /\ Becomes(<<Expr(""), To("JZ", Label(1)), Expr(Top.op), To("JMP", Label(2)),
                     Here(Label(1)), Expr(Top.op), Here(Label(2))>>)
        /\ NewLabel(2)
     \/ /\ "comma" \in lang.flows
        /\ Becomes(<<Expr("drop"), Expr(Top.op)>>)
        /\ UNCHANGED labels
  /\ UNCHANGED <<starts, blame, Options>>

\* Void functions are called where no value is asked for.
CallFunction ==
  /\ Compiling("expr")
  /\ \E f \in lang.leaves \cap Calls :
       /\ f = "nothing" => Top.op = "drop"
       /\ Becomes((IF f = "same" THEN <<Expr("")>> ELSE <<>>) \o <<Emits(f)>> \o
                  (IF Top.op = "drop" /\ f # "nothing" THEN <<Emits("DROP")>> ELSE <<>>))
  /\ UNCHANGED <<labels, starts, blame, Options>>

\* has_one_instruction(): the function is one instruction and its RETI, and that
\* one is copied to the call.  An empty void function is a RET alone, and whether
\* it counts depends on what follows its code in memory.
Inlined(f) ==
  CASE f = "one"     -> Instruction("PUSHI", "DIRECT", Len(data) + 1)
    [] f = "same"    -> Instruction("PUSHI", "SREL", 0)
    [] f = "nothing" -> Instruction("RET", "NONE", 0)

EmitInstruction ==
  /\ Compiling("emit")
  /\ LET i == Instruction(Top.op, "NONE", 0)
     IN  \/ /\ ~inline \/ Top.op \notin {"one", "same"}
            /\ Emit(i)
            /\ UNCHANGED <<data, blame>>
         \/ /\ inline /\ Top.op \in Calls
            /\ Put(i, Inlined(Top.op))
            /\ data' = IF Top.op = "one" THEN Append(data, 1) ELSE data
            /\ blame' = IF Top.op = "one" THEN blame ELSE blame \cup {"inline"}
  /\ UNCHANGED <<labels, starts, Options>>

\* jump() and here(): a label's uses are filled in when it is found.
Jump ==
  /\ Compiling("jump")
  /\ Emit(Instruction(Top.op, "NONE", Top.label))
  /\ UNCHANGED <<labels, data, starts, blame, Options>>

Found ==
  /\ Compiling("here")
  /\ labels' = [labels EXCEPT ![Top.label] = IpOffset]
  /\ goals' = Rest
  /\ UNCHANGED <<source, code, data, starts, blame, Options>>

\* The control statements: do_loop_start(), do_loop_end(), do_do_end(),
\* do_goto(), do_return().
Controlled(kind) ==
  CASE kind = "expr"   -> <<Expr("drop")>>
    [] kind = "empty"  -> <<>>
    [] kind = "if"     -> <<Expr(""), To("JZ", Label(1)), Stmt, Here(Label(1))>>
    [] kind = "ifelse" -> <<Expr(""), To("JZ", Label(1)), Stmt, To("JMP", Label(2)),
                            Here(Label(1)), Stmt, Here(Label(2))>>
    [] kind = "while"  -> <<Here(Label(1)), Expr(""), To("JZ", Label(2)), Stmt,
                            To("JMP", Label(1)), Here(Label(2))>>
    [] kind = "do"     -> <<Here(Label(1)), Stmt, Expr(""), To("JNZ", Label(1))>>
    [] kind = "return" -> <<Expr(""), To("JMP", Return)>>

Statement ==
  /\ Compiling("stmt")
  /\ \/ \E kind \in lang.kinds \ {"goto"} :
          /\ Becomes(Controlled(kind))
          /\ NewLabel(2)
          /\ starts' = IF kind \in {"empty", "do"} THEN starts
                       ELSE starts \cup {IpOffset}
     \/ \E to \in 1..lang.body + 1 :
          /\ "goto" \in lang.kinds
          /\ Becomes(<<To("JMP", to)>>)
          /\ UNCHANGED <<labels, starts>>
  /\ UNCHANGED <<blame, Options>>

LastReturn ==
  /\ Compiling("last")
  /\ goals' = Rest /\ starts' = starts \cup {IpOffset}
  /\ UNCHANGED <<labels, source, code, data, blame, Options>>

Resolved(c) ==
  [k \in DOMAIN c |-> IF c[k].op \in Jumps THEN [c[k] EXCEPT !.data = labels[@]] ELSE c[k]]

EndCode ==
  /\ stage = "compile" /\ goals = <<>>
  /\ source' = Resolved(source) /\ code' = Resolved(code)
  /\ stage' = IF level = 0 THEN "done" ELSE "drops"
  /\ UNCHANGED <<lang, goals, labels, data, heap, starts, level, inline, blame>>

-----------------------------------------------------------------------------
(* The optimizer.  A pass goes over the code once; o is [code, data,       *)
(* blame], and each operator is what the pass does at position i.          *)
Nop == Instruction("NOP", "NONE", 0)
MakeNop(o, ps) ==
  [o EXCEPT !.code = [k \in DOMAIN @ |-> IF k \in ps THEN Nop ELSE @[k]]]
Has(o, i, n) == i + n - 1 <= Len(o.code)

\* What cannot be right about reducing the n instructions at i: a jump that
\* lands among them, or an operand that is a variable.
Doubts(o, i, n) ==
  (IF \E k \in DOMAIN o.code : o.code[k].op \in Jumps /\ o.code[k].data \in i + 1..i + n - 1
   THEN {"label"} ELSE {}) \cup
  (IF \E k \in i..i + n - 1 : o.code[k].op = "PUSHI" /\ o.code[k].rmode = "DIRECT"
                              /\ o.code[k].data = Global
   THEN {"memory"} ELSE {})

Pushes == {"PUSHI", "DUP"}
DropPair(o, i) ==
  IF Has(o, i, 2) /\ o.code[i].op \in Pushes /\ o.code[i + 1].op = "DROP"
  THEN MakeNop(o, {i, i + 1}) ELSE o

\* integer_constant() reads a VMWord of the data segment, where PUSHI reads a
\* VMInt; the low half comes first.
Cell(o, a) == IF a \in DOMAIN o.data THEN o.data[a] ELSE heap
IsConstant(o, i) == o.code[i].op = "PUSHI" /\ o.code[i].rmode = "DIRECT"
ValueAt(o, i) ==
  LET a == o.code[i].data
  IN  VMWord((Cell(o, a) % Radix) + Radix * Cell(o, a + 1))
PushedAt(o, i) == Cell(o, o.code[i].data)

\* replace_constant(): a new, aligned word of the data segment.
ReplaceConstant(o, i, v) ==
  LET aligned == IF Len(o.data) % 2 = 0 THEN o.data ELSE Append(o.data, heap)
  IN  [o EXCEPT !.code[i] = Instruction("PUSHI", "DIRECT", Len(aligned) + 1),
                !.data = aligned \o <<VMInt(v), (v - VMInt(v)) \div Radix>>]

Replaced(o, i, n, v, doubts) ==
  MakeNop([ReplaceConstant(o, i, v) EXCEPT !.blame = @ \cup Doubts(o, i, n) \cup doubts],
          i + 1..i + n - 1)

Foldable == Arithmetic \ {"SHL"}
FoldBinary_Swapped(op, l, r) == IF op \in Dividing THEN Binary(op, l, r) ELSE Binary(op, r, l)
FoldBinary(op, l, r) == Binary(op, l, r)

\* The operators whose low half depends on the low halves of the operands only.
LowHalf == {"ADD", "SUB", "MUL", "NEG", "BNOT"}

\* What cannot be right, either: an operator that looks at the high halves, on
\* words that are not what is pushed, or a result that is too wide for a VMInt.
Width(op, words, pushed, result(_)) ==
  IF (op \in LowHalf \/ words = pushed) /\ result(pushed) = VMInt(result(pushed))
  THEN {} ELSE {"width"}

FoldTriple(o, i) ==
  IF /\ Has(o, i, 3) /\ IsConstant(o, i) /\ IsConstant(o, i + 1)
     /\ o.code[i + 2].op \in Foldable
     /\ o.code[i + 2].op \in Dividing => ValueAt(o, i + 1) # 0
  THEN LET op    == o.code[i + 2].op
           words == <<ValueAt(o, i), ValueAt(o, i + 1)>>
       IN  Replaced(o, i, 3, FoldBinary(op, words[1], words[2]),
                    Width(op, words, <<PushedAt(o, i), PushedAt(o, i + 1)>>,
                          LAMBDA v : Binary(op, v[1], v[2])))
  ELSE o

FoldPair(o, i) ==
  IF Has(o, i, 2) /\ IsConstant(o, i) /\ o.code[i + 1].op \in Unaries
  THEN LET op == o.code[i + 1].op
       IN  Replaced(o, i, 2, Unary(op, ValueAt(o, i)),
                    Width(op, ValueAt(o, i), PushedAt(o, i), LAMBDA v : Unary(op, v)))
  ELSE o

IdentityPair(o, i) ==
  IF /\ Has(o, i, 2) /\ IsConstant(o, i)
     /\ \/ ValueAt(o, i) = 0 /\ o.code[i + 1].op \in {"ADD", "SUB", "SHL"}
        \/ ValueAt(o, i) = 1 /\ o.code[i + 1].op = "MUL"
  THEN MakeNop([o EXCEPT !.blame = @ \cup Doubts(o, i, 2)], {i, i + 1})
  ELSE o

\* One turn of the loop that follows a chain of jumps.
Hop_Conditional(c, t) == IF c[t].op \in {"JMP", "JZ"} THEN c[t].data ELSE t
Hop(c, t) == IF c[t].op = "JMP" THEN c[t].data ELSE t

ThreadJump(o, i) ==
  IF o.code[i].op \notin Jumps THEN o
  ELSE LET target == FoldLeft(LAMBDA t, k : Hop(o.code, t), o.code[i].data, o.code)
       IN  IF o.code[i].op = "JMP" /\ target = i + 1 THEN MakeNop(o, {i})
           ELSE [o EXCEPT !.code[i].data = target]

Pass(Reduce(_, _), next) ==
  LET o == FoldLeft(Reduce, [code |-> code, data |-> data, blame |-> blame],
                    [k \in 1..Len(code) |-> k])
  IN  /\ code' = o.code /\ data' = o.data /\ blame' = o.blame
      /\ stage' = next
      /\ UNCHANGED <<lang, goals, labels, source, heap, starts, level, inline>>

RemoveDrops   == stage = "drops"  /\ Pass(DropPair, IF level < 2 THEN "done" ELSE "binary")
FoldConstants == stage = "binary" /\ Pass(FoldTriple, "unary")
FoldUnary     == stage = "unary"  /\ Pass(FoldPair, IF level < 3 THEN "done" ELSE "identity")
Reduction     == stage = "identity" /\ Pass(IdentityPair, "thread")
ThreadJumps   == stage = "thread" /\ Pass(ThreadJump, "done")

Next ==
  \/ Literal \/ Variable \/ Operate \/ Flow \/ CallFunction
  \/ EmitInstruction \/ Jump \/ Found \/ Statement \/ LastReturn \/ EndCode
  \/ RemoveDrops \/ FoldConstants \/ FoldUnary \/ Reduction \/ ThreadJumps

Spec == Init /\ [][Next]_vars

-----------------------------------------------------------------------------
(* Properties.                                                             *)

\* The code after a pass is the code of a lower level.
Compiled == stage # "compile" /\ code # source

\* The function may be called with any argument, the global may hold any value.
Runs ==
  {Surroundings([data EXCEPT ![Global] = g], v) : g \in Arguments, v \in Arguments}

Outcome(m) == <<m.end, Value(m)>>
Same(env) == Outcome(Run(code, starts, env)) = Outcome(Run(source, starts, env))

\* optimize_bytecode(): a function returns what it would have returned without
\* the optimizer, divides by zero when it would have, and ends when it would
\* have, at every level, unless a reduction had one of the faults that blame
\* names.
SameMeaning == Compiled /\ blame = {} => \A env \in Runs : Same(env)

\* bytecode_optimizer.cpp:6-7, "UnderC stores instruction indices in labels,
\* switch tables, breakpoints, and line maps": a run comes by the same
\* statements, in the same order, as it would without the optimizer, so that a
\* breakpoint at any of them halts the program as often; that is not said of a
\* statement that is a single jump.
StopsKept ==
  Compiled /\ blame = {} =>
    \A env \in Runs :
      LET m == Run(code, starts, env)  s == Run(source, starts, env)
      IN  IF s.end # "" THEN m.seen = s.seen
          ELSE IsPrefix(m.seen, s.seen) \/ IsPrefix(s.seen, m.seen)

\* cli/README.md:167, "-O2 adds integer constant folding and unary
\* simplification": folding does not change what a function returns.
FoldingIsExact == Compiled => \A env \in Runs : Same(env)
=============================================================================
