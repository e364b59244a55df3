---------------------------- MODULE ScopesLemmas ----------------------------
(***************************************************************************)
(* Lemmas about the operators of Scopes, one for each step the compiler    *)
(* takes: what it does to the code, the labels and the parser's stacks.    *)
(* CodeOK(c, X) is what holds of a state c of the compiler all through an  *)
(* action of the parser, X being the labels that the action itself still   *)
(* holds: every jump without a target is noted at a label that is still to *)
(* be put, every such label is held by somebody who will put it, and       *)
(* nothing leads further than the next instruction.                        *)
(*                                                                         *)
(* The parser keeps what each open statement needs on seven stacks, and    *)
(* the grammar alone says who pops what.  Compiling(c, o), which holds     *)
(* between two actions, ties the stacks to the open statements o: a tower  *)
(* of heights, one step for each statement, says which part of every stack *)
(* is whose.  One lemma for each action of the parser shows that it keeps  *)
(* Compiling.                                                              *)
(*                                                                         *)
(* The last part is about what the labels stand for.  Homing(c, P, E) says *)
(* that every break and continue has the place of its goal for a target,   *)
(* or is noted at labels of that goal only; AtHome(c, o, P), that the part *)
(* of the stacks that is a statement's holds labels of that statement's    *)
(* goals.                                                                  *)
(***************************************************************************)
EXTENDS Scopes, NaturalSets, SequenceTheorems, TLAPS

-----------------------------------------------------------------------------
(* Sequences of anything                                                   *)
IsSeq(s) == \E S : s \in Seq(S)

\* A sequence of anything has a length, a domain and a last element.
LEMMA SeqShape ==
  ASSUME NEW s, IsSeq(s)
  PROVE  /\ Len(s) \in Nat
         /\ DOMAIN s = 1 .. Len(s)
         /\ s = <<>> <=> Len(s) = 0
         /\ Last(s) = s[Len(s)]
<1>1. PICK S : s \in Seq(S)
  BY DEF IsSeq
<1>2. QED
  BY <1>1, EmptySeq, LenProperties DEF Last

\* Append adds one element at the end of a sequence of anything.
LEMMA AppendShape ==
  ASSUME NEW s, IsSeq(s), NEW x
  PROVE  /\ IsSeq(Append(s, x))
         /\ Append(s, x) # <<>>
         /\ Len(Append(s, x)) = Len(s) + 1
         /\ \A i \in 1 .. Len(s) : Append(s, x)[i] = s[i]
         /\ Append(s, x)[Len(s) + 1] = x
         /\ Last(Append(s, x)) = x
<1>1. PICK S : s \in Seq(S)
  BY DEF IsSeq
<1>2. s \in Seq(S \union {x})
  BY <1>1, SeqMonotonic, Zenon
<1>3. /\ Append(s, x) \in Seq(S \union {x}) /\ Append(s, x) # <<>>
      /\ Len(Append(s, x)) = Len(s) + 1
      /\ \A i \in 1 .. Len(s) : Append(s, x)[i] = s[i]
      /\ Append(s, x)[Len(s) + 1] = x
  BY <1>2, AppendProperties
<1>4. IsSeq(Append(s, x))
  BY <1>3 DEF IsSeq
<1>5. QED
  BY <1>3, <1>4, SeqShape

\* Front takes one element from the end of a sequence of anything.
LEMMA FrontShape ==
  ASSUME NEW s, IsSeq(s), Len(s) # 0
  PROVE  /\ IsSeq(Front(s))
         /\ Len(Front(s)) = Len(s) - 1
         /\ \A i \in 1 .. Len(s) - 1 : Front(s)[i] = s[i]
<1>1. PICK S : s \in Seq(S)
  BY DEF IsSeq
<1>2. /\ Len(s) \in Nat \ {0}
      /\ Front(s) = SubSeq(s, 1, Len(s) - 1)
      /\ \A i \in 1 .. Len(s) : s[i] \in S
  BY <1>1, LenProperties, ElementOfSeq DEF Front
<1> DEFINE m == Len(s) - 1
<1>3. m \in Int /\ m >= 0
  BY <1>2
<1>4. \A i \in 1 .. m : s[i] \in S
  BY <1>2
<1>5. Front(s) = SubSeq(s, 1, m) /\ m = Len(s) - 1
  BY <1>2
<1> HIDE DEF m
<1>6. /\ SubSeq(s, 1, m) \in Seq(S)
      /\ Len(SubSeq(s, 1, m)) = IF 1 <= m THEN m - 1 + 1 ELSE 0
      /\ \A i \in 1 .. m - 1 + 1 : SubSeq(s, 1, m)[i] = s[1 + i - 1]
  BY <1>3, <1>4, SubSeqProperties
<1>7. Len(SubSeq(s, 1, m)) = m
      /\ \A i \in 1 .. m : SubSeq(s, 1, m)[i] = s[i]
  BY <1>3, <1>6
<1>8. IsSeq(SubSeq(s, 1, m))
  BY <1>6 DEF IsSeq
<1>9. QED
  BY <1>5, <1>7, <1>8

\* Front stays a sequence over the same set.
LEMMA FrontInSeq ==
  ASSUME NEW S, NEW s \in Seq(S), Len(s) # 0
  PROVE  Front(s) \in Seq(S)
<1>1. Len(s) \in Nat \ {0} /\ \A i \in 1 .. Len(s) : s[i] \in S
  BY LenProperties, ElementOfSeq
<1> DEFINE m == Len(s) - 1
<1>2. m \in Int /\ \A i \in 1 .. m : s[i] \in S
  BY <1>1
<1>3. Front(s) = SubSeq(s, 1, m)
  BY DEF Front
<1> HIDE DEF m
<1>4. SubSeq(s, 1, m) \in Seq(S)
  BY <1>2, SubSeqProperties
<1>5. QED
  BY <1>3, <1>4

\* A sequence over a set is one over every larger set.
LEMMA SeqWider ==
  ASSUME NEW S, NEW T, S \subseteq T, NEW s, s \in Seq(S)
  PROVE  s \in Seq(T)
BY SeqMonotonic, Zenon

\* A sequence of numbers up to a is one of numbers up to a larger b.
LEMMA NumbersWider ==
  ASSUME NEW a \in Nat, NEW b \in Nat, a <= b, NEW s, s \in Seq(1 .. a)
  PROVE  s \in Seq(1 .. b)
<1>1. 1 .. a \subseteq 1 .. b
  OBVIOUS
<1>2. QED
  BY <1>1, SeqWider, Zenon
Tries(m) == [label : 1 .. m, slot : Nat]

\* So is a sequence of try blocks, for the labels they hold.
LEMMA TriesWider ==
  ASSUME NEW a \in Nat, NEW b \in Nat, a <= b, NEW s, s \in Seq(Tries(a))
  PROVE  s \in Seq(Tries(b))
<1>1. Tries(a) \subseteq Tries(b)
  BY DEF Tries
<1>2. QED
  BY <1>1, SeqWider, Zenon

\* A function on the first m numbers is a sequence.
LEMMA FunctionShape ==
  ASSUME NEW m \in Nat, NEW s, s = [i \in 1 .. m |-> s[i]]
  PROVE  IsSeq(s) /\ Len(s) = m
<1> DEFINE S == {s[i] : i \in 1 .. m}
<1>1. s \in [1 .. m -> S]
  OBVIOUS
<1>2. s \in Seq(S)
  BY <1>1, SeqDef
<1>3. Len(s) = m
  BY <1>1, <1>2, LenProperties
<1>4. QED
  BY <1>2, <1>3 DEF IsSeq

-----------------------------------------------------------------------------
(* The compiler's state                                                    *)
Fields == {"code", "label", "label_stack", "break_stack", "continue_stack",
           "switch_stack", "mTryStack", "block_stack", "context_stack",
           "in_loop", "in_switch", "size", "catch", "goto", "body", "end",
           "here"}
JumpOps == {"JMP", "JZ", "JNZ"}

InstrOK(x, size) ==
  /\ DOMAIN x = {"op", "arg", "table", "at"}
  /\ x.op \in Ops /\ x.arg \in Nat /\ x.table \in SUBSET Nat
  /\ x.op \in {"TOSD", "MARK", "UNWIND"} => x.arg \in 1 .. size

LabelType  == [to : Nat, refs : SUBSET Nat]
SwitchType == [start : Nat, cases : SUBSET Nat, default : Nat]

\* What does not change while instructions are generated.
Frame(c, d) ==
  /\ DOMAIN d = DOMAIN c
  /\ d.label_stack = c.label_stack /\ d.break_stack = c.break_stack
  /\ d.continue_stack = c.continue_stack /\ d.switch_stack = c.switch_stack
  /\ d.mTryStack = c.mTryStack /\ d.block_stack = c.block_stack
  /\ d.in_loop = c.in_loop /\ d.in_switch = c.in_switch
  /\ d.size = c.size /\ d.catch = c.catch /\ d.goto = c.goto

\* Labels are only added, and stay where they were put.
Later(c, d) ==
  /\ Len(c.label) <= Len(d.label)
  /\ \A l \in 1 .. Len(c.label) : c.label[l].to # 0 => d.label[l].to # 0

CodeShape(c) ==
  /\ DOMAIN c = Fields
  /\ IsSeq(c.code) /\ \A i \in 1 .. Len(c.code) : InstrOK(c.code[i], c.size)
  /\ c.label \in Seq(LabelType) /\ c.label # <<>>
  /\ c.size \in 0 .. MaxObjects

StackShape(c) ==
  /\ c.label_stack \in Seq(1 .. Len(c.label))
  /\ c.break_stack \in Seq(1 .. Len(c.label))
  /\ c.continue_stack \in Seq(1 .. Len(c.label))
  /\ c.switch_stack \in Seq(SwitchType)
  /\ c.mTryStack \in Seq(Tries(Len(c.label)))
  /\ IsSeq(c.block_stack)
  /\ c.context_stack \in Seq(0 .. c.size)
  /\ c.in_loop \in BOOLEAN /\ c.in_switch \in BOOLEAN
  /\ c.catch \in [1 .. MaxObjects -> SUBSET Nat]
  /\ DOMAIN c.goto = {"label", "context", "from", "to"}
  /\ c.goto.label \in 0 .. Len(c.label)

\* A jump without a target waits for a label, a switch for its block to end.
Linked(c) ==
  \A i \in 1 .. Len(c.code) : c.code[i].arg = 0 =>
    /\ c.code[i].op \in JumpOps =>
         \E l \in 1 .. Len(c.label) : c.label[l].to = 0 /\ i \in c.label[l].refs
    /\ c.code[i].op = "JSWITCH" =>
         \E s \in 1 .. Len(c.switch_stack) : c.switch_stack[s].start = i

\* The labels that are still to be put somewhere, and that will be: those the
\* stacks hold, the function's own, and those the present action has taken.
Owned(c) ==
  {RetLabel, c.goto.label}
    \union {c.label_stack[i] : i \in 1 .. Len(c.label_stack)}
    \union {c.break_stack[i] : i \in 1 .. Len(c.break_stack)}
    \union {c.continue_stack[i] : i \in 1 .. Len(c.continue_stack)}
    \union {c.mTryStack[i].label : i \in 1 .. Len(c.mTryStack)}
Holders(c, X) == X \union Owned(c)
Held(c, X) ==
  \A l \in 1 .. Len(c.label) : c.label[l].to = 0 => l \in Holders(c, X)
RefsClean(c, X) ==
  \A l \in 1 .. Len(c.label) : l \in Holders(c, X) =>
    \A i \in c.label[l].refs :
      i \in 1 .. Len(c.code) /\ c.code[i].op \in JumpOps \union {"HALT"}

\* Nothing leads further than m.
Within(c, m) ==
  /\ \A i \in 1 .. Len(c.code) :
       /\ c.code[i].op \in JumpOps \union {"JSWITCH"} => c.code[i].arg <= m
       /\ c.code[i].table \subseteq 1 .. m
  /\ \A l \in 1 .. Len(c.label) : c.label[l].to <= m
  /\ \A s \in 1 .. Len(c.switch_stack) :
       c.switch_stack[s].default <= m /\ c.switch_stack[s].cases \subseteq 1 .. m
  /\ \A s \in 1 .. MaxObjects : c.catch[s] \subseteq 1 .. m

\* The switches whose block is open are where their stack says.
Switched(c) ==
  \A s \in 1 .. Len(c.switch_stack) :
    /\ c.switch_stack[s].start \in 1 .. Len(c.code)
    /\ c.code[c.switch_stack[s].start].op \in {"JSWITCH", "HALT"}

CodeOK(c, X) ==
  /\ CodeShape(c) /\ StackShape(c) /\ Linked(c) /\ Held(c, X)
  /\ RefsClean(c, X) /\ Within(c, Len(c.code) + 1) /\ Switched(c)

EmitPost(c, d, op, arg) ==
  /\ Frame(c, d) /\ CodeShape(d)
  /\ d.label = c.label /\ d.context_stack = c.context_stack
  /\ d.body = c.body /\ d.end = c.end
  /\ Len(d.code) = Len(c.code) + 1
  /\ \A i \in 1 .. Len(c.code) : d.code[i] = c.code[i]
  /\ d.code[Len(c.code) + 1] = [op |-> op, arg |-> arg, table |-> {}, at |-> c.here]

\* Emit adds one instruction, which is where the history says, and changes
\* nothing else.
LEMMA EmitFacts ==
  ASSUME NEW c, CodeShape(c), NEW op \in Ops, NEW arg \in Nat,
         op \in {"TOSD", "MARK", "UNWIND"} => arg \in 1 .. c.size,
         NEW d, d = Emit(c, op, arg)
  PROVE  EmitPost(c, d, op, arg)
<1> DEFINE r == [op |-> op, arg |-> arg, table |-> {}, at |-> c.here]
<1>1. /\ Frame(c, d) /\ d.label = c.label /\ d.context_stack = c.context_stack
      /\ d.body = c.body /\ d.end = c.end
      /\ d.code = Append(c.code, r)
  BY DEF Emit, Frame, CodeShape, Fields
<1>2. InstrOK(r, c.size)
  BY DEF InstrOK
<1>3. IsSeq(c.code) /\ Len(c.code) \in Nat
  BY SeqShape DEF CodeShape
<1> HIDE DEF r
<1>4. /\ IsSeq(d.code) /\ Len(d.code) = Len(c.code) + 1
      /\ \A i \in 1 .. Len(c.code) : d.code[i] = c.code[i]
      /\ d.code[Len(c.code) + 1] = r
  BY <1>1, <1>3, AppendShape
<1>5. \A i \in 1 .. Len(d.code) : InstrOK(d.code[i], d.size)
  BY <1>1, <1>2, <1>3, <1>4 DEF Frame, CodeShape
<1>6. CodeShape(d)
  BY <1>1, <1>4, <1>5 DEF Frame, CodeShape
<1>7. QED
  BY <1>1, <1>4, <1>6 DEF r, EmitPost

\* The numbers that CodeShape and StackShape speak of.
LEMMA ShapeFacts ==
  ASSUME NEW c, CodeShape(c)
  PROVE  /\ Len(c.code) \in Nat /\ Len(c.label) \in Nat \ {0}
         /\ \A i \in 1 .. Len(c.code) :
              c.code[i].arg \in Nat /\ c.code[i].table \in SUBSET Nat
         /\ \A l \in 1 .. Len(c.label) :
              c.label[l].to \in Nat /\ c.label[l].refs \in SUBSET Nat
<1>1. Len(c.code) \in Nat
  BY SeqShape DEF CodeShape
<1>2. Len(c.label) \in Nat \ {0}
  BY EmptySeq, LenProperties DEF CodeShape
<1>3. \A l \in 1 .. Len(c.label) : c.label[l] \in LabelType
  BY ElementOfSeq DEF CodeShape
<1>4. QED
  BY <1>1, <1>2, <1>3 DEF CodeShape, InstrOK, LabelType

\* The stacks have lengths, and hold labels, slots and switches.
LEMMA StackFacts ==
  ASSUME NEW c, CodeShape(c), StackShape(c)
  PROVE  /\ Len(c.label_stack) \in Nat /\ Len(c.break_stack) \in Nat
         /\ Len(c.continue_stack) \in Nat /\ Len(c.switch_stack) \in Nat
         /\ Len(c.mTryStack) \in Nat /\ Len(c.block_stack) \in Nat
         /\ Len(c.context_stack) \in Nat
         /\ \A i \in 1 .. Len(c.label_stack) : c.label_stack[i] \in 1 .. Len(c.label)
         /\ \A i \in 1 .. Len(c.break_stack) : c.break_stack[i] \in 1 .. Len(c.label)
         /\ \A i \in 1 .. Len(c.continue_stack) : c.continue_stack[i] \in 1 .. Len(c.label)
         /\ \A i \in 1 .. Len(c.mTryStack) : c.mTryStack[i] \in Tries(Len(c.label))
         /\ \A i \in 1 .. Len(c.switch_stack) : c.switch_stack[i] \in SwitchType
         /\ \A i \in 1 .. Len(c.context_stack) : c.context_stack[i] \in 0 .. c.size
<1>1. Len(c.block_stack) \in Nat
  BY SeqShape DEF StackShape
<1>2. QED
  BY <1>1, LenProperties, ElementOfSeq DEF StackShape

\* Within only looks at targets.
LEMMA WithinGrows ==
  ASSUME NEW c, CodeShape(c), StackShape(c), NEW m \in Nat, Within(c, m),
         NEW q \in Nat, m <= q
  PROVE  Within(c, q)
<1> USE DEF Within
<1>1. \A i \in 1 .. Len(c.code) :
       /\ c.code[i].op \in JumpOps \union {"JSWITCH"} => c.code[i].arg <= q
       /\ c.code[i].table \subseteq 1 .. q
  BY ShapeFacts
<1>2. \A l \in 1 .. Len(c.label) : c.label[l].to <= q
  BY ShapeFacts
<1>3. \A s \in 1 .. Len(c.switch_stack) :
       c.switch_stack[s].default <= q /\ c.switch_stack[s].cases \subseteq 1 .. q
  BY StackFacts DEF SwitchType
<1>4. \A s \in 1 .. MaxObjects : c.catch[s] \subseteq 1 .. q
  BY DEF StackShape
<1>5. QED
  BY <1>1, <1>2, <1>3, <1>4

\* Who owns a label, one by one.
InStacks(c, k) ==
  \/ k = RetLabel \/ k = c.goto.label
  \/ \E i \in 1 .. Len(c.break_stack) : k = c.break_stack[i]
  \/ \E i \in 1 .. Len(c.continue_stack) : k = c.continue_stack[i]
  \/ \E i \in 1 .. Len(c.mTryStack) : k = c.mTryStack[i].label

\* A label is owned by the function, the gotos, or an entry of a stack.
LEMMA OwnedBy ==
  ASSUME NEW c, NEW k
  PROVE  k \in Owned(c) <=>
           InStacks(c, k) \/ \E i \in 1 .. Len(c.label_stack) : k = c.label_stack[i]
BY DEF Owned, InStacks

\* Frames keep what is held.
LEMMA FrameHolders ==
  ASSUME NEW c, NEW d, Frame(c, d), NEW X
  PROVE  Holders(d, X) = Holders(c, X) /\ Owned(d) = Owned(c)
BY DEF Frame, Holders, Owned

\* The switches stay where they are while the code only grows.
LEMMA SwitchedKept ==
  ASSUME NEW c, NEW d, Switched(c), d.switch_stack = c.switch_stack,
         Len(c.code) \in Nat, Len(d.code) \in Nat, Len(c.code) <= Len(d.code),
         \A i \in 1 .. Len(c.code) : d.code[i].op = c.code[i].op
  PROVE  Switched(d)
<1>1. SUFFICES ASSUME NEW s \in 1 .. Len(c.switch_stack)
               PROVE  /\ c.switch_stack[s].start \in 1 .. Len(d.code)
                      /\ d.code[c.switch_stack[s].start].op \in {"JSWITCH", "HALT"}
  BY DEF Switched
<1>2. /\ c.switch_stack[s].start \in 1 .. Len(c.code)
      /\ c.code[c.switch_stack[s].start].op \in {"JSWITCH", "HALT"}
  BY DEF Switched
<1>3. QED
  BY <1>2, SMTT(40)

\* An instruction that leads nowhere keeps the code in order.
LEMMA EmitOK ==
  ASSUME NEW c, NEW X, CodeOK(c, X), NEW op \in Ops \ (JumpOps \union {"JSWITCH"}),
         NEW arg \in Nat, op \in {"TOSD", "MARK", "UNWIND"} => arg \in 1 .. c.size,
         NEW d, d = Emit(c, op, arg)
  PROVE  CodeOK(d, X)
<1>1. /\ CodeShape(c) /\ StackShape(c) /\ Linked(c) /\ Held(c, X)
      /\ RefsClean(c, X) /\ Within(c, Len(c.code) + 1) /\ Switched(c)
  BY DEF CodeOK
<1>2. /\ Frame(c, d) /\ CodeShape(d)
      /\ d.label = c.label /\ d.context_stack = c.context_stack
      /\ Len(d.code) = Len(c.code) + 1
      /\ \A i \in 1 .. Len(c.code) : d.code[i] = c.code[i]
      /\ d.code[Len(c.code) + 1].op = op
      /\ d.code[Len(c.code) + 1].table = {}
  <2>1. /\ Frame(c, d) /\ CodeShape(d)
        /\ d.label = c.label /\ d.context_stack = c.context_stack
        /\ Len(d.code) = Len(c.code) + 1
        /\ \A i \in 1 .. Len(c.code) : d.code[i] = c.code[i]
        /\ d.code[Len(c.code) + 1] = [op |-> op, arg |-> arg, table |-> {}, at |-> c.here]
    BY <1>1, EmitFacts DEF EmitPost
  <2>2. QED
    BY <2>1
<1>3. /\ Len(c.code) \in Nat
      /\ \A i \in 1 .. Len(d.code) : i \in 1 .. Len(c.code) \/ i = Len(c.code) + 1
  BY <1>1, <1>2, SeqShape DEF CodeShape
<1>4. StackShape(d)
  BY <1>1, <1>2 DEF StackShape, Frame
<1>5. Linked(d)
  <2>1. op \notin JumpOps /\ op # "JSWITCH"
    OBVIOUS
  <2>2. SUFFICES ASSUME NEW i \in 1 .. Len(d.code), d.code[i].arg = 0
                 PROVE  /\ d.code[i].op \in JumpOps =>
                             \E l \in 1 .. Len(d.label) : d.label[l].to = 0 /\ i \in d.label[l].refs
                        /\ d.code[i].op = "JSWITCH" =>
                             \E s \in 1 .. Len(d.switch_stack) : d.switch_stack[s].start = i
    BY DEF Linked
  <2>3. CASE i = Len(c.code) + 1
    BY <1>2, <2>1, <2>3
  <2>4. CASE i \in 1 .. Len(c.code)
    BY <1>1, <1>2, <2>2, <2>4 DEF Linked, Frame
  <2>5. QED
    BY <1>3, <2>3, <2>4
<1>6. Held(d, X)
  BY <1>1, <1>2, FrameHolders DEF Held
<1>7. RefsClean(d, X)
  <2>1. Holders(d, X) = Holders(c, X)
    BY <1>2, FrameHolders
  <2>2. SUFFICES ASSUME NEW l \in 1 .. Len(c.label), l \in Holders(c, X),
                        NEW i \in c.label[l].refs
                 PROVE  i \in 1 .. Len(d.code) /\ d.code[i].op \in JumpOps \union {"HALT"}
    BY <1>2, <2>1 DEF RefsClean
  <2>3. i \in 1 .. Len(c.code) /\ c.code[i].op \in JumpOps \union {"HALT"}
    BY <1>1, <2>2 DEF RefsClean
  <2>4. QED
    BY <1>2, <1>3, <2>3, SMTT(40)
<1>8. Within(d, Len(d.code) + 1)
  <2>1. Within(c, Len(d.code) + 1)
    BY <1>1, <1>2, <1>3, WithinGrows
  <2>2. QED
    BY <1>2, <1>3, <2>1 DEF Within, Frame
<1>9. Switched(d)
  BY <1>1, <1>2, <1>3, SwitchedKept DEF Frame
<1>10. QED
  BY <1>2, <1>4, <1>5, <1>6, <1>7, <1>8, <1>9 DEF CodeOK

\* Changes of the history only.
LEMMA UntouchedOK ==
  ASSUME NEW c, NEW X, CodeOK(c, X), NEW d, Frame(c, d),
         d.code = c.code, d.label = c.label, d.context_stack = c.context_stack
  PROVE  CodeOK(d, X)
<1>1. Holders(d, X) = Holders(c, X)
  BY FrameHolders
<1>2. CodeShape(d) /\ StackShape(d)
  BY DEF CodeOK, CodeShape, StackShape, Frame
<1>3. Linked(d) /\ Held(d, X) /\ RefsClean(d, X)
  BY <1>1 DEF CodeOK, Linked, Held, RefsClean, Frame
<1>4. Within(d, Len(d.code) + 1)
  BY DEF CodeOK, Within, Frame
<1>5. Switched(d)
  BY DEF CodeOK, Switched, Frame
<1>6. QED
  BY <1>2, <1>3, <1>4, <1>5 DEF CodeOK

\* Changes of the stacks only, which drop no label that is still to be put.
LEMMA RestackedOK ==
  ASSUME NEW c, NEW X, CodeOK(c, X), NEW d, NEW Y,
         DOMAIN d = Fields, d.code = c.code, d.label = c.label,
         d.size = c.size, d.catch = c.catch, StackShape(d),
         Holders(d, Y) \subseteq Holders(c, X),
         \A l \in 1 .. Len(c.label) :
           l \in Holders(c, X) /\ c.label[l].to = 0 => l \in Holders(d, Y),
         d.switch_stack = c.switch_stack
  PROVE  CodeOK(d, Y)
<1>1. CodeShape(d)
  BY DEF CodeOK, CodeShape
<1>2. Linked(d)
  BY DEF CodeOK, Linked
<1>3. Held(d, Y)
  BY DEF CodeOK, Held
<1>4. RefsClean(d, Y)
  BY DEF CodeOK, RefsClean
<1>5. Within(d, Len(d.code) + 1)
  BY DEF CodeOK, Within
<1>6. Switched(d)
  BY DEF CodeOK, Switched
<1>7. QED
  BY <1>1, <1>2, <1>3, <1>4, <1>5, <1>6 DEF CodeOK

\* A jump to a label: it has its target, or waits for it.
JumpPost(c, X, d, op, l) ==
  /\ CodeOK(d, X) /\ Frame(c, d) /\ Later(c, d)
  /\ d.context_stack = c.context_stack
  /\ d.body = c.body /\ d.end = c.end
  /\ Len(d.label) = Len(c.label)
  /\ \A k \in 1 .. Len(c.label) :
       /\ d.label[k].to = c.label[k].to
       /\ k # l \/ c.label[k].to # 0 => d.label[k].refs = c.label[k].refs
  /\ c.label[l].to = 0 => d.label[l].refs = c.label[l].refs \union {Len(c.code) + 1}
  /\ Len(d.code) = Len(c.code) + 1
  /\ \A i \in 1 .. Len(c.code) : d.code[i] = c.code[i]
  /\ d.code[Len(c.code) + 1] = [op |-> op, arg |-> c.label[l].to, table |-> {}, at |-> c.here]

\* A jump keeps the code in order: if its label has no place yet, it refers to
\* it.
LEMMA JumpOK ==
  ASSUME NEW c, NEW X, CodeOK(c, X), NEW op \in JumpOps,
         NEW l \in 1 .. Len(c.label), NEW d, d = Jump(c, op, l)
  PROVE  JumpPost(c, X, d, op, l)
<1> DEFINE e == Emit(c, op, c.label[l].to)
           new == Len(c.code) + 1
<1>1. /\ CodeShape(c) /\ StackShape(c) /\ Linked(c) /\ Held(c, X)
      /\ RefsClean(c, X) /\ Within(c, Len(c.code) + 1) /\ Switched(c)
  BY DEF CodeOK
<1>2. /\ Len(c.code) \in Nat /\ Len(c.label) \in Nat \ {0}
      /\ \A k \in 1 .. Len(c.label) :
           c.label[k].to \in Nat /\ c.label[k].refs \in SUBSET Nat
  BY <1>1, ShapeFacts, SMTT(40)
<1>3. op \in Ops /\ op \notin {"TOSD", "MARK", "UNWIND"} /\ op # "JSWITCH"
  BY DEF JumpOps, Ops
<1>4. /\ Frame(c, e) /\ CodeShape(e)
      /\ e.label = c.label /\ e.context_stack = c.context_stack
      /\ e.body = c.body /\ e.end = c.end
      /\ Len(e.code) = new
      /\ \A i \in 1 .. Len(c.code) : e.code[i] = c.code[i]
      /\ e.code[new] = [op |-> op, arg |-> c.label[l].to, table |-> {}, at |-> c.here]
  <2>1. c.label[l].to \in Nat
    BY <1>2
  <2>2. EmitPost(c, e, op, c.label[l].to)
    BY <1>1, <1>3, <2>1, EmitFacts
  <2>3. QED
    BY <1>2, <2>2 DEF EmitPost
<1>5. d = IF c.label[l].to # 0 THEN e
          ELSE [e EXCEPT !.label[l].refs = @ \union {Len(e.code)}]
  BY DEF Jump
<1> HIDE DEF e
<1>6. /\ Frame(c, d) /\ d.context_stack = c.context_stack /\ d.size = c.size
      /\ d.body = c.body /\ d.end = c.end /\ d.code = e.code
      /\ DOMAIN d = Fields
  BY <1>1, <1>4, <1>5 DEF Frame, CodeShape, Fields
<1>7. /\ d.label \in Seq(LabelType) /\ d.label # <<>> /\ Len(d.label) = Len(c.label)
      /\ \A k \in 1 .. Len(c.label) :
           /\ d.label[k].to = c.label[k].to
           /\ k # l \/ c.label[k].to # 0 => d.label[k].refs = c.label[k].refs
      /\ c.label[l].to = 0 => d.label[l].refs = c.label[l].refs \union {new}
  <2>1. CASE c.label[l].to # 0
    BY <1>1, <1>4, <1>5, <2>1 DEF CodeShape
  <2>2. CASE c.label[l].to = 0
    <3> DEFINE x == [c.label[l] EXCEPT !.refs = @ \union {new}]
    <3>1. d.label = [c.label EXCEPT ![l] = x]
      BY <1>1, <1>4, <1>5, <2>2 DEF CodeShape, Fields, Frame
    <3>2. c.label \in Seq(LabelType) /\ c.label[l] \in LabelType
      BY <1>1, ElementOfSeq DEF CodeShape
    <3>3. x \in LabelType /\ x.to = c.label[l].to /\ x.refs = c.label[l].refs \union {new}
      BY <1>2, <3>2, SMTT(40) DEF LabelType
    <3> HIDE DEF x
    <3>4. /\ d.label \in Seq(LabelType) /\ Len(d.label) = Len(c.label)
          /\ \A k \in 1 .. Len(c.label) : d.label[k] = IF k = l THEN x ELSE c.label[k]
      BY <3>1, <3>2, <3>3, ExceptSeq
    <3>5. d.label # <<>>
      BY <1>2, <3>4, EmptySeq
    <3>6. QED
      BY <2>2, <3>3, <3>4, <3>5
  <2>3. QED
    BY <2>1, <2>2
<1>8. Later(c, d)
  BY <1>2, <1>7 DEF Later
<1>9. \A i \in 1 .. new : i \in 1 .. Len(c.code) \/ i = new
  BY <1>2
<1>10. CodeShape(d)
  BY <1>4, <1>6, <1>7 DEF CodeShape, Frame
<1>11. StackShape(d)
  BY <1>1, <1>6, <1>7 DEF StackShape, Frame
<1>12. Linked(d)
  <2>1. SUFFICES ASSUME NEW i \in 1 .. new, d.code[i].arg = 0
                 PROVE  /\ d.code[i].op \in JumpOps =>
                             \E k \in 1 .. Len(d.label) : d.label[k].to = 0 /\ i \in d.label[k].refs
                        /\ d.code[i].op = "JSWITCH" =>
                             \E s \in 1 .. Len(d.switch_stack) : d.switch_stack[s].start = i
    BY <1>4, <1>6 DEF Linked
  <2>2. CASE i = new
    BY <1>3, <1>4, <1>6, <1>7, <2>1, <2>2, SMTT(40)
  <2>3. CASE i \in 1 .. Len(c.code)
    <3>1. \A k \in 1 .. Len(c.label) : c.label[k].refs \subseteq d.label[k].refs
      BY <1>7
    <3>2. d.code[i] = c.code[i] /\ d.switch_stack = c.switch_stack
      BY <1>4, <1>6, <2>3 DEF Frame
    <3>3. /\ c.code[i].op \in JumpOps =>
               \E k \in 1 .. Len(c.label) : c.label[k].to = 0 /\ i \in c.label[k].refs
          /\ c.code[i].op = "JSWITCH" =>
               \E s \in 1 .. Len(c.switch_stack) : c.switch_stack[s].start = i
      BY <1>1, <2>1, <2>3, <3>2 DEF Linked
    <3>4. QED
      BY <1>7, <3>1, <3>2, <3>3
  <2>4. QED
    BY <1>9, <2>1, <2>2, <2>3
<1>13. Held(d, X)
  BY <1>1, <1>6, <1>7, FrameHolders DEF Held
<1>14. RefsClean(d, X)
  <2>1. SUFFICES ASSUME NEW k \in 1 .. Len(c.label), k \in Holders(c, X),
                        NEW i \in d.label[k].refs
                 PROVE  i \in 1 .. new /\ e.code[i].op \in JumpOps \union {"HALT"}
    BY <1>4, <1>6, <1>7, FrameHolders DEF RefsClean
  <2>2. i \in c.label[k].refs \/ i = new
    BY <1>7, <2>1
  <2>3. CASE i = new
    BY <1>2, <1>4, <2>3
  <2>4. CASE i \in c.label[k].refs
    <3>1. i \in 1 .. Len(c.code) /\ c.code[i].op \in JumpOps \union {"HALT"}
      BY <1>1, <2>1, <2>4 DEF RefsClean
    <3>2. e.code[i] = c.code[i] /\ i \in 1 .. new
      BY <1>2, <1>4, <3>1
    <3>3. QED
      BY <3>1, <3>2
  <2>5. QED
    BY <2>2, <2>3, <2>4
<1>15. Within(d, Len(d.code) + 1)
  <2>1. Within(c, new + 1)
    BY <1>1, <1>2, WithinGrows
  <2>2. c.label[l].to <= new + 1
    BY <2>1 DEF Within
  <2>3. \A i \in 1 .. new :
         /\ d.code[i].op \in JumpOps \union {"JSWITCH"} => d.code[i].arg <= new + 1
         /\ d.code[i].table \subseteq 1 .. new + 1
    <3>1. SUFFICES ASSUME NEW i \in 1 .. new
                   PROVE  /\ d.code[i].op \in JumpOps \union {"JSWITCH"} => d.code[i].arg <= new + 1
                          /\ d.code[i].table \subseteq 1 .. new + 1
      OBVIOUS
    <3>2. CASE i = new
      BY <1>4, <1>6, <2>2, <3>2
    <3>3. CASE i \in 1 .. Len(c.code)
      BY <1>4, <1>6, <2>1, <3>3 DEF Within
    <3>4. QED
      BY <1>9, <3>2, <3>3
  <2>4. QED
    BY <1>4, <1>6, <1>7, <2>1, <2>3, SMTT(40) DEF Within, Frame
<1>16. Switched(d)
  <2>1. /\ d.switch_stack = c.switch_stack /\ Len(d.code) = new
        /\ \A i \in 1 .. Len(c.code) : d.code[i].op = c.code[i].op
    BY <1>4, <1>6 DEF Frame
  <2>2. Len(d.code) \in Nat /\ Len(c.code) <= Len(d.code)
    BY <1>2, <2>1
  <2>3. QED
    BY <1>1, <1>2, <2>1, <2>2, SwitchedKept
<1>17. QED
  BY <1>4, <1>6, <1>7, <1>8, <1>10, <1>11, <1>12, <1>13, <1>14, <1>15, <1>16 DEF CodeOK, JumpPost

\* A label is put here: what waits for it gets its target.
HerePost(c, Y, d, l, off) ==
  /\ CodeOK(d, Y) /\ Frame(c, d) /\ Later(c, d)
  /\ d.context_stack = c.context_stack
  /\ d.body = c.body /\ d.end = c.end
  /\ Len(d.label) = Len(c.label) /\ Len(d.code) = Len(c.code)
  /\ d.label[l].to = Len(c.code) + 1 + off /\ d.label[l].to # 0
  /\ \A k \in 1 .. Len(c.label) :
       /\ d.label[k].refs = c.label[k].refs
       /\ k # l => d.label[k].to = c.label[k].to
  /\ \A i \in 1 .. Len(c.code) :
       /\ d.code[i].op = c.code[i].op /\ d.code[i].at = c.code[i].at
       /\ d.code[i].table = c.code[i].table
       /\ d.code[i].arg = IF i \in c.label[l].refs THEN Len(c.code) + 1 + off
                          ELSE c.code[i].arg

\* Putting a label keeps the code in order: every jump that waits for it is
\* patched.
LEMMA HereOK ==
  ASSUME NEW c, NEW X, CodeOK(c, X), NEW l \in 1 .. Len(c.label), l \in Holders(c, X),
         NEW off \in {0, -1}, Len(c.code) + off >= 0,
         NEW d, d = Here(c, l, off), NEW Y, Y \subseteq X, X \subseteq Y \union {l}
  PROVE  HerePost(c, Y, d, l, off)
<1> DEFINE to == Len(c.code) + 1 + off
           Code == [i \in DOMAIN c.code |->
                      IF i \in c.label[l].refs THEN [c.code[i] EXCEPT !.arg = to]
                      ELSE c.code[i]]
           x == [c.label[l] EXCEPT !.to = to]
<1>1. /\ CodeShape(c) /\ StackShape(c) /\ Linked(c) /\ Held(c, X)
      /\ RefsClean(c, X) /\ Within(c, Len(c.code) + 1) /\ Switched(c)
  BY DEF CodeOK
<1>2. /\ Len(c.code) \in Nat /\ Len(c.label) \in Nat \ {0}
      /\ \A k \in 1 .. Len(c.label) :
           c.label[k].to \in Nat /\ c.label[k].refs \in SUBSET Nat
      /\ \A i \in 1 .. Len(c.code) : c.code[i].arg \in Nat /\ c.code[i].table \in SUBSET Nat
  BY <1>1, ShapeFacts
<1>3. to \in Nat \ {0} /\ to <= Len(c.code) + 1
  BY <1>2
<1>4. d = [c EXCEPT !.label[l].to = to, !.code = Code]
  <2>1. IpOffset(c) + off = to
    BY <1>2 DEF IpOffset
  <2>2. QED
    BY <2>1 DEF Here
<1> HIDE DEF to
<1>5. /\ d.label = [c.label EXCEPT ![l] = x]
      /\ d.code = Code
      /\ Frame(c, d) /\ d.context_stack = c.context_stack
      /\ d.body = c.body /\ d.end = c.end /\ DOMAIN d = Fields
      /\ d.size = c.size
  BY <1>1, <1>4 DEF CodeShape, Fields, Frame
<1>6. c.label \in Seq(LabelType) /\ c.label[l] \in LabelType
  BY <1>1, ElementOfSeq DEF CodeShape
<1>7. x \in LabelType /\ x.refs = c.label[l].refs /\ x.to = to
  BY <1>3, <1>6 DEF LabelType
<1> HIDE DEF x
<1>8. /\ d.label \in Seq(LabelType) /\ Len(d.label) = Len(c.label)
      /\ \A k \in 1 .. Len(c.label) : d.label[k] = IF k = l THEN x ELSE c.label[k]
  BY <1>5, <1>6, <1>7, ExceptSeq
<1>9. d.label # <<>>
  BY <1>2, <1>8, EmptySeq
<1>10. Later(c, d)
  BY <1>2, <1>3, <1>7, <1>8 DEF Later
<1>11. IsSeq(d.code) /\ Len(d.code) = Len(c.code)
  <2>1. DOMAIN c.code = 1 .. Len(c.code)
    BY <1>1, SeqShape DEF CodeShape
  <2>2. d.code = [i \in 1 .. Len(c.code) |-> d.code[i]]
    BY <1>5, <2>1
  <2>3. QED
    BY <1>2, <2>2, FunctionShape
<1>12. \A i \in 1 .. Len(c.code) :
         /\ d.code[i].op = c.code[i].op /\ d.code[i].at = c.code[i].at
         /\ d.code[i].table = c.code[i].table
         /\ d.code[i].arg = IF i \in c.label[l].refs THEN to ELSE c.code[i].arg
         /\ DOMAIN d.code[i] = DOMAIN c.code[i]
  <2>1. SUFFICES ASSUME NEW i \in 1 .. Len(c.code)
                 PROVE  /\ d.code[i].op = c.code[i].op /\ d.code[i].at = c.code[i].at
                        /\ d.code[i].table = c.code[i].table
                        /\ d.code[i].arg = IF i \in c.label[l].refs THEN to ELSE c.code[i].arg
                        /\ DOMAIN d.code[i] = DOMAIN c.code[i]
    OBVIOUS
  <2>2. DOMAIN c.code = 1 .. Len(c.code)
    BY <1>1, SeqShape DEF CodeShape
  <2>3. d.code[i] = IF i \in c.label[l].refs THEN [c.code[i] EXCEPT !.arg = to]
                    ELSE c.code[i]
    BY <1>5, <2>2
  <2>4. DOMAIN c.code[i] = {"op", "arg", "table", "at"}
    BY <1>1 DEF CodeShape, InstrOK
  <2>5. QED
    BY <2>3, <2>4
<1> HIDE DEF Code
<1>13. \A i \in 1 .. Len(c.code) : i \in c.label[l].refs =>
         c.code[i].op \in JumpOps \union {"HALT"}
  BY <1>1 DEF RefsClean
<1>14. CodeShape(d)
  <2>1. \A i \in 1 .. Len(c.code) : InstrOK(d.code[i], d.size)
    <3>1. SUFFICES ASSUME NEW i \in 1 .. Len(c.code) PROVE InstrOK(d.code[i], c.size)
      BY <1>5
    <3>2. InstrOK(c.code[i], c.size)
      BY <1>1 DEF CodeShape
    <3>3. i \in c.label[l].refs => c.code[i].op \notin {"TOSD", "MARK", "UNWIND"}
      BY <1>13 DEF JumpOps
    <3>4. QED
      BY <1>3, <1>12, <3>2, <3>3 DEF InstrOK
  <2>2. QED
    BY <1>1, <1>5, <1>8, <1>9, <1>11, <2>1 DEF CodeShape
<1>15. StackShape(d)
  BY <1>1, <1>5, <1>8 DEF StackShape, Frame
<1>16. Linked(d)
  <2>1. SUFFICES ASSUME NEW i \in 1 .. Len(c.code), d.code[i].arg = 0
                 PROVE  /\ d.code[i].op \in JumpOps =>
                             \E k \in 1 .. Len(d.label) : d.label[k].to = 0 /\ i \in d.label[k].refs
                        /\ d.code[i].op = "JSWITCH" =>
                             \E s \in 1 .. Len(d.switch_stack) : d.switch_stack[s].start = i
    BY <1>11 DEF Linked
  <2>2. c.code[i].arg = 0 /\ i \notin c.label[l].refs /\ d.code[i].op = c.code[i].op
    BY <1>3, <1>12, <2>1
  <2>3. /\ c.code[i].op \in JumpOps =>
             \E k \in 1 .. Len(c.label) : c.label[k].to = 0 /\ i \in c.label[k].refs
        /\ c.code[i].op = "JSWITCH" =>
             \E s \in 1 .. Len(c.switch_stack) : c.switch_stack[s].start = i
    BY <1>1, <2>2 DEF Linked
  <2>4. d.switch_stack = c.switch_stack
    BY <1>5 DEF Frame
  <2>5. QED
    BY <1>8, <2>2, <2>3, <2>4
<1>17. /\ Holders(d, Y) \subseteq Holders(c, X)
       /\ Holders(c, X) \subseteq Holders(d, Y) \union {l}
  <2>1. Owned(d) = Owned(c)
    BY <1>5, FrameHolders
  <2>2. QED
    BY <2>1 DEF Holders
<1>18. Held(d, Y)
  BY <1>1, <1>3, <1>7, <1>8, <1>17 DEF Held
<1>19. RefsClean(d, Y)
  <2>1. SUFFICES ASSUME NEW k \in 1 .. Len(c.label), k \in Holders(c, X),
                        NEW i \in c.label[k].refs
                 PROVE  i \in 1 .. Len(c.code) /\ d.code[i].op \in JumpOps \union {"HALT"}
    BY <1>7, <1>8, <1>11, <1>17, ZenonT(60) DEF RefsClean
  <2>2. QED
    BY <1>1, <1>12, <2>1 DEF RefsClean
<1>20. Within(d, Len(d.code) + 1)
  <2>1. \A i \in 1 .. Len(d.code) :
         /\ d.code[i].op \in JumpOps \union {"JSWITCH"} => d.code[i].arg <= Len(d.code) + 1
         /\ d.code[i].table \subseteq 1 .. Len(d.code) + 1
    BY <1>1, <1>3, <1>11, <1>12 DEF Within
  <2>2. \A k \in 1 .. Len(d.label) : d.label[k].to <= Len(d.code) + 1
    BY <1>1, <1>3, <1>7, <1>8, <1>11 DEF Within
  <2>3. QED
    BY <1>1, <1>5, <1>11, <2>1, <2>2 DEF Within, Frame
<1>21. Switched(d)
  BY <1>1, <1>2, <1>5, <1>11, <1>12, SwitchedKept DEF Frame
<1>22. CodeOK(d, Y)
  BY <1>14, <1>15, <1>16, <1>18, <1>19, <1>20, <1>21 DEF CodeOK
<1>23. QED
  BY <1>3, <1>5, <1>7, <1>8, <1>10, <1>11, <1>12, <1>22 DEF to, HerePost

\* A new label waits in the hand of the action.
NewLabelPost(c, X, d, l) ==
  /\ CodeOK(d, X \union {l}) /\ Frame(c, d) /\ Later(c, d)
  /\ d.context_stack = c.context_stack
  /\ d.body = c.body /\ d.end = c.end /\ d.code = c.code
  /\ l = Len(c.label) + 1 /\ Len(d.label) = l
  /\ \A k \in 1 .. Len(c.label) : d.label[k] = c.label[k]
  /\ d.label[l].to = 0 /\ d.label[l].refs = {}

\* A new label keeps the code in order as long as the action holds it.
LEMMA NewLabelOK ==
  ASSUME NEW c, NEW X, CodeOK(c, X), NEW d, d = NewLabel(c)
  PROVE  NewLabelPost(c, X, d, Len(c.label) + 1)
<1> DEFINE l == Len(c.label) + 1
<1> DEFINE x == [to |-> 0, refs |-> {}]
           Y == X \union {l}
<1>1. /\ CodeShape(c) /\ StackShape(c) /\ Linked(c) /\ Held(c, X)
      /\ RefsClean(c, X) /\ Within(c, Len(c.code) + 1) /\ Switched(c)
  BY DEF CodeOK
<1>2. Len(c.code) \in Nat /\ Len(c.label) \in Nat \ {0}
  BY <1>1, ShapeFacts
<1>3. /\ Frame(c, d) /\ d.context_stack = c.context_stack
      /\ d.body = c.body /\ d.end = c.end /\ d.code = c.code
      /\ d.label = Append(c.label, x) /\ DOMAIN d = Fields /\ d.size = c.size
  BY <1>1 DEF NewLabel, Push, CodeShape, Fields, Frame
<1>4. x \in LabelType /\ x.to = 0 /\ x.refs = {}
  BY DEF LabelType
<1> HIDE DEF x
<1>5. /\ d.label \in Seq(LabelType) /\ Len(d.label) = l /\ d.label # <<>>
      /\ \A k \in 1 .. Len(c.label) : d.label[k] = c.label[k]
      /\ d.label[l] = x
  BY <1>1, <1>3, <1>4, AppendProperties DEF CodeShape
<1>6. Later(c, d)
  BY <1>2, <1>5 DEF Later
<1>7. \A k \in 1 .. l : k \in 1 .. Len(c.label) \/ k = l
  BY <1>2
<1>8. CodeShape(d)
  BY <1>1, <1>3, <1>5 DEF CodeShape
<1>9. StackShape(d)
  <2>1. Len(c.label) \in Nat /\ Len(d.label) \in Nat /\ Len(c.label) <= Len(d.label)
    BY <1>2, <1>5
  <2>2. /\ c.label_stack \in Seq(1 .. Len(c.label)) /\ c.break_stack \in Seq(1 .. Len(c.label))
        /\ c.continue_stack \in Seq(1 .. Len(c.label))
        /\ c.mTryStack \in Seq(Tries(Len(c.label)))
    BY <1>1 DEF StackShape
  <2>3. /\ d.label_stack \in Seq(1 .. Len(d.label)) /\ d.break_stack \in Seq(1 .. Len(d.label))
        /\ d.continue_stack \in Seq(1 .. Len(d.label))
        /\ d.mTryStack \in Seq(Tries(Len(d.label)))
    <3>1. /\ c.label_stack \in Seq(1 .. Len(d.label)) /\ c.break_stack \in Seq(1 .. Len(d.label))
          /\ c.continue_stack \in Seq(1 .. Len(d.label))
      BY <2>1, <2>2, NumbersWider, SMT
    <3>2. c.mTryStack \in Seq(Tries(Len(d.label)))
      BY <2>1, <2>2, TriesWider, SMT
    <3>3. QED
      BY <1>3, <3>1, <3>2 DEF Frame
  <2>4. c.goto.label \in 0 .. Len(d.label)
    BY <1>1, <1>2, <1>5 DEF StackShape
  <2>5. QED
    BY <1>1, <1>3, <2>3, <2>4 DEF StackShape, Frame
<1>10. Linked(d)
  <2>1. SUFFICES ASSUME NEW i \in 1 .. Len(c.code), c.code[i].arg = 0
                 PROVE  /\ c.code[i].op \in JumpOps =>
                             \E k \in 1 .. Len(d.label) : d.label[k].to = 0 /\ i \in d.label[k].refs
                        /\ c.code[i].op = "JSWITCH" =>
                             \E s \in 1 .. Len(d.switch_stack) : d.switch_stack[s].start = i
    BY <1>3 DEF Linked
  <2>2. /\ c.code[i].op \in JumpOps =>
             \E k \in 1 .. Len(c.label) : c.label[k].to = 0 /\ i \in c.label[k].refs
        /\ c.code[i].op = "JSWITCH" =>
             \E s \in 1 .. Len(c.switch_stack) : c.switch_stack[s].start = i
    BY <1>1, <2>1 DEF Linked
  <2>3. d.switch_stack = c.switch_stack /\ 1 .. Len(c.label) \subseteq 1 .. Len(d.label)
    BY <1>2, <1>3, <1>5 DEF Frame
  <2>4. QED
    BY <1>5, <2>2, <2>3
<1>11. Holders(d, Y) = Holders(c, X) \union {l}
  BY <1>3, FrameHolders DEF Holders
<1>12. Held(d, Y)
  BY <1>1, <1>5, <1>7, <1>11 DEF Held
<1>13. RefsClean(d, Y)
  BY <1>1, <1>3, <1>4, <1>5, <1>7, <1>11 DEF RefsClean
<1>14. Within(d, Len(d.code) + 1)
  BY <1>1, <1>2, <1>3, <1>4, <1>5, <1>7, SMTT(40) DEF Within, Frame
<1>15. Switched(d)
  BY <1>1, <1>3 DEF Switched, Frame
<1>16. l = Len(c.label) + 1
  OBVIOUS
<1> HIDE DEF l
<1>17. NewLabelPost(c, X, d, l)
  BY <1>3, <1>4, <1>5, <1>6, <1>8, <1>9, <1>10, <1>12, <1>13, <1>14, <1>15, <1>16
     DEF CodeOK, NewLabelPost
<1>18. QED
  BY <1>17 DEF l

\* What an action that only works on the label stack keeps.
LabelFrame(c, d) ==
  /\ DOMAIN d = DOMAIN c
  /\ d.break_stack = c.break_stack /\ d.context_stack = c.context_stack
  /\ d.continue_stack = c.continue_stack /\ d.switch_stack = c.switch_stack
  /\ d.mTryStack = c.mTryStack /\ d.block_stack = c.block_stack
  /\ d.in_loop = c.in_loop /\ d.in_switch = c.in_switch
  /\ d.size = c.size /\ d.catch = c.catch /\ d.goto = c.goto

\* Taking a label off the label stack: the action has it in its hand then.
PopLabelPost(c, X, d, l) ==
  /\ CodeOK(d, X \union {l}) /\ LabelFrame(c, d)
  /\ d.code = c.code /\ d.label = c.label /\ d.body = c.body /\ d.end = c.end
  /\ d.here = c.here
  /\ l = c.label_stack[Len(c.label_stack)] /\ l \in 1 .. Len(c.label)
  /\ Len(d.label_stack) = Len(c.label_stack) - 1
  /\ \A i \in 1 .. Len(c.label_stack) - 1 : d.label_stack[i] = c.label_stack[i]

\* A label taken off the label stack is in the hand of the action.
LEMMA PopLabelOK ==
  ASSUME NEW c, NEW X, CodeOK(c, X), Len(c.label_stack) >= 1,
         NEW d, d = Pop(c, "label_stack"), NEW l, l = TOS(c, "label_stack")
  PROVE  PopLabelPost(c, X, d, l)
<1>1. CodeShape(c) /\ StackShape(c)
  BY DEF CodeOK
<1>2. /\ LabelFrame(c, d) /\ d.label_stack = Front(c.label_stack)
      /\ d.code = c.code /\ d.label = c.label /\ d.body = c.body /\ d.end = c.end
      /\ d.here = c.here /\ DOMAIN d = Fields /\ d.size = c.size /\ d.catch = c.catch
      /\ d.switch_stack = c.switch_stack
      /\ l = Last(c.label_stack)
  BY <1>1 DEF Pop, TOS, CodeShape, Fields, LabelFrame
<1>3. c.label_stack \in Seq(1 .. Len(c.label)) /\ Len(c.label_stack) \in Nat
  BY <1>1, StackFacts DEF StackShape
<1>4. IsSeq(c.label_stack) /\ Len(c.label_stack) # 0
  BY <1>3 DEF IsSeq
<1>5. /\ Len(d.label_stack) = Len(c.label_stack) - 1
      /\ \A i \in 1 .. Len(c.label_stack) - 1 : d.label_stack[i] = c.label_stack[i]
      /\ l = c.label_stack[Len(c.label_stack)]
  BY <1>2, <1>4, FrontShape, SeqShape
<1>6. l \in 1 .. Len(c.label)
  BY <1>1, <1>3, <1>5, StackFacts
<1>7. d.label_stack \in Seq(1 .. Len(d.label))
  BY <1>2, <1>3, <1>4, FrontInSeq
<1>8. StackShape(d)
  BY <1>1, <1>2, <1>7 DEF StackShape, LabelFrame
<1>9. Owned(d) \union {l} = Owned(c)
  <2>1. SUFFICES ASSUME NEW k
                 PROVE  k \in Owned(d) \/ k = l <=> k \in Owned(c)
    BY Zenon
  <2>2. InStacks(d, k) <=> InStacks(c, k)
    BY <1>2 DEF InStacks, LabelFrame
  <2>3. (\E i \in 1 .. Len(c.label_stack) : k = c.label_stack[i])
        <=> k = l \/ \E i \in 1 .. Len(d.label_stack) : k = d.label_stack[i]
    <3>1. \A i \in 1 .. Len(c.label_stack) :
            i \in 1 .. Len(d.label_stack) \/ i = Len(c.label_stack)
      BY <1>3, <1>5
    <3>2. 1 .. Len(d.label_stack) \subseteq 1 .. Len(c.label_stack) /\ Len(c.label_stack) \in 1 .. Len(c.label_stack)
      BY <1>3, <1>5
    <3>3. QED
      BY <1>5, <3>1, <3>2
  <2>4. QED
    BY <2>2, <2>3, OwnedBy
<1>10. Holders(d, X \union {l}) = Holders(c, X)
  BY <1>9 DEF Holders
<1>11. CodeOK(d, X \union {l})
  BY <1>2, <1>8, <1>10, RestackedOK
<1>12. QED
  BY <1>2, <1>5, <1>6, <1>11 DEF PopLabelPost

\* A label goes from the hand of the action to the label stack.
HoldPost(c, X, d, l) ==
  /\ CodeOK(d, X) /\ LabelFrame(c, d)
  /\ d.code = c.code /\ d.label = c.label /\ d.body = c.body /\ d.end = c.end
  /\ d.here = c.here
  /\ Len(d.label_stack) = Len(c.label_stack) + 1
  /\ \A i \in 1 .. Len(c.label_stack) : d.label_stack[i] = c.label_stack[i]
  /\ d.label_stack[Len(c.label_stack) + 1] = l

\* A label pushed on the label stack is held there.
LEMMA HoldLabelOK ==
  ASSUME NEW c, NEW X, NEW l \in 1 .. Len(c.label), CodeOK(c, X \union {l}),
         NEW d, d = Push(c, "label_stack", l)
  PROVE  HoldPost(c, X, d, l)
<1>1. CodeShape(c) /\ StackShape(c)
  BY DEF CodeOK
<1>2. /\ LabelFrame(c, d) /\ d.label_stack = Append(c.label_stack, l)
      /\ d.code = c.code /\ d.label = c.label /\ d.body = c.body /\ d.end = c.end
      /\ d.here = c.here /\ DOMAIN d = Fields /\ d.size = c.size /\ d.catch = c.catch
      /\ d.switch_stack = c.switch_stack
  BY <1>1 DEF Push, CodeShape, Fields, LabelFrame
<1>3. c.label_stack \in Seq(1 .. Len(c.label)) /\ Len(c.label_stack) \in Nat
  BY <1>1, StackFacts DEF StackShape
<1>4. /\ d.label_stack \in Seq(1 .. Len(c.label))
      /\ Len(d.label_stack) = Len(c.label_stack) + 1
      /\ \A i \in 1 .. Len(c.label_stack) : d.label_stack[i] = c.label_stack[i]
      /\ d.label_stack[Len(c.label_stack) + 1] = l
  <2>1. /\ Append(c.label_stack, l) \in Seq(1 .. Len(c.label))
        /\ Len(Append(c.label_stack, l)) = Len(c.label_stack) + 1
        /\ \A i \in 1 .. Len(c.label_stack) : Append(c.label_stack, l)[i] = c.label_stack[i]
        /\ Append(c.label_stack, l)[Len(c.label_stack) + 1] = l
    BY <1>3, AppendProperties
  <2>2. QED
    BY <1>2, <2>1
<1>5. StackShape(d)
  BY <1>1, <1>2, <1>4 DEF StackShape, LabelFrame
<1>6. Owned(d) = Owned(c) \union {l}
  <2>1. SUFFICES ASSUME NEW k
                 PROVE  k \in Owned(d) <=> k = l \/ k \in Owned(c)
    BY Zenon
  <2>2. InStacks(d, k) <=> InStacks(c, k)
    BY <1>2 DEF InStacks, LabelFrame
  <2>3. (\E i \in 1 .. Len(d.label_stack) : k = d.label_stack[i])
        <=> k = l \/ \E i \in 1 .. Len(c.label_stack) : k = c.label_stack[i]
    <3>1. \A i \in 1 .. Len(d.label_stack) :
            i \in 1 .. Len(c.label_stack) \/ i = Len(c.label_stack) + 1
      BY <1>3, <1>4
    <3>2. 1 .. Len(c.label_stack) \subseteq 1 .. Len(d.label_stack)
          /\ Len(c.label_stack) + 1 \in 1 .. Len(d.label_stack)
      BY <1>3, <1>4
    <3>3. QED
      BY <1>4, <3>1, <3>2
  <2>4. QED
    BY <2>2, <2>3, OwnedBy
<1>7. Holders(d, X) = Holders(c, X \union {l})
  BY <1>6 DEF Holders
<1>8. CodeOK(d, X)
  BY <1>2, <1>5, <1>7, RestackedOK
<1>9. QED
  BY <1>2, <1>4, <1>8 DEF HoldPost

\* A label that was put somewhere need not be held.
LEMMA PutDownOK ==
  ASSUME NEW c, NEW X, NEW l \in 1 .. Len(c.label), CodeOK(c, X \union {l}),
         c.label[l].to # 0
  PROVE  CodeOK(c, X)
<1>1. Holders(c, X) \subseteq Holders(c, X \union {l})
      /\ Holders(c, X \union {l}) \subseteq Holders(c, X) \union {l}
  BY DEF Holders
<1>2. Held(c, X) /\ RefsClean(c, X)
  BY <1>1 DEF CodeOK, Held, RefsClean
<1>3. QED
  BY <1>2 DEF CodeOK

\* A new label on the label stack.
PushLabelPost(c, X, d, l) ==
  /\ CodeOK(d, X) /\ LabelFrame(c, d) /\ Later(c, d)
  /\ d.code = c.code /\ d.body = c.body /\ d.end = c.end
  /\ l = Len(c.label) + 1 /\ l \in Nat /\ Len(d.label) = l
  /\ \A k \in 1 .. Len(c.label) : d.label[k] = c.label[k]
  /\ d.label[l].to = 0 /\ d.label[l].refs = {}
  /\ Len(d.label_stack) = Len(c.label_stack) + 1
  /\ \A i \in 1 .. Len(c.label_stack) : d.label_stack[i] = c.label_stack[i]
  /\ d.label_stack[Len(c.label_stack) + 1] = l

\* push_label_stack() adds one new label to the label stack.
LEMMA PushLabelStackOK ==
  ASSUME NEW c, NEW X, CodeOK(c, X), NEW d, d = PushLabelStack(c)
  PROVE  PushLabelPost(c, X, d, Len(c.label) + 1)
<1>1. PICK e : e = NewLabel(c)
  OBVIOUS
<1>2. PICK l : l = Len(c.label) + 1
  OBVIOUS
<1>3. NewLabelPost(c, X, e, l)
  BY <1>1, <1>2, NewLabelOK
<1>4. d = Push(e, "label_stack", l) /\ CodeOK(e, X \union {l})
  BY <1>1, <1>3 DEF PushLabelStack, NewLabelPost
<1>5. l \in 1 .. Len(e.label) /\ l \in Nat
  <2>1. Len(c.label) \in Nat
    BY ShapeFacts DEF CodeOK
  <2>2. QED
    BY <1>2, <1>3, <2>1 DEF NewLabelPost
<1>6. HoldPost(e, X, d, l)
  BY <1>4, <1>5, HoldLabelOK
<1>7. e.label_stack = c.label_stack /\ LabelFrame(c, d)
  BY <1>3, <1>6 DEF Frame, LabelFrame, NewLabelPost, HoldPost
<1>8. PushLabelPost(c, X, d, l)
  BY <1>3, <1>5, <1>6, <1>7 DEF Later, NewLabelPost, PushLabelPost, HoldPost
<1>9. QED
  BY <1>2, <1>8
-----------------------------------------------------------------------------
(* What the parser's actions do with the label stack                       *)
Works(c, X, d) == CodeOK(d, X) /\ LabelFrame(c, d) /\ Later(c, d)
Kept(s, t, m) == \A i \in 1 .. m : t[i] = s[i]

\* Labels that were put stay put over two steps.
LEMMA LaterTwice ==
  ASSUME NEW c, NEW d, NEW e, CodeShape(c), CodeShape(d), CodeShape(e),
         Later(c, d), Later(d, e)
  PROVE  Later(c, e)
<1>1. Len(c.label) \in Nat /\ Len(d.label) \in Nat /\ Len(e.label) \in Nat
  BY ShapeFacts
<1>2. QED
  BY <1>1 DEF Later

\* A new label is the top of the label stack; the actions put it, or jump to it.
GrowPost(c, X, d, l) ==
  /\ Works(c, X, d)
  /\ l = Len(c.label) + 1 /\ Len(d.label) = l
  /\ Len(d.label_stack) = Len(c.label_stack) + 1
  /\ Kept(c.label_stack, d.label_stack, Len(c.label_stack))
  /\ d.label_stack[Len(c.label_stack) + 1] = l

\* label_here() pushes a new label, which is put at once.
LEMMA LabelHereOK ==
  ASSUME NEW c, NEW X, CodeOK(c, X), NEW d, d = LabelHere(c)
  PROVE  GrowPost(c, X, d, Len(c.label) + 1) /\ d.label[Len(c.label) + 1].to # 0
<1>1. PICK e : e = PushLabelStack(c)
  OBVIOUS
<1>2. PICK l : l = Len(c.label) + 1
  OBVIOUS
<1>3. PushLabelPost(c, X, e, l)
  BY <1>1, <1>2, PushLabelStackOK
<1>4. CodeOK(e, X) /\ CodeShape(c) /\ CodeShape(e) /\ StackShape(e)
  BY <1>3 DEF PushLabelPost, CodeOK
<1>5. Len(c.label_stack) \in Nat /\ Len(e.label_stack) \in Nat /\ Len(e.code) \in Nat
  BY <1>4, ShapeFacts, StackFacts DEF CodeOK
<1>6. TOS(e, "label_stack") = l /\ l \in 1 .. Len(e.label)
  <2>1. TOS(e, "label_stack") = e.label_stack[Len(e.label_stack)]
    BY DEF TOS, Last
  <2>2. QED
    BY <1>2, <1>3, <1>5, <2>1 DEF PushLabelPost
<1>7. l \in Holders(e, X)
  <2>1. Len(e.label_stack) \in 1 .. Len(e.label_stack) /\ l = e.label_stack[Len(e.label_stack)]
    BY <1>3, <1>5 DEF PushLabelPost
  <2>2. QED
    BY <2>1, OwnedBy DEF Holders
<1>8. d = Here(e, l, 0)
  BY <1>1, <1>6 DEF LabelHere
<1>9. HerePost(e, X, d, l, 0)
  BY <1>4, <1>5, <1>6, <1>7, <1>8, HereOK
<1>10. CodeShape(d)
  BY <1>9 DEF HerePost, CodeOK
<1>11. Later(c, d)
  BY <1>3, <1>4, <1>9, <1>10, LaterTwice DEF PushLabelPost, HerePost
<1>12. GrowPost(c, X, d, l) /\ d.label[l].to # 0
  BY <1>3, <1>9, <1>11 DEF PushLabelPost, HerePost, GrowPost, Works, Kept, Frame, LabelFrame
<1>13. QED
  BY <1>2, <1>12

\* label_jump() with do_push pushes a new label, to which it jumps.
LEMMA LabelJumpOK ==
  ASSUME NEW c, NEW X, CodeOK(c, X), NEW op \in JumpOps, NEW d, d = LabelJump(c, op, TRUE)
  PROVE  GrowPost(c, X, d, Len(c.label) + 1)
<1>1. PICK e : e = PushLabelStack(c)
  OBVIOUS
<1>2. PICK l : l = Len(c.label) + 1
  OBVIOUS
<1>3. PushLabelPost(c, X, e, l)
  BY <1>1, <1>2, PushLabelStackOK
<1>4. CodeOK(e, X) /\ CodeShape(c) /\ CodeShape(e) /\ StackShape(e)
  BY <1>3 DEF PushLabelPost, CodeOK
<1>5. Len(c.label_stack) \in Nat /\ Len(e.label_stack) \in Nat
  BY <1>4, StackFacts DEF CodeOK
<1>6. TOS(e, "label_stack") = l /\ l \in 1 .. Len(e.label)
  <2>1. TOS(e, "label_stack") = e.label_stack[Len(e.label_stack)]
    BY DEF TOS, Last
  <2>2. QED
    BY <1>2, <1>3, <1>5, <2>1 DEF PushLabelPost
<1>7. d = Jump(e, op, l)
  BY <1>1, <1>6 DEF LabelJump
<1>8. JumpPost(e, X, d, op, l)
  BY <1>4, <1>6, <1>7, JumpOK
<1>9. CodeShape(d)
  BY <1>8 DEF JumpPost, CodeOK
<1>10. Later(c, d)
  BY <1>3, <1>4, <1>8, <1>9, LaterTwice DEF PushLabelPost, JumpPost
<1>11. GrowPost(c, X, d, l)
  <2>1. /\ LabelFrame(c, e) /\ l = Len(c.label) + 1 /\ Len(e.label) = l
        /\ Len(e.label_stack) = Len(c.label_stack) + 1
        /\ \A i \in 1 .. Len(c.label_stack) : e.label_stack[i] = c.label_stack[i]
        /\ e.label_stack[Len(c.label_stack) + 1] = l
    BY <1>3 DEF PushLabelPost
  <2>2. /\ CodeOK(d, X) /\ Frame(e, d) /\ d.context_stack = e.context_stack
        /\ Len(d.label) = Len(e.label)
    BY <1>8 DEF JumpPost
  <2>3. d.label_stack = e.label_stack /\ LabelFrame(c, d)
    BY <2>1, <2>2 DEF Frame, LabelFrame
  <2>4. Works(c, X, d)
    BY <1>10, <2>2, <2>3 DEF Works
  <2>5. QED
    BY <2>1, <2>2, <2>3, <2>4 DEF GrowPost, Kept
<1>12. QED
  BY <1>2, <1>11

\* The label is in the hand of the action.
LEMMA PutOK ==
  ASSUME NEW c, NEW X, NEW l \in 1 .. Len(c.label), CodeOK(c, X \union {l}),
         NEW d, d = Here(c, l, 0)
  PROVE  HerePost(c, X, d, l, 0)
<1>1. PICK Y : Y = X \union {l}
  OBVIOUS
<1>2. CodeOK(c, Y) /\ X \subseteq Y /\ Y \subseteq X \union {l} /\ l \in Holders(c, Y)
  BY <1>1 DEF Holders
<1>3. PICK z : z = 0
  OBVIOUS
<1>4. Len(c.code) \in Nat
  BY ShapeFacts DEF CodeOK
<1>5. z \in {0, -1} /\ Len(c.code) + z >= 0 /\ d = Here(c, l, z)
  BY <1>3, <1>4
<1>6. HerePost(c, X, d, l, z)
  BY <1>2, <1>5, HereOK
<1>7. QED
  BY <1>3, <1>6

\* The forward label of an if or else is put where it ends.
ShrinkPost(c, X, d, k) ==
  /\ Works(c, X, d) /\ Len(d.label) = Len(c.label)
  /\ Len(d.label_stack) = Len(c.label_stack) - k
  /\ Kept(c.label_stack, d.label_stack, Len(c.label_stack) - k)

\* do_loop_end() without a jump puts the top label and drops it.
LEMMA IfEndOK ==
  ASSUME NEW c, NEW X, CodeOK(c, X), Len(c.label_stack) >= 1,
         NEW d, d = DoLoopEnd(c, FALSE, FALSE)
  PROVE  ShrinkPost(c, X, d, 1)
<1>1. PICK e : e = Pop(c, "label_stack")
  OBVIOUS
<1>2. PICK l : l = TOS(c, "label_stack")
  OBVIOUS
<1>3. PopLabelPost(c, X, e, l)
  BY <1>1, <1>2, PopLabelOK
<1>4. CodeOK(e, X \union {l}) /\ l \in 1 .. Len(e.label) /\ CodeShape(e)
  BY <1>3 DEF PopLabelPost, CodeOK
<1>5. Len(e.code) \in Nat
  BY <1>4, ShapeFacts
<1>6. d = Here(e, l, 0)
  BY <1>1, <1>2 DEF DoLoopEnd
<1>7. HerePost(e, X, d, l, 0)
  BY <1>4, <1>6, PutOK
<1>8. Works(c, X, d) /\ Len(d.label) = Len(c.label)
  <2>1. Later(c, d)
    BY <1>3, <1>7, ZenonT(60) DEF PopLabelPost, HerePost, Later
  <2>2. LabelFrame(c, d)
    BY <1>3, <1>7, ZenonT(60) DEF PopLabelPost, HerePost, Frame, LabelFrame
  <2>3. QED
    BY <1>3, <1>7, <2>1, <2>2 DEF PopLabelPost, HerePost, Works
<1>9. d.label_stack = e.label_stack
  BY <1>7 DEF HerePost, Frame
<1>10. QED
  BY <1>3, <1>8, <1>9 DEF PopLabelPost, ShrinkPost, Kept

\* An else: the label of its if is put behind the jump to its own.
LEMMA ElseOK ==
  ASSUME NEW c, NEW X, CodeOK(c, X), Len(c.label_stack) >= 1,
         NEW d, d = DoLoopEnd(c, TRUE, TRUE)
  PROVE  /\ Works(c, X, d) /\ Len(d.label) = Len(c.label) + 1
         /\ Len(d.label_stack) = Len(c.label_stack)
         /\ Kept(c.label_stack, d.label_stack, Len(c.label_stack) - 1)
         /\ d.label_stack[Len(c.label_stack)] = Len(c.label) + 1
<1>1. PICK e : e = Pop(c, "label_stack")
  OBVIOUS
<1>2. PICK l : l = TOS(c, "label_stack")
  OBVIOUS
<1>3. PICK Y : Y = X \union {l}
  OBVIOUS
<1>4. PopLabelPost(c, X, e, l)
  BY <1>1, <1>2, PopLabelOK
<1>5. CodeOK(e, Y) /\ l \in 1 .. Len(e.label) /\ CodeShape(e) /\ CodeShape(c)
  BY <1>3, <1>4 DEF PopLabelPost, CodeOK
<1>6. PICK f : f = LabelJump(e, "JMP", TRUE)
  OBVIOUS
<1>7. PICK m : m = Len(e.label) + 1
  OBVIOUS
<1>8. GrowPost(e, Y, f, m)
  BY <1>5, <1>6, <1>7, LabelJumpOK DEF JumpOps
<1>9. d = Here(f, l, 0)
  BY <1>1, <1>2, <1>6 DEF DoLoopEnd
<1>10. CodeOK(f, Y) /\ l \in 1 .. Len(f.label) /\ Len(f.code) \in Nat /\ CodeShape(f)
  <2>1. CodeOK(f, Y) /\ CodeShape(f)
    BY <1>8 DEF GrowPost, Works, CodeOK
  <2>2. Len(e.label) \in Nat /\ Len(f.code) \in Nat
    BY <1>5, <2>1, ShapeFacts
  <2>3. QED
    BY <1>5, <1>8, <2>1, <2>2 DEF GrowPost
<1>11. CodeOK(f, X \union {l})
  BY <1>3, <1>10
<1>12. HerePost(f, X, d, l, 0)
  BY <1>9, <1>10, <1>11, PutOK
<1>13. Later(c, d)
  <2>1. Later(e, d)
    BY <1>5, <1>8, <1>10, <1>12, LaterTwice DEF GrowPost, Works, HerePost, CodeOK
  <2>2. QED
    BY <1>4, <2>1 DEF PopLabelPost, Later
<1>14. Works(c, X, d)
  BY <1>4, <1>8, <1>12, <1>13, ZenonT(60) DEF PopLabelPost, GrowPost, HerePost, Works, Frame, LabelFrame
<1>15. Len(c.label_stack) \in Nat
  BY StackFacts DEF CodeOK
<1>16. d.label_stack = f.label_stack /\ Len(d.label) = Len(f.label)
  BY <1>12 DEF HerePost, Frame
<1>17. m = Len(c.label) + 1 /\ Len(f.label) = m
  BY <1>4, <1>7, <1>8 DEF PopLabelPost, GrowPost
<1>18. /\ Len(e.label_stack) = Len(c.label_stack) - 1
       /\ \A i \in 1 .. Len(c.label_stack) - 1 : e.label_stack[i] = c.label_stack[i]
  BY <1>4 DEF PopLabelPost
<1>19. /\ Len(f.label_stack) = Len(e.label_stack) + 1
       /\ \A i \in 1 .. Len(e.label_stack) : f.label_stack[i] = e.label_stack[i]
       /\ f.label_stack[Len(e.label_stack) + 1] = m
  BY <1>8 DEF GrowPost, Kept
<1>20. /\ Len(f.label_stack) = Len(c.label_stack)
       /\ \A i \in 1 .. Len(c.label_stack) - 1 : f.label_stack[i] = c.label_stack[i]
       /\ f.label_stack[Len(c.label_stack)] = m
  BY <1>15, <1>18, <1>19
<1>21. QED
  BY <1>14, <1>16, <1>17, <1>20 DEF Kept

\* The end of a loop: it jumps back to its first label, which is put already,
\* and its second one is put behind that jump.
LoopEnd(c, op) ==
  LET d == Pop(c, "label_stack")
      j == Jump(d, op, TOS(d, "label_stack"))
  IN  Here(Pop(j, "label_stack"), TOS(c, "label_stack"), 0)

\* do_loop_end() of a while or for and do_do_end() differ in their jump only.
LEMMA LoopEnds ==
  ASSUME NEW c
  PROVE  DoLoopEnd(c, TRUE, FALSE) = LoopEnd(c, "JMP") /\ DoDoEnd(c) = LoopEnd(c, "JNZ")
BY DEF DoLoopEnd, DoDoEnd, LoopEnd, LabelJump

\* The end of a loop keeps the code in order and drops its two labels.
LEMMA LoopEndOK ==
  ASSUME NEW c, NEW X, CodeOK(c, X), Len(c.label_stack) >= 2,
         c.label[c.label_stack[Len(c.label_stack) - 1]].to # 0,
         NEW op \in JumpOps, NEW d, d = LoopEnd(c, op)
  PROVE  ShrinkPost(c, X, d, 2)
<1>1. PICK e : e = Pop(c, "label_stack")
  OBVIOUS
<1>2. PICK l : l = TOS(c, "label_stack")
  OBVIOUS
<1>3. PICK Y : Y = X \union {l}
  OBVIOUS
<1>4. PopLabelPost(c, X, e, l)
  BY <1>1, <1>2, PopLabelOK
<1>5. /\ CodeOK(e, Y) /\ l \in 1 .. Len(e.label) /\ CodeShape(e) /\ CodeShape(c)
      /\ StackShape(e)
  BY <1>3, <1>4 DEF PopLabelPost, CodeOK
<1>6. Len(c.label_stack) \in Nat /\ Len(e.label_stack) = Len(c.label_stack) - 1
  BY <1>4, StackFacts DEF PopLabelPost, CodeOK
<1>7. PICK m : m = TOS(e, "label_stack")
  OBVIOUS
<1>8. m = c.label_stack[Len(c.label_stack) - 1] /\ m \in 1 .. Len(e.label)
  <2>1. m = e.label_stack[Len(e.label_stack)]
    BY <1>7 DEF TOS, Last
  <2>2. Len(e.label_stack) \in 1 .. Len(e.label_stack)
    BY <1>6
  <2>3. QED
    BY <1>4, <1>5, <1>6, <2>1, <2>2, StackFacts DEF PopLabelPost
<1>9. PICK f : f = Jump(e, op, m)
  OBVIOUS
<1>10. JumpPost(e, Y, f, op, m)
  BY <1>5, <1>8, <1>9, JumpOK
<1>11. PICK g : g = Pop(f, "label_stack")
  OBVIOUS
<1>12. f.label_stack = e.label_stack /\ CodeOK(f, Y) /\ CodeShape(f)
  BY <1>10 DEF JumpPost, Frame, CodeOK
<1>13. m = TOS(f, "label_stack") /\ Len(f.label_stack) >= 1
  BY <1>6, <1>7, <1>12 DEF TOS
<1>14. PopLabelPost(f, Y, g, m)
  BY <1>11, <1>12, <1>13, PopLabelOK, SMTT(40)
<1>15. CodeOK(g, Y \union {m}) /\ CodeShape(g) /\ m \in 1 .. Len(g.label) /\ g.label[m].to # 0
       /\ l \in 1 .. Len(g.label)
  BY <1>4, <1>5, <1>8, <1>10, <1>14 DEF PopLabelPost, JumpPost, CodeOK
<1>16. CodeOK(g, Y)
  BY <1>15, PutDownOK
<1>17. d = Here(g, l, 0)
  BY <1>1, <1>2, <1>7, <1>9, <1>11 DEF LoopEnd
<1>18. CodeOK(g, X \union {l})
  BY <1>3, <1>16
<1>19. HerePost(g, X, d, l, 0)
  BY <1>15, <1>17, <1>18, PutOK
<1>20. Later(c, d)
  <2>1. Later(e, f) /\ Later(g, d) /\ CodeShape(d)
    BY <1>10, <1>19 DEF JumpPost, HerePost, CodeOK
  <2>2. Later(c, f) /\ Later(f, d)
    BY <1>4, <1>14, <2>1, SMTT(40) DEF PopLabelPost, Later
  <2>3. QED
    BY <1>5, <1>12, <2>1, <2>2, LaterTwice
<1>21. Works(c, X, d) /\ Len(d.label) = Len(c.label)
  <2>1. /\ LabelFrame(c, e) /\ LabelFrame(f, g) /\ Frame(e, f) /\ Frame(g, d)
        /\ f.context_stack = e.context_stack /\ d.context_stack = g.context_stack
    BY <1>4, <1>10, <1>14, <1>19 DEF PopLabelPost, JumpPost, HerePost
  <2>2. LabelFrame(c, d)
    <3>1. LabelFrame(c, f)
      BY <2>1 DEF Frame, LabelFrame
    <3>2. LabelFrame(f, d)
      BY <2>1 DEF Frame, LabelFrame
    <3>3. QED
      BY <3>1, <3>2 DEF LabelFrame
  <2>3. e.label = c.label /\ Len(f.label) = Len(e.label) /\ g.label = f.label
        /\ Len(d.label) = Len(g.label) /\ CodeOK(d, X)
    BY <1>4, <1>10, <1>14, <1>19 DEF PopLabelPost, JumpPost, HerePost
  <2>4. QED
    BY <1>20, <2>2, <2>3 DEF Works
<1>22. /\ Len(d.label_stack) = Len(c.label_stack) - 2
       /\ \A i \in 1 .. Len(c.label_stack) - 2 : d.label_stack[i] = c.label_stack[i]
  <2>1. d.label_stack = g.label_stack
    BY <1>19 DEF HerePost, Frame
  <2>2. /\ Len(g.label_stack) = Len(c.label_stack) - 2
        /\ \A i \in 1 .. Len(c.label_stack) - 2 : g.label_stack[i] = e.label_stack[i]
    BY <1>6, <1>12, <1>14 DEF PopLabelPost
  <2>3. \A i \in 1 .. Len(c.label_stack) - 2 : e.label_stack[i] = c.label_stack[i]
    BY <1>4, <1>6 DEF PopLabelPost
  <2>4. QED
    BY <2>1, <2>2, <2>3
<1>23. QED
  BY <1>21, <1>22 DEF ShrinkPost, Kept
-----------------------------------------------------------------------------
(* The break and continue stacks                                           *)
Grows(s, t, x) == Len(t) = Len(s) + 1 /\ Kept(s, t, Len(s)) /\ t[Len(s) + 1] = x
Shrinks(s, t)  == Len(t) = Len(s) - 1 /\ Kept(s, t, Len(s) - 1)
In(s, k) == \E i \in 1 .. Len(s) : k = s[i]
InTries(c, k) == \E i \in 1 .. Len(c.mTryStack) : k = c.mTryStack[i].label

\* Who owns a label, stack by stack.
LEMMA OwnedIn ==
  ASSUME NEW c, NEW k
  PROVE  k \in Owned(c) <=> \/ k = RetLabel \/ k = c.goto.label \/ In(c.label_stack, k)
                             \/ In(c.break_stack, k) \/ In(c.continue_stack, k)
                             \/ InTries(c, k)
BY DEF Owned, In, InTries

\* A stack that grew holds what it held, and its new top.
LEMMA GrowsIn ==
  ASSUME NEW s, NEW t, NEW x, Grows(s, t, x), Len(s) \in Nat, NEW k
  PROVE  In(t, k) <=> k = x \/ In(s, k)
<1>1. \A i \in 1 .. Len(t) : i \in 1 .. Len(s) \/ i = Len(s) + 1
  BY DEF Grows
<1>2. 1 .. Len(s) \subseteq 1 .. Len(t) /\ Len(s) + 1 \in 1 .. Len(t)
  BY DEF Grows
<1>3. QED
  BY <1>1, <1>2 DEF Grows, Kept, In

\* A stack that shrank has lost its top and nothing else.
LEMMA ShrinksIn ==
  ASSUME NEW s, NEW t, Shrinks(s, t), Len(s) \in Nat, Len(s) >= 1, NEW k
  PROVE  In(s, k) <=> k = s[Len(s)] \/ In(t, k)
<1>1. \A i \in 1 .. Len(s) : i \in 1 .. Len(t) \/ i = Len(s)
  BY DEF Shrinks
<1>2. 1 .. Len(t) \subseteq 1 .. Len(s) /\ Len(s) \in 1 .. Len(s)
  BY DEF Shrinks
<1>3. QED
  BY <1>1, <1>2 DEF Shrinks, Kept, In

\* Append makes a stack grow.
LEMMA AppendGrows ==
  ASSUME NEW S, NEW s \in Seq(S), NEW x \in S
  PROVE  Grows(s, Append(s, x), x) /\ Append(s, x) \in Seq(S) /\ Len(s) \in Nat
<1>1. /\ Append(s, x) \in Seq(S) /\ Len(Append(s, x)) = Len(s) + 1
      /\ \A i \in 1 .. Len(s) : Append(s, x)[i] = s[i]
      /\ Append(s, x)[Len(s) + 1] = x
  BY AppendProperties
<1>2. QED
  BY <1>1, LenProperties DEF Grows, Kept

\* Front makes it shrink.
LEMMA FrontShrinks ==
  ASSUME NEW S, NEW s \in Seq(S), Len(s) >= 1
  PROVE  Shrinks(s, Front(s)) /\ Front(s) \in Seq(S) /\ Last(s) = s[Len(s)] /\ s[Len(s)] \in S
<1>1. IsSeq(s) /\ Len(s) \in Nat /\ Len(s) # 0
  BY LenProperties DEF IsSeq
<1>2. Front(s) \in Seq(S)
  BY <1>1, FrontInSeq
<1>3. s[Len(s)] \in S
  BY <1>1, ElementOfSeq
<1>4. QED
  BY <1>1, <1>2, <1>3, FrontShape DEF Shrinks, Kept, Last

\* A label that somebody else holds need not be in the hand of the action.
LEMMA HandOK ==
  ASSUME NEW c, NEW X, NEW l, l \in Holders(c, X)
  PROVE  CodeOK(c, X \union {l}) <=> CodeOK(c, X)
<1>1. Holders(c, X \union {l}) = Holders(c, X)
  BY DEF Holders
<1>2. QED
  BY <1>1 DEF CodeOK, Held, RefsClean

\* All but the label stack and the break stack is as it was.
BreakFrame(c, d) ==
  /\ DOMAIN d = Fields
  /\ d.code = c.code /\ d.label = c.label
  /\ d.label_stack = c.label_stack /\ d.continue_stack = c.continue_stack
  /\ d.switch_stack = c.switch_stack /\ d.mTryStack = c.mTryStack
  /\ d.block_stack = c.block_stack /\ d.context_stack = c.context_stack
  /\ d.in_loop = c.in_loop /\ d.in_switch = c.in_switch /\ d.size = c.size
  /\ d.catch = c.catch /\ d.goto = c.goto
HoldBreakPost(c, X, d, l) ==
  CodeOK(d, X) /\ BreakFrame(c, d) /\ Grows(c.break_stack, d.break_stack, l)

\* A label pushed on the break stack is held there.
LEMMA HoldBreakOK ==
  ASSUME NEW c, NEW X, NEW l \in 1 .. Len(c.label), CodeOK(c, X \union {l}),
         NEW d, d = Push(c, "break_stack", l)
  PROVE  HoldBreakPost(c, X, d, l)
<1>1. CodeShape(c) /\ StackShape(c)
  BY DEF CodeOK
<1>2. BreakFrame(c, d) /\ d.break_stack = Append(c.break_stack, l)
  BY <1>1 DEF Push, CodeShape, Fields, BreakFrame
<1>3. c.break_stack \in Seq(1 .. Len(c.label))
  BY <1>1 DEF StackShape
<1>4. /\ d.break_stack \in Seq(1 .. Len(c.label))
      /\ Grows(c.break_stack, d.break_stack, l) /\ Len(c.break_stack) \in Nat
  BY <1>2, <1>3, AppendGrows
<1>5. StackShape(d)
  BY <1>1, <1>2, <1>4 DEF StackShape, BreakFrame
<1>6. \A k : k \in Owned(d) <=> k = l \/ k \in Owned(c)
  <2>1. SUFFICES ASSUME NEW k PROVE k \in Owned(d) <=> k = l \/ k \in Owned(c)
    OBVIOUS
  <2>2. In(d.break_stack, k) <=> k = l \/ In(c.break_stack, k)
    BY <1>4, GrowsIn
  <2>3. InTries(d, k) <=> InTries(c, k)
    BY <1>2 DEF BreakFrame, InTries
  <2>4. QED
    BY <1>2, <2>2, <2>3, OwnedIn DEF BreakFrame
<1>7. \A k : k \in Holders(d, X) <=> k \in Holders(c, X \union {l})
  BY <1>6 DEF Holders
<1>8. CodeOK(d, X)
  BY <1>2, <1>5, <1>7, RestackedOK DEF BreakFrame
<1>9. QED
  BY <1>2, <1>4, <1>8 DEF HoldBreakPost

TakeBreakPost(c, X, d, l) ==
  /\ CodeOK(d, X \union {l}) /\ BreakFrame(c, d) /\ Shrinks(c.break_stack, d.break_stack)
  /\ l = c.break_stack[Len(c.break_stack)] /\ l \in 1 .. Len(c.label)

\* A label taken off the break stack is in the hand of the action.
LEMMA TakeBreakOK ==
  ASSUME NEW c, NEW X, CodeOK(c, X), Len(c.break_stack) >= 1,
         NEW d, d = Pop(c, "break_stack"), NEW l, l = TOS(c, "break_stack")
  PROVE  TakeBreakPost(c, X, d, l)
<1>1. CodeShape(c) /\ StackShape(c)
  BY DEF CodeOK
<1>2. /\ BreakFrame(c, d) /\ d.break_stack = Front(c.break_stack)
      /\ l = Last(c.break_stack)
  BY <1>1 DEF Pop, TOS, CodeShape, Fields, BreakFrame
<1>3. c.break_stack \in Seq(1 .. Len(c.label)) /\ Len(c.break_stack) \in Nat
  BY <1>1, StackFacts DEF StackShape
<1>4. /\ d.break_stack \in Seq(1 .. Len(c.label))
      /\ Shrinks(c.break_stack, d.break_stack)
      /\ l = c.break_stack[Len(c.break_stack)] /\ l \in 1 .. Len(c.label)
  BY <1>2, <1>3, FrontShrinks
<1>5. StackShape(d)
  BY <1>1, <1>2, <1>4 DEF StackShape, BreakFrame
<1>6. \A k : k \in Owned(c) <=> k = l \/ k \in Owned(d)
  <2>1. SUFFICES ASSUME NEW k PROVE k \in Owned(c) <=> k = l \/ k \in Owned(d)
    OBVIOUS
  <2>2. In(c.break_stack, k) <=> k = l \/ In(d.break_stack, k)
    BY <1>3, <1>4, ShrinksIn
  <2>3. InTries(d, k) <=> InTries(c, k)
    BY <1>2 DEF BreakFrame, InTries
  <2>4. QED
    BY <1>2, <2>2, <2>3, OwnedIn DEF BreakFrame
<1>7. \A k : k \in Holders(d, X \union {l}) <=> k \in Holders(c, X)
  BY <1>6 DEF Holders
<1>8. CodeOK(d, X \union {l})
  BY <1>2, <1>5, <1>7, RestackedOK DEF BreakFrame
<1>9. QED
  BY <1>2, <1>4, <1>8 DEF TakeBreakPost

\* All but the label stack and the continue stack is as it was.
ContinueFrame(c, d) ==
  /\ DOMAIN d = Fields
  /\ d.code = c.code /\ d.label = c.label
  /\ d.label_stack = c.label_stack /\ d.break_stack = c.break_stack
  /\ d.switch_stack = c.switch_stack /\ d.mTryStack = c.mTryStack
  /\ d.block_stack = c.block_stack /\ d.context_stack = c.context_stack
  /\ d.in_loop = c.in_loop /\ d.in_switch = c.in_switch /\ d.size = c.size
  /\ d.catch = c.catch /\ d.goto = c.goto
HoldContinuePost(c, X, d, l) ==
  CodeOK(d, X) /\ ContinueFrame(c, d) /\ Grows(c.continue_stack, d.continue_stack, l)

\* A label pushed on the continue stack is held there.
LEMMA HoldContinueOK ==
  ASSUME NEW c, NEW X, NEW l \in 1 .. Len(c.label), CodeOK(c, X \union {l}),
         NEW d, d = Push(c, "continue_stack", l)
  PROVE  HoldContinuePost(c, X, d, l)
<1>1. CodeShape(c) /\ StackShape(c)
  BY DEF CodeOK
<1>2. ContinueFrame(c, d) /\ d.continue_stack = Append(c.continue_stack, l)
  BY <1>1 DEF Push, CodeShape, Fields, ContinueFrame
<1>3. c.continue_stack \in Seq(1 .. Len(c.label))
  BY <1>1 DEF StackShape
<1>4. /\ d.continue_stack \in Seq(1 .. Len(c.label))
      /\ Grows(c.continue_stack, d.continue_stack, l) /\ Len(c.continue_stack) \in Nat
  BY <1>2, <1>3, AppendGrows
<1>5. StackShape(d)
  BY <1>1, <1>2, <1>4 DEF StackShape, ContinueFrame
<1>6. \A k : k \in Owned(d) <=> k = l \/ k \in Owned(c)
  <2>1. SUFFICES ASSUME NEW k PROVE k \in Owned(d) <=> k = l \/ k \in Owned(c)
    OBVIOUS
  <2>2. In(d.continue_stack, k) <=> k = l \/ In(c.continue_stack, k)
    BY <1>4, GrowsIn
  <2>3. InTries(d, k) <=> InTries(c, k)
    BY <1>2 DEF ContinueFrame, InTries
  <2>4. QED
    BY <1>2, <2>2, <2>3, OwnedIn DEF ContinueFrame
<1>7. \A k : k \in Holders(d, X) <=> k \in Holders(c, X \union {l})
  BY <1>6 DEF Holders
<1>8. CodeOK(d, X)
  BY <1>2, <1>5, <1>7, RestackedOK DEF ContinueFrame
<1>9. QED
  BY <1>2, <1>4, <1>8 DEF HoldContinuePost

TakeContinuePost(c, X, d, l) ==
  /\ CodeOK(d, X \union {l}) /\ ContinueFrame(c, d) /\ Shrinks(c.continue_stack, d.continue_stack)
  /\ l = c.continue_stack[Len(c.continue_stack)] /\ l \in 1 .. Len(c.label)

\* A label taken off the continue stack is in the hand of the action.
LEMMA TakeContinueOK ==
  ASSUME NEW c, NEW X, CodeOK(c, X), Len(c.continue_stack) >= 1,
         NEW d, d = Pop(c, "continue_stack"), NEW l, l = TOS(c, "continue_stack")
  PROVE  TakeContinuePost(c, X, d, l)
<1>1. CodeShape(c) /\ StackShape(c)
  BY DEF CodeOK
<1>2. /\ ContinueFrame(c, d) /\ d.continue_stack = Front(c.continue_stack)
      /\ l = Last(c.continue_stack)
  BY <1>1 DEF Pop, TOS, CodeShape, Fields, ContinueFrame
<1>3. c.continue_stack \in Seq(1 .. Len(c.label)) /\ Len(c.continue_stack) \in Nat
  BY <1>1, StackFacts DEF StackShape
<1>4. /\ d.continue_stack \in Seq(1 .. Len(c.label))
      /\ Shrinks(c.continue_stack, d.continue_stack)
      /\ l = c.continue_stack[Len(c.continue_stack)] /\ l \in 1 .. Len(c.label)
  BY <1>2, <1>3, FrontShrinks
<1>5. StackShape(d)
  BY <1>1, <1>2, <1>4 DEF StackShape, ContinueFrame
<1>6. \A k : k \in Owned(c) <=> k = l \/ k \in Owned(d)
  <2>1. SUFFICES ASSUME NEW k PROVE k \in Owned(c) <=> k = l \/ k \in Owned(d)
    OBVIOUS
  <2>2. In(c.continue_stack, k) <=> k = l \/ In(d.continue_stack, k)
    BY <1>3, <1>4, ShrinksIn
  <2>3. InTries(d, k) <=> InTries(c, k)
    BY <1>2 DEF ContinueFrame, InTries
  <2>4. QED
    BY <1>2, <2>2, <2>3, OwnedIn DEF ContinueFrame
<1>7. \A k : k \in Holders(d, X \union {l}) <=> k \in Holders(c, X)
  BY <1>6 DEF Holders
<1>8. CodeOK(d, X \union {l})
  BY <1>2, <1>5, <1>7, RestackedOK DEF ContinueFrame
<1>9. QED
  BY <1>2, <1>4, <1>8 DEF TakeContinuePost
-----------------------------------------------------------------------------
(* Blocks and their objects                                                *)

\* Only flags, blocks, contexts and history change.
LEMMA AsideOK ==
  ASSUME NEW c, NEW X, CodeOK(c, X), NEW d, DOMAIN d = Fields,
         d.code = c.code, d.label = c.label, d.label_stack = c.label_stack,
         d.break_stack = c.break_stack, d.continue_stack = c.continue_stack,
         d.switch_stack = c.switch_stack, d.mTryStack = c.mTryStack,
         d.size = c.size, d.catch = c.catch, d.goto.label = c.goto.label,
         StackShape(d)
  PROVE  CodeOK(d, X)
<1>1. Holders(d, X) = Holders(c, X)
  BY DEF Holders, Owned
<1>2. QED
  BY <1>1, RestackedOK

BlockFlags(c) ==
  (IF c.in_loop \/ c.in_switch THEN {"BREAKABLE"} ELSE {}) \union
  (IF c.in_switch THEN {"IN_SWITCH"} ELSE {}) \union
  (IF c.in_loop THEN {"CONTINUEABLE"} ELSE {})

\* What a new block finds and leaves on the stacks.
InitPost(c, X, d) ==
  /\ CodeOK(d, X) /\ d.code = c.code
  /\ Len(c.label) <= Len(d.label)
  /\ \A k \in 1 .. Len(c.label) : d.label[k] = c.label[k]
  /\ d.switch_stack = c.switch_stack /\ d.mTryStack = c.mTryStack
  /\ d.context_stack = c.context_stack /\ d.size = c.size
  /\ d.catch = c.catch /\ d.goto = c.goto
  /\ d.in_loop = FALSE /\ d.in_switch = FALSE
  /\ IF c.in_loop \/ c.in_switch
     THEN Grows(c.break_stack, d.break_stack, c.label_stack[Len(c.label_stack)])
     ELSE d.break_stack = c.break_stack
  /\ IF c.in_switch THEN Shrinks(c.label_stack, d.label_stack)
     ELSE d.label_stack = c.label_stack
  /\ IF c.in_loop THEN Grows(c.continue_stack, d.continue_stack, Len(c.label) + 1)
     ELSE d.continue_stack = c.continue_stack
  /\ Grows(c.block_stack, d.block_stack, BlockFlags(c))

\* init_block() keeps the code in order: the labels of a loop or a switch move
\* from stack to stack and none is lost.
LEMMA InitBlockOK ==
  ASSUME NEW c, NEW X, CodeOK(c, X), c.in_loop \/ c.in_switch => Len(c.label_stack) >= 1,
         NEW d, d = InitBlock(c)
  PROVE  InitPost(c, X, d)
<1> DEFINE breakable == c.in_loop \/ c.in_switch
<1>1. CodeShape(c) /\ StackShape(c) /\ DOMAIN c = Fields /\ c.in_loop \in BOOLEAN /\ c.in_switch \in BOOLEAN
  BY DEF CodeOK, CodeShape, StackShape
<1>2. PICK m : m = TOS(c, "label_stack")
  OBVIOUS
<1>3. m = c.label_stack[Len(c.label_stack)] /\ Len(c.label_stack) \in Nat
  BY <1>1, <1>2, StackFacts DEF TOS, Last
<1>4. breakable => m \in 1 .. Len(c.label) /\ m \in Holders(c, X)
  <2>1. breakable => Len(c.label_stack) \in 1 .. Len(c.label_stack)
    BY <1>3
  <2>2. QED
    BY <1>1, <1>3, <2>1, StackFacts, OwnedIn DEF In, Holders
<1>5. PICK b : b = IF breakable THEN Push(c, "break_stack", m) ELSE c
  OBVIOUS
<1>6. /\ CodeOK(b, X) /\ BreakFrame(c, b)
      /\ IF breakable THEN Grows(c.break_stack, b.break_stack, m) ELSE b.break_stack = c.break_stack
  <2>1. CASE breakable
    <3>1. CodeOK(c, X \union {m})
      BY <1>4, <2>1, HandOK
    <3>2. b = Push(c, "break_stack", m)
      BY <1>5, <2>1
    <3>3. HoldBreakPost(c, X, b, m)
      BY <1>4, <2>1, <3>1, <3>2, HoldBreakOK
    <3>4. QED
      BY <2>1, <3>3 DEF HoldBreakPost
  <2>2. CASE ~breakable
    BY <1>1, <1>5, <2>2 DEF BreakFrame
  <2>3. QED
    BY <2>1, <2>2
<1> DEFINE S == IF c.in_switch THEN [Pop(b, "label_stack") EXCEPT !.in_switch = FALSE] ELSE b
<1>7. PICK s : s = S
  OBVIOUS
<1>8. /\ CodeOK(s, X) /\ LabelFrame([b EXCEPT !.in_switch = FALSE], s)
      /\ s.code = b.code /\ s.label = b.label
      /\ IF c.in_switch THEN Shrinks(b.label_stack, s.label_stack) ELSE s.label_stack = b.label_stack
  <2>1. CASE c.in_switch
    <3>1. PICK p : p = Pop(b, "label_stack")
      OBVIOUS
    <3>2. b.label_stack = c.label_stack /\ m = TOS(b, "label_stack") /\ Len(b.label_stack) >= 1
      BY <1>2, <1>6, <2>1 DEF BreakFrame, TOS
    <3>3. PopLabelPost(b, X, p, m)
      BY <1>6, <3>1, <3>2, PopLabelOK
    <3>4. m \in Holders(p, X)
      <4>1. p.break_stack = b.break_stack
        BY <3>3 DEF PopLabelPost, LabelFrame
      <4>2. Len(c.break_stack) \in Nat
        BY <1>1, StackFacts
      <4>3. In(p.break_stack, m)
        BY <1>6, <2>1, <4>1, <4>2, GrowsIn
      <4>4. QED
        BY <4>3, OwnedIn DEF Holders
    <3>5. CodeOK(p, X)
      BY <3>3, <3>4, HandOK DEF PopLabelPost
    <3>6. s = [p EXCEPT !.in_switch = FALSE]
      BY <1>7, <2>1, <3>1
    <3>7. DOMAIN p = Fields /\ StackShape(p) /\ DOMAIN b = Fields
      BY <1>6, <3>5 DEF CodeOK, CodeShape
    <3>8. /\ DOMAIN s = Fields /\ s.code = p.code /\ s.label = p.label
          /\ s.label_stack = p.label_stack /\ s.break_stack = p.break_stack
          /\ s.continue_stack = p.continue_stack /\ s.switch_stack = p.switch_stack
          /\ s.mTryStack = p.mTryStack /\ s.block_stack = p.block_stack
          /\ s.context_stack = p.context_stack /\ s.in_loop = p.in_loop
          /\ s.in_switch = FALSE /\ s.size = p.size /\ s.catch = p.catch /\ s.goto = p.goto
      BY <3>6, <3>7 DEF Fields
    <3>9. StackShape(s)
      BY <3>7, <3>8 DEF StackShape
    <3>10. CodeOK(s, X)
      BY <3>5, <3>8, <3>9, AsideOK
    <3>11. LabelFrame([b EXCEPT !.in_switch = FALSE], s)
      BY <3>3, <3>7, <3>8 DEF PopLabelPost, LabelFrame, Fields
    <3>12. s.code = b.code /\ s.label = b.label /\ Shrinks(b.label_stack, s.label_stack)
      BY <3>3, <3>8 DEF PopLabelPost, Shrinks, Kept
    <3>13. QED
      BY <2>1, <3>10, <3>11, <3>12
  <2>2. CASE ~c.in_switch
    <3>1. s = b /\ b.in_switch = FALSE /\ DOMAIN b = Fields
      BY <1>1, <1>6, <1>7, <2>2 DEF BreakFrame
    <3>2. LabelFrame([b EXCEPT !.in_switch = FALSE], s)
      BY <3>1 DEF LabelFrame, Fields
    <3>3. QED
      BY <1>6, <2>2, <3>1, <3>2
  <2>3. QED
    BY <2>1, <2>2
<1> HIDE DEF S
<1>9. /\ DOMAIN s = Fields /\ s.break_stack = b.break_stack /\ s.context_stack = c.context_stack
      /\ s.continue_stack = c.continue_stack /\ s.switch_stack = c.switch_stack
      /\ s.mTryStack = c.mTryStack /\ s.block_stack = c.block_stack
      /\ s.in_loop = c.in_loop /\ s.in_switch = FALSE /\ s.code = c.code /\ s.label = c.label
      /\ s.size = c.size /\ s.catch = c.catch /\ s.goto = c.goto /\ b.label_stack = c.label_stack
  BY <1>6, <1>8 DEF LabelFrame, BreakFrame, Fields
<1> DEFINE K == IF c.in_loop
                THEN [Push(NewLabel(s), "continue_stack", Len(NewLabel(s).label))
                        EXCEPT !.in_loop = FALSE]
                ELSE s
<1>10. PICK k : k = K
  OBVIOUS
<1>11. /\ CodeOK(k, X) /\ DOMAIN k = Fields /\ k.code = c.code
       /\ Len(c.label) <= Len(k.label)
       /\ \A i \in 1 .. Len(c.label) : k.label[i] = c.label[i]
       /\ IF c.in_loop THEN Grows(c.continue_stack, k.continue_stack, Len(c.label) + 1)
          ELSE k.continue_stack = c.continue_stack
       /\ k.in_loop = FALSE /\ k.in_switch = FALSE
       /\ k.label_stack = s.label_stack /\ k.break_stack = s.break_stack
       /\ k.switch_stack = s.switch_stack /\ k.mTryStack = s.mTryStack
       /\ k.block_stack = s.block_stack /\ k.context_stack = s.context_stack
       /\ k.size = s.size /\ k.catch = s.catch /\ k.goto = s.goto
  <2>1. Len(c.label) \in Nat
    BY <1>1, ShapeFacts
  <2>2. CASE c.in_loop
    <3>1. PICK f : f = NewLabel(s)
      OBVIOUS
    <3>2. PICK l : l = Len(s.label) + 1
      OBVIOUS
    <3>3. NewLabelPost(s, X, f, l)
      BY <1>8, <3>1, <3>2, NewLabelOK
    <3>4. Len(f.label) = l /\ l \in 1 .. Len(f.label) /\ CodeOK(f, X \union {l})
      BY <1>9, <2>1, <3>2, <3>3 DEF NewLabelPost
    <3>5. PICK g : g = Push(f, "continue_stack", l)
      OBVIOUS
    <3>6. HoldContinuePost(f, X, g, l)
      BY <3>4, <3>5, HoldContinueOK
    <3>7. k = [g EXCEPT !.in_loop = FALSE]
      BY <1>10, <2>2, <3>1, <3>4, <3>5
    <3>8. DOMAIN g = Fields /\ StackShape(g)
      BY <3>6 DEF HoldContinuePost, CodeOK, CodeShape
    <3>9. /\ DOMAIN k = Fields /\ k.code = g.code /\ k.label = g.label
          /\ k.label_stack = g.label_stack /\ k.break_stack = g.break_stack
          /\ k.continue_stack = g.continue_stack /\ k.switch_stack = g.switch_stack
          /\ k.mTryStack = g.mTryStack /\ k.block_stack = g.block_stack
          /\ k.context_stack = g.context_stack /\ k.in_loop = FALSE
          /\ k.in_switch = g.in_switch /\ k.size = g.size /\ k.catch = g.catch /\ k.goto = g.goto
      BY <3>7, <3>8 DEF Fields
    <3>10. StackShape(k)
      BY <3>8, <3>9 DEF StackShape
    <3>11. CodeOK(k, X)
      BY <3>6, <3>9, <3>10, AsideOK DEF HoldContinuePost
    <3>12. /\ k.label = f.label /\ k.code = s.code
           /\ Grows(f.continue_stack, k.continue_stack, l) /\ f.continue_stack = s.continue_stack
           /\ k.label_stack = s.label_stack /\ k.break_stack = s.break_stack
           /\ k.switch_stack = s.switch_stack /\ k.mTryStack = s.mTryStack
           /\ k.block_stack = s.block_stack /\ k.context_stack = s.context_stack
           /\ k.in_switch = s.in_switch
           /\ k.size = s.size /\ k.catch = s.catch /\ k.goto = s.goto
      BY <3>3, <3>6, <3>9 DEF HoldContinuePost, ContinueFrame, NewLabelPost, Frame
    <3>13. Len(c.label) <= Len(k.label) /\ \A i \in 1 .. Len(c.label) : k.label[i] = c.label[i]
      BY <1>9, <2>1, <3>2, <3>3, <3>4, <3>12 DEF NewLabelPost
    <3>14. QED
      BY <1>9, <2>2, <3>2, <3>9, <3>11, <3>12, <3>13
  <2>3. CASE ~c.in_loop
    <3>1. k = s
      BY <1>10, <2>3
    <3>2. QED
      BY <1>1, <1>8, <1>9, <2>1, <2>3, <3>1
  <2>4. QED
    BY <2>2, <2>3
<1>12. d = Push(k, "block_stack", BlockFlags(c))
  BY <1>2, <1>5, <1>7, <1>10 DEF InitBlock, BlockFlags, S
<1> HIDE DEF K
<1>13. /\ DOMAIN d = Fields /\ d.code = k.code /\ d.label = k.label
       /\ d.label_stack = k.label_stack /\ d.break_stack = k.break_stack
       /\ d.continue_stack = k.continue_stack /\ d.switch_stack = k.switch_stack
       /\ d.mTryStack = k.mTryStack /\ d.block_stack = Append(k.block_stack, BlockFlags(c))
       /\ d.context_stack = k.context_stack /\ d.in_loop = FALSE
       /\ d.in_switch = FALSE /\ d.size = k.size /\ d.catch = k.catch /\ d.goto = k.goto
  BY <1>11, <1>12 DEF Push, Fields
<1>14. StackShape(k) /\ IsSeq(k.block_stack)
  BY <1>11 DEF CodeOK, StackShape
<1>15. IsSeq(d.block_stack) /\ Grows(k.block_stack, d.block_stack, BlockFlags(c))
  <2>1. PICK F : F = BlockFlags(c)
    OBVIOUS
  <2>2. QED
    BY <1>13, <1>14, <2>1, AppendShape DEF Grows, Kept
<1>16. StackShape(d)
  BY <1>13, <1>14, <1>15 DEF StackShape
<1>17. CodeOK(d, X)
  BY <1>11, <1>13, <1>16, AsideOK
<1>18. IF breakable THEN Grows(c.break_stack, d.break_stack, c.label_stack[Len(c.label_stack)])
       ELSE d.break_stack = c.break_stack
  BY <1>3, <1>6, <1>9, <1>11, <1>13
<1>19. IF c.in_switch THEN Shrinks(c.label_stack, d.label_stack)
       ELSE d.label_stack = c.label_stack
  BY <1>8, <1>9, <1>11, <1>13
<1>20. QED
  BY <1>9, <1>11, <1>13, <1>15, <1>17, <1>18, <1>19 DEF InitPost
\* All but the code, the blocks, the contexts and the size is as it was.
SameLabels(c, d) ==
  /\ DOMAIN d = Fields /\ d.label = c.label /\ d.label_stack = c.label_stack
  /\ d.break_stack = c.break_stack /\ d.continue_stack = c.continue_stack
  /\ d.switch_stack = c.switch_stack /\ d.mTryStack = c.mTryStack
  /\ d.in_loop = c.in_loop /\ d.in_switch = c.in_switch
  /\ d.catch = c.catch /\ d.goto = c.goto

\* The top block has a context now.
Contexted(c, d) ==
  /\ Len(d.block_stack) = Len(c.block_stack)
  /\ Kept(c.block_stack, d.block_stack, Len(c.block_stack) - 1)
  /\ d.block_stack[Len(c.block_stack)]
       = c.block_stack[Len(c.block_stack)] \union {"CONTEXT_PUSHED"}
  /\ Len(d.context_stack) = IF ContextGenerated(c) THEN Len(c.context_stack)
                            ELSE Len(c.context_stack) + 1

CheckContextPost(c, X, d) ==
  /\ CodeOK(d, X) /\ SameLabels(c, d) /\ d.size = c.size /\ d.code = c.code
  /\ Contexted(c, d)

\* check_context() keeps the code in order, and gives the block its context.
LEMMA CheckContextOK ==
  ASSUME NEW c, NEW X, CodeOK(c, X), Len(c.block_stack) >= 1,
         NEW d, d = CheckContext(c)
  PROVE  CheckContextPost(c, X, d)
<1>1. CodeShape(c) /\ StackShape(c) /\ DOMAIN c = Fields
  BY DEF CodeOK, CodeShape
<1>2. TOS(c, "block_stack") = c.block_stack[Len(c.block_stack)]
  BY DEF TOS, Last
<1>3. Len(c.block_stack) \in Nat /\ IsSeq(c.block_stack)
  BY <1>1, StackFacts DEF StackShape
<1>4. CASE ContextGenerated(c)
  <2>1. d = c
    BY <1>4 DEF CheckContext
  <2>2. c.block_stack[Len(c.block_stack)]
          = c.block_stack[Len(c.block_stack)] \union {"CONTEXT_PUSHED"}
    BY <1>2, <1>4 DEF ContextGenerated
  <2>3. Contexted(c, c)
    BY <1>4, <2>2 DEF Contexted, Kept
  <2>4. QED
    BY <1>1, <2>1, <2>3 DEF CheckContextPost, SameLabels
<1>5. CASE ~ContextGenerated(c)
  <2>1. d = [Push(c, "context_stack", 0) EXCEPT !.block_stack[Len(c.block_stack)] =
                                                  @ \union {"CONTEXT_PUSHED"}]
    BY <1>5 DEF CheckContext
  <2> DEFINE B == [c.block_stack EXCEPT ![Len(c.block_stack)] = @ \union {"CONTEXT_PUSHED"}]
  <2>2. /\ SameLabels(c, d) /\ d.size = c.size /\ d.code = c.code
        /\ d.context_stack = Append(c.context_stack, 0)
        /\ d.block_stack = B
    BY <1>1, <2>1 DEF Push, SameLabels, Fields
  <2>3. DOMAIN c.block_stack = 1 .. Len(c.block_stack)
    BY <1>3, SeqShape
  <2>4. /\ B = [i \in 1 .. Len(c.block_stack) |-> B[i]]
        /\ \A i \in 1 .. Len(c.block_stack) - 1 : B[i] = c.block_stack[i]
        /\ B[Len(c.block_stack)] = c.block_stack[Len(c.block_stack)] \union {"CONTEXT_PUSHED"}
    <3>1. B = [i \in 1 .. Len(c.block_stack) |-> B[i]]
      BY <2>3
    <3>2. \A i \in 1 .. Len(c.block_stack) :
            B[i] = IF i = Len(c.block_stack)
                   THEN c.block_stack[Len(c.block_stack)] \union {"CONTEXT_PUSHED"}
                   ELSE c.block_stack[i]
      BY <2>3
    <3> HIDE DEF B
    <3>3. Len(c.block_stack) \in 1 .. Len(c.block_stack)
      BY <1>3
    <3>4. \A i \in 1 .. Len(c.block_stack) - 1 :
            i \in 1 .. Len(c.block_stack) /\ i # Len(c.block_stack)
      BY <1>3
    <3>5. \A i \in 1 .. Len(c.block_stack) - 1 : B[i] = c.block_stack[i]
      BY <3>2, <3>4
    <3>6. B[Len(c.block_stack)] = c.block_stack[Len(c.block_stack)] \union {"CONTEXT_PUSHED"}
      BY <3>2, <3>3
    <3>7. QED
      BY <3>1, <3>5, <3>6
  <2> HIDE DEF B
  <2>5. IsSeq(B) /\ Len(B) = Len(c.block_stack)
    BY <1>3, <2>4, FunctionShape
  <2>6. c.context_stack \in Seq(0 .. c.size) /\ 0 \in 0 .. c.size
    BY <1>1 DEF StackShape, CodeShape
  <2>7. /\ d.context_stack \in Seq(0 .. c.size)
        /\ Len(d.context_stack) = Len(c.context_stack) + 1
    BY <2>2, <2>6, AppendGrows DEF Grows
  <2>8. StackShape(d)
    BY <1>1, <2>2, <2>5, <2>7 DEF StackShape, SameLabels
  <2>9. CodeOK(d, X)
    BY <2>2, <2>8, AsideOK DEF SameLabels
  <2>10. Contexted(c, d)
    BY <1>5, <2>2, <2>4, <2>5, <2>7 DEF Contexted, Kept
  <2>11. QED
    BY <2>2, <2>9, <2>10 DEF CheckContextPost
<1>6. QED
  BY <1>4, <1>5

\* A sequence of numbers up to a, where one of them becomes another.
NumbersPost(a, s, t) == t \in Seq(0 .. a) /\ Len(t) = Len(s)

\* Replacing one number by another up to a keeps a sequence of numbers up to a.
LEMMA ExceptNumbers ==
  ASSUME NEW a \in Nat, NEW s \in Seq(0 .. a), NEW i, NEW x,
         i \in 1 .. Len(s) => x \in 0 .. a, NEW t, t = [s EXCEPT ![i] = x]
  PROVE  NumbersPost(a, s, t)
<1>1. CASE i \in 1 .. Len(s)
  BY <1>1, ExceptSeq DEF NumbersPost
<1>2. CASE i \notin 1 .. Len(s)
  <2>1. DOMAIN s = 1 .. Len(s)
    BY LenProperties
  <2>2. t = s
    BY <1>2, <2>1
  <2>3. QED
    BY <2>2 DEF NumbersPost
<1>3. QED
  BY <1>1, <1>2

\* Numbers from 0 up to a are numbers from 0 up to a larger b.
LEMMA WiderNumbers ==
  ASSUME NEW a \in Nat, NEW b \in Nat, a <= b, NEW s, s \in Seq(0 .. a)
  PROVE  s \in Seq(0 .. b)
<1>1. 0 .. a \subseteq 0 .. b
  OBVIOUS
<1>2. QED
  BY <1>1, SeqWider, Zenon

ConstructPost(c, X, d) ==
  /\ CodeOK(d, X) /\ SameLabels(c, d) /\ Contexted(c, d)

\* A new object.
LEMMA ConstructOK ==
  ASSUME NEW c, NEW X, CodeOK(c, X), Len(c.block_stack) >= 1, c.size < MaxObjects,
         NEW op \in {"TOSD", "MARK"}, NEW d, d = Construct(c, op)
  PROVE  ConstructPost(c, X, d)
<1>1. PICK e : e = CheckContext(c)
  OBVIOUS
<1>2. PICK s : s = c.size + 1
  OBVIOUS
<1>3. CheckContextPost(c, X, e)
  BY <1>1, CheckContextOK
<1>4. CodeShape(c) /\ CodeShape(e) /\ StackShape(e) /\ e.size = c.size
  BY <1>3 DEF CheckContextPost, CodeOK
<1>5. c.size \in Nat /\ s \in Nat /\ s \in 1 .. s /\ s \in 0 .. MaxObjects /\ c.size <= s
  BY <1>2, <1>4, BoundAssumption DEF CodeShape
<1> DEFINE i == Len(e.context_stack)
           C == [e.context_stack EXCEPT ![i] = IF @ = 0 THEN s ELSE @]
           F == [e EXCEPT !.size = s,
                          !.context_stack[Len(e.context_stack)] = IF @ = 0 THEN s ELSE @]
<1>6. PICK f : f = F
  OBVIOUS
<1>7. d = Emit(f, op, s)
  BY <1>1, <1>2, <1>6 DEF Construct
<1>8. /\ SameLabels(e, f) /\ f.code = e.code /\ f.size = s
      /\ f.context_stack = C /\ f.block_stack = e.block_stack
  BY <1>3, <1>6 DEF CheckContextPost, SameLabels, Fields
<1> HIDE DEF F
<1>9. C \in Seq(0 .. s) /\ Len(C) = Len(e.context_stack)
  <2>1. e.context_stack \in Seq(0 .. s)
    <3>1. e.context_stack \in Seq(0 .. c.size)
      BY <1>4 DEF StackShape
    <3>2. QED
      BY <1>5, <3>1, WiderNumbers
  <2>2. PICK x : x = IF e.context_stack[i] = 0 THEN s ELSE e.context_stack[i]
    OBVIOUS
  <2>3. i \in 1 .. Len(e.context_stack) => x \in 0 .. s
    <3>1. SUFFICES ASSUME i \in 1 .. Len(e.context_stack) PROVE x \in 0 .. s
      OBVIOUS
    <3>2. e.context_stack[i] \in 0 .. s
      BY <2>1, <3>1, ElementOfSeq
    <3>3. QED
      BY <1>5, <2>2, <3>2
  <2>4. C = [e.context_stack EXCEPT ![i] = x]
    BY <2>2
  <2> HIDE DEF C, i
  <2>5. NumbersPost(s, e.context_stack, C)
    BY <1>5, <2>1, <2>3, <2>4, ExceptNumbers
  <2>6. QED
    BY <2>5 DEF NumbersPost
<1> HIDE DEF C
<1>10. CodeOK(f, X)
  <2>1. CodeShape(f)
    <3>1. \A j \in 1 .. Len(e.code) : InstrOK(e.code[j], s)
      <4>1. SUFFICES ASSUME NEW j \in 1 .. Len(e.code) PROVE InstrOK(e.code[j], s)
        OBVIOUS
      <4>2. InstrOK(e.code[j], c.size)
        BY <1>4 DEF CodeShape
      <4>3. QED
        BY <1>5, <4>2 DEF InstrOK
    <3>2. QED
      BY <1>4, <1>5, <1>8, <3>1 DEF CodeShape, SameLabels
  <2>2. StackShape(f)
    BY <1>4, <1>8, <1>9 DEF StackShape, SameLabels
  <2>3. Holders(f, X) = Holders(e, X)
    BY <1>8 DEF Holders, Owned, SameLabels
  <2>4. /\ Linked(e) /\ Held(e, X) /\ RefsClean(e, X) /\ Within(e, Len(e.code) + 1)
        /\ Switched(e)
    BY <1>3 DEF CheckContextPost, CodeOK
  <2>5. Linked(f) /\ Held(f, X) /\ RefsClean(f, X) /\ Switched(f)
    BY <1>8, <2>3, <2>4 DEF Linked, Held, RefsClean, Switched, SameLabels
  <2>6. Within(f, Len(f.code) + 1)
    BY <1>8, <2>4 DEF Within, SameLabels
  <2>7. QED
    BY <2>1, <2>2, <2>5, <2>6 DEF CodeOK
<1>11. op \in Ops \ (JumpOps \union {"JSWITCH"})
  BY DEF Ops, JumpOps
<1>12. CodeOK(d, X)
  BY <1>5, <1>7, <1>8, <1>10, <1>11, EmitOK
<1>13. EmitPost(f, d, op, s)
  <2>1. CodeShape(f) /\ op \in Ops /\ s \in 1 .. f.size
    BY <1>5, <1>8, <1>10, <1>11 DEF CodeOK
  <2>2. QED
    BY <1>5, <1>7, <2>1, EmitFacts
<1>14. SameLabels(c, d) /\ d.block_stack = e.block_stack /\ d.context_stack = C
  BY <1>3, <1>8, <1>13 DEF CheckContextPost, SameLabels, EmitPost, Frame, Fields
<1>15. Contexted(c, d)
  BY <1>3, <1>9, <1>14 DEF CheckContextPost, Contexted
<1>16. QED
  BY <1>12, <1>14, <1>15 DEF ConstructPost

UnwindPost(c, X, d) ==
  /\ CodeOK(d, X) /\ Frame(c, d) /\ d.label = c.label
  /\ Len(d.context_stack) = Len(c.context_stack)
  /\ Len(c.code) <= Len(d.code)

\* The objects of a context are destroyed here.
LEMMA CheckObjectsOK ==
  ASSUME NEW c, NEW X, CodeOK(c, X), NEW i \in 1 .. Len(c.context_stack),
         NEW do_clear \in BOOLEAN, NEW d, d = CheckObjects(c, i, do_clear)
  PROVE  UnwindPost(c, X, d)
<1>1. CodeShape(c) /\ StackShape(c) /\ Len(c.code) \in Nat
  BY ShapeFacts DEF CodeOK
<1>2. CASE c.context_stack[i] = 0
  BY <1>1, <1>2 DEF CheckObjects, UnwindPost, Frame
<1>3. CASE c.context_stack[i] # 0
  <2>1. PICK s : s = c.context_stack[i]
    OBVIOUS
  <2>2. c.context_stack \in Seq(0 .. c.size) /\ c.size \in Nat
    BY <1>1 DEF StackShape, CodeShape
  <2>3. s \in 1 .. c.size /\ s \in Nat
    <3>1. s \in 0 .. c.size
      BY <2>1, <2>2, ElementOfSeq
    <3>2. QED
      BY <1>3, <2>1, <2>2, <3>1
  <2>4. PICK e : e = Emit(c, "UNWIND", s)
    OBVIOUS
  <2>5. CodeOK(e, X)
    <3>1. "UNWIND" \in Ops \ (JumpOps \union {"JSWITCH"})
      BY DEF Ops, JumpOps
    <3>2. QED
      BY <2>3, <2>4, <3>1, EmitOK
  <2>6. EmitPost(c, e, "UNWIND", s)
    <3>1. "UNWIND" \in Ops
      BY DEF Ops
    <3>2. QED
      BY <1>1, <2>3, <2>4, <3>1, EmitFacts
  <2>7. /\ Frame(c, e) /\ e.label = c.label /\ e.context_stack = c.context_stack
        /\ Len(c.code) <= Len(e.code)
    BY <1>1, <2>6 DEF EmitPost
  <2>8. d = IF do_clear THEN [e EXCEPT !.context_stack[i] = 0] ELSE e
    BY <1>3, <2>1, <2>4 DEF CheckObjects
  <2>9. CASE ~do_clear
    BY <2>5, <2>7, <2>8, <2>9 DEF UnwindPost
  <2>10. CASE do_clear
    <3>1. DOMAIN e = Fields /\ StackShape(e)
      BY <2>5 DEF CodeOK, CodeShape
    <3>2. /\ d.context_stack = [e.context_stack EXCEPT ![i] = 0] /\ DOMAIN d = Fields
          /\ d.code = e.code /\ d.label = e.label /\ Frame(e, d)
      BY <2>8, <2>10, <3>1 DEF Fields, Frame
    <3>3. 0 \in 0 .. c.size
      BY <2>2
    <3>4. d.context_stack \in Seq(0 .. c.size) /\ Len(d.context_stack) = Len(c.context_stack)
      <4>1. d.context_stack = [c.context_stack EXCEPT ![i] = 0]
        BY <2>7, <3>2
      <4>2. NumbersPost(c.size, c.context_stack, d.context_stack)
        BY <2>2, <3>3, <4>1, ExceptNumbers
      <4>3. QED
        BY <4>2 DEF NumbersPost
    <3>5. StackShape(d)
      BY <2>7, <3>1, <3>2, <3>4 DEF StackShape, Frame
    <3>6. CodeOK(d, X)
      BY <2>5, <3>2, <3>5, AsideOK DEF Frame
    <3>7. Frame(c, d)
      BY <2>7, <3>2 DEF Frame
    <3>8. QED
      BY <2>7, <3>2, <3>4, <3>6, <3>7 DEF UnwindPost
  <2>11. QED
    BY <2>9, <2>10
<1>4. QED
  BY <1>2, <1>3
EndSwitchPost(c, X, d) ==
  /\ CodeOK(d, X) /\ Later(c, d) /\ Len(d.label) = Len(c.label)
  /\ Len(d.code) = Len(c.code)
  /\ d.label[c.break_stack[Len(c.break_stack)]].to # 0
  /\ d.label_stack = c.label_stack /\ d.break_stack = c.break_stack
  /\ d.continue_stack = c.continue_stack /\ d.mTryStack = c.mTryStack
  /\ d.block_stack = c.block_stack /\ d.context_stack = c.context_stack
  /\ d.in_loop = c.in_loop /\ d.in_switch = c.in_switch /\ d.size = c.size
  /\ d.catch = c.catch /\ d.goto = c.goto
  /\ Shrinks(c.switch_stack, d.switch_stack)

\* The block of a switch ends: its jump gets its cases, and the switch goes.
LEMMA EndSwitchOK ==
  ASSUME NEW c, NEW X, CodeOK(c, X), Len(c.break_stack) >= 1,
         Len(c.switch_stack) >= 1, NEW g, g = EndSwitch(c)
  PROVE  EndSwitchPost(c, X, g)
<1>1. CodeShape(c) /\ StackShape(c) /\ Len(c.code) \in Nat
  BY ShapeFacts DEF CodeOK
<1>2. PICK m : m = c.break_stack[Len(c.break_stack)]
  OBVIOUS
<1>3. m = TOS(c, "break_stack") /\ m \in 1 .. Len(c.label) /\ m \in Holders(c, X)
  <2>1. Len(c.break_stack) \in 1 .. Len(c.break_stack)
    BY <1>1, StackFacts
  <2>2. m = TOS(c, "break_stack")
    BY <1>2 DEF TOS, Last
  <2>3. m \in 1 .. Len(c.label)
    BY <1>1, <1>2, <2>1, StackFacts
  <2>4. QED
    BY <1>2, <2>1, <2>2, <2>3, OwnedIn DEF In, Holders
<1>4. PICK d : d = Here(c, m, 0)
  OBVIOUS
<1>5. HerePost(c, X, d, m, 0)
  BY <1>1, <1>3, <1>4, HereOK
<1>6. /\ CodeOK(d, X) /\ Frame(c, d) /\ Later(c, d) /\ d.context_stack = c.context_stack
      /\ Len(d.label) = Len(c.label) /\ Len(d.code) = Len(c.code) /\ d.label[m].to # 0
  BY <1>5 DEF HerePost
<1>7. /\ CodeShape(d) /\ StackShape(d) /\ Linked(d) /\ Held(d, X) /\ RefsClean(d, X)
      /\ Within(d, Len(d.code) + 1) /\ Switched(d)
  BY <1>6 DEF CodeOK
<1> DEFINE last == Len(d.switch_stack)
           sw == d.switch_stack[last]
           default == IF sw.default = 0 THEN IpOffset(d) ELSE sw.default
           st == sw.start
           E == [d EXCEPT !.code[st].arg = default, !.code[st].table = sw.cases]
<1>8. d.switch_stack = c.switch_stack /\ last \in Nat /\ last >= 1 /\ last \in 1 .. last
  BY <1>6, <1>7, StackFacts DEF Frame
<1>9. sw \in SwitchType /\ sw = TOS(d, "switch_stack")
  BY <1>7, <1>8, StackFacts DEF TOS, Last
<1>10. /\ default \in Nat /\ default # 0 /\ default <= Len(d.code) + 1
       /\ sw.cases \subseteq 1 .. Len(d.code) + 1 /\ sw.cases \in SUBSET Nat
  <2>1. sw.default \in Nat /\ sw.cases \in SUBSET Nat
    BY <1>9 DEF SwitchType
  <2>2. sw.default <= Len(d.code) + 1 /\ sw.cases \subseteq 1 .. Len(d.code) + 1
    BY <1>7, <1>8 DEF Within
  <2>3. Len(d.code) \in Nat
    BY <1>1, <1>6
  <2> HIDE DEF sw
  <2>4. QED
    BY <2>1, <2>2, <2>3 DEF IpOffset
<1>11. st \in 1 .. Len(d.code) /\ d.code[st].op \in {"JSWITCH", "HALT"}
  BY <1>7, <1>8 DEF Switched
<1>12. PICK e : e = E
  OBVIOUS
<1>13. g = Pop(e, "switch_stack")
  BY <1>3, <1>4, <1>9, <1>12 DEF EndSwitch
<1>14. DOMAIN d = Fields /\ IsSeq(d.code) /\ DOMAIN d.code = 1 .. Len(d.code)
  BY <1>7, SeqShape DEF CodeShape
<1> DEFINE x == [[d.code[st] EXCEPT !.arg = default] EXCEPT !.table = sw.cases]
<1>15. DOMAIN d.code[st] = {"op", "arg", "table", "at"}
  BY <1>7, <1>11 DEF CodeShape, InstrOK
<1>16. x.op = d.code[st].op /\ x.arg = default /\ x.table = sw.cases
       /\ DOMAIN x = {"op", "arg", "table", "at"}
  BY <1>15, SMTT(40)
<1>17. e.code = [d.code EXCEPT ![st] = x]
  BY <1>11, <1>12, <1>14 DEF Fields
<1> HIDE DEF x
<1>18. /\ e.code = [i \in 1 .. Len(d.code) |-> e.code[i]]
       /\ \A i \in 1 .. Len(d.code) : e.code[i] = IF i = st THEN x ELSE d.code[i]
  BY <1>14, <1>17
<1>19. IsSeq(e.code) /\ Len(e.code) = Len(d.code)
  BY <1>1, <1>6, <1>18, FunctionShape
<1>20. /\ DOMAIN e = Fields /\ e.label = d.label /\ Frame(d, e)
       /\ e.context_stack = d.context_stack
  BY <1>12, <1>14 DEF Fields, Frame
<1>21. /\ DOMAIN g = Fields /\ g.label = d.label /\ g.code = e.code
       /\ g.label_stack = d.label_stack /\ g.break_stack = d.break_stack
       /\ g.continue_stack = d.continue_stack /\ g.mTryStack = d.mTryStack
       /\ g.block_stack = d.block_stack /\ g.context_stack = d.context_stack
       /\ g.in_loop = d.in_loop /\ g.in_switch = d.in_switch /\ g.size = d.size
       /\ g.catch = d.catch /\ g.goto = d.goto
       /\ g.switch_stack = Front(d.switch_stack)
  BY <1>13, <1>20 DEF Pop, Frame, Fields
<1>22. g.switch_stack \in Seq(SwitchType) /\ Shrinks(d.switch_stack, g.switch_stack)
  <2>1. d.switch_stack \in Seq(SwitchType)
    BY <1>7 DEF StackShape
  <2>2. QED
    BY <1>8, <1>21, <2>1, FrontShrinks
<1>23. /\ Len(g.switch_stack) = last - 1
       /\ \A s \in 1 .. last - 1 : g.switch_stack[s] = d.switch_stack[s]
  BY <1>22 DEF Shrinks, Kept
<1> HIDE DEF E, default, sw, st, last
<1>24. CodeShape(g)
  <2>1. SUFFICES ASSUME NEW i \in 1 .. Len(d.code) PROVE InstrOK(e.code[i], d.size)
    BY <1>7, <1>19, <1>21 DEF CodeShape
  <2>2. InstrOK(d.code[i], d.size)
    BY <1>7 DEF CodeShape
  <2>3. CASE i # st
    BY <1>18, <2>2, <2>3
  <2>4. CASE i = st
    <3>1. e.code[i] = x
      BY <1>18, <2>4
    <3>2. x.op \in Ops /\ x.op \notin {"TOSD", "MARK", "UNWIND"}
      BY <1>11, <1>16, <2>2, <2>4 DEF InstrOK
    <3>3. QED
      BY <1>10, <1>16, <3>1, <3>2 DEF InstrOK
  <2>5. QED
    BY <2>3, <2>4
<1>25. StackShape(g)
  BY <1>7, <1>21, <1>22 DEF StackShape
<1>26. \A i \in 1 .. Len(d.code) : e.code[i].op = d.code[i].op /\ (i # st => e.code[i] = d.code[i])
  BY <1>16, <1>18
<1>27. Linked(g)
  <2>1. SUFFICES ASSUME NEW i \in 1 .. Len(d.code), e.code[i].arg = 0
                 PROVE  /\ e.code[i].op \in JumpOps =>
                             \E k \in 1 .. Len(d.label) : d.label[k].to = 0 /\ i \in d.label[k].refs
                        /\ e.code[i].op = "JSWITCH" =>
                             \E s \in 1 .. Len(g.switch_stack) : g.switch_stack[s].start = i
    BY <1>19, <1>21 DEF Linked
  <2>2. i # st
    BY <1>10, <1>16, <1>18, <2>1
  <2>3. e.code[i] = d.code[i]
    BY <1>26, <2>2
  <2>4. /\ d.code[i].op \in JumpOps =>
             \E k \in 1 .. Len(d.label) : d.label[k].to = 0 /\ i \in d.label[k].refs
        /\ d.code[i].op = "JSWITCH" =>
             \E s \in 1 .. Len(d.switch_stack) : d.switch_stack[s].start = i
    BY <1>7, <2>1, <2>3 DEF Linked
  <2>5. \A s \in 1 .. last : s # last => s \in 1 .. last - 1
    BY <1>8
  <2>6. ASSUME NEW s \in 1 .. last, d.switch_stack[s].start = i
        PROVE  \E r \in 1 .. Len(g.switch_stack) : g.switch_stack[r].start = i
    <3>1. s # last
      BY <2>2, <2>6 DEF st, sw
    <3>2. QED
      BY <1>23, <2>5, <2>6, <3>1
  <2>7. QED
    BY <2>3, <2>4, <2>6 DEF last
<1>28. Holders(g, X) = Holders(d, X)
  BY <1>21 DEF Holders, Owned
<1>29. Held(g, X)
  BY <1>7, <1>21, <1>28 DEF Held
<1>30. RefsClean(g, X)
  BY <1>7, <1>19, <1>21, <1>26, <1>28 DEF RefsClean
<1>31. Within(g, Len(g.code) + 1)
  <2>1. \A i \in 1 .. Len(g.code) :
          /\ g.code[i].op \in JumpOps \union {"JSWITCH"} => g.code[i].arg <= Len(d.code) + 1
          /\ g.code[i].table \subseteq 1 .. Len(d.code) + 1
    <3>1. SUFFICES ASSUME NEW i \in 1 .. Len(d.code)
                   PROVE  /\ e.code[i].op \in JumpOps \union {"JSWITCH"} =>
                               e.code[i].arg <= Len(d.code) + 1
                          /\ e.code[i].table \subseteq 1 .. Len(d.code) + 1
      BY <1>19, <1>21
    <3>2. CASE i = st
      BY <1>10, <1>16, <1>18, <3>2
    <3>3. CASE i # st
      BY <1>7, <1>26, <3>3 DEF Within
    <3>4. QED
      BY <3>2, <3>3
  <2>2. \A s \in 1 .. last - 1 : s \in 1 .. last
    BY <1>8
  <2>3. \A s \in 1 .. Len(g.switch_stack) :
          /\ g.switch_stack[s].default <= Len(d.code) + 1
          /\ g.switch_stack[s].cases \subseteq 1 .. Len(d.code) + 1
    BY <1>7, <1>23, <2>2 DEF Within, last
  <2>4. QED
    BY <1>7, <1>19, <1>21, <2>1, <2>3 DEF Within
<1>32. Switched(g)
  <2>1. \A s \in 1 .. last - 1 : s \in 1 .. last
    BY <1>8
  <2>2. SUFFICES ASSUME NEW s \in 1 .. last - 1
                 PROVE  /\ g.switch_stack[s].start \in 1 .. Len(g.code)
                        /\ g.code[g.switch_stack[s].start].op \in {"JSWITCH", "HALT"}
    BY <1>23 DEF Switched
  <2>3. /\ d.switch_stack[s].start \in 1 .. Len(d.code)
        /\ d.code[d.switch_stack[s].start].op \in {"JSWITCH", "HALT"}
    BY <1>7, <2>1 DEF Switched, last
  <2>4. g.switch_stack[s] = d.switch_stack[s]
    BY <1>23
  <2>5. QED
    BY <1>19, <1>21, <1>26, <2>3, <2>4
<1>33. CodeOK(g, X)
  BY <1>24, <1>25, <1>27, <1>29, <1>30, <1>31, <1>32 DEF CodeOK
<1>34. Later(c, g)
  BY <1>6, <1>21 DEF Later
<1>35. QED
  BY <1>2, <1>6, <1>8, <1>19, <1>21, <1>22, <1>33, <1>34 DEF EndSwitchPost, Frame
\* What a block finds at its end.
Closable(c, F) ==
  /\ Len(c.block_stack) >= 1 /\ F = c.block_stack[Len(c.block_stack)]
  /\ "BREAKABLE" \in F => Len(c.break_stack) >= 1
  /\ "CONTINUEABLE" \in F => Len(c.continue_stack) >= 1
  /\ "IN_SWITCH" \in F => "BREAKABLE" \in F /\ Len(c.switch_stack) >= 1
  /\ "BREAKABLE" \in F /\ "IN_SWITCH" \notin F =>
       In(c.label_stack, c.break_stack[Len(c.break_stack)])
Drops(drop, s, t) == IF drop THEN Shrinks(s, t) ELSE t = s
FinishPost(c, X, d, F) ==
  /\ CodeOK(d, X) /\ Later(c, d) /\ Len(d.label) = Len(c.label)
  /\ Len(d.code) = Len(c.code)
  /\ d.label_stack = c.label_stack /\ d.mTryStack = c.mTryStack
  /\ d.context_stack = c.context_stack /\ d.in_loop = c.in_loop
  /\ d.in_switch = c.in_switch /\ d.size = c.size /\ d.catch = c.catch
  /\ d.goto = c.goto
  /\ Drops("BREAKABLE" \in F, c.break_stack, d.break_stack)
  /\ Drops("CONTINUEABLE" \in F, c.continue_stack, d.continue_stack)
  /\ Drops("IN_SWITCH" \in F, c.switch_stack, d.switch_stack)
  /\ Shrinks(c.block_stack, d.block_stack)

\* The end of a block keeps the code in order: its continue label is put, and a
\* switch gets its cases before its break label goes.
LEMMA FinishBlockOK ==
  ASSUME NEW c, NEW X, NEW F, CodeOK(c, X), Closable(c, F), NEW d, d = FinishBlock(c)
  PROVE  FinishPost(c, X, d, F)
<1>1. CodeShape(c) /\ StackShape(c) /\ DOMAIN c = Fields
  BY DEF CodeOK, CodeShape
<1>2. F = TOS(c, "block_stack")
  BY DEF Closable, TOS, Last
<1>3. PICK b : b = Pop(c, "block_stack")
  OBVIOUS
<1>4. /\ DOMAIN b = Fields /\ b.code = c.code /\ b.label = c.label
      /\ b.label_stack = c.label_stack /\ b.break_stack = c.break_stack
      /\ b.continue_stack = c.continue_stack /\ b.switch_stack = c.switch_stack
      /\ b.mTryStack = c.mTryStack /\ b.context_stack = c.context_stack
      /\ b.in_loop = c.in_loop /\ b.in_switch = c.in_switch /\ b.size = c.size
      /\ b.catch = c.catch /\ b.goto = c.goto
      /\ b.block_stack = Front(c.block_stack)
  BY <1>1, <1>3 DEF Pop, Fields
<1>5. IsSeq(b.block_stack) /\ Shrinks(c.block_stack, b.block_stack)
  <2>1. IsSeq(c.block_stack) /\ Len(c.block_stack) # 0
    BY <1>1 DEF StackShape, Closable
  <2>2. QED
    BY <1>4, <2>1, FrontShape DEF Shrinks, Kept
<1>6. StackShape(b)
  BY <1>1, <1>4, <1>5 DEF StackShape
<1>7. CodeOK(b, X)
  BY <1>4, <1>6, AsideOK
<1>8. PICK s : s = IF "IN_SWITCH" \in F THEN EndSwitch(b) ELSE b
  OBVIOUS
<1>9. /\ CodeOK(s, X) /\ Later(c, s) /\ Len(s.label) = Len(c.label)
      /\ Len(s.code) = Len(c.code) /\ DOMAIN s = Fields
      /\ s.label_stack = c.label_stack /\ s.break_stack = c.break_stack
      /\ s.continue_stack = c.continue_stack
      /\ s.mTryStack = c.mTryStack /\ s.context_stack = c.context_stack
      /\ s.in_loop = c.in_loop /\ s.in_switch = c.in_switch /\ s.size = c.size
      /\ s.catch = c.catch /\ s.goto = c.goto
      /\ s.block_stack = b.block_stack
      /\ Drops("IN_SWITCH" \in F, c.switch_stack, s.switch_stack)
      /\ "IN_SWITCH" \in F => s.label[c.break_stack[Len(c.break_stack)]].to # 0
  <2>1. CASE "IN_SWITCH" \in F
    <3>1. Len(b.break_stack) >= 1 /\ Len(b.switch_stack) >= 1
      BY <1>4, <2>1 DEF Closable
    <3>2. s = EndSwitch(b)
      BY <1>8, <2>1
    <3>3. EndSwitchPost(b, X, s)
      BY <1>7, <3>1, <3>2, EndSwitchOK
    <3>4. DOMAIN s = Fields
      BY <3>3 DEF EndSwitchPost, CodeOK, CodeShape
    <3>5. QED
      BY <1>4, <2>1, <3>3, <3>4 DEF EndSwitchPost, Later, Drops
  <2>2. CASE "IN_SWITCH" \notin F
    <3>1. s = b /\ Later(c, b)
      BY <1>1, <1>4, <1>8, <2>2, ShapeFacts DEF Later
    <3>2. QED
      BY <1>4, <1>7, <2>2, <3>1 DEF Drops
  <2>3. QED
    BY <2>1, <2>2
<1>10. PICK k : k = IF "CONTINUEABLE" \in F
                    THEN Pop(Here(s, TOS(s, "continue_stack"), 0), "continue_stack")
                    ELSE s
  OBVIOUS
<1>11. /\ CodeOK(k, X) /\ Later(s, k) /\ Len(k.label) = Len(s.label)
       /\ Len(k.code) = Len(s.code) /\ DOMAIN k = Fields
       /\ k.label_stack = s.label_stack /\ k.break_stack = s.break_stack
       /\ k.switch_stack = s.switch_stack
       /\ k.mTryStack = s.mTryStack /\ k.context_stack = s.context_stack
       /\ k.in_loop = s.in_loop /\ k.in_switch = s.in_switch /\ k.size = s.size
       /\ k.catch = s.catch /\ k.goto = s.goto
       /\ k.block_stack = s.block_stack
       /\ Drops("CONTINUEABLE" \in F, s.continue_stack, k.continue_stack)
  <2>1. CASE "CONTINUEABLE" \in F
    <3>1. Len(s.continue_stack) >= 1 /\ CodeShape(s) /\ StackShape(s) /\ Len(s.code) \in Nat
      BY <1>9, <2>1, ShapeFacts DEF Closable, CodeOK
    <3>2. PICK m : m = TOS(s, "continue_stack")
      OBVIOUS
    <3>3. m \in 1 .. Len(s.label) /\ m \in Holders(s, X)
      <4>1. m = s.continue_stack[Len(s.continue_stack)]
        BY <3>2 DEF TOS, Last
      <4>2. Len(s.continue_stack) \in 1 .. Len(s.continue_stack)
        BY <3>1, StackFacts
      <4>3. m \in 1 .. Len(s.label)
        BY <3>1, <4>1, <4>2, StackFacts
      <4>4. QED
        BY <4>1, <4>2, <4>3, OwnedIn DEF In, Holders
    <3>4. PICK h : h = Here(s, m, 0)
      OBVIOUS
    <3>5. HerePost(s, X, h, m, 0)
      BY <1>9, <3>1, <3>3, <3>4, HereOK
    <3>6. /\ CodeOK(h, X) /\ Len(h.continue_stack) >= 1 /\ m = TOS(h, "continue_stack")
          /\ h.label[m].to # 0 /\ m \in 1 .. Len(h.label)
      BY <3>1, <3>2, <3>3, <3>5 DEF HerePost, Frame, TOS
    <3>7. k = Pop(h, "continue_stack")
      BY <1>10, <2>1, <3>2, <3>4
    <3>8. TakeContinuePost(h, X, k, m)
      BY <3>6, <3>7, TakeContinueOK
    <3>9. CodeOK(k, X \union {m}) /\ m \in 1 .. Len(k.label) /\ k.label[m].to # 0
      BY <3>6, <3>8 DEF TakeContinuePost, ContinueFrame
    <3>10. CodeOK(k, X)
      BY <3>9, PutDownOK
    <3>11. Later(s, k) /\ Len(k.label) = Len(s.label) /\ Len(k.code) = Len(s.code)
      BY <3>5, <3>8 DEF HerePost, TakeContinuePost, ContinueFrame, Later
    <3>12. QED
      BY <2>1, <3>5, <3>8, <3>10, <3>11
         DEF HerePost, TakeContinuePost, ContinueFrame, Frame, Drops
  <2>2. CASE "CONTINUEABLE" \notin F
    <3>1. k = s /\ Later(s, s)
      BY <1>9, <1>10, <2>2, ShapeFacts DEF Later, CodeOK
    <3>2. QED
      BY <1>9, <2>2, <3>1 DEF Drops
  <2>3. QED
    BY <2>1, <2>2
<1>12. d = IF "BREAKABLE" \in F THEN Pop(k, "break_stack") ELSE k
  BY <1>2, <1>3, <1>8, <1>10 DEF FinishBlock
<1>13. /\ CodeOK(d, X) /\ d.label = k.label /\ d.code = k.code
       /\ d.label_stack = k.label_stack /\ d.continue_stack = k.continue_stack
       /\ d.switch_stack = k.switch_stack
       /\ d.mTryStack = k.mTryStack /\ d.context_stack = k.context_stack
       /\ d.in_loop = k.in_loop /\ d.in_switch = k.in_switch /\ d.size = k.size
       /\ d.catch = k.catch /\ d.goto = k.goto
       /\ d.block_stack = k.block_stack
       /\ Drops("BREAKABLE" \in F, k.break_stack, d.break_stack)
  <2>1. CASE "BREAKABLE" \in F
    <3>1. PICK m : m = TOS(k, "break_stack")
      OBVIOUS
    <3>2. Len(k.break_stack) >= 1 /\ d = Pop(k, "break_stack")
      BY <1>9, <1>11, <1>12, <2>1 DEF Closable
    <3>3. TakeBreakPost(k, X, d, m)
      BY <1>11, <3>1, <3>2, TakeBreakOK
    <3>4. m = c.break_stack[Len(c.break_stack)] /\ m \in 1 .. Len(d.label)
      BY <1>9, <1>11, <3>3 DEF TakeBreakPost, BreakFrame
    <3>5. CodeOK(d, X)
      <4>1. CASE "IN_SWITCH" \in F
        <5>1. d.label[m].to # 0
          BY <1>9, <1>11, <3>3, <3>4, <4>1 DEF TakeBreakPost, BreakFrame, Later
        <5>2. QED
          BY <3>3, <3>4, <5>1, PutDownOK DEF TakeBreakPost
      <4>2. CASE "IN_SWITCH" \notin F
        <5>1. In(d.label_stack, m)
          BY <1>9, <1>11, <2>1, <3>3, <3>4, <4>2 DEF TakeBreakPost, BreakFrame, Closable
        <5>2. m \in Holders(d, X)
          BY <5>1, OwnedIn DEF Holders
        <5>3. QED
          BY <3>3, <5>2, HandOK DEF TakeBreakPost
      <4>3. QED
        BY <4>1, <4>2
    <3>6. QED
      BY <2>1, <3>3, <3>5 DEF TakeBreakPost, BreakFrame, Drops
  <2>2. CASE "BREAKABLE" \notin F
    BY <1>11, <1>12, <2>2 DEF Drops
  <2>3. QED
    BY <2>1, <2>2
<1>14. Later(c, d)
  <2>1. Later(c, k)
    BY <1>1, <1>9, <1>11, LaterTwice DEF CodeOK
  <2>2. QED
    BY <1>13, <2>1 DEF Later
<1>15. QED
  BY <1>5, <1>9, <1>11, <1>13, <1>14 DEF FinishPost
GotoSame(c, d) ==
  d.goto.label = c.goto.label /\ d.goto.from = c.goto.from /\ d.goto.to = c.goto.to
FinalPost(c, X, d, F) ==
  /\ CodeOK(d, X) /\ Later(c, d) /\ Len(d.label) = Len(c.label)
  /\ Len(c.code) <= Len(d.code)
  /\ d.label_stack = c.label_stack /\ d.mTryStack = c.mTryStack
  /\ d.in_loop = c.in_loop /\ d.in_switch = c.in_switch /\ GotoSame(c, d)
  /\ Drops("BREAKABLE" \in F, c.break_stack, d.break_stack)
  /\ Drops("CONTINUEABLE" \in F, c.continue_stack, d.continue_stack)
  /\ Drops("IN_SWITCH" \in F, c.switch_stack, d.switch_stack)
  /\ Shrinks(c.block_stack, d.block_stack)
  /\ Len(d.context_stack) = IF "CONTEXT_PUSHED" \in F THEN Len(c.context_stack) - 1
                            ELSE Len(c.context_stack)

\* So does finalize_block(), which destroys the objects of the block and drops
\* its context.
LEMMA FinalizeBlockOK ==
  ASSUME NEW c, NEW X, NEW F, CodeOK(c, X), Closable(c, F),
         "CONTEXT_PUSHED" \in F => Len(c.context_stack) >= 1,
         NEW e, e = FinalizeBlock(c)
  PROVE  FinalPost(c, X, e, F)
<1>1. PICK d : d = FinishBlock(c)
  OBVIOUS
<1>2. FinishPost(c, X, d, F)
  BY <1>1, FinishBlockOK
<1>3. F = TOS(c, "block_stack")
  BY DEF Closable, TOS, Last
<1>4. CodeOK(d, X) /\ CodeShape(d) /\ StackShape(d) /\ Len(c.code) \in Nat /\ Len(d.code) \in Nat
  BY <1>2, ShapeFacts DEF FinishPost, CodeOK
<1>5. CASE "CONTEXT_PUSHED" \notin F
  <2>1. e = d
    BY <1>1, <1>3, <1>5 DEF FinalizeBlock, ContextGenerated
  <2>2. QED
    BY <1>2, <1>4, <1>5, <2>1 DEF FinishPost, FinalPost, GotoSame
<1>6. CASE "CONTEXT_PUSHED" \in F
  <2>1. PICK i : i = Len(d.context_stack)
    OBVIOUS
  <2>2. i \in 1 .. Len(d.context_stack) /\ i = Len(c.context_stack) /\ i \in Nat
    BY <1>2, <1>4, <1>6, <2>1, StackFacts DEF FinishPost
  <2>3. PICK u : u = CheckObjects(d, i, TRUE)
    OBVIOUS
  <2>4. UnwindPost(d, X, u)
    BY <1>4, <2>2, <2>3, CheckObjectsOK
  <2>5. PICK v : v = [u EXCEPT !.goto.context = IF @ = Len(u.context_stack) THEN -1 ELSE @]
    OBVIOUS
  <2>6. e = Pop(v, "context_stack")
    BY <1>1, <1>3, <1>6, <2>1, <2>3, <2>5 DEF FinalizeBlock, ContextGenerated
  <2>7. /\ CodeOK(u, X) /\ CodeShape(u) /\ StackShape(u) /\ DOMAIN u = Fields
        /\ DOMAIN u.goto = {"label", "context", "from", "to"}
    BY <2>4 DEF UnwindPost, CodeOK, CodeShape, StackShape
  <2>8. /\ DOMAIN e = Fields /\ e.code = u.code /\ e.label = u.label
        /\ e.label_stack = u.label_stack /\ e.break_stack = u.break_stack
        /\ e.continue_stack = u.continue_stack /\ e.switch_stack = u.switch_stack
        /\ e.mTryStack = u.mTryStack /\ e.block_stack = u.block_stack
        /\ e.in_loop = u.in_loop /\ e.in_switch = u.in_switch /\ e.size = u.size
        /\ e.catch = u.catch
        /\ e.context_stack = Front(u.context_stack)
    BY <2>5, <2>6, <2>7 DEF Pop, Fields
  <2>9. GotoSame(u, e) /\ DOMAIN e.goto = {"label", "context", "from", "to"}
    <3>1. e.goto = [u.goto EXCEPT !.context = IF @ = Len(u.context_stack) THEN -1 ELSE @]
      BY <2>5, <2>6, <2>7 DEF Pop, Fields
    <3>2. QED
      BY <2>7, <3>1 DEF GotoSame
  <2>10. /\ e.context_stack \in Seq(0 .. u.size)
         /\ Len(e.context_stack) = Len(c.context_stack) - 1
    <3>1. u.context_stack \in Seq(0 .. u.size) /\ Len(u.context_stack) = i
      BY <2>1, <2>4, <2>7 DEF StackShape, UnwindPost
    <3>2. QED
      BY <2>2, <2>8, <3>1, FrontShrinks DEF Shrinks
  <2>11. StackShape(e)
    BY <2>7, <2>8, <2>9, <2>10 DEF StackShape, GotoSame
  <2>12. CodeOK(e, X)
    BY <2>7, <2>8, <2>9, <2>11, AsideOK DEF GotoSame
  <2>13. Later(c, e) /\ Len(e.label) = Len(c.label) /\ Len(c.code) <= Len(e.code)
    BY <1>2, <2>4, <2>8 DEF FinishPost, UnwindPost, Later
  <2>14. GotoSame(c, e)
    BY <1>2, <2>4, <2>9 DEF FinishPost, UnwindPost, Frame, GotoSame
  <2>15. QED
    BY <1>2, <1>6, <2>4, <2>8, <2>10, <2>12, <2>13, <2>14
       DEF FinishPost, UnwindPost, Frame, FinalPost
<1>7. QED
  BY <1>5, <1>6

\* Unwinding nothing changes nothing.
LEMMA StayPut ==
  ASSUME NEW c, NEW X, CodeOK(c, X)
  PROVE  UnwindPost(c, X, c)
<1>1. Len(c.code) \in Nat
  BY ShapeFacts DEF CodeOK
<1>2. QED
  BY <1>1 DEF UnwindPost, Frame

\* The unwinding before a break or goto changes the code only.
LEMMA CheckLocalUnwindOK ==
  ASSUME NEW c, NEW X, CodeOK(c, X), Len(c.context_stack) >= 1,
         NEW d, d = CheckLocalUnwind(c)
  PROVE  UnwindPost(c, X, d)
<1>1. PICK i : i = Len(c.context_stack)
  OBVIOUS
<1>2. i \in 1 .. Len(c.context_stack)
  BY <1>1, StackFacts DEF CodeOK
<1>3. PICK e : e = CheckObjects(c, i, FALSE)
  OBVIOUS
<1>4. UnwindPost(c, X, e)
  BY <1>2, <1>3, CheckObjectsOK
<1>5. d = e \/ d = c
  BY <1>1, <1>3 DEF CheckLocalUnwind
<1>6. QED
  BY <1>4, <1>5, StayPut

\* The unwinding before a return changes the code and its context's first
\* object only.
LEMMA CheckEnclosingScopesOK ==
  ASSUME NEW c, NEW X, CodeOK(c, X), NEW d, d = CheckEnclosingScopes(c)
  PROVE  UnwindPost(c, X, d)
<1> DEFINE H == {i \in 2 .. Len(c.context_stack) : c.context_stack[i] # 0}
<1>1. Len(c.context_stack) \in Nat
  BY StackFacts DEF CodeOK
<1>2. CASE H = {}
  <2>1. d = c
    BY <1>2 DEF CheckEnclosingScopes
  <2>2. QED
    BY <2>1, StayPut
<1>3. CASE H # {}
  <2>1. H \subseteq Nat
    BY <1>1
  <2>2. \E i \in H : \A j \in H : i <= j
    BY <1>3, <2>1, LeastExists
  <2>3. PICK m : m = CHOOSE i \in H : \A j \in H : i <= j
    OBVIOUS
  <2>4. m \in H
    BY <2>2, <2>3
  <2>5. m \in 1 .. Len(c.context_stack)
    BY <1>1, <2>4
  <2>6. d = CheckObjects(c, m, TRUE)
    BY <1>3, <2>3 DEF CheckEnclosingScopes
  <2>7. QED
    BY <2>5, <2>6, CheckObjectsOK
<1>4. QED
  BY <1>2, <1>3
-----------------------------------------------------------------------------
(* Goto and its label                                                      *)

CreateGotoPost(c, X, d, l) ==
  /\ CodeOK(d, X) /\ Later(c, d) /\ d.code = c.code
  /\ l = Len(c.label) + 1 /\ Len(d.label) = l /\ l \in 1 .. Len(d.label)
  /\ d.label_stack = c.label_stack /\ d.break_stack = c.break_stack
  /\ d.continue_stack = c.continue_stack /\ d.switch_stack = c.switch_stack
  /\ d.mTryStack = c.mTryStack /\ d.block_stack = c.block_stack
  /\ d.context_stack = c.context_stack /\ d.in_loop = c.in_loop
  /\ d.in_switch = c.in_switch /\ d.size = c.size /\ d.catch = c.catch
  /\ d.goto.label = l /\ d.goto.from = c.goto.from /\ d.goto.to = c.goto.to

\* The label of the gotos is new.
LEMMA CreateGotoLabelOK ==
  ASSUME NEW c, NEW X, CodeOK(c, X), c.goto.label = 0, NEW d, d = CreateGotoLabel(c)
  PROVE  CreateGotoPost(c, X, d, Len(c.label) + 1)
<1>1. PICK l : l = Len(c.label) + 1
  OBVIOUS
<1>2. PICK e : e = NewLabel(c)
  OBVIOUS
<1>3. NewLabelPost(c, X, e, l)
  BY <1>1, <1>2, NewLabelOK
<1>4. PICK Y : Y = X \union {l}
  OBVIOUS
<1>5. /\ CodeOK(e, Y) /\ Frame(c, e) /\ Later(c, e) /\ e.context_stack = c.context_stack
      /\ e.code = c.code /\ Len(e.label) = l
  BY <1>3, <1>4 DEF NewLabelPost
<1>6. /\ CodeShape(e) /\ StackShape(e) /\ DOMAIN e = Fields /\ Len(c.label) \in Nat
      /\ DOMAIN e.goto = {"label", "context", "from", "to"}
  BY <1>5, ShapeFacts DEF CodeOK, CodeShape, StackShape
<1>7. l \in 1 .. Len(e.label) /\ l \in Nat
  BY <1>1, <1>5, <1>6
<1>8. /\ DOMAIN d = Fields /\ d.code = e.code /\ d.label = e.label
      /\ d.label_stack = e.label_stack /\ d.break_stack = e.break_stack
      /\ d.continue_stack = e.continue_stack /\ d.switch_stack = e.switch_stack
      /\ d.mTryStack = e.mTryStack /\ d.block_stack = e.block_stack
      /\ d.context_stack = e.context_stack /\ d.in_loop = e.in_loop
      /\ d.in_switch = e.in_switch /\ d.size = e.size /\ d.catch = e.catch
      /\ d.goto = [e.goto EXCEPT !.label = l]
  BY <1>2, <1>5, <1>6 DEF CreateGotoLabel, Fields
<1>9. /\ d.goto.label = l /\ d.goto.from = e.goto.from /\ d.goto.to = e.goto.to
      /\ DOMAIN d.goto = {"label", "context", "from", "to"}
  BY <1>6, <1>8
<1>10. StackShape(d)
  BY <1>6, <1>7, <1>8, <1>9 DEF StackShape
<1>11. e.goto.label = 0
  BY <1>5 DEF Frame
<1>12. \A k : k \in Owned(d) => k = l \/ k \in Owned(e)
  <2>1. SUFFICES ASSUME NEW k PROVE k \in Owned(d) => k = l \/ k \in Owned(e)
    OBVIOUS
  <2>2. InTries(d, k) <=> InTries(e, k)
    BY <1>8 DEF InTries
  <2>3. QED
    BY <1>8, <1>9, <2>2, OwnedIn
<1>13. \A k : k \in Owned(e) => k = 0 \/ k \in Owned(d)
  <2>1. SUFFICES ASSUME NEW k PROVE k \in Owned(e) => k = 0 \/ k \in Owned(d)
    OBVIOUS
  <2>2. InTries(d, k) <=> InTries(e, k)
    BY <1>8 DEF InTries
  <2>3. QED
    BY <1>8, <1>9, <1>11, <2>2, OwnedIn
<1>14. l \in Owned(d)
  BY <1>9, OwnedIn
<1>15. Holders(d, X) \subseteq Holders(e, Y)
  BY <1>4, <1>12 DEF Holders
<1>16. \A k \in 1 .. Len(e.label) :
         k \in Holders(e, Y) /\ e.label[k].to = 0 => k \in Holders(d, X)
  <2>1. \A k \in 1 .. Len(e.label) : k # 0
    BY <1>5, <1>7
  <2>2. QED
    BY <1>4, <1>13, <1>14, <2>1 DEF Holders
<1>17. CodeOK(d, X)
  BY <1>5, <1>8, <1>10, <1>15, <1>16, RestackedOK
<1>18. CreateGotoPost(c, X, d, l)
  BY <1>1, <1>5, <1>7, <1>8, <1>9, <1>17 DEF CreateGotoPost, Later, Frame
<1>19. QED
  BY <1>1, <1>18

\* What a goto leaves on the stacks: nothing but its label.
GotoPost(c, X, d) ==
  /\ CodeOK(d, X) /\ Later(c, d) /\ Len(c.label) <= Len(d.label)
  /\ d.label_stack = c.label_stack /\ d.break_stack = c.break_stack
  /\ d.continue_stack = c.continue_stack /\ d.switch_stack = c.switch_stack
  /\ d.mTryStack = c.mTryStack /\ d.block_stack = c.block_stack
  /\ Len(d.context_stack) = Len(c.context_stack) /\ d.in_loop = c.in_loop
  /\ d.in_switch = c.in_switch
  /\ d.goto.label \in 1 .. Len(d.label)
  /\ c.goto.label # 0 => d.goto.label = c.goto.label
  /\ c.goto.label = 0 => d.goto.label = Len(c.label) + 1
  /\ d.goto.from = c.goto.from /\ d.goto.to = c.goto.to

\* A goto keeps the code in order.
LEMMA DoGotoOK ==
  ASSUME NEW c, NEW X, CodeOK(c, X), Len(c.context_stack) >= 1, NEW e, e = DoGoto(c)
  PROVE  GotoPost(c, X, e)
<1> DEFINE new == c.goto.label = 0
<1>1. CodeShape(c) /\ StackShape(c) /\ Len(c.label) \in Nat /\ Len(c.label) >= 1
      /\ c.goto.label \in 0 .. Len(c.label) /\ DOMAIN c = Fields
  BY ShapeFacts, SMTT(40) DEF CodeOK, StackShape, CodeShape
<1>2. PICK d : d = IF new THEN CreateGotoLabel(c) ELSE c
  OBVIOUS
<1>3. /\ CodeOK(d, X) /\ Later(c, d) /\ Len(c.label) <= Len(d.label)
      /\ d.label_stack = c.label_stack /\ d.break_stack = c.break_stack
      /\ d.continue_stack = c.continue_stack /\ d.switch_stack = c.switch_stack
      /\ d.mTryStack = c.mTryStack /\ d.block_stack = c.block_stack
      /\ d.context_stack = c.context_stack /\ d.in_loop = c.in_loop
      /\ d.in_switch = c.in_switch
      /\ d.goto.label \in 1 .. Len(d.label)
      /\ c.goto.label # 0 => d.goto.label = c.goto.label
      /\ c.goto.label = 0 => d.goto.label = Len(c.label) + 1
      /\ d.goto.from = c.goto.from /\ d.goto.to = c.goto.to
  <2>1. CASE new
    <3>1. PICK l : l = Len(c.label) + 1
      OBVIOUS
    <3>2. d = CreateGotoLabel(c)
      BY <1>2, <2>1
    <3>3. CreateGotoPost(c, X, d, l)
      BY <2>1, <3>1, <3>2, CreateGotoLabelOK
    <3>4. Len(c.label) <= l
      BY <1>1, <3>1
    <3>5. QED
      BY <2>1, <3>1, <3>3, <3>4 DEF CreateGotoPost
  <2>2. CASE ~new
    <3>1. d = c /\ c.goto.label \in 1 .. Len(c.label)
      BY <1>1, <1>2, <2>2
    <3>2. Later(c, c)
      BY <1>1 DEF Later
    <3>3. QED
      BY <1>1, <2>2, <3>1, <3>2
  <2>3. QED
    BY <2>1, <2>2
<1>4. PICK u : u = IF InContext(d) /\ d.label[d.goto.label].to # 0 THEN d
                   ELSE CheckLocalUnwind(d)
  OBVIOUS
<1>5. UnwindPost(d, X, u)
  <2>1. PICK w : w = CheckLocalUnwind(d)
    OBVIOUS
  <2>2. UnwindPost(d, X, w)
    BY <1>3, <2>1, CheckLocalUnwindOK
  <2>3. u = d \/ u = w
    BY <1>4, <2>1
  <2>4. QED
    BY <1>3, <2>2, <2>3, StayPut
<1>6. PICK r : r = IF new /\ u # d
                   THEN [u EXCEPT !.goto.context = Len(u.context_stack)] ELSE u
  OBVIOUS
<1>7. /\ CodeOK(u, X) /\ CodeShape(u) /\ StackShape(u) /\ DOMAIN u = Fields
      /\ DOMAIN u.goto = {"label", "context", "from", "to"}
      /\ Frame(d, u) /\ u.label = d.label
      /\ Len(u.context_stack) = Len(d.context_stack)
  BY <1>5 DEF UnwindPost, CodeOK, CodeShape, StackShape
<1>8. /\ DOMAIN r = Fields /\ r.code = u.code /\ r.label = u.label
      /\ r.label_stack = u.label_stack /\ r.break_stack = u.break_stack
      /\ r.continue_stack = u.continue_stack /\ r.switch_stack = u.switch_stack
      /\ r.mTryStack = u.mTryStack /\ r.block_stack = u.block_stack
      /\ r.context_stack = u.context_stack /\ r.in_loop = u.in_loop
      /\ r.in_switch = u.in_switch /\ r.size = u.size /\ r.catch = u.catch
      /\ r.goto.label = u.goto.label /\ r.goto.from = u.goto.from /\ r.goto.to = u.goto.to
      /\ DOMAIN r.goto = {"label", "context", "from", "to"}
  <2>1. CASE new /\ u # d
    <3>1. r = [u EXCEPT !.goto.context = Len(u.context_stack)]
      BY <1>6, <2>1
    <3>2. QED
      BY <1>7, <3>1 DEF Fields
  <2>2. CASE ~(new /\ u # d)
    <3>1. r = u
      BY <1>6, <2>2
    <3>2. QED
      BY <1>7, <3>1
  <2>3. QED
    BY <2>1, <2>2
<1>9. StackShape(r)
  BY <1>7, <1>8 DEF StackShape
<1>10. CodeOK(r, X)
  BY <1>7, <1>8, <1>9, AsideOK
<1>11. PICK l : l = d.goto.label
  OBVIOUS
<1>12. l = r.goto.label /\ l \in 1 .. Len(r.label)
  BY <1>3, <1>7, <1>8, <1>11, SMTT(40) DEF Frame
<1>13. e = Jump(r, "JMP", l)
  BY <1>2, <1>4, <1>6, <1>12 DEF DoGoto
<1>14. JumpPost(r, X, e, "JMP", l)
  BY <1>10, <1>12, <1>13, JumpOK DEF JumpOps
<1>15. Later(c, e) /\ Len(e.label) = Len(d.label)
  BY <1>3, <1>7, <1>8, <1>14 DEF JumpPost, Later
<1>16. Frame(r, e) /\ e.context_stack = r.context_stack /\ CodeOK(e, X)
  BY <1>14 DEF JumpPost
<1>17. QED
  BY <1>3, <1>7, <1>8, <1>15, <1>16 DEF GotoPost, Frame

HaltPost(c, X, d) ==
  /\ CodeOK(d, X) /\ Frame(c, d) /\ d.label = c.label
  /\ d.context_stack = c.context_stack /\ Len(d.code) = Len(c.code)

\* An instruction that becomes a HALT.
LEMMA HaltOK ==
  ASSUME NEW c, NEW X, CodeOK(c, X), NEW i,
         NEW d, d = [c EXCEPT !.code[i].op = "HALT"]
  PROVE  HaltPost(c, X, d)
<1>1. /\ CodeShape(c) /\ StackShape(c) /\ Linked(c) /\ Held(c, X)
      /\ RefsClean(c, X) /\ Within(c, Len(c.code) + 1) /\ Switched(c)
  BY DEF CodeOK
<1>2. /\ DOMAIN c = Fields /\ IsSeq(c.code) /\ DOMAIN c.code = 1 .. Len(c.code)
      /\ Len(c.code) \in Nat
  BY <1>1, SeqShape DEF CodeShape
<1>3. /\ Frame(c, d) /\ d.label = c.label /\ d.context_stack = c.context_stack
      /\ DOMAIN d = Fields /\ d.code = [c.code EXCEPT ![i].op = "HALT"]
  BY <1>2 DEF Fields, Frame
<1>4. CASE i \notin 1 .. Len(c.code)
  <2>1. PICK S : c.code \in Seq(S)
    BY <1>2 DEF IsSeq
  <2>2. d.code = c.code
    BY <1>2, <1>3, <1>4, <2>1
  <2>3. QED
    BY <1>3, <2>2, UntouchedOK DEF HaltPost
<1>5. CASE i \in 1 .. Len(c.code)
  <2>1. \A j \in 1 .. Len(c.code) : DOMAIN c.code[j] = {"op", "arg", "table", "at"}
    BY <1>1 DEF CodeShape, InstrOK
  <2>2. \A j \in 1 .. Len(c.code) :
          d.code[j] = IF j = i THEN [c.code[j] EXCEPT !.op = "HALT"] ELSE c.code[j]
    BY <1>2, <1>3, <1>5, ZenonT(60)
  <2>3. \A j \in 1 .. Len(c.code) :
          /\ DOMAIN d.code[j] = {"op", "arg", "table", "at"}
          /\ d.code[j].arg = c.code[j].arg /\ d.code[j].table = c.code[j].table
          /\ d.code[j].op = IF j = i THEN "HALT" ELSE c.code[j].op
    BY <2>1, <2>2
  <2>4. d.code = [j \in 1 .. Len(c.code) |-> d.code[j]]
    BY <1>2, <1>3
  <2>5. IsSeq(d.code) /\ Len(d.code) = Len(c.code)
    BY <1>2, <2>4, FunctionShape
  <2>6. CodeShape(d)
    <3>1. SUFFICES ASSUME NEW j \in 1 .. Len(c.code) PROVE InstrOK(d.code[j], c.size)
      BY <1>1, <1>3, <2>5 DEF CodeShape, Frame
    <3>2. InstrOK(c.code[j], c.size)
      BY <1>1 DEF CodeShape
    <3>3. QED
      BY <2>3, <3>2 DEF InstrOK, Ops
  <2>7. StackShape(d)
    BY <1>1, <1>3 DEF StackShape, Frame
  <2>8. Linked(d)
    <3>1. SUFFICES ASSUME NEW j \in 1 .. Len(c.code), c.code[j].arg = 0
                   PROVE  /\ d.code[j].op \in JumpOps =>
                               \E k \in 1 .. Len(c.label) : c.label[k].to = 0 /\ j \in c.label[k].refs
                          /\ d.code[j].op = "JSWITCH" =>
                               \E s \in 1 .. Len(c.switch_stack) : c.switch_stack[s].start = j
      BY <1>3, <2>3, <2>5 DEF Linked, Frame
    <3>2. d.code[j].op \in JumpOps \union {"JSWITCH"} => d.code[j].op = c.code[j].op
      BY <2>3 DEF JumpOps
    <3>3. QED
      BY <1>1, <3>1, <3>2 DEF Linked
  <2>9. Holders(d, X) = Holders(c, X)
    BY <1>3, FrameHolders
  <2>10. Held(d, X)
    BY <1>1, <1>3, <2>9 DEF Held
  <2>11. RefsClean(d, X)
    BY <1>1, <1>3, <2>3, <2>5, <2>9 DEF RefsClean
  <2>12. Within(d, Len(d.code) + 1)
    <3>1. \A j \in 1 .. Len(d.code) :
            /\ d.code[j].op \in JumpOps \union {"JSWITCH"} => d.code[j].arg <= Len(d.code) + 1
            /\ d.code[j].table \subseteq 1 .. Len(d.code) + 1
      BY <1>1, <2>3, <2>5 DEF Within, JumpOps
    <3>2. QED
      BY <1>1, <1>3, <2>5, <3>1 DEF Within, Frame
  <2>13. Switched(d)
    <3>1. SUFFICES ASSUME NEW s \in 1 .. Len(c.switch_stack)
                   PROVE  /\ c.switch_stack[s].start \in 1 .. Len(c.code)
                          /\ d.code[c.switch_stack[s].start].op \in {"JSWITCH", "HALT"}
      BY <1>3, <2>5 DEF Switched, Frame
    <3>2. /\ c.switch_stack[s].start \in 1 .. Len(c.code)
          /\ c.code[c.switch_stack[s].start].op \in {"JSWITCH", "HALT"}
      BY <1>1 DEF Switched
    <3>3. QED
      BY <2>3, <3>2
  <2>14. CodeOK(d, X)
    BY <2>6, <2>7, <2>8, <2>10, <2>11, <2>12, <2>13 DEF CodeOK
  <2>15. QED
    BY <1>3, <2>5, <2>14 DEF HaltPost
<1>6. QED
  BY <1>4, <1>5

\* The label is put here, and it is the label of the gotos.
LEMMA GotoLabelOK ==
  ASSUME NEW c, NEW X, CodeOK(c, X), NEW e, e = GotoLabel(c)
  PROVE  GotoPost(c, X, e) /\ e.label[e.goto.label].to # 0
<1>1. CodeShape(c) /\ StackShape(c) /\ Len(c.label) \in Nat /\ Len(c.label) >= 1
      /\ c.goto.label \in 0 .. Len(c.label) /\ DOMAIN c = Fields
  BY ShapeFacts DEF CodeOK, StackShape, CodeShape
<1>2. PICK d : d = IF c.goto.label = 0 THEN CreateGotoLabel(c) ELSE c
  OBVIOUS
<1>3. PICK l : l = IF c.goto.label = 0 THEN Len(c.label) + 1 ELSE c.goto.label
  OBVIOUS
<1>4. /\ CodeOK(d, X) /\ Later(c, d) /\ Len(c.label) <= Len(d.label)
      /\ d.label_stack = c.label_stack /\ d.break_stack = c.break_stack
      /\ d.continue_stack = c.continue_stack /\ d.switch_stack = c.switch_stack
      /\ d.mTryStack = c.mTryStack /\ d.block_stack = c.block_stack
      /\ d.context_stack = c.context_stack /\ d.in_loop = c.in_loop
      /\ d.in_switch = c.in_switch
      /\ d.goto.label = l /\ l \in 1 .. Len(d.label)
      /\ d.goto.from = c.goto.from /\ d.goto.to = c.goto.to
  <2>1. CASE c.goto.label = 0
    <3>1. d = CreateGotoLabel(c) /\ l = Len(c.label) + 1
      BY <1>2, <1>3, <2>1
    <3>2. CreateGotoPost(c, X, d, l)
      BY <2>1, <3>1, CreateGotoLabelOK
    <3>3. Len(c.label) <= l
      BY <1>1, <3>1
    <3>4. QED
      BY <3>2, <3>3 DEF CreateGotoPost
  <2>2. CASE c.goto.label # 0
    <3>1. d = c /\ c.goto.label \in 1 .. Len(c.label) /\ l = c.goto.label
      BY <1>1, <1>2, <1>3, <2>2
    <3>2. Later(c, c)
      BY <1>1 DEF Later
    <3>3. QED
      BY <1>1, <3>1, <3>2
  <2>3. QED
    BY <2>1, <2>2
<1>5. PICK h : h = Here(d, l, 0)
  OBVIOUS
<1>6. l \in Holders(d, X) /\ Len(d.code) \in Nat
  BY <1>4, OwnedIn, ShapeFacts DEF Holders, CodeOK
<1>7. HerePost(d, X, h, l, 0)
  BY <1>4, <1>5, <1>6, HereOK
<1>8. /\ CodeOK(h, X) /\ Frame(d, h) /\ Later(d, h) /\ h.context_stack = d.context_stack
      /\ Len(h.label) = Len(d.label) /\ h.label[l].to # 0
  BY <1>7 DEF HerePost
<1>9. e = IF InContext(h) THEN PatchWithNOP(h) ELSE h
  BY <1>2, <1>3, <1>5 DEF GotoLabel
<1>10. /\ CodeOK(e, X) /\ Frame(h, e) /\ e.label = h.label /\ e.context_stack = h.context_stack
  <2>1. CASE InContext(h)
    <3> DEFINE refs == h.label[h.goto.label].refs
    <3>1. PICK i : i = (CHOOSE j \in refs : \A k \in refs : j <= k) - 1
      OBVIOUS
    <3>2. e = [h EXCEPT !.code[i].op = "HALT"]
      BY <1>9, <2>1, <3>1 DEF PatchWithNOP
    <3>3. HaltPost(h, X, e)
      BY <1>8, <3>2, HaltOK
    <3>4. QED
      BY <3>3 DEF HaltPost
  <2>2. CASE ~InContext(h)
    <3>1. e = h
      BY <1>9, <2>2
    <3>2. QED
      BY <1>8, <3>1 DEF Frame
  <2>3. QED
    BY <2>1, <2>2
<1>11. CodeShape(c) /\ CodeShape(d) /\ CodeShape(h)
  BY <1>1, <1>4, <1>8 DEF CodeOK
<1>12. Later(c, h)
  BY <1>4, <1>8, <1>11, LaterTwice
<1>13. Later(c, e) /\ Len(e.label) = Len(d.label)
  BY <1>8, <1>10, <1>12 DEF Later
<1>14. QED
  BY <1>3, <1>4, <1>8, <1>10, <1>13, SMTT(40) DEF GotoPost, Frame

-----------------------------------------------------------------------------
(* The tower: how high the parser's stacks are below each open statement.  *)
Owns(k)     == k \in Blocks \union {"for"}
LabelsOf(k) == IF k \in Loops THEN 2 ELSE IF k \in {"if", "else"} THEN 1 ELSE 0
Bit(b)      == IF b THEN 1 ELSE 0
Heights == [label : Nat, brk : Nat, cont : Nat, sw : Nat, ctx : Nat, try : Nat, blk : Nat]
Zero == [label |-> 0, brk |-> 0, cont |-> 0, sw |-> 0, ctx |-> 0, try |-> 0, blk |-> 0]
Tops(c) ==
  [label |-> Len(c.label_stack), brk |-> Len(c.break_stack),
   cont |-> Len(c.continue_stack), sw |-> Len(c.switch_stack),
   ctx |-> Len(c.context_stack), try |-> Len(c.mTryStack),
   blk |-> Len(c.block_stack)]

\* The heights above a statement of kind k, whose block has the flags F.
After(x, k, F) ==
  [label |-> x.label + LabelsOf(k),
   brk   |-> x.brk + Bit(Owns(k) /\ "BREAKABLE" \in F),
   cont  |-> x.cont + Bit(Owns(k) /\ "CONTINUEABLE" \in F),
   sw    |-> x.sw + Bit(Owns(k) /\ "IN_SWITCH" \in F),
   ctx   |-> x.ctx + Bit(Owns(k) /\ "CONTEXT_PUSHED" \in F),
   try   |-> x.try + Bit(k \in {"try", "handlers"}),
   blk   |-> x.blk + Bit(Owns(k))]
Below(x, y) ==
  /\ x.label <= y.label /\ x.brk <= y.brk /\ x.cont <= y.cont /\ x.sw <= y.sw
  /\ x.ctx <= y.ctx /\ x.try <= y.try /\ x.blk <= y.blk
FlagsAt(c, x) == c.block_stack[x.blk + 1]

\* What a statement has put on the stacks: the function its own block, a loop
\* the label it jumps back to, a block the label of its loop or switch to break
\* to.
FunFlags == {"CONTEXT_PUSHED", "FUN_BLOCK"}
ItemOK(c, x, k) ==
  /\ k = "function" => FlagsAt(c, x) = FunFlags
  /\ k \in Loops => c.label[c.label_stack[x.label + 1]].to # 0
  /\ Owns(k) /\ "IN_SWITCH" \in FlagsAt(c, x) => "BREAKABLE" \in FlagsAt(c, x)
  /\ Owns(k) /\ "BREAKABLE" \in FlagsAt(c, x) /\ "IN_SWITCH" \notin FlagsAt(c, x) =>
       x.label >= 1 /\ c.break_stack[x.brk + 1] = c.label_stack[x.label]
Tower(c, o, h) ==
  /\ h \in [1 .. Len(o) + 1 -> Heights]
  /\ h[1] = Zero /\ h[Len(o) + 1] = Tops(c)
  /\ \A i \in 1 .. Len(o) : h[i + 1] = After(h[i], o[i].k, FlagsAt(c, h[i]))
  /\ \A i \in 1 .. Len(o) : ItemOK(c, h[i], o[i].k)
  /\ \A i, j \in 1 .. Len(o) + 1 : i <= j => Below(h[i], h[j])

\* The stacks are the same up to these heights.
Agree(c, d, x) ==
  /\ Kept(c.label_stack, d.label_stack, x.label)
  /\ Kept(c.break_stack, d.break_stack, x.brk)
  /\ Kept(c.block_stack, d.block_stack, x.blk)

\* The heights above a statement are heights, and none is lower than below it.
LEMMA AfterFacts ==
  ASSUME NEW x \in Heights, NEW k, NEW F
  PROVE  After(x, k, F) \in Heights /\ Below(x, After(x, k, F))
<1>1. PICK l : l = LabelsOf(k)
  OBVIOUS
<1>2. l \in Nat
  BY <1>1 DEF LabelsOf
<1>3. \A b : Bit(b) \in {0, 1}
  BY DEF Bit
<1>4. PICK b1, b2, b3, b4, b5, b6 :
        /\ b1 = Bit(Owns(k) /\ "BREAKABLE" \in F)
        /\ b2 = Bit(Owns(k) /\ "CONTINUEABLE" \in F)
        /\ b3 = Bit(Owns(k) /\ "IN_SWITCH" \in F)
        /\ b4 = Bit(Owns(k) /\ "CONTEXT_PUSHED" \in F)
        /\ b5 = Bit(k \in {"try", "handlers"})
        /\ b6 = Bit(Owns(k))
  OBVIOUS
<1>5. {b1, b2, b3, b4, b5, b6} \subseteq {0, 1}
  BY <1>3, <1>4
<1>6. After(x, k, F) =
        [label |-> x.label + l, brk |-> x.brk + b1, cont |-> x.cont + b2,
         sw |-> x.sw + b3, ctx |-> x.ctx + b4, try |-> x.try + b5, blk |-> x.blk + b6]
  BY <1>1, <1>4 DEF After
<1>7. QED
  BY <1>2, <1>5, <1>6 DEF Below, Heights

\* Being no higher is transitive.
LEMMA BelowTwice ==
  ASSUME NEW x \in Heights, NEW y \in Heights, NEW z \in Heights, Below(x, y), Below(y, z)
  PROVE  Below(x, z)
BY DEF Below, Heights

\* Being no higher is reflexive.
LEMMA BelowItself ==
  ASSUME NEW x \in Heights
  PROVE  Below(x, x)
BY DEF Below, Heights

\* What holds of an open statement still does when only the stacks above it
\* change.
LEMMA ItemKept ==
  ASSUME NEW c, CodeShape(c), StackShape(c), NEW d, Later(c, d),
         NEW x \in Heights, NEW k, NEW y \in Heights, Agree(c, d, y),
         Below(After(x, k, FlagsAt(c, x)), y), ItemOK(c, x, k),
         y.label <= Len(c.label_stack)
  PROVE  ItemOK(d, x, k) /\ After(x, k, FlagsAt(d, x)) = After(x, k, FlagsAt(c, x))
<1>1. /\ x.label \in Nat /\ x.brk \in Nat /\ x.blk \in Nat
      /\ y.label \in Nat /\ y.brk \in Nat /\ y.blk \in Nat
  BY DEF Heights
<1>2. Below(x, y)
  <2>1. After(x, k, FlagsAt(c, x)) \in Heights /\ Below(x, After(x, k, FlagsAt(c, x)))
    BY AfterFacts
  <2>2. QED
    BY <2>1, BelowTwice
<1>3. Owns(k) => FlagsAt(d, x) = FlagsAt(c, x)
  <2>1. Owns(k) => x.blk + 1 <= y.blk
    BY DEF After, Below, Bit
  <2>2. Owns(k) => x.blk + 1 \in 1 .. y.blk
    BY <1>1, <2>1
  <2>3. QED
    BY <2>2 DEF Agree, Kept, FlagsAt
<1>4. After(x, k, FlagsAt(d, x)) = After(x, k, FlagsAt(c, x))
  BY <1>3 DEF After
<1>5. k \in Loops => d.label[d.label_stack[x.label + 1]].to # 0
  <2>1. SUFFICES ASSUME k \in Loops PROVE d.label[d.label_stack[x.label + 1]].to # 0
    OBVIOUS
  <2>2. x.label + 2 <= y.label
    BY <2>1 DEF After, Below, LabelsOf
  <2>3. x.label + 1 \in 1 .. y.label /\ x.label + 1 \in 1 .. Len(c.label_stack)
    BY <1>1, <2>2, StackFacts, SMTT(40)
  <2>4. d.label_stack[x.label + 1] = c.label_stack[x.label + 1]
    BY <2>3 DEF Agree, Kept
  <2>5. c.label_stack[x.label + 1] \in 1 .. Len(c.label)
    BY <2>3, StackFacts
  <2>6. QED
    BY <2>1, <2>4, <2>5 DEF ItemOK, Later
<1>6. Owns(k) /\ "BREAKABLE" \in FlagsAt(d, x) /\ "IN_SWITCH" \notin FlagsAt(d, x) =>
        x.label >= 1 /\ d.break_stack[x.brk + 1] = d.label_stack[x.label]
  <2>1. SUFFICES ASSUME Owns(k), "BREAKABLE" \in FlagsAt(c, x), "IN_SWITCH" \notin FlagsAt(c, x)
                 PROVE  x.label >= 1 /\ d.break_stack[x.brk + 1] = d.label_stack[x.label]
    BY <1>3
  <2>2. x.label >= 1 /\ c.break_stack[x.brk + 1] = c.label_stack[x.label]
    BY <2>1 DEF ItemOK
  <2>3. x.brk + 1 <= y.brk
    BY <2>1 DEF After, Below, Bit
  <2>4. x.brk + 1 \in 1 .. y.brk /\ x.label \in 1 .. y.label
    BY <1>1, <1>2, <2>2, <2>3 DEF Below
  <2>5. QED
    BY <2>2, <2>4 DEF Agree, Kept
<1>7. k = "function" => FlagsAt(d, x) = FunFlags
  <2>1. k = "function" => Owns(k)
    BY DEF Owns, Blocks
  <2>2. QED
    BY <1>3, <2>1 DEF ItemOK
<1>8. QED
  BY <1>3, <1>4, <1>5, <1>6, <1>7 DEF ItemOK

\* The tower up to the first k statements.
TowerPart(c, o, h, m) ==
  /\ h \in [1 .. m + 1 -> Heights] /\ h[1] = Zero
  /\ \A i \in 1 .. m : h[i + 1] = After(h[i], o[i].k, FlagsAt(c, h[i]))
  /\ \A i \in 1 .. m : ItemOK(c, h[i], o[i].k)
  /\ \A i, j \in 1 .. m + 1 : i <= j => Below(h[i], h[j])

\* The tower of the first m statements stands in every state that agrees with
\* this one up to there.
LEMMA TowerCut ==
  ASSUME NEW c, CodeShape(c), StackShape(c), NEW d, Later(c, d), NEW o, IsSeq(o),
         NEW h, Tower(c, o, h), NEW m \in 0 .. Len(o), NEW p,
         \A i \in 1 .. m : p[i].k = o[i].k, Agree(c, d, h[m + 1])
  PROVE  TowerPart(d, p, [i \in 1 .. m + 1 |-> h[i]], m)
<1>1. Len(o) \in Nat /\ m \in Nat /\ m <= Len(o)
  BY SeqShape
<1>2. /\ h \in [1 .. Len(o) + 1 -> Heights]
      /\ h[1] = Zero /\ h[Len(o) + 1] = Tops(c)
      /\ \A i \in 1 .. Len(o) : h[i + 1] = After(h[i], o[i].k, FlagsAt(c, h[i]))
      /\ \A i \in 1 .. Len(o) : ItemOK(c, h[i], o[i].k)
      /\ \A i, j \in 1 .. Len(o) + 1 : i <= j => Below(h[i], h[j])
  BY DEF Tower
<1>3. 1 .. m + 1 \subseteq 1 .. Len(o) + 1 /\ 1 \in 1 .. m + 1 /\ m + 1 \in 1 .. Len(o) + 1
      /\ Len(o) + 1 \in 1 .. Len(o) + 1
  BY <1>1
<1>4. PICK g : g = [i \in 1 .. m + 1 |-> h[i]]
  OBVIOUS
<1>5. /\ g \in [1 .. m + 1 -> Heights] /\ g[1] = Zero
      /\ \A i \in 1 .. m + 1 : g[i] = h[i]
  BY <1>2, <1>3, <1>4
<1>6. h[m + 1] \in Heights /\ h[m + 1].label <= Len(c.label_stack)
  <2>1. Below(h[m + 1], Tops(c))
    BY <1>1, <1>2, <1>3
  <2>2. QED
    BY <1>2, <1>3, <2>1 DEF Below, Tops
<1>7. ASSUME NEW i \in 1 .. m
      PROVE  g[i + 1] = After(g[i], p[i].k, FlagsAt(d, g[i])) /\ ItemOK(d, g[i], p[i].k)
  <2>1. i \in 1 .. Len(o) /\ i \in 1 .. m + 1 /\ i + 1 \in 1 .. m + 1 /\ i + 1 <= m + 1
        /\ i \in 1 .. Len(o) + 1 /\ i + 1 \in 1 .. Len(o) + 1
    BY <1>1, <1>7
  <2>2. g[i] = h[i] /\ g[i + 1] = h[i + 1] /\ p[i].k = o[i].k /\ h[i] \in Heights
    BY <1>2, <1>5, <1>7, <2>1
  <2>3. h[i + 1] = After(h[i], o[i].k, FlagsAt(c, h[i])) /\ ItemOK(c, h[i], o[i].k)
    BY <1>2, <2>1
  <2>4. Below(h[i + 1], h[m + 1])
    BY <1>2, <1>3, <2>1
  <2>5. ItemOK(d, h[i], o[i].k)
        /\ After(h[i], o[i].k, FlagsAt(d, h[i])) = After(h[i], o[i].k, FlagsAt(c, h[i]))
    BY <1>6, <2>2, <2>3, <2>4, ItemKept
  <2>6. QED
    BY <2>2, <2>3, <2>5
<1>8. \A i, j \in 1 .. m + 1 : i <= j => Below(g[i], g[j])
  BY <1>2, <1>3, <1>5
<1>9. QED
  BY <1>4, <1>5, <1>7, <1>8 DEF TowerPart

Standing(c, o) == \E h : Tower(c, o, h)

\* The statements above the first m have ended.
LEMMA TowerDown ==
  ASSUME NEW c, CodeShape(c), StackShape(c), NEW d, Later(c, d), NEW o, IsSeq(o),
         NEW h, Tower(c, o, h), NEW m \in 0 .. Len(o), NEW p, Len(p) = m,
         \A i \in 1 .. m : p[i].k = o[i].k, Agree(c, d, h[m + 1]), Tops(d) = h[m + 1]
  PROVE  Standing(d, p)
<1>1. PICK g : g = [i \in 1 .. m + 1 |-> h[i]]
  OBVIOUS
<1>2. TowerPart(d, p, g, m)
  BY <1>1, TowerCut
<1>3. g[m + 1] = Tops(d)
  BY <1>1
<1>4. Tower(d, p, g)
  BY <1>2, <1>3 DEF Tower, TowerPart
<1>5. QED
  BY <1>4 DEF Standing

\* A statement was begun above the first m.
LEMMA TowerUp ==
  ASSUME NEW c, CodeShape(c), StackShape(c), NEW d, Later(c, d), NEW o, IsSeq(o),
         NEW h, Tower(c, o, h), NEW m \in 0 .. Len(o), NEW p, Len(p) = m + 1,
         \A i \in 1 .. m : p[i].k = o[i].k, NEW x, x = h[m + 1], Agree(c, d, x),
         Tops(d) = After(x, p[m + 1].k, FlagsAt(d, x)), ItemOK(d, x, p[m + 1].k)
  PROVE  Standing(d, p)
<1>1. PICK g : g = [i \in 1 .. m + 1 |-> h[i]]
  OBVIOUS
<1>2. TowerPart(d, p, g, m)
  BY <1>1, TowerCut
<1>3. g[m + 1] = x
  BY <1>1
<1>4. PICK f : f = [i \in 1 .. m + 2 |-> IF i = m + 2 THEN Tops(d) ELSE g[i]]
  OBVIOUS
<1>5. x \in Heights /\ Tops(d) \in Heights /\ Below(x, Tops(d))
  <2>1. x \in Heights
    BY <1>2, <1>3 DEF TowerPart
  <2>2. QED
    BY <2>1, AfterFacts
<1>6. \A i \in 1 .. m + 1 : f[i] = g[i] /\ i \in 1 .. m + 2 /\ i # m + 2
  BY <1>4
<1>7. f[m + 2] = Tops(d) /\ f[1] = Zero
  BY <1>2, <1>4 DEF TowerPart
<1>8. f \in [1 .. m + 2 -> Heights]
  <2>1. \A i \in 1 .. m + 2 : i = m + 2 \/ i \in 1 .. m + 1
    OBVIOUS
  <2>2. QED
    BY <1>2, <1>4, <1>5, <2>1 DEF TowerPart
<1>9. ASSUME NEW i \in 1 .. m + 1
      PROVE  f[i + 1] = After(f[i], p[i].k, FlagsAt(d, f[i])) /\ ItemOK(d, f[i], p[i].k)
  <2>1. CASE i = m + 1
    <3>1. f[i] = x /\ f[i + 1] = Tops(d)
      BY <1>3, <1>6, <1>7, <2>1
    <3>2. QED
      BY <2>1, <3>1
  <2>2. CASE i # m + 1
    <3>1. i \in 1 .. m /\ i + 1 \in 1 .. m + 1
      BY <2>2
    <3>2. QED
      BY <1>2, <1>6, <3>1 DEF TowerPart
  <2>3. QED
    BY <2>1, <2>2
<1>10. \A i, j \in 1 .. m + 2 : i <= j => Below(f[i], f[j])
  <2>1. SUFFICES ASSUME NEW i \in 1 .. m + 2, NEW j \in 1 .. m + 2, i <= j
                 PROVE  Below(f[i], f[j])
    OBVIOUS
  <2>2. CASE j # m + 2
    <3>1. i \in 1 .. m + 1 /\ j \in 1 .. m + 1
      BY <2>1, <2>2
    <3>2. QED
      BY <1>2, <1>6, <2>1, <3>1 DEF TowerPart
  <2>3. CASE i = m + 2
    <3>1. j = m + 2
      BY <2>1, <2>3
    <3>2. QED
      BY <1>5, <1>7, <2>3, <3>1, BelowItself
  <2>4. CASE i # m + 2 /\ j = m + 2
    <3>1. i \in 1 .. m + 1 /\ i <= m + 1 /\ m + 1 \in 1 .. m + 1
      BY <2>1, <2>4
    <3>2. Below(g[i], x) /\ g[i] \in Heights
      BY <1>2, <1>3, <3>1 DEF TowerPart
    <3>3. Below(g[i], Tops(d))
      BY <1>5, <3>2, BelowTwice
    <3>4. QED
      BY <1>6, <1>7, <2>4, <3>1, <3>3
  <2>5. QED
    BY <2>2, <2>3, <2>4
<1>11. Tower(d, p, f)
  <2>1. Len(p) + 1 = m + 2
    OBVIOUS
  <2>2. QED
    BY <1>7, <1>8, <1>9, <1>10, <2>1 DEF Tower
<1>12. QED
  BY <1>11 DEF Standing
-----------------------------------------------------------------------------
(* The statements the parser is inside                                     *)
ItemFields == {"k", "done", "live", "id"}
OpenOK(o) ==
  /\ IsSeq(o) /\ Len(o) >= 1
  /\ \A i \in 1 .. Len(o) : DOMAIN o[i] = ItemFields
  /\ o[1].k = "function" /\ \A i \in 2 .. Len(o) : o[i].k # "function"
  /\ \A i \in 1 .. Len(o) - 1 : o[i].k = "handlers" <=> o[i + 1].k = "catch"
SameKinds(o, p, m) == \A i \in 1 .. m : p[i].k = o[i].k

\* A field of the innermost statement changes.
LEMMA AlteredOpen ==
  ASSUME NEW o, OpenOK(o), NEW f \in {"done", "live"}, NEW x, NEW p,
         p = [o EXCEPT ![Len(o)] = [@ EXCEPT ![f] = x]]
  PROVE  OpenOK(p) /\ Len(p) = Len(o) /\ SameKinds(o, p, Len(o))
<1>1. PICK S : o \in Seq(S)
  BY DEF OpenOK, IsSeq
<1>2. Len(o) \in Nat /\ Len(o) >= 1 /\ DOMAIN o = 1 .. Len(o) /\ Len(o) \in 1 .. Len(o)
  BY SeqShape DEF OpenOK
<1>3. PICK y : y = [o[Len(o)] EXCEPT ![f] = x]
  OBVIOUS
<1>4. p = [o EXCEPT ![Len(o)] = y]
  BY <1>3
<1>5. DOMAIN o[Len(o)] = ItemFields
  BY <1>2 DEF OpenOK
<1>6. DOMAIN y = ItemFields /\ y.k = o[Len(o)].k
  BY <1>3, <1>5 DEF ItemFields
<1>7. /\ p = [i \in 1 .. Len(o) |-> p[i]] /\ p[Len(o)] = y
      /\ \A i \in 1 .. Len(o) : i # Len(o) => p[i] = o[i]
  BY <1>2, <1>4
<1>8. IsSeq(p) /\ Len(p) = Len(o)
  <2>1. Len(o) \in Nat /\ p = [i \in 1 .. Len(o) |-> p[i]]
    BY <1>2, <1>7
  <2>2. QED
    BY <2>1, FunctionShape
<1>9. \A i \in 1 .. Len(o) : p[i].k = o[i].k /\ DOMAIN p[i] = ItemFields
  BY <1>6, <1>7 DEF OpenOK
<1>10. QED
  BY <1>2, <1>8, <1>9 DEF OpenOK, SameKinds

\* A controlled statement that is done is still open.
LEMMA CompleteOpen ==
  ASSUME NEW o, OpenOK(o), NEW p, p = Complete(o)
  PROVE  OpenOK(p) /\ Len(p) = Len(o) /\ SameKinds(o, p, Len(o))
<1>1. CASE Last(o).k \in Controlled
  <2>1. p = [o EXCEPT ![Len(o)] = [@ EXCEPT !["done"] = TRUE]]
    BY <1>1 DEF Complete
  <2>2. QED
    BY <2>1, AlteredOpen
<1>2. CASE Last(o).k \notin Controlled
  BY <1>2 DEF Complete, SameKinds
<1>3. QED
  BY <1>1, <1>2

CanAppend(o, x) ==
  /\ DOMAIN x = ItemFields /\ x.k # "function"
  /\ o[Len(o)].k = "handlers" <=> x.k = "catch"
AppendPost(o, x, p) ==
  /\ OpenOK(p) /\ Len(p) = Len(o) + 1 /\ SameKinds(o, p, Len(o))
  /\ p[Len(o) + 1] = x /\ Last(p) = x

\* A statement is begun inside the innermost one.
LEMMA AppendOpen ==
  ASSUME NEW o, OpenOK(o), NEW x, CanAppend(o, x), NEW p, p = Append(o, x)
  PROVE  AppendPost(o, x, p)
<1>1. Len(o) \in Nat /\ Len(o) >= 1 /\ IsSeq(o)
  BY SeqShape DEF OpenOK
<1>2. /\ IsSeq(p) /\ Len(p) = Len(o) + 1 /\ p[Len(o) + 1] = x /\ Last(p) = x
      /\ \A i \in 1 .. Len(o) : p[i] = o[i]
  BY <1>1, AppendShape
<1>3. \A i \in 1 .. Len(p) : i \in 1 .. Len(o) \/ i = Len(o) + 1
  BY <1>1, <1>2
<1>4. \A i \in 1 .. Len(p) : DOMAIN p[i] = ItemFields
  BY <1>2, <1>3 DEF OpenOK, CanAppend
<1>5. p[1].k = "function"
  BY <1>1, <1>2 DEF OpenOK
<1>6. \A i \in 2 .. Len(p) : p[i].k # "function"
  <2>1. \A i \in 2 .. Len(p) : i \in 2 .. Len(o) \/ i = Len(o) + 1
    BY <1>1, <1>2
  <2>2. \A i \in 2 .. Len(o) : i \in 1 .. Len(o)
    OBVIOUS
  <2>3. QED
    BY <1>2, <2>1, <2>2 DEF OpenOK, CanAppend
<1>7. ASSUME NEW i \in 1 .. Len(p) - 1
      PROVE  p[i].k = "handlers" <=> p[i + 1].k = "catch"
  <2>1. CASE i = Len(o)
    <3>1. p[i] = o[Len(o)] /\ p[i + 1] = x
      BY <1>1, <1>2, <2>1
    <3>2. QED
      BY <3>1 DEF CanAppend
  <2>2. CASE i # Len(o)
    <3>1. i \in 1 .. Len(o) - 1 /\ i \in 1 .. Len(o) /\ i + 1 \in 1 .. Len(o)
      BY <1>1, <1>2, <2>2
    <3>2. QED
      BY <1>2, <3>1 DEF OpenOK
  <2>3. QED
    BY <2>1, <2>2
<1>8. OpenOK(p)
  BY <1>1, <1>2, <1>4, <1>5, <1>6, <1>7 DEF OpenOK
<1>9. QED
  BY <1>2, <1>8 DEF SameKinds, AppendPost

\* The innermost statement ends.
LEMMA FrontOpen ==
  ASSUME NEW o, OpenOK(o), o[Len(o)].k # "function", NEW p, p = Front(o)
  PROVE  /\ Len(o) >= 2 /\ OpenOK(p) /\ Len(p) = Len(o) - 1
         /\ SameKinds(o, p, Len(o) - 1)
         /\ p[Len(p)].k = "handlers" <=> o[Len(o)].k = "catch"
<1>1. Len(o) \in Nat /\ Len(o) >= 1 /\ IsSeq(o) /\ o[1].k = "function"
  BY SeqShape DEF OpenOK
<1>2. Len(o) >= 2
  BY <1>1
<1>3. IsSeq(p) /\ Len(p) = Len(o) - 1 /\ \A i \in 1 .. Len(o) - 1 : p[i] = o[i]
  BY <1>1, <1>2, FrontShape
<1>4. /\ 1 \in 1 .. Len(o) - 1 /\ Len(p) \in 1 .. Len(o) - 1
      /\ \A i \in 1 .. Len(o) - 1 : i \in 1 .. Len(o)
      /\ \A i \in 2 .. Len(p) : i \in 2 .. Len(o) /\ i \in 1 .. Len(o) - 1
      /\ \A i \in 1 .. Len(p) - 1 : i \in 1 .. Len(o) - 1 /\ i + 1 \in 1 .. Len(o) - 1
  BY <1>1, <1>2, <1>3
<1>5. p[1].k = "function" /\ p[Len(p)] = o[Len(o) - 1] /\ Len(o) - 1 + 1 = Len(o)
  BY <1>1, <1>3, <1>4
<1>6. p[Len(p)].k = "handlers" <=> o[Len(o)].k = "catch"
  BY <1>3, <1>4, <1>5 DEF OpenOK
<1>7. \A i \in 1 .. Len(p) : DOMAIN p[i] = ItemFields
  BY <1>3, <1>4 DEF OpenOK
<1>8. \A i \in 2 .. Len(p) : p[i].k # "function"
  BY <1>3, <1>4 DEF OpenOK
<1>9. \A i \in 1 .. Len(p) - 1 : p[i].k = "handlers" <=> p[i + 1].k = "catch"
  BY <1>3, <1>4 DEF OpenOK
<1>10. QED
  BY <1>1, <1>2, <1>3, <1>5, <1>6, <1>7, <1>8, <1>9 DEF OpenOK, SameKinds

\* The innermost statement ends, and the one around it may be done.
LEMMA CloseOpen ==
  ASSUME NEW o, OpenOK(o), o[Len(o)].k # "function", NEW p, p = Close(o)
  PROVE  /\ Len(o) >= 2 /\ OpenOK(p) /\ Len(p) = Len(o) - 1
         /\ SameKinds(o, p, Len(o) - 1)
         /\ p[Len(p)].k = "handlers" <=> o[Len(o)].k = "catch"
<1>1. PICK q : q = Front(o)
  OBVIOUS
<1>2. /\ Len(o) >= 2 /\ OpenOK(q) /\ Len(q) = Len(o) - 1
      /\ SameKinds(o, q, Len(o) - 1)
      /\ q[Len(q)].k = "handlers" <=> o[Len(o)].k = "catch"
  BY <1>1, FrontOpen
<1>3. OpenOK(p) /\ Len(p) = Len(q) /\ SameKinds(q, p, Len(q))
  <2>1. p = Complete(q)
    BY <1>1 DEF Close
  <2>2. QED
    BY <1>2, <2>1, CompleteOpen
<1>4. Len(q) \in Nat /\ Len(q) >= 1 /\ Len(q) \in 1 .. Len(q)
  BY <1>2, SeqShape DEF OpenOK
<1>5. QED
  BY <1>2, <1>3, <1>4 DEF SameKinds
-----------------------------------------------------------------------------
(* What the heights say of the innermost statement                         *)
StandsBelow(c, o, x) == \E h : Tower(c, o, h) /\ x = h[Len(o)]

\* The tower stands when no stack has changed its height or what the tower says
\* of it.
LEMMA SameStanding ==
  ASSUME NEW c, CodeShape(c), StackShape(c), NEW d, Later(c, d), NEW o, OpenOK(o),
         Standing(c, o), NEW p, Len(p) = Len(o), SameKinds(o, p, Len(o)),
         Tops(d) = Tops(c), Agree(c, d, Tops(c))
  PROVE  Standing(d, p)
<1>1. Len(o) \in Nat /\ IsSeq(o) /\ Len(o) \in 0 .. Len(o)
  BY SeqShape DEF OpenOK
<1>2. PICK h : Tower(c, o, h)
  BY DEF Standing
<1>3. h[Len(o) + 1] = Tops(c)
  BY <1>2 DEF Tower
<1>4. \A i \in 1 .. Len(o) : p[i].k = o[i].k
  BY DEF SameKinds
<1>5. PICK m : m = Len(o)
  OBVIOUS
<1>6. /\ m \in 0 .. Len(o) /\ Len(p) = m /\ \A i \in 1 .. m : p[i].k = o[i].k
      /\ Agree(c, d, h[m + 1]) /\ Tops(d) = h[m + 1]
  BY <1>1, <1>3, <1>4, <1>5
<1>7. QED
  BY <1>1, <1>2, <1>6, TowerDown

\* It stands with one more statement, when that has put on the stacks what its
\* kind needs.
LEMMA OpenStanding ==
  ASSUME NEW c, CodeShape(c), StackShape(c), NEW d, Later(c, d), NEW o, OpenOK(o),
         Standing(c, o), NEW p, Len(p) = Len(o) + 1, SameKinds(o, p, Len(o)),
         NEW x, x = Tops(c), NEW k, k = p[Len(o) + 1].k, Agree(c, d, x),
         Tops(d) = After(x, k, FlagsAt(d, x)), ItemOK(d, x, k)
  PROVE  Standing(d, p)
<1>1. Len(o) \in Nat /\ IsSeq(o) /\ Len(o) \in 0 .. Len(o)
  BY SeqShape DEF OpenOK
<1>2. PICK h : Tower(c, o, h)
  BY DEF Standing
<1>3. h[Len(o) + 1] = x
  BY <1>2 DEF Tower
<1>4. \A i \in 1 .. Len(o) : p[i].k = o[i].k
  BY DEF SameKinds
<1>5. PICK m : m = Len(o)
  OBVIOUS
<1>6. /\ m \in 0 .. Len(o) /\ Len(p) = m + 1 /\ \A i \in 1 .. m : p[i].k = o[i].k
      /\ x = h[m + 1] /\ p[m + 1].k = k
  BY <1>1, <1>3, <1>4, <1>5
<1>7. Tops(d) = After(x, p[m + 1].k, FlagsAt(d, x)) /\ ItemOK(d, x, p[m + 1].k)
  BY <1>6
<1>8. QED
  BY <1>1, <1>2, <1>6, <1>7, TowerUp

\* It stands without the innermost statement, when the stacks are as high as
\* below it.
LEMMA CloseStanding ==
  ASSUME NEW c, CodeShape(c), StackShape(c), NEW d, Later(c, d), NEW o, OpenOK(o),
         NEW x, StandsBelow(c, o, x), NEW p, Len(p) = Len(o) - 1,
         SameKinds(o, p, Len(o) - 1), Agree(c, d, x), Tops(d) = x
  PROVE  Standing(d, p)
<1>1. Len(o) \in Nat /\ IsSeq(o) /\ Len(o) - 1 \in 0 .. Len(o)
  BY SeqShape DEF OpenOK
<1>2. PICK h : Tower(c, o, h) /\ x = h[Len(o)]
  BY DEF StandsBelow
<1>3. PICK m : m = Len(o) - 1
  OBVIOUS
<1>4. /\ m \in 0 .. Len(o) /\ m + 1 = Len(o) /\ Len(p) = m
      /\ \A i \in 1 .. m : p[i].k = o[i].k
  BY <1>1, <1>3 DEF SameKinds
<1>5. Agree(c, d, h[m + 1]) /\ Tops(d) = h[m + 1]
  BY <1>2, <1>4
<1>6. QED
  BY <1>1, <1>2, <1>4, <1>5, TowerDown

\* It stands with another statement in place of the innermost one.
LEMMA ReplaceStanding ==
  ASSUME NEW c, CodeShape(c), StackShape(c), NEW d, Later(c, d), NEW o, OpenOK(o),
         NEW x, StandsBelow(c, o, x), NEW p, Len(p) = Len(o),
         SameKinds(o, p, Len(o) - 1), Agree(c, d, x), NEW k, k = p[Len(o)].k,
         Tops(d) = After(x, k, FlagsAt(d, x)), ItemOK(d, x, k)
  PROVE  Standing(d, p)
<1>1. Len(o) \in Nat /\ IsSeq(o) /\ Len(o) - 1 \in 0 .. Len(o)
  BY SeqShape DEF OpenOK
<1>2. PICK h : Tower(c, o, h) /\ x = h[Len(o)]
  BY DEF StandsBelow
<1>3. PICK m : m = Len(o) - 1
  OBVIOUS
<1>4. /\ m \in 0 .. Len(o) /\ m + 1 = Len(o) /\ Len(p) = m + 1
      /\ \A i \in 1 .. m : p[i].k = o[i].k
  BY <1>1, <1>3 DEF SameKinds
<1>5. x = h[m + 1] /\ k = p[m + 1].k
  BY <1>2, <1>4
<1>6. Tops(d) = After(x, p[m + 1].k, FlagsAt(d, x)) /\ ItemOK(d, x, p[m + 1].k)
  BY <1>5
<1>7. QED
  BY <1>1, <1>2, <1>4, <1>5, <1>6, TowerUp

\* Every function has a context and a block of its own, and an open loop two
\* labels.
TopPost(c, o, x) ==
  /\ StandsBelow(c, o, x) /\ x \in Heights /\ Tops(c) \in Heights
  /\ Tops(c) = After(x, o[Len(o)].k, FlagsAt(c, x)) /\ ItemOK(c, x, o[Len(o)].k)
  /\ Below(x, Tops(c))
  /\ IF o[Len(o)].k = "function" THEN x = Zero ELSE x.ctx >= 1 /\ x.blk >= 1
  /\ Len(c.block_stack) >= 1 /\ Len(c.context_stack) >= 1
  /\ (\E i \in 1 .. Len(o) : o[i].k \in Loops) => Len(c.label_stack) >= 2

\* The tower says what the innermost statement finds on the stacks.
LEMMA TopFacts ==
  ASSUME NEW c, NEW o, OpenOK(o), Standing(c, o)
  PROVE  \E x : TopPost(c, o, x)
<1>1. /\ Len(o) \in Nat /\ IsSeq(o) /\ Len(o) >= 1 /\ o[1].k = "function"
      /\ \A i \in 2 .. Len(o) : o[i].k # "function"
  BY SeqShape DEF OpenOK
<1>2. PICK h : Tower(c, o, h)
  BY DEF Standing
<1>3. PICK x : x = h[Len(o)]
  OBVIOUS
<1>4. /\ h \in [1 .. Len(o) + 1 -> Heights]
      /\ h[1] = Zero /\ h[Len(o) + 1] = Tops(c)
      /\ \A i \in 1 .. Len(o) : h[i + 1] = After(h[i], o[i].k, FlagsAt(c, h[i]))
      /\ \A i \in 1 .. Len(o) : ItemOK(c, h[i], o[i].k)
      /\ \A i, j \in 1 .. Len(o) + 1 : i <= j => Below(h[i], h[j])
  BY <1>2 DEF Tower
<1>5. /\ 1 \in 1 .. Len(o) /\ 2 \in 1 .. Len(o) + 1 /\ 2 <= Len(o) + 1 /\ 1 + 1 = 2
      /\ Len(o) \in 1 .. Len(o) /\ Len(o) \in 1 .. Len(o) + 1
      /\ Len(o) + 1 \in 1 .. Len(o) + 1 /\ Len(o) <= Len(o) + 1
  BY <1>1
<1>6. /\ StandsBelow(c, o, x) /\ x \in Heights /\ Tops(c) \in Heights
      /\ Tops(c) = After(x, o[Len(o)].k, FlagsAt(c, x)) /\ ItemOK(c, x, o[Len(o)].k)
      /\ Below(x, Tops(c))
  BY <1>2, <1>3, <1>4, <1>5 DEF StandsBelow
<1>7. PICK y : y = h[2]
  OBVIOUS
<1>8. y \in Heights /\ y.ctx >= 1 /\ y.blk >= 1
  <2>1. y \in Heights /\ y = After(Zero, "function", FlagsAt(c, Zero))
    BY <1>1, <1>4, <1>5, <1>7
  <2>2. FlagsAt(c, Zero) = FunFlags
    BY <1>1, <1>4, <1>5 DEF ItemOK
  <2>3. Owns("function") /\ "CONTEXT_PUSHED" \in FunFlags
    BY DEF Owns, Blocks, FunFlags
  <2>4. y.ctx = 0 + Bit(TRUE) /\ y.blk = 0 + Bit(TRUE)
    BY <2>1, <2>2, <2>3 DEF After, Zero
  <2>5. QED
    BY <2>1, <2>4 DEF Bit
<1>9. Below(y, Tops(c))
  BY <1>4, <1>5, <1>7
<1>10. Len(c.block_stack) >= 1 /\ Len(c.context_stack) >= 1
  <2>1. y.ctx <= Len(c.context_stack) /\ y.blk <= Len(c.block_stack)
    BY <1>9 DEF Below, Tops
  <2>2. y.ctx \in Nat /\ y.blk \in Nat /\ Len(c.context_stack) \in Nat
        /\ Len(c.block_stack) \in Nat
    BY <1>6, <1>8 DEF Heights, Tops
  <2>3. QED
    BY <1>8, <2>1, <2>2
<1>11. IF o[Len(o)].k = "function" THEN x = Zero ELSE x.ctx >= 1 /\ x.blk >= 1
  <2>1. CASE Len(o) = 1
    BY <1>1, <1>3, <1>4, <2>1
  <2>2. CASE Len(o) # 1
    <3>1. Len(o) >= 2 /\ Len(o) \in 2 .. Len(o)
      <4>1. Len(o) \in Nat /\ Len(o) >= 1
        BY <1>1
      <4>2. PICK l \in Nat : l = Len(o) /\ l >= 1 /\ l # 1
        BY <2>2, <4>1
      <4>3. l >= 2 /\ l \in 2 .. l
        BY <4>2
      <4>4. QED
        BY <4>2, <4>3
    <3>2. Below(y, x)
      BY <1>3, <1>4, <1>5, <1>7, <3>1
    <3>3. x.ctx >= 1 /\ x.blk >= 1
      <4>1. /\ x.ctx \in Nat /\ x.blk \in Nat /\ y.ctx \in Nat /\ y.blk \in Nat
            /\ y.ctx <= x.ctx /\ y.blk <= x.blk
        BY <1>6, <1>8, <3>2 DEF Below, Heights
      <4>2. QED
        BY <1>8, <4>1
    <3>4. QED
      BY <1>1, <3>1, <3>3
  <2>3. QED
    BY <2>1, <2>2
<1>12. (\E i \in 1 .. Len(o) : o[i].k \in Loops) => Len(c.label_stack) >= 2
  <2>1. SUFFICES ASSUME NEW i \in 1 .. Len(o), o[i].k \in Loops
                 PROVE  Len(c.label_stack) >= 2
    OBVIOUS
  <2>2. i \in 1 .. Len(o) + 1 /\ i + 1 \in 1 .. Len(o) + 1 /\ i + 1 <= Len(o) + 1
    BY <1>1, <2>1
  <2>3. h[i] \in Heights /\ h[i + 1].label = h[i].label + 2
    <3>1. h[i] \in Heights /\ h[i + 1] = After(h[i], o[i].k, FlagsAt(c, h[i]))
      BY <1>4, <2>1, <2>2
    <3>2. LabelsOf(o[i].k) = 2
      BY <2>1 DEF LabelsOf
    <3>3. QED
      BY <3>1, <3>2 DEF After
  <2>4. h[i + 1].label <= Len(c.label_stack)
    <3>1. Below(h[i + 1], Tops(c))
      BY <1>4, <1>5, <2>2
    <3>2. QED
      BY <3>1 DEF Below, Tops
  <2>5. h[i].label \in Nat /\ Len(c.label_stack) \in Nat
    BY <1>6, <2>3 DEF Heights, Tops
  <2>6. QED
    BY <2>3, <2>4, <2>5
<1>13. QED
  BY <1>6, <1>10, <1>11, <1>12 DEF TopPost
-----------------------------------------------------------------------------
(* What holds between two of the parser's actions                          *)

\* Who holds a label, other than the try blocks.
Other(c, k) ==
  \/ k = RetLabel \/ k = c.goto.label
  \/ In(c.label_stack, k) \/ In(c.break_stack, k) \/ In(c.continue_stack, k)
\* The label behind the handlers of a try block is nobody else's.
Apart(c) ==
  \A t \in 1 .. Len(c.mTryStack) :
    /\ ~Other(c, c.mTryStack[t].label)
    /\ \A u \in 1 .. Len(c.mTryStack) : u # t => c.mTryStack[u].label # c.mTryStack[t].label
\* Between two handlers the last instruction is the jump behind them, which
\* the end of the try block takes back: nothing leads past it, and no other
\* label refers to it.
Handlers(c, o) ==
  o[Len(o)].k = "handlers" =>
    /\ Len(c.code) >= 1 /\ c.code[Len(c.code)].op = "JMP" /\ Within(c, Len(c.code))
    /\ \A k \in 1 .. Len(c.label) :
         k \in Owned(c) /\ k # c.mTryStack[Len(c.mTryStack)].label =>
           Len(c.code) \notin c.label[k].refs
GotoOK(c) ==
  /\ c.goto.to # {} => c.goto.label # 0 /\ c.label[c.goto.label].to # 0
  /\ c.goto.label # 0 => c.goto.from \union c.goto.to # {}
SomeLoop(o) == \E i \in 1 .. Len(o) : o[i].k \in Loops
Compiling(c, o) ==
  /\ OpenOK(o) /\ CodeOK(c, {}) /\ Standing(c, o)
  /\ c.in_switch = FALSE /\ (c.in_loop => SomeLoop(o))
  /\ Apart(c) /\ Handlers(c, o) /\ GotoOK(c)

\* The labels behind handlers stay apart when no stack gets a label that it did
\* not have.
LEMMA ApartKept ==
  ASSUME NEW c, CodeShape(c), StackShape(c), Apart(c), NEW d, d.mTryStack = c.mTryStack,
         \A k \in 1 .. Len(c.label) : Other(d, k) => Other(c, k)
  PROVE  Apart(d)
<1>1. \A t \in 1 .. Len(c.mTryStack) : c.mTryStack[t].label \in 1 .. Len(c.label)
  BY StackFacts DEF Tries
<1>2. QED
  BY <1>1 DEF Apart

\* The label of the gotos stays put.
LEMMA GotoKept ==
  ASSUME NEW c, CodeShape(c), StackShape(c), GotoOK(c), NEW d, Later(c, d), GotoSame(c, d)
  PROVE  GotoOK(d)
<1>1. c.goto.label \in 0 .. Len(c.label) /\ Len(c.label) \in Nat
  BY ShapeFacts DEF StackShape
<1>2. c.goto.label # 0 => c.goto.label \in 1 .. Len(c.label)
  BY <1>1
<1>3. QED
  BY <1>2 DEF GotoOK, GotoSame, Later

\* Only the code, its labels and the history of where it is change.
SameStacks(c, d) ==
  /\ d.label_stack = c.label_stack /\ d.break_stack = c.break_stack
  /\ d.continue_stack = c.continue_stack
  /\ Len(d.switch_stack) = Len(c.switch_stack)
  /\ d.mTryStack = c.mTryStack /\ d.block_stack = c.block_stack
  /\ Len(d.context_stack) = Len(c.context_stack)
  /\ d.in_loop = c.in_loop /\ d.in_switch = c.in_switch
  /\ d.goto.label = c.goto.label \/ d.goto.label \notin 1 .. Len(c.label)

\* Two steps that leave the stacks alone leave them alone.
LEMMA SameStacksTwice ==
  ASSUME NEW c, NEW d, NEW e, CodeShape(c), CodeShape(d), Later(c, d),
         SameStacks(c, d), SameStacks(d, e)
  PROVE  SameStacks(c, e)
<1>1. Len(c.label) \in Nat /\ Len(d.label) \in Nat /\ Len(c.label) <= Len(d.label)
  BY ShapeFacts DEF Later
<1>2. \A k : k \in 1 .. Len(c.label) => k \in 1 .. Len(d.label)
  BY <1>1
<1>3. QED
  BY <1>2 DEF SameStacks

\* A step that leaves the stacks alone keeps what holds between two actions.
LEMMA SameStacksOK ==
  ASSUME NEW c, NEW o, Compiling(c, o), o[Len(o)].k # "handlers",
         NEW d, CodeOK(d, {}), Later(c, d), SameStacks(c, d), GotoOK(d),
         NEW p, OpenOK(p), Len(p) = Len(o), SameKinds(o, p, Len(o))
  PROVE  Compiling(d, p)
<1>1. CodeShape(c) /\ StackShape(c) /\ OpenOK(o) /\ Standing(c, o)
  BY DEF Compiling, CodeOK
<1>2. Len(o) \in Nat /\ Len(o) >= 1
  BY <1>1, SeqShape DEF OpenOK
<1>3. Len(o) \in 1 .. Len(o)
  BY <1>2
<1>4. Standing(d, p)
  <2>1. Tops(d) = Tops(c)
    BY DEF SameStacks, Tops
  <2>2. Agree(c, d, Tops(c))
    BY DEF Agree, Kept, SameStacks
  <2>3. QED
    BY <1>1, <2>1, <2>2, SameStanding
<1>5. Apart(d)
  <2>1. \A k \in 1 .. Len(c.label) : Other(d, k) => Other(c, k)
    BY DEF Other, SameStacks
  <2>2. d.mTryStack = c.mTryStack
    BY DEF SameStacks
  <2>3. QED
    BY <1>1, <2>1, <2>2, ApartKept DEF Compiling
<1>6. Handlers(d, p)
  BY <1>3 DEF Handlers, SameKinds
<1>7. d.in_switch = FALSE /\ (d.in_loop => SomeLoop(p))
  BY DEF SameStacks, Compiling, SomeLoop, SameKinds
<1>8. QED
  BY <1>4, <1>5, <1>6, <1>7 DEF Compiling

\* The history of where the code is.
Aside(c, d) ==
  /\ Frame(c, d) /\ d.code = c.code /\ d.label = c.label
  /\ d.context_stack = c.context_stack

\* The history changes nothing else.
LEMMA HistoryOK ==
  ASSUME NEW c, NEW X, CodeOK(c, X), NEW o, NEW s,
         NEW d, d \in {Begin(c, o, s), Between(c, o), BodyEnds(c, s), Ends(c, s)}
  PROVE  CodeOK(d, X) /\ Aside(c, d) /\ Later(c, d) /\ SameStacks(c, d)
<1>1. DOMAIN c = Fields /\ Len(c.label) \in Nat
  BY ShapeFacts DEF CodeOK, CodeShape
<1>2. Aside(c, d)
  BY <1>1, ZenonT(60) DEF Aside, Frame, Fields, Begin, Between, BodyEnds, Ends
<1>3. Later(c, d) /\ SameStacks(c, d)
  BY <1>1, <1>2 DEF Aside, Frame, Later, SameStacks
<1>4. QED
  BY <1>2, <1>3, UntouchedOK DEF Aside
\* What the statements that open and close nothing leave alone.
Quiet(c, d) == CodeOK(d, {}) /\ Later(c, d) /\ SameStacks(c, d) /\ GotoSame(c, d)

\* Two quiet steps are one.
LEMMA QuietTwice ==
  ASSUME NEW c, CodeOK(c, {}), NEW d, Quiet(c, d), NEW e, Quiet(d, e)
  PROVE  Quiet(c, e)
<1>1. CodeShape(c) /\ CodeShape(d) /\ CodeShape(e) /\ Later(c, d) /\ Later(d, e)
      /\ SameStacks(c, d) /\ SameStacks(d, e)
  BY DEF Quiet, CodeOK
<1>2. Later(c, e)
  BY <1>1, LaterTwice
<1>3. SameStacks(c, e)
  BY <1>1, SameStacksTwice
<1>4. GotoSame(c, e)
  BY DEF Quiet, GotoSame
<1>5. QED
  BY <1>2, <1>3, <1>4 DEF Quiet

\* A quiet step keeps what holds between two actions.
LEMMA QuietOK ==
  ASSUME NEW c, NEW o, Compiling(c, o), o[Len(o)].k # "handlers",
         NEW d, Quiet(c, d), NEW p, p = Complete(o)
  PROVE  Compiling(d, p)
<1>1. CodeShape(c) /\ StackShape(c) /\ OpenOK(o) /\ GotoOK(c)
  BY DEF Compiling, CodeOK
<1>2. OpenOK(p) /\ Len(p) = Len(o) /\ SameKinds(o, p, Len(o))
  BY <1>1, CompleteOpen
<1>3. CodeOK(d, {}) /\ Later(c, d) /\ SameStacks(c, d) /\ GotoSame(c, d)
  BY DEF Quiet
<1>4. GotoOK(d)
  BY <1>1, <1>3, GotoKept
<1>5. QED
  BY <1>2, <1>3, <1>4, SameStacksOK

\* Changing the history is quiet.
LEMMA HistoryQuiet ==
  ASSUME NEW c, CodeOK(c, {}), NEW o, NEW s,
         NEW d, d \in {Begin(c, o, s), Between(c, o), BodyEnds(c, s), Ends(c, s)}
  PROVE  Quiet(c, d) /\ d.break_stack = c.break_stack /\ d.context_stack = c.context_stack
         /\ d.continue_stack = c.continue_stack
<1>1. CodeOK(d, {}) /\ Aside(c, d) /\ Later(c, d) /\ SameStacks(c, d)
  BY HistoryOK
<1>2. QED
  BY <1>1 DEF Quiet, Aside, Frame, GotoSame

\* An expression is quiet.
LEMMA CallQuiet ==
  ASSUME NEW c, CodeOK(c, {}), NEW d, d = Emit(c, "CALL", 0)
  PROVE  Quiet(c, d)
<1>1. CodeShape(c) /\ Len(c.label) \in Nat
  BY ShapeFacts DEF CodeOK
<1>2. EmitPost(c, d, "CALL", 0)
  <2>1. "CALL" \in Ops /\ "CALL" \notin {"TOSD", "MARK", "UNWIND"} /\ 0 \in Nat
    BY DEF Ops
  <2>2. QED
    BY <1>1, <2>1, EmitFacts
<1>3. CodeOK(d, {})
  <2>1. "CALL" \in Ops \ (JumpOps \union {"JSWITCH"})
        /\ "CALL" \notin {"TOSD", "MARK", "UNWIND"} /\ 0 \in Nat
    BY DEF Ops, JumpOps
  <2>2. QED
    BY <2>1, EmitOK
<1>4. Later(c, d) /\ SameStacks(c, d) /\ GotoSame(c, d)
  BY <1>1, <1>2 DEF EmitPost, Frame, Later, SameStacks, GotoSame
<1>5. QED
  BY <1>3, <1>4 DEF Quiet

\* Unwinding is quiet.
LEMMA UnwindQuiet ==
  ASSUME NEW c, CodeOK(c, {}), NEW d, UnwindPost(c, {}, d)
  PROVE  Quiet(c, d)
<1>1. Len(c.label) \in Nat
  BY ShapeFacts DEF CodeOK
<1>2. QED
  BY <1>1 DEF UnwindPost, Frame, Later, SameStacks, GotoSame, Quiet

\* A jump is quiet.
LEMMA JumpQuiet ==
  ASSUME NEW c, CodeOK(c, {}), NEW l \in 1 .. Len(c.label), NEW op \in JumpOps,
         NEW d, d = Jump(c, op, l)
  PROVE  Quiet(c, d)
<1>1. JumpPost(c, {}, d, op, l)
  BY JumpOK
<1>2. QED
  BY <1>1 DEF JumpPost, Frame, SameStacks, GotoSame, Quiet

-----------------------------------------------------------------------------
(* One lemma for each of the parser's actions                              *)
\* The innermost statement is the last one.
LEMMA TopIs ==
  ASSUME OpenOK(open)
  PROVE  /\ Top = open[Len(open)] /\ Len(open) \in Nat /\ Len(open) >= 1
         /\ (Top.k \in Blocks \union Controlled => Top.k # "handlers")
<1>1. IsSeq(open)
  BY DEF OpenOK
<1>2. Top = open[Len(open)] /\ Len(open) \in Nat /\ Len(open) >= 1
  BY <1>1, SeqShape DEF OpenOK, Top
<1>3. QED
  BY <1>2 DEF Blocks, Controlled, Loops

\* A statement is no more than code: it opens and closes nothing.
Coded(c, d, o, p) == Quiet(c, d) /\ p = Complete(o) /\ o[Len(o)].k # "handlers"

\* An expression is code, and ends the statement it is the last part of.
LEMMA ExpressionCoded ==
  ASSUME Compiling(cg, open), Expression
  PROVE  Coded(cg, cg', open, open')
<1>1. PICK d : d = Begin(cg, open, "")
  OBVIOUS
<1>2. cg' = Emit(d, "CALL", 0) /\ open' = Complete(open)
  BY <1>1 DEF Expression, Compile
<1>3. CodeOK(cg, {}) /\ OpenOK(open)
  BY DEF Compiling
<1>4. open[Len(open)].k # "handlers"
  BY <1>3, TopIs DEF Expression, CanStart
<1>5. Quiet(cg, d)
  BY <1>1, <1>3, HistoryQuiet
<1>6. Quiet(d, cg')
  BY <1>2, <1>5, CallQuiet DEF Quiet
<1>7. Quiet(cg, cg')
  BY <1>3, <1>5, <1>6, QuietTwice
<1>8. QED
  BY <1>2, <1>4, <1>7 DEF Coded

\* An expression statement.
LEMMA ExpressionKeeps ==
  ASSUME Compiling(cg, open), Expression
  PROVE  Compiling(cg', open')
BY ExpressionCoded, QuietOK DEF Coded

\* A break is code, after the destruction of its scope's objects.
LEMMA BreakCoded ==
  ASSUME Compiling(cg, open), Break, status' = "compiling"
  PROVE  Coded(cg, cg', open, open')
<1>1. PICK d : d = Begin(cg, open, "break")
  OBVIOUS
<1>2. PICK e : e = CheckLocalUnwind(d)
  OBVIOUS
<1>3. PICK l : l = TOS(cg, "break_stack")
  OBVIOUS
<1>4. cg' = Jump(e, "JMP", l) /\ open' = Complete(open) /\ cg.break_stack # <<>>
  BY <1>1, <1>2, <1>3 DEF Break, Compile, Reject
<1>5. CodeOK(cg, {}) /\ OpenOK(open) /\ CodeShape(cg) /\ StackShape(cg) /\ Standing(cg, open)
  BY DEF Compiling, CodeOK
<1>6. open[Len(open)].k # "handlers"
  BY <1>5, TopIs DEF Break, CanStart
<1>7. Quiet(cg, d) /\ d.context_stack = cg.context_stack
  BY <1>1, <1>5, HistoryQuiet
<1>8. Len(cg.context_stack) >= 1
  BY <1>5, TopFacts DEF TopPost
<1>9. Quiet(d, e)
  <2>1. CodeOK(d, {}) /\ Len(d.context_stack) >= 1
    BY <1>7, <1>8 DEF Quiet
  <2>2. QED
    BY <1>2, <2>1, CheckLocalUnwindOK, UnwindQuiet
<1>10. Quiet(cg, e)
  BY <1>5, <1>7, <1>9, QuietTwice
<1>11. l \in 1 .. Len(e.label)
  <2>1. l \in 1 .. Len(cg.label)
    <3>1. cg.break_stack \in Seq(1 .. Len(cg.label))
      BY <1>5 DEF StackShape
    <3>2. l = Last(cg.break_stack)
      BY <1>3 DEF TOS
    <3>3. QED
      BY <1>4, <3>1, <3>2 DEF Last
  <2>2. Len(cg.label) <= Len(e.label) /\ Len(cg.label) \in Nat /\ Len(e.label) \in Nat
    BY <1>5, <1>10, ShapeFacts DEF Quiet, CodeOK, Later
  <2>3. QED
    BY <2>1, <2>2
<1>12. Quiet(e, cg')
  BY <1>4, <1>10, <1>11, JumpQuiet DEF Quiet, JumpOps
<1>13. Quiet(cg, cg')
  BY <1>5, <1>10, <1>12, QuietTwice
<1>14. QED
  BY <1>4, <1>6, <1>13 DEF Coded

\* A break that is no error.
LEMMA BreakKeeps ==
  ASSUME Compiling(cg, open), Break, status' = "compiling"
  PROVE  Compiling(cg', open')
BY BreakCoded, QuietOK DEF Coded

\* A continue is code.
LEMMA ContinueCoded ==
  ASSUME Compiling(cg, open), Continue, status' = "compiling"
  PROVE  Coded(cg, cg', open, open')
<1>1. PICK d : d = Begin(cg, open, "continue")
  OBVIOUS
<1>2. PICK l : l = TOS(cg, "continue_stack")
  OBVIOUS
<1>3. cg' = Jump(d, "JMP", l) /\ open' = Complete(open) /\ cg.continue_stack # <<>>
  BY <1>1, <1>2 DEF Continue, Compile, Reject
<1>4. CodeOK(cg, {}) /\ OpenOK(open) /\ CodeShape(cg) /\ StackShape(cg)
  BY DEF Compiling, CodeOK
<1>5. open[Len(open)].k # "handlers"
  BY <1>4, TopIs DEF Continue, CanStart
<1>6. Quiet(cg, d)
  BY <1>1, <1>4, HistoryQuiet
<1>7. l \in 1 .. Len(d.label)
  <2>1. l \in 1 .. Len(cg.label)
    <3>1. cg.continue_stack \in Seq(1 .. Len(cg.label))
      BY <1>4 DEF StackShape
    <3>2. l = Last(cg.continue_stack)
      BY <1>2 DEF TOS
    <3>3. QED
      BY <1>3, <3>1, <3>2 DEF Last
  <2>2. Len(cg.label) <= Len(d.label) /\ Len(cg.label) \in Nat /\ Len(d.label) \in Nat
    BY <1>4, <1>6, ShapeFacts DEF Quiet, CodeOK, Later
  <2>3. QED
    BY <2>1, <2>2
<1>8. Quiet(d, cg')
  BY <1>3, <1>6, <1>7, JumpQuiet DEF Quiet, JumpOps
<1>9. Quiet(cg, cg')
  BY <1>4, <1>6, <1>8, QuietTwice
<1>10. QED
  BY <1>3, <1>5, <1>9 DEF Coded

\* A continue that is no error.
LEMMA ContinueKeeps ==
  ASSUME Compiling(cg, open), Continue, status' = "compiling"
  PROVE  Compiling(cg', open')
BY ContinueCoded, QuietOK DEF Coded

\* A return is code, after the destruction of the objects.
LEMMA ReturnCoded ==
  ASSUME Compiling(cg, open), Return
  PROVE  Coded(cg, cg', open, open')
<1>1. PICK d : d = Begin(cg, open, "return")
  OBVIOUS
<1>2. PICK e : e = CheckEnclosingScopes(d)
  OBVIOUS
<1>3. cg' = Jump(e, "JMP", RetLabel) /\ open' = Complete(open)
  BY <1>1, <1>2 DEF Return, Compile
<1>4. CodeOK(cg, {}) /\ OpenOK(open)
  BY DEF Compiling
<1>5. open[Len(open)].k # "handlers"
  BY <1>4, TopIs DEF Return, CanStart
<1>6. Quiet(cg, d)
  BY <1>1, <1>4, HistoryQuiet
<1>7. Quiet(d, e)
  BY <1>2, <1>6, CheckEnclosingScopesOK, UnwindQuiet DEF Quiet
<1>8. Quiet(cg, e)
  BY <1>4, <1>6, <1>7, QuietTwice
<1>9. RetLabel \in 1 .. Len(e.label)
  <2>1. Len(e.label) \in Nat \ {0}
    BY <1>8, ShapeFacts DEF Quiet, CodeOK
  <2>2. QED
    BY <2>1 DEF RetLabel
<1>10. Quiet(e, cg')
  BY <1>3, <1>8, <1>9, JumpQuiet DEF Quiet, JumpOps
<1>11. Quiet(cg, cg')
  BY <1>4, <1>8, <1>10, QuietTwice
<1>12. QED
  BY <1>3, <1>5, <1>11 DEF Coded

\* A return.
LEMMA ReturnKeeps ==
  ASSUME Compiling(cg, open), Return
  PROVE  Compiling(cg', open')
BY ReturnCoded, QuietOK DEF Coded

\* A case of a switch whose block is open.
LEMMA CaseQuiet ==
  ASSUME NEW c, CodeOK(c, {}), NEW i, NEW y,
         i \in 1 .. Len(c.switch_stack) =>
           /\ y \in SwitchType /\ y.start = c.switch_stack[i].start
           /\ y.default <= Len(c.code) + 1 /\ y.cases \subseteq 1 .. Len(c.code) + 1,
         NEW d, d = [c EXCEPT !.switch_stack = [@ EXCEPT ![i] = y]]
  PROVE  Quiet(c, d)
<1>1. /\ CodeShape(c) /\ StackShape(c) /\ Linked(c) /\ Held(c, {}) /\ RefsClean(c, {})
      /\ Within(c, Len(c.code) + 1) /\ Switched(c) /\ DOMAIN c = Fields
      /\ Len(c.label) \in Nat
  BY ShapeFacts DEF CodeOK, CodeShape
<1>2. PICK s : s = c.switch_stack
  OBVIOUS
<1>3. PICK t : t = [s EXCEPT ![i] = y]
  OBVIOUS
<1>4. /\ DOMAIN d = Fields /\ d.switch_stack = t
      /\ \A f \in Fields \ {"switch_stack"} : d[f] = c[f]
  BY <1>1, <1>2, <1>3 DEF Fields
<1>5. s \in Seq(SwitchType) /\ Len(s) \in Nat /\ DOMAIN s = 1 .. Len(s)
  BY <1>1, <1>2 DEF StackShape
<1>6. /\ \A j \in 1 .. Len(s) : t[j] = IF j = i THEN y ELSE s[j]
      /\ t = [j \in 1 .. Len(s) |-> t[j]]
  BY <1>3, <1>5
<1>7. t \in Seq(SwitchType) /\ Len(t) = Len(s)
  <2>1. ASSUME NEW j \in 1 .. Len(s)
        PROVE  t[j] \in SwitchType
    <3>1. CASE j = i
      BY <1>2, <1>6, <3>1
    <3>2. CASE j # i
      BY <1>5, <1>6, <3>2
    <3>3. QED
      BY <3>1, <3>2
  <2>2. t \in [1 .. Len(s) -> SwitchType]
    BY <1>6, <2>1
  <2>3. QED
    BY <1>5, <2>2
<1>8. /\ d.code = c.code /\ d.label = c.label /\ d.label_stack = c.label_stack
      /\ d.break_stack = c.break_stack /\ d.continue_stack = c.continue_stack
      /\ d.mTryStack = c.mTryStack /\ d.block_stack = c.block_stack
      /\ d.context_stack = c.context_stack /\ d.in_loop = c.in_loop
      /\ d.in_switch = c.in_switch /\ d.size = c.size /\ d.catch = c.catch
      /\ d.goto = c.goto
  BY <1>4 DEF Fields
<1>9. \A j \in 1 .. Len(s) : t[j].start = s[j].start
  BY <1>2, <1>6
<1>10. \A j \in 1 .. Len(s) :
         t[j].default <= Len(c.code) + 1 /\ t[j].cases \subseteq 1 .. Len(c.code) + 1
  <2>1. \A j \in 1 .. Len(s) :
          s[j].default <= Len(c.code) + 1 /\ s[j].cases \subseteq 1 .. Len(c.code) + 1
    BY <1>1, <1>2 DEF Within
  <2>2. QED
    BY <1>2, <1>6, <2>1
<1>11. CodeShape(d)
  BY <1>1, <1>4, <1>8 DEF CodeShape
<1>12. StackShape(d)
  BY <1>1, <1>4, <1>7, <1>8 DEF StackShape
<1>13. Linked(d)
  <2>1. SUFFICES ASSUME NEW j \in 1 .. Len(c.code), c.code[j].arg = 0
                 PROVE  /\ c.code[j].op \in JumpOps =>
                             \E l \in 1 .. Len(c.label) : c.label[l].to = 0 /\ j \in c.label[l].refs
                        /\ c.code[j].op = "JSWITCH" => \E k \in 1 .. Len(t) : t[k].start = j
    BY <1>4, <1>8 DEF Linked
  <2>2. /\ c.code[j].op \in JumpOps =>
             \E l \in 1 .. Len(c.label) : c.label[l].to = 0 /\ j \in c.label[l].refs
        /\ c.code[j].op = "JSWITCH" => \E k \in 1 .. Len(s) : s[k].start = j
    BY <1>1, <1>2, <2>1 DEF Linked
  <2>3. QED
    BY <1>7, <1>9, <2>2
<1>14. Holders(d, {}) = Holders(c, {})
  BY <1>8 DEF Holders, Owned
<1>15. Held(d, {}) /\ RefsClean(d, {})
  BY <1>1, <1>8, <1>14 DEF Held, RefsClean
<1>16. Within(d, Len(d.code) + 1)
  BY <1>1, <1>4, <1>7, <1>8, <1>10 DEF Within
<1>17. Switched(d)
  BY <1>1, <1>2, <1>4, <1>7, <1>8, <1>9, SMTT(40) DEF Switched
<1>18. CodeOK(d, {})
  BY <1>11, <1>12, <1>13, <1>15, <1>16, <1>17 DEF CodeOK
<1>19. Later(c, d) /\ SameStacks(c, d) /\ GotoSame(c, d)
  BY <1>1, <1>2, <1>4, <1>7, <1>8 DEF Later, SameStacks, GotoSame
<1>20. QED
  BY <1>18, <1>19 DEF Quiet

\* A case is not even code: it only notes where it is.
LEMMA CaseCoded ==
  ASSUME Compiling(cg, open), Case
  PROVE  Coded(cg, cg', open, open')
<1>1. PICK i : i = Len(cg.switch_stack)
  OBVIOUS
<1>2. PICK y :
        /\ \/ y = [cg.switch_stack[i] EXCEPT !.cases = @ \union {IpOffset(cg)}]
           \/ y = [cg.switch_stack[i] EXCEPT !.default = IpOffset(cg)]
        /\ cg' = [cg EXCEPT !.switch_stack = [@ EXCEPT ![i] = y]]
  <2>1. \/ cg' = [cg EXCEPT !.switch_stack[i].cases = @ \union {IpOffset(cg)}]
        \/ cg' = [cg EXCEPT !.switch_stack[i].default = IpOffset(cg)]
    BY <1>1 DEF Case, Compile
  <2>2. QED
    BY <2>1
<1>3. open' = open /\ Top.k = "switch"
  BY DEF Case, Compile
<1>4. CodeOK(cg, {}) /\ OpenOK(open) /\ CodeShape(cg) /\ StackShape(cg)
      /\ Within(cg, Len(cg.code) + 1) /\ Len(cg.code) \in Nat
  BY ShapeFacts DEF Compiling, CodeOK
<1>5. i \in 1 .. Len(cg.switch_stack) =>
        /\ y \in SwitchType /\ y.start = cg.switch_stack[i].start
        /\ y.default <= Len(cg.code) + 1 /\ y.cases \subseteq 1 .. Len(cg.code) + 1
  <2>1. SUFFICES ASSUME i \in 1 .. Len(cg.switch_stack)
                 PROVE  /\ y \in SwitchType /\ y.start = cg.switch_stack[i].start
                        /\ y.default <= Len(cg.code) + 1
                        /\ y.cases \subseteq 1 .. Len(cg.code) + 1
    OBVIOUS
  <2>2. PICK z \in SwitchType : z = cg.switch_stack[i]
    BY <1>4, <2>1, StackFacts
  <2>3. z.default <= Len(cg.code) + 1 /\ z.cases \subseteq 1 .. Len(cg.code) + 1
    BY <1>4, <2>1, <2>2 DEF Within
  <2>4. /\ IpOffset(cg) = Len(cg.code) + 1
        /\ y = [z EXCEPT !.cases = @ \union {IpOffset(cg)}]
           \/ y = [z EXCEPT !.default = IpOffset(cg)]
    BY <1>2, <2>2 DEF IpOffset
  <2>5. QED
    BY <1>4, <2>2, <2>3, <2>4 DEF SwitchType
<1>6. Quiet(cg, cg')
  BY <1>2, <1>4, <1>5, CaseQuiet
<1>7. open' = Complete(open) /\ open[Len(open)].k # "handlers"
  <2>1. Last(open) = open[Len(open)] /\ Last(open).k = "switch"
    BY <1>3, <1>4, TopIs DEF Top
  <2>2. QED
    BY <1>3, <2>1 DEF Complete, Controlled, Loops
<1>8. QED
  BY <1>6, <1>7 DEF Coded

\* A case or the default of a switch.
LEMMA CaseKeeps ==
  ASSUME Compiling(cg, open), Case
  PROVE  Compiling(cg', open')
BY CaseCoded, QuietOK DEF Coded
GotoSetPost(c, d, f, x) ==
  /\ CodeOK(d, {}) /\ Later(c, d) /\ SameStacks(c, d) /\ d.label = c.label
  /\ d.goto = [c.goto EXCEPT ![f] = x] /\ DOMAIN c.goto = {"label", "context", "from", "to"}

\* Where the gotos and their label are is history.
LEMMA GotoSetOK ==
  ASSUME NEW c, CodeOK(c, {}), NEW f \in {"from", "to"}, NEW x,
         NEW d, d = [c EXCEPT !.goto = [@ EXCEPT ![f] = x]]
  PROVE  GotoSetPost(c, d, f, x)
<1>1. /\ CodeShape(c) /\ StackShape(c) /\ DOMAIN c = Fields
      /\ DOMAIN c.goto = {"label", "context", "from", "to"} /\ Len(c.label) \in Nat
  BY ShapeFacts DEF CodeOK, CodeShape, StackShape
<1>2. /\ DOMAIN d = Fields /\ d.goto = [c.goto EXCEPT ![f] = x]
      /\ \A k \in Fields \ {"goto"} : d[k] = c[k]
  BY <1>1 DEF Fields
<1>3. d.goto.label = c.goto.label /\ DOMAIN d.goto = DOMAIN c.goto
  BY <1>1, <1>2
<1>4. /\ d.code = c.code /\ d.label = c.label /\ d.label_stack = c.label_stack
      /\ d.break_stack = c.break_stack /\ d.continue_stack = c.continue_stack
      /\ d.switch_stack = c.switch_stack
      /\ d.mTryStack = c.mTryStack /\ d.block_stack = c.block_stack
      /\ d.context_stack = c.context_stack /\ d.in_loop = c.in_loop
      /\ d.in_switch = c.in_switch /\ d.size = c.size /\ d.catch = c.catch
  BY <1>2 DEF Fields
<1>5. StackShape(d)
  BY <1>1, <1>3, <1>4 DEF StackShape
<1>6. CodeOK(d, {})
  BY <1>2, <1>3, <1>4, <1>5, AsideOK
<1>7. Later(c, d) /\ SameStacks(c, d)
  BY <1>1, <1>3, <1>4 DEF Later, SameStacks
<1>8. QED
  BY <1>1, <1>2, <1>4, <1>6, <1>7 DEF GotoSetPost

\* A goto, or its label, leaves the stacks alone.
LEMMA GotoPostSame ==
  ASSUME NEW c, CodeOK(c, {}), NEW d, GotoPost(c, {}, d)
  PROVE  CodeOK(d, {}) /\ Later(c, d) /\ SameStacks(c, d)
<1>1. Len(c.label) \in Nat
  BY ShapeFacts DEF CodeOK
<1>2. QED
  BY <1>1 DEF GotoPost, SameStacks

\* The stacks stay as they are, and the gotos get a label unless they have one.
Aimed(c, d, o, p) ==
  /\ CodeOK(d, {}) /\ Later(c, d) /\ SameStacks(c, d) /\ GotoOK(d)
  /\ d.goto.label = IF c.goto.label = 0 THEN Len(c.label) + 1 ELSE c.goto.label
  /\ o[Len(o)].k # "handlers" /\ OpenOK(p) /\ Len(p) = Len(o) /\ SameKinds(o, p, Len(o))

\* A goto is code, after the destruction of its scope's objects.
LEMMA GotoAimed ==
  ASSUME Compiling(cg, open), Goto
  PROVE  Aimed(cg, cg', open, open')
<1>1. PICK d : d = Begin(cg, open, "goto")
  OBVIOUS
<1>2. PICK e : e = DoGoto(d)
  OBVIOUS
<1>3. PICK from : cg' = [e EXCEPT !.goto.from = @ \union {from}] /\ open' = Complete(open)
  BY <1>1, <1>2 DEF Goto, Compile
<1>4. CodeOK(cg, {}) /\ OpenOK(open) /\ Standing(cg, open) /\ GotoOK(cg)
      /\ CodeShape(cg) /\ StackShape(cg)
  BY DEF Compiling, CodeOK
<1>5. open[Len(open)].k # "handlers"
  BY <1>4, TopIs DEF Goto, CanStart
<1>6. Quiet(cg, d) /\ d.context_stack = cg.context_stack
  BY <1>1, <1>4, HistoryQuiet
<1>7. CodeOK(d, {}) /\ Len(d.context_stack) >= 1 /\ CodeShape(d) /\ StackShape(d)
  BY <1>4, <1>6, TopFacts DEF TopPost, Quiet, CodeOK
<1>8. GotoPost(d, {}, e)
  BY <1>2, <1>7, DoGotoOK
<1>9. CodeOK(e, {}) /\ Later(d, e) /\ SameStacks(d, e) /\ CodeShape(e)
  BY <1>7, <1>8, GotoPostSame DEF CodeOK
<1>10. PICK x : x = e.goto.from \union {from}
  OBVIOUS
<1>11. cg' = [e EXCEPT !.goto = [@ EXCEPT !["from"] = x]]
  BY <1>3, <1>10
<1>12. /\ CodeOK(cg', {}) /\ Later(e, cg') /\ SameStacks(e, cg') /\ cg'.label = e.label
       /\ cg'.goto = [e.goto EXCEPT !["from"] = x]
       /\ DOMAIN e.goto = {"label", "context", "from", "to"}
  <2>1. PICK f \in {"from", "to"} : f = "from"
    OBVIOUS
  <2>2. cg' = [e EXCEPT !.goto = [@ EXCEPT ![f] = x]]
    BY <1>11, <2>1
  <2>3. CodeOK(e, {})
    BY <1>9
  <2>4. GotoSetPost(e, cg', f, x)
    BY <2>2, <2>3, GotoSetOK
  <2>5. QED
    BY <2>1, <2>4 DEF GotoSetPost
<1>13. Later(d, cg') /\ SameStacks(d, cg') /\ CodeShape(cg')
  BY <1>7, <1>9, <1>12, LaterTwice, SameStacksTwice DEF CodeOK
<1>14. Later(cg, cg') /\ SameStacks(cg, cg')
  BY <1>4, <1>6, <1>7, <1>13, LaterTwice, SameStacksTwice DEF Quiet
<1>15. GotoOK(d)
  BY <1>4, <1>6, GotoKept DEF Quiet
<1>16. GotoOK(cg')
  <2>1. cg'.goto.label = e.goto.label /\ cg'.goto.to = e.goto.to /\ cg'.goto.from = x
    BY <1>12
  <2>2. x # {}
    BY <1>10
  <2>3. e.goto.to = d.goto.to /\ (d.goto.label # 0 => e.goto.label = d.goto.label)
    BY <1>8 DEF GotoPost
  <2>4. d.goto.label # 0 => d.goto.label \in 1 .. Len(d.label)
    <3>1. d.goto.label \in 0 .. Len(d.label) /\ Len(d.label) \in Nat
      BY <1>7, ShapeFacts DEF StackShape
    <3>2. QED
      BY <3>1
  <2>5. QED
    BY <1>9, <1>12, <1>15, <2>1, <2>2, <2>3, <2>4 DEF GotoOK, Later
<1>17. OpenOK(open') /\ Len(open') = Len(open) /\ SameKinds(open, open', Len(open))
  BY <1>3, <1>4, CompleteOpen
<1>18. cg'.goto.label = IF cg.goto.label = 0 THEN Len(cg.label) + 1 ELSE cg.goto.label
  <2>1. d.goto = cg.goto /\ d.label = cg.label
    BY <1>1, <1>4, HistoryOK DEF Aside, Frame
  <2>2. cg'.goto.label = e.goto.label
    BY <1>12
  <2>3. QED
    BY <1>8, <2>1, <2>2 DEF GotoPost
<1>19. QED
  BY <1>5, <1>12, <1>14, <1>16, <1>17, <1>18 DEF Aimed

\* A goto.
LEMMA GotoKeeps ==
  ASSUME Compiling(cg, open), Goto
  PROVE  Compiling(cg', open')
BY GotoAimed, SameStacksOK DEF Aimed

\* The label is no code, but what jumped to it leads here.
LEMMA LabelAimed ==
  ASSUME Compiling(cg, open), Label
  PROVE  Aimed(cg, cg', open, open')
<1>1. PICK e : e = GotoLabel(cg)
  OBVIOUS
<1>2. PICK x : x = {Place(open)}
  OBVIOUS
<1>3. cg' = [e EXCEPT !.goto = [@ EXCEPT !["to"] = x]] /\ open' = open
  BY <1>1, <1>2 DEF Label, Compile
<1>4. CodeOK(cg, {}) /\ OpenOK(open) /\ CodeShape(cg)
  BY DEF Compiling, CodeOK
<1>5. open[Len(open)].k # "handlers"
  BY <1>4, TopIs DEF Label, CanStart
<1>6. GotoPost(cg, {}, e) /\ e.label[e.goto.label].to # 0
  BY <1>1, <1>4, GotoLabelOK
<1>7. CodeOK(e, {}) /\ Later(cg, e) /\ SameStacks(cg, e) /\ CodeShape(e)
  BY <1>4, <1>6, GotoPostSame DEF CodeOK
<1>8. /\ CodeOK(cg', {}) /\ Later(e, cg') /\ SameStacks(e, cg') /\ cg'.label = e.label
      /\ cg'.goto = [e.goto EXCEPT !["to"] = x]
      /\ DOMAIN e.goto = {"label", "context", "from", "to"}
  <2>1. PICK f \in {"from", "to"} : f = "to"
    OBVIOUS
  <2>2. cg' = [e EXCEPT !.goto = [@ EXCEPT ![f] = x]]
    BY <1>3, <2>1
  <2>3. CodeOK(e, {})
    BY <1>7
  <2>4. GotoSetPost(e, cg', f, x)
    BY <2>2, <2>3, GotoSetOK
  <2>5. QED
    BY <2>1, <2>4 DEF GotoSetPost
<1>9. Later(cg, cg') /\ SameStacks(cg, cg')
  BY <1>4, <1>7, <1>8, LaterTwice, SameStacksTwice DEF CodeOK
<1>10. GotoOK(cg')
  <2>1. cg'.goto.label = e.goto.label /\ cg'.goto.to = x
    BY <1>8
  <2>2. x # {} /\ e.goto.label \in 1 .. Len(e.label) /\ Len(e.label) \in Nat
    BY <1>2, <1>6, <1>7, ShapeFacts DEF GotoPost
  <2>3. QED
    BY <1>6, <1>8, <2>1, <2>2 DEF GotoOK
<1>11. SameKinds(open, open', Len(open))
  BY <1>3 DEF SameKinds
<1>12. cg'.goto.label = IF cg.goto.label = 0 THEN Len(cg.label) + 1 ELSE cg.goto.label
  <2>1. cg'.goto.label = e.goto.label
    BY <1>8
  <2>2. QED
    BY <1>6, <2>1 DEF GotoPost
<1>13. QED
  BY <1>3, <1>4, <1>5, <1>8, <1>9, <1>10, <1>11, <1>12 DEF Aimed

\* The label of the gotos.
LEMMA LabelKeeps ==
  ASSUME Compiling(cg, open), Label
  PROVE  Compiling(cg', open')
BY LabelAimed, SameStacksOK DEF Aimed

-----------------------------------------------------------------------------
(* Statements that open                                                    *)
\* A loop stays open unless the statement that ends is one.
LEMMA LoopsKept ==
  ASSUME NEW o, NEW p, NEW m \in Nat, SameKinds(o, p, m), m <= Len(p), Len(p) \in Nat,
         Len(o) \in Nat, m = Len(o) \/ (m = Len(o) - 1 /\ o[Len(o)].k \notin Loops),
         SomeLoop(o)
  PROVE  SomeLoop(p)
<1>1. PICK i \in 1 .. Len(o) : o[i].k \in Loops
  BY DEF SomeLoop
<1>2. i # Len(o) \/ m = Len(o)
  BY <1>1
<1>3. i \in 1 .. m /\ i \in 1 .. Len(p)
  BY <1>2
<1>4. p[i].k \in Loops
  BY <1>1, <1>3 DEF SameKinds
<1>5. QED
  BY <1>3, <1>4 DEF SomeLoop

\* The heights above a statement that owns no block.
LEMMA PlainStands ==
  ASSUME NEW x \in Heights, NEW k, ~Owns(k), NEW F, NEW d,
         Len(d.label_stack) = x.label + LabelsOf(k), Len(d.break_stack) = x.brk,
         Len(d.continue_stack) = x.cont, Len(d.switch_stack) = x.sw,
         Len(d.context_stack) = x.ctx, Len(d.block_stack) = x.blk,
         Len(d.mTryStack) = x.try + Bit(k \in {"try", "handlers"})
  PROVE  Tops(d) = After(x, k, F)
<1>1. Bit(FALSE) = 0
  BY DEF Bit
<1>2. /\ x.brk + Bit(Owns(k) /\ "BREAKABLE" \in F) = x.brk
      /\ x.cont + Bit(Owns(k) /\ "CONTINUEABLE" \in F) = x.cont
      /\ x.sw + Bit(Owns(k) /\ "IN_SWITCH" \in F) = x.sw
      /\ x.ctx + Bit(Owns(k) /\ "CONTEXT_PUSHED" \in F) = x.ctx
      /\ x.blk + Bit(Owns(k)) = x.blk
  <2>1. /\ (Owns(k) /\ "BREAKABLE" \in F) = FALSE /\ (Owns(k) /\ "CONTINUEABLE" \in F) = FALSE
        /\ (Owns(k) /\ "IN_SWITCH" \in F) = FALSE /\ (Owns(k) /\ "CONTEXT_PUSHED" \in F) = FALSE
    OBVIOUS
  <2>2. /\ Bit(Owns(k) /\ "BREAKABLE" \in F) = 0 /\ Bit(Owns(k) /\ "CONTINUEABLE" \in F) = 0
        /\ Bit(Owns(k) /\ "IN_SWITCH" \in F) = 0 /\ Bit(Owns(k) /\ "CONTEXT_PUSHED" \in F) = 0
        /\ Bit(Owns(k)) = 0
    BY <2>1 DEF Bit
  <2>3. QED
    BY <2>2 DEF Heights
<1>3. QED
  BY <1>2 DEF Tops, After

\* Statements that only work on the label stack, with x below them.
LabelOpens(c, d, k) ==
  /\ CodeOK(d, {}) /\ Later(c, d)
  /\ d.break_stack = c.break_stack /\ d.continue_stack = c.continue_stack
  /\ d.switch_stack = c.switch_stack /\ d.mTryStack = c.mTryStack
  /\ d.block_stack = c.block_stack /\ d.context_stack = c.context_stack
  /\ d.in_switch = c.in_switch /\ d.goto = c.goto
  /\ Len(d.label_stack) = Len(c.label_stack) + LabelsOf(k)
  /\ Kept(c.label_stack, d.label_stack, Len(c.label_stack))
  /\ d.label_stack[Len(c.label_stack) + 1] = Len(c.label) + 1
  /\ k \in Loops => d.label_stack[Len(c.label_stack) + 2] = Len(c.label) + 2
  /\ \A l \in 1 .. Len(c.label) : In(d.label_stack, l) => In(c.label_stack, l)
  /\ k \in Loops => d.label[d.label_stack[Len(c.label_stack) + 1]].to # 0

\* An if or a loop that begins keeps what holds between two actions.
LEMMA LabelOpensOK ==
  ASSUME NEW c, NEW o, Compiling(c, o), NEW x, DOMAIN x = ItemFields,
         x.k \in {"if", "while", "do"}, o[Len(o)].k # "handlers", NEW d, LabelOpens(c, d, x.k),
         d.in_loop => x.k \in Loops \/ c.in_loop, NEW p, p = Append(o, x)
  PROVE  Compiling(d, p)
<1>1. /\ CodeShape(c) /\ StackShape(c) /\ OpenOK(o) /\ Standing(c, o) /\ GotoOK(c) /\ Apart(c)
      /\ c.in_switch = FALSE /\ (c.in_loop => SomeLoop(o))
  BY DEF Compiling, CodeOK
<1>2. /\ x.k # "function" /\ x.k # "catch" /\ x.k # "handlers" /\ x.k # "try" /\ ~Owns(x.k)
  BY DEF Owns, Blocks
<1>3. /\ OpenOK(p) /\ Len(p) = Len(o) + 1 /\ SameKinds(o, p, Len(o))
      /\ p[Len(o) + 1] = x /\ Last(p) = x
  <2>1. CanAppend(o, x) /\ OpenOK(o)
    BY <1>1, <1>2 DEF CanAppend
  <2>2. QED
    BY <2>1, AppendOpen, ZenonT(60) DEF AppendPost
<1>4. Len(o) \in Nat /\ Len(p) \in Nat /\ Len(o) + 1 \in 1 .. Len(p)
  BY <1>1, <1>3, SeqShape DEF OpenOK
<1>5. PICK y : y = Tops(c)
  OBVIOUS
<1>6. y \in Heights
  BY <1>1, <1>5, TopFacts DEF TopPost
<1>7. Tops(d) = After(y, x.k, FlagsAt(d, y))
  <2>1. x.k \notin {"try", "handlers"}
    BY <1>2
  <2>2. Len(d.mTryStack) = y.try + Bit(x.k \in {"try", "handlers"})
    BY <1>5, <1>6, <2>1 DEF Bit, LabelOpens, Tops, Heights
  <2>3. /\ Len(d.label_stack) = y.label + LabelsOf(x.k) /\ Len(d.break_stack) = y.brk
        /\ Len(d.continue_stack) = y.cont /\ Len(d.switch_stack) = y.sw
        /\ Len(d.context_stack) = y.ctx /\ Len(d.block_stack) = y.blk
    BY <1>5 DEF Tops, LabelOpens
  <2>4. QED
    BY <1>2, <1>6, <2>2, <2>3, PlainStands
<1>8. Agree(c, d, y)
  BY <1>5 DEF Agree, Kept, Tops, LabelOpens
<1>9. ItemOK(d, y, x.k)
  <2>1. y.label = Len(c.label_stack)
    BY <1>5 DEF Tops
  <2>2. QED
    BY <1>2, <2>1 DEF ItemOK, LabelOpens
<1>10. Standing(d, p)
  <2>1. Later(c, d) /\ x.k = p[Len(o) + 1].k
    BY <1>3 DEF LabelOpens
  <2>2. QED
    BY <1>1, <1>3, <1>5, <1>7, <1>8, <1>9, <2>1, OpenStanding
<1>11. Apart(d)
  <2>1. \A l \in 1 .. Len(c.label) : Other(d, l) => Other(c, l)
    BY DEF LabelOpens, Other
  <2>2. d.mTryStack = c.mTryStack
    BY DEF LabelOpens
  <2>3. QED
    BY <1>1, <2>1, <2>2, ApartKept
<1>12. GotoOK(d)
  BY <1>1, GotoKept DEF LabelOpens, GotoSame
<1>13. d.in_loop => SomeLoop(p)
  <2>1. CASE x.k \in Loops
    BY <1>3, <1>4, <2>1 DEF SomeLoop
  <2>2. CASE x.k \notin Loops
    <3>1. SUFFICES ASSUME SomeLoop(o) PROVE SomeLoop(p)
      BY <1>1, <2>2
    <3>2. PICK m \in Nat : m = Len(o)
      BY <1>4
    <3>3. m <= Len(p) /\ SameKinds(o, p, m)
      BY <1>3, <1>4, <3>2
    <3>4. QED
      BY <1>4, <3>1, <3>2, <3>3, LoopsKept
  <2>3. QED
    BY <2>1, <2>2
<1>14. Handlers(d, p)
  <2>1. p[Len(p)].k # "handlers"
    BY <1>2, <1>3
  <2>2. QED
    BY <2>1 DEF Handlers
<1>15. QED
  BY <1>1, <1>3, <1>10, <1>11, <1>12, <1>13, <1>14 DEF Compiling, LabelOpens

\* An if pushes the label behind it.
LEMMA IfOpens ==
  ASSUME Compiling(cg, open), If
  PROVE  LabelOpens(cg, cg', "if") /\ cg'.in_loop = cg.in_loop
<1>1. PICK d : d = Begin(cg, open, "")
  OBVIOUS
<1>2. cg' = LabelJump(d, "JZ", TRUE)
  BY <1>1 DEF If, Compile
<1>3. CodeOK(cg, {}) /\ OpenOK(open) /\ CodeShape(cg) /\ StackShape(cg)
  BY DEF Compiling, CodeOK
<1>4. CodeOK(d, {}) /\ Aside(cg, d) /\ Later(cg, d)
  BY <1>1, <1>3, HistoryOK
<1>5. GrowPost(d, {}, cg', Len(d.label) + 1)
  BY <1>2, <1>4, LabelJumpOK DEF JumpOps
<1>6. Len(cg.label_stack) \in Nat /\ Len(cg.label) \in Nat
  BY <1>3, StackFacts, ShapeFacts
<1>7. LabelOpens(cg, cg', "if")
  <2>1. /\ d.label_stack = cg.label_stack /\ Len(d.label) = Len(cg.label)
        /\ CodeShape(d)
    BY <1>4 DEF Aside, Frame, CodeOK
  <2>2. Later(cg, cg') /\ CodeOK(cg', {})
    BY <1>3, <1>4, <1>5, <2>1, LaterTwice DEF GrowPost, Works, CodeOK
  <2>3. /\ cg'.break_stack = cg.break_stack /\ cg'.continue_stack = cg.continue_stack
        /\ cg'.switch_stack = cg.switch_stack /\ cg'.mTryStack = cg.mTryStack
        /\ cg'.block_stack = cg.block_stack /\ cg'.context_stack = cg.context_stack
        /\ cg'.in_switch = cg.in_switch /\ cg'.goto = cg.goto
    BY <1>4, <1>5 DEF GrowPost, Works, LabelFrame, Aside, Frame
  <2>4. Grows(cg.label_stack, cg'.label_stack, Len(cg.label) + 1)
    BY <1>5, <2>1 DEF GrowPost, Grows
  <2>5. \A l \in 1 .. Len(cg.label) : In(cg'.label_stack, l) => In(cg.label_stack, l)
    BY <1>6, <2>4, GrowsIn
  <2>6. LabelsOf("if") = 1 /\ "if" \notin Loops
    BY DEF LabelsOf, Loops
  <2>7. QED
    BY <2>2, <2>3, <2>4, <2>5, <2>6 DEF LabelOpens, Grows
<1>8. cg'.in_loop = cg.in_loop
  BY <1>4, <1>5 DEF GrowPost, Works, LabelFrame, Aside, Frame
<1>9. QED
  BY <1>7, <1>8

\* An if.
LEMMA IfKeeps ==
  ASSUME Compiling(cg, open), If
  PROVE  Compiling(cg', open')
<1>1. PICK x : x = Item("if", <<>>)
  OBVIOUS
<1>2. open' = Append(open, x) /\ open[Len(open)].k # "handlers"
  BY <1>1, TopIs DEF If, Compile, CanOpen, CanStart, Compiling
<1>3. DOMAIN x = ItemFields /\ x.k = "if"
  BY <1>1 DEF Item, ItemFields
<1>4. LabelOpens(cg, cg', "if") /\ cg'.in_loop = cg.in_loop
  BY IfOpens
<1>5. QED
  BY <1>2, <1>3, <1>4, LabelOpensOK
\* All but the code and whether a loop waits for its block is as it was.
LoopAside(c, d) ==
  /\ DOMAIN d = DOMAIN c /\ d.label = c.label /\ d.label_stack = c.label_stack
  /\ d.break_stack = c.break_stack /\ d.continue_stack = c.continue_stack
  /\ d.switch_stack = c.switch_stack /\ d.mTryStack = c.mTryStack
  /\ d.block_stack = c.block_stack /\ d.context_stack = c.context_stack
  /\ d.in_switch = c.in_switch /\ d.goto = c.goto
  /\ d.size = c.size /\ d.catch = c.catch
SetLoopPost(c, X, d, b) == CodeOK(d, X) /\ LoopAside(c, d) /\ d.in_loop = b

\* Whether a loop waits for its block is no label's business.
LEMMA SetLoopOK ==
  ASSUME NEW c, NEW X, CodeOK(c, X), NEW b \in BOOLEAN, NEW d, d = [c EXCEPT !.in_loop = b]
  PROVE  SetLoopPost(c, X, d, b)
<1>1. CodeShape(c) /\ StackShape(c) /\ DOMAIN c = Fields
  BY DEF CodeOK, CodeShape
<1>2. DOMAIN d = Fields /\ d.in_loop = b /\ \A f \in Fields \ {"in_loop"} : d[f] = c[f]
  BY <1>1 DEF Fields
<1>3. LoopAside(c, d) /\ d.code = c.code
  BY <1>1, <1>2 DEF LoopAside, Fields
<1>4. StackShape(d)
  BY <1>1, <1>2, <1>3 DEF StackShape, LoopAside
<1>5. d.goto.label = c.goto.label
  BY <1>3 DEF LoopAside
<1>6. CodeOK(d, X)
  BY <1>2, <1>3, <1>4, <1>5, AsideOK DEF LoopAside
<1>7. QED
  BY <1>2, <1>3, <1>6 DEF SetLoopPost

\* A loop begins with a label that is put and one that is not.
LEMMA TwoLabels ==
  ASSUME NEW c, CodeOK(c, {}), NEW e, GrowPost(c, {}, e, Len(c.label) + 1),
         e.label[Len(c.label) + 1].to # 0, NEW f, LoopAside(e, f), CodeOK(f, {}),
         NEW g, GrowPost(f, {}, g, Len(f.label) + 1), NEW d, LoopAside(g, d),
         CodeOK(d, {}), NEW k \in Loops
  PROVE  LabelOpens(c, d, k)
<1>1. /\ CodeShape(c) /\ StackShape(c) /\ CodeShape(e) /\ CodeShape(f) /\ CodeShape(g)
      /\ CodeShape(d) /\ Len(c.label) \in Nat /\ Len(c.label_stack) \in Nat
  BY ShapeFacts, StackFacts DEF CodeOK, GrowPost, Works
<1>2. /\ Len(e.label) = Len(c.label) + 1 /\ Len(e.label_stack) = Len(c.label_stack) + 1
      /\ Kept(c.label_stack, e.label_stack, Len(c.label_stack))
      /\ e.label_stack[Len(c.label_stack) + 1] = Len(c.label) + 1
      /\ LabelFrame(c, e) /\ Later(c, e)
  BY DEF GrowPost, Works
<1>3. f.label = e.label /\ f.label_stack = e.label_stack /\ d.label = g.label
      /\ d.label_stack = g.label_stack
  BY DEF LoopAside
<1>4. /\ Len(g.label) = Len(c.label) + 2 /\ Len(g.label_stack) = Len(c.label_stack) + 2
      /\ Kept(e.label_stack, g.label_stack, Len(c.label_stack) + 1)
      /\ g.label_stack[Len(c.label_stack) + 2] = Len(c.label) + 2
      /\ LabelFrame(f, g) /\ Later(f, g)
  <2>1. /\ Len(g.label) = Len(f.label) + 1 /\ Len(g.label_stack) = Len(f.label_stack) + 1
        /\ Kept(f.label_stack, g.label_stack, Len(f.label_stack))
        /\ g.label_stack[Len(f.label_stack) + 1] = Len(f.label) + 1
        /\ LabelFrame(f, g) /\ Later(f, g)
    BY DEF GrowPost, Works
  <2>2. Len(f.label) = Len(c.label) + 1 /\ Len(f.label_stack) = Len(c.label_stack) + 1
    BY <1>2, <1>3
  <2>3. /\ Len(c.label) + 1 + 1 = Len(c.label) + 2
        /\ Len(c.label_stack) + 1 + 1 = Len(c.label_stack) + 2
    BY <1>1
  <2>4. QED
    BY <1>3, <2>1, <2>2, <2>3
<1>5. /\ Len(d.label_stack) = Len(c.label_stack) + 2
      /\ Kept(c.label_stack, d.label_stack, Len(c.label_stack))
      /\ d.label_stack[Len(c.label_stack) + 1] = Len(c.label) + 1
      /\ d.label_stack[Len(c.label_stack) + 2] = Len(c.label) + 2
  <2>1. \A i \in 1 .. Len(c.label_stack) : i \in 1 .. Len(c.label_stack) + 1
    BY <1>1
  <2>2. Len(c.label_stack) + 1 \in 1 .. Len(c.label_stack) + 1
    BY <1>1
  <2>3. QED
    BY <1>2, <1>3, <1>4, <2>1, <2>2 DEF Kept
<1>6. ASSUME NEW l \in 1 .. Len(c.label), In(d.label_stack, l)
      PROVE  In(c.label_stack, l)
  <2>1. PICK i \in 1 .. Len(d.label_stack) : l = d.label_stack[i]
    BY <1>6 DEF In
  <2>2. i # Len(c.label_stack) + 1 /\ i # Len(c.label_stack) + 2
    BY <1>1, <1>5, <2>1, SMTT(40)
  <2>3. i \in 1 .. Len(c.label_stack)
    BY <1>1, <1>5, <2>1, <2>2, SMTT(40)
  <2>4. QED
    BY <1>5, <2>1, <2>3 DEF Kept, In
<1>7. Later(c, d)
  <2>1. Later(e, g)
    BY <1>3, <1>4 DEF Later
  <2>2. Later(c, g)
    BY <1>1, <1>2, <2>1, LaterTwice
  <2>3. QED
    BY <1>3, <2>2 DEF Later
<1>8. d.label[d.label_stack[Len(c.label_stack) + 1]].to # 0
  <2>1. Len(c.label) + 1 \in 1 .. Len(e.label)
    BY <1>1, <1>2
  <2>2. g.label[Len(c.label) + 1].to # 0
    BY <1>3, <1>4, <2>1 DEF Later
  <2>3. QED
    BY <1>3, <1>5, <2>2
<1>9. /\ d.break_stack = c.break_stack /\ d.continue_stack = c.continue_stack
      /\ d.switch_stack = c.switch_stack /\ d.mTryStack = c.mTryStack
      /\ d.block_stack = c.block_stack /\ d.context_stack = c.context_stack
      /\ d.in_switch = c.in_switch /\ d.goto = c.goto
  <2>1. LabelFrame(c, e) /\ LoopAside(e, f) /\ LabelFrame(f, g) /\ LoopAside(g, d)
    BY <1>2, <1>4
  <2>2. QED
    BY <2>1 DEF LabelFrame, LoopAside
<1>10. LabelsOf(k) = 2
  BY DEF LabelsOf
<1>11. QED
  BY <1>5, <1>6, <1>7, <1>8, <1>9, <1>10 DEF LabelOpens

\* The start of a loop whose condition comes first.
LEMMA StartLoopOK ==
  ASSUME NEW c, CodeOK(c, {}), NEW o, NEW d, d = StartLoop(c, o), NEW k \in Loops
  PROVE  LabelOpens(c, d, k)
<1>1. PICK e : e = LabelHere(c)
  OBVIOUS
<1>2. GrowPost(c, {}, e, Len(c.label) + 1) /\ e.label[Len(c.label) + 1].to # 0
  BY <1>1, LabelHereOK
<1>3. PICK b : b = TRUE
  OBVIOUS
<1>4. PICK a : a = [e EXCEPT !.in_loop = b]
  OBVIOUS
<1>5. SetLoopPost(e, {}, a, b)
  <2>1. CodeOK(e, {}) /\ b \in BOOLEAN
    BY <1>2, <1>3 DEF GrowPost, Works
  <2>2. QED
    BY <1>4, <2>1, SetLoopOK
<1>6. PICK f : f = Begin(a, o, "")
  OBVIOUS
<1>7. CodeOK(f, {}) /\ Aside(a, f)
  BY <1>5, <1>6, HistoryOK DEF SetLoopPost
<1>8. LoopAside(e, f)
  BY <1>5, <1>7 DEF SetLoopPost, LoopAside, Aside, Frame
<1>9. d = LabelJump(f, "JZ", TRUE)
  BY <1>1, <1>3, <1>4, <1>6 DEF StartLoop
<1>10. GrowPost(f, {}, d, Len(f.label) + 1)
  BY <1>7, <1>9, LabelJumpOK DEF JumpOps
<1>11. LoopAside(d, d) /\ CodeOK(d, {})
  BY <1>10 DEF LoopAside, GrowPost, Works
<1>12. QED
  BY <1>2, <1>7, <1>8, <1>10, <1>11, TwoLabels

\* A while.
LEMMA WhileKeeps ==
  ASSUME Compiling(cg, open), While
  PROVE  Compiling(cg', open')
<1>1. PICK x : x = Item("while", <<>>)
  OBVIOUS
<1>2. PICK o : o = Append(open, x)
  OBVIOUS
<1>3. cg' = StartLoop(cg, o) /\ open' = o
  BY <1>1, <1>2 DEF While, Compile
<1>4. CodeOK(cg, {}) /\ OpenOK(open)
  BY DEF Compiling
<1>5. open[Len(open)].k # "handlers"
  BY <1>4, TopIs DEF While, CanOpen, CanStart
<1>6. DOMAIN x = ItemFields /\ x.k = "while" /\ "while" \in Loops
  BY <1>1 DEF Item, ItemFields, Loops
<1>7. LabelOpens(cg, cg', "while")
  BY <1>3, <1>4, <1>6, StartLoopOK
<1>8. QED
  BY <1>2, <1>3, <1>5, <1>6, <1>7, LabelOpensOK

\* A do pushes the label it jumps back to and the one behind it.
LEMMA DoOpens ==
  ASSUME Compiling(cg, open), Do
  PROVE  LabelOpens(cg, cg', "do") /\ cg'.in_loop = TRUE
<1>1. PICK e : e = LabelHere(cg)
  OBVIOUS
<1>2. PICK g : g = PushLabelStack(e)
  OBVIOUS
<1>3. PICK b : b = TRUE
  OBVIOUS
<1>4. cg' = [g EXCEPT !.in_loop = b]
  BY <1>1, <1>2, <1>3 DEF Do, Compile
<1>5. CodeOK(cg, {}) /\ OpenOK(open)
  BY DEF Compiling
<1>6. "do" \in Loops
  BY DEF Loops
<1>7. GrowPost(cg, {}, e, Len(cg.label) + 1) /\ e.label[Len(cg.label) + 1].to # 0
  BY <1>1, <1>5, LabelHereOK
<1>8. LoopAside(e, e) /\ CodeOK(e, {})
  BY <1>7 DEF LoopAside, GrowPost, Works
<1>9. PushLabelPost(e, {}, g, Len(e.label) + 1)
  BY <1>2, <1>8, PushLabelStackOK
<1>10. GrowPost(e, {}, g, Len(e.label) + 1)
  BY <1>9 DEF PushLabelPost, GrowPost, Works, Kept
<1>11. SetLoopPost(g, {}, cg', b)
  <2>1. CodeOK(g, {}) /\ b \in BOOLEAN
    BY <1>3, <1>10 DEF GrowPost, Works
  <2>2. QED
    BY <1>4, <2>1, SetLoopOK
<1>12. LabelOpens(cg, cg', "do")
  <2>1. LoopAside(g, cg') /\ CodeOK(cg', {})
    BY <1>11 DEF SetLoopPost
  <2>2. QED
    BY <1>5, <1>6, <1>7, <1>8, <1>10, <2>1, TwoLabels
<1>13. QED
  BY <1>3, <1>11, <1>12 DEF SetLoopPost

\* A do.
LEMMA DoKeeps ==
  ASSUME Compiling(cg, open), Do
  PROVE  Compiling(cg', open')
<1>1. PICK x : x = Item("do", <<>>)
  OBVIOUS
<1>2. open' = Append(open, x) /\ open[Len(open)].k # "handlers"
  BY <1>1, TopIs DEF Do, Compile, CanOpen, CanStart, Compiling
<1>3. DOMAIN x = ItemFields /\ x.k = "do" /\ "do" \in Loops
  BY <1>1 DEF Item, ItemFields, Loops
<1>4. LabelOpens(cg, cg', "do")
  BY DoOpens
<1>5. QED
  BY <1>2, <1>3, <1>4, LabelOpensOK
-----------------------------------------------------------------------------
(* Blocks                                                                  *)

\* A block with flags F has been put on the stacks, above the heights x.
BlockBegun(c, d, x, F) ==
  /\ Agree(c, d, x) /\ FlagsAt(d, x) = F /\ "IN_SWITCH" \notin F
  /\ "BREAKABLE" \in F =>
       x.label >= 1 /\ d.break_stack[x.brk + 1] = d.label_stack[x.label]
  /\ Len(d.break_stack) = x.brk + Bit("BREAKABLE" \in F)
  /\ Len(d.continue_stack) = x.cont + Bit("CONTINUEABLE" \in F)
  /\ Len(d.switch_stack) = x.sw /\ Len(d.block_stack) = x.blk + 1
  /\ \A l \in 1 .. Len(c.label) : Other(d, l) => Other(c, l)

\* init_block() begins a block above what is on the stacks.
LEMMA InitBegun ==
  ASSUME NEW c, CodeOK(c, {}), c.in_switch = FALSE, c.in_loop => Len(c.label_stack) >= 1,
         NEW d, InitPost(c, {}, d), NEW x, x = Tops(c)
  PROVE  BlockBegun(c, d, x, BlockFlags(c))
<1>1. /\ CodeShape(c) /\ StackShape(c) /\ Len(c.label_stack) \in Nat /\ Len(c.label) \in Nat
      /\ Len(c.break_stack) \in Nat /\ Len(c.continue_stack) \in Nat /\ c.in_loop \in BOOLEAN
      /\ Len(c.block_stack) \in Nat
  BY ShapeFacts, StackFacts DEF CodeOK, StackShape
<1>2. /\ x.label = Len(c.label_stack) /\ x.brk = Len(c.break_stack)
      /\ x.cont = Len(c.continue_stack) /\ x.sw = Len(c.switch_stack)
      /\ x.blk = Len(c.block_stack)
  BY DEF Tops
<1>3. /\ d.label_stack = c.label_stack /\ d.switch_stack = c.switch_stack
      /\ Grows(c.block_stack, d.block_stack, BlockFlags(c))
      /\ d.goto = c.goto
      /\ IF c.in_loop
         THEN /\ Grows(c.break_stack, d.break_stack, c.label_stack[Len(c.label_stack)])
              /\ Grows(c.continue_stack, d.continue_stack, Len(c.label) + 1)
         ELSE d.break_stack = c.break_stack /\ d.continue_stack = c.continue_stack
  BY DEF InitPost
<1>4. /\ "IN_SWITCH" \notin BlockFlags(c)
      /\ "BREAKABLE" \in BlockFlags(c) <=> c.in_loop
      /\ "CONTINUEABLE" \in BlockFlags(c) <=> c.in_loop
  BY <1>1 DEF BlockFlags
<1>5. Agree(c, d, x)
  BY <1>2, <1>3 DEF Agree, Kept, Grows
<1>6. FlagsAt(d, x) = BlockFlags(c) /\ Len(d.block_stack) = x.blk + 1
  BY <1>2, <1>3 DEF FlagsAt, Grows
<1>7. "BREAKABLE" \in BlockFlags(c) =>
        x.label >= 1 /\ d.break_stack[x.brk + 1] = d.label_stack[x.label]
  BY <1>2, <1>3, <1>4 DEF Grows
<1>8. /\ Len(d.break_stack) = x.brk + Bit("BREAKABLE" \in BlockFlags(c))
      /\ Len(d.continue_stack) = x.cont + Bit("CONTINUEABLE" \in BlockFlags(c))
  <2>1. CASE c.in_loop
    <3>1. Bit("BREAKABLE" \in BlockFlags(c)) = 1 /\ Bit("CONTINUEABLE" \in BlockFlags(c)) = 1
      BY <1>4, <2>1 DEF Bit
    <3>2. QED
      BY <1>2, <1>3, <2>1, <3>1 DEF Grows
  <2>2. CASE ~c.in_loop
    <3>1. Bit("BREAKABLE" \in BlockFlags(c)) = 0 /\ Bit("CONTINUEABLE" \in BlockFlags(c)) = 0
      BY <1>4, <2>2 DEF Bit
    <3>2. QED
      BY <1>1, <1>2, <1>3, <2>2, <3>1
  <2>3. QED
    BY <2>1, <2>2
<1>9. ASSUME NEW l \in 1 .. Len(c.label), Other(d, l)
      PROVE  Other(c, l)
  <2>1. In(d.break_stack, l) => In(c.break_stack, l) \/ In(c.label_stack, l)
    <3>1. CASE c.in_loop
      <4>1. In(d.break_stack, l) => l = c.label_stack[Len(c.label_stack)] \/ In(c.break_stack, l)
        BY <1>1, <1>3, <3>1, GrowsIn
      <4>2. Len(c.label_stack) \in 1 .. Len(c.label_stack)
        BY <1>1, <3>1
      <4>3. QED
        BY <4>1, <4>2 DEF In
    <3>2. CASE ~c.in_loop
      BY <1>3, <3>2
    <3>3. QED
      BY <3>1, <3>2
  <2>2. In(d.continue_stack, l) => In(c.continue_stack, l)
    <3>1. CASE c.in_loop
      <4>1. In(d.continue_stack, l) => l = Len(c.label) + 1 \/ In(c.continue_stack, l)
        BY <1>1, <1>3, <3>1, GrowsIn
      <4>2. l # Len(c.label) + 1
        BY <1>1, <1>9
      <4>3. QED
        BY <4>1, <4>2
    <3>2. CASE ~c.in_loop
      BY <1>3, <3>2
    <3>3. QED
      BY <3>1, <3>2
  <2>3. QED
    BY <1>3, <1>9, <2>1, <2>2 DEF Other
<1>10. QED
  BY <1>2, <1>3, <1>4, <1>5, <1>6, <1>7, <1>8, <1>9 DEF BlockBegun

\* The block gets a context with its first object.
LEMMA ContextBegun ==
  ASSUME NEW c, NEW d, NEW x \in Heights, NEW F, BlockBegun(c, d, x, F),
         IsSeq(d.block_stack), NEW e, SameLabels(d, e), Contexted(d, e)
  PROVE  /\ BlockBegun(c, e, x, F \union {"CONTEXT_PUSHED"})
         /\ "CONTEXT_PUSHED" \notin F => Len(e.context_stack) = Len(d.context_stack) + 1
<1>1. x.blk \in Nat /\ Len(d.block_stack) = x.blk + 1 /\ FlagsAt(d, x) = F
  BY DEF BlockBegun, Heights
<1>2. /\ e.label_stack = d.label_stack /\ e.break_stack = d.break_stack
      /\ e.continue_stack = d.continue_stack /\ e.switch_stack = d.switch_stack
      /\ e.goto = d.goto
  BY DEF SameLabels
<1>3. /\ Len(e.block_stack) = x.blk + 1 /\ Kept(d.block_stack, e.block_stack, x.blk)
      /\ FlagsAt(e, x) = F \union {"CONTEXT_PUSHED"}
  BY <1>1 DEF Contexted, FlagsAt
<1>4. Agree(c, e, x)
  <2>1. Agree(c, d, x)
    BY DEF BlockBegun
  <2>2. QED
    BY <1>2, <1>3, <2>1 DEF Agree, Kept
<1>5. /\ "IN_SWITCH" \notin F \union {"CONTEXT_PUSHED"}
      /\ ("BREAKABLE" \in F \union {"CONTEXT_PUSHED"}) = ("BREAKABLE" \in F)
      /\ ("CONTINUEABLE" \in F \union {"CONTEXT_PUSHED"}) = ("CONTINUEABLE" \in F)
  BY DEF BlockBegun
<1>6. \A l \in 1 .. Len(c.label) : Other(e, l) => Other(c, l)
  BY <1>2 DEF BlockBegun, Other
<1>7. BlockBegun(c, e, x, F \union {"CONTEXT_PUSHED"})
  <2>1. /\ "BREAKABLE" \in F =>
             x.label >= 1 /\ d.break_stack[x.brk + 1] = d.label_stack[x.label]
        /\ Len(d.break_stack) = x.brk + Bit("BREAKABLE" \in F)
        /\ Len(d.continue_stack) = x.cont + Bit("CONTINUEABLE" \in F)
        /\ Len(d.switch_stack) = x.sw
    BY DEF BlockBegun
  <2>2. QED
    BY <1>2, <1>3, <1>4, <1>5, <1>6, <2>1 DEF BlockBegun
<1>8. ContextGenerated(d) <=> "CONTEXT_PUSHED" \in F
  <2>1. TOS(d, "block_stack") = F
    BY <1>1, SeqShape DEF TOS, FlagsAt
  <2>2. QED
    BY <2>1 DEF ContextGenerated
<1>9. QED
  BY <1>7, <1>8 DEF Contexted

\* What else has to be there for a statement of kind k.
BlockHeights(d, x, F, k) ==
  /\ Len(d.label_stack) = x.label + LabelsOf(k)
  /\ Len(d.context_stack) = x.ctx + Bit("CONTEXT_PUSHED" \in F)
  /\ Len(d.mTryStack) = x.try + Bit(k \in {"try", "handlers"})
  /\ k \in Loops => d.label[d.label_stack[x.label + 1]].to # 0
Stands(d, x, k) == Tops(d) = After(x, k, FlagsAt(d, x)) /\ ItemOK(d, x, k)

\* A block with the heights its kind needs stands.
LEMMA BlockStands ==
  ASSUME NEW c, NEW d, NEW x \in Heights, NEW F, BlockBegun(c, d, x, F),
         NEW k, Owns(k), k # "function", BlockHeights(d, x, F, k)
  PROVE  Stands(d, x, k)
<1>1. /\ FlagsAt(d, x) = F /\ "IN_SWITCH" \notin F
      /\ "BREAKABLE" \in F =>
           x.label >= 1 /\ d.break_stack[x.brk + 1] = d.label_stack[x.label]
      /\ Len(d.break_stack) = x.brk + Bit("BREAKABLE" \in F)
      /\ Len(d.continue_stack) = x.cont + Bit("CONTINUEABLE" \in F)
      /\ Len(d.switch_stack) = x.sw /\ Len(d.block_stack) = x.blk + 1
  BY DEF BlockBegun
<1>2. /\ (Owns(k) /\ "BREAKABLE" \in F) = ("BREAKABLE" \in F)
      /\ (Owns(k) /\ "CONTINUEABLE" \in F) = ("CONTINUEABLE" \in F)
      /\ (Owns(k) /\ "IN_SWITCH" \in F) = FALSE
      /\ (Owns(k) /\ "CONTEXT_PUSHED" \in F) = ("CONTEXT_PUSHED" \in F)
      /\ Owns(k) = TRUE
  BY <1>1
<1>3. x.sw + Bit(Owns(k) /\ "IN_SWITCH" \in F) = x.sw /\ x.blk + Bit(Owns(k)) = x.blk + 1
  BY <1>1, <1>2 DEF Bit, Heights
<1>4. Tops(d) = After(x, k, F)
  BY <1>1, <1>2, <1>3 DEF Tops, After, BlockHeights
<1>5. ItemOK(d, x, k)
  BY <1>1 DEF ItemOK, BlockHeights
<1>6. QED
  BY <1>1, <1>4, <1>5 DEF Stands

\* A statement that begins a block keeps what holds between two actions.
LEMMA BlockOpensOK ==
  ASSUME NEW c, NEW o, Compiling(c, o), NEW x, CanAppend(o, x), Owns(x.k),
         NEW d, CodeOK(d, {}), Later(c, d), GotoSame(c, d), Apart(d),
         d.in_switch = FALSE, d.in_loop => x.k \in Loops,
         NEW y, y = Tops(c), NEW F, BlockBegun(c, d, y, F),
         BlockHeights(d, y, F, x.k), NEW p, p = Append(o, x)
  PROVE  Compiling(d, p)
<1>1. CodeShape(c) /\ StackShape(c) /\ OpenOK(o) /\ Standing(c, o) /\ GotoOK(c)
  BY DEF Compiling, CodeOK
<1>2. OpenOK(p) /\ Len(p) = Len(o) + 1 /\ SameKinds(o, p, Len(o)) /\ p[Len(o) + 1] = x
  BY <1>1, AppendOpen, ZenonT(60) DEF AppendPost
<1>3. x.k # "function" /\ x.k # "handlers"
  BY DEF CanAppend, Owns, Blocks
<1>4. y \in Heights
  BY <1>1, TopFacts DEF TopPost
<1>5. Tops(d) = After(y, x.k, FlagsAt(d, y)) /\ ItemOK(d, y, x.k)
  BY <1>3, <1>4, BlockStands DEF Stands
<1>6. Agree(c, d, y) /\ x.k = p[Len(o) + 1].k
  BY <1>2 DEF BlockBegun
<1>7. Standing(d, p)
  BY <1>1, <1>2, <1>5, <1>6, OpenStanding
<1>8. GotoOK(d)
  BY <1>1, GotoKept
<1>9. Len(o) + 1 \in 1 .. Len(p)
  BY <1>1, <1>2, SeqShape DEF OpenOK
<1>10. d.in_loop => SomeLoop(p)
  BY <1>2, <1>9 DEF SomeLoop
<1>11. Handlers(d, p)
  BY <1>2, <1>3 DEF Handlers
<1>12. QED
  BY <1>2, <1>7, <1>8, <1>10, <1>11 DEF Compiling

\* What the actions that begin a block start from.
LEMMA InitKeeps ==
  ASSUME NEW c, NEW o, Compiling(c, o), NEW d, d = InitBlock(c), NEW y, y = Tops(c)
  PROVE  /\ InitPost(c, {}, d) /\ BlockBegun(c, d, y, BlockFlags(c)) /\ y \in Heights
         /\ "CONTEXT_PUSHED" \notin BlockFlags(c) /\ Later(c, d) /\ Apart(d)
         /\ d.label_stack = c.label_stack
<1>1. /\ CodeOK(c, {}) /\ CodeShape(c) /\ StackShape(c) /\ OpenOK(o) /\ Standing(c, o)
      /\ Apart(c) /\ c.in_switch = FALSE /\ (c.in_loop => SomeLoop(o))
  BY DEF Compiling, CodeOK
<1>2. PICK x : TopPost(c, o, x)
  BY <1>1, TopFacts
<1>3. Len(c.label_stack) \in Nat /\ (c.in_loop => Len(c.label_stack) >= 2) /\ y \in Heights
  BY <1>1, <1>2, StackFacts DEF TopPost, SomeLoop
<1>4. InitPost(c, {}, d)
  <2>1. c.in_loop \/ c.in_switch => Len(c.label_stack) >= 1
    BY <1>1, <1>3
  <2>2. QED
    BY <1>1, <2>1, InitBlockOK
<1>5. BlockBegun(c, d, y, BlockFlags(c))
  <2>1. c.in_loop => Len(c.label_stack) >= 1
    BY <1>3
  <2>2. QED
    BY <1>1, <1>4, <2>1, InitBegun
<1>6. "CONTEXT_PUSHED" \notin BlockFlags(c)
  BY DEF BlockFlags
<1>7. Later(c, d)
  BY <1>4 DEF InitPost, Later
<1>8. Apart(d)
  <2>1. d.mTryStack = c.mTryStack
    BY <1>4 DEF InitPost
  <2>2. \A l \in 1 .. Len(c.label) : Other(d, l) => Other(c, l)
    BY <1>5 DEF BlockBegun
  <2>3. QED
    BY <1>1, <2>1, <2>2, ApartKept
<1>9. QED
  BY <1>1, <1>3, <1>4, <1>5, <1>6, <1>7, <1>8 DEF InitPost

\* A block.
LEMMA OpenBlockKeeps ==
  ASSUME Compiling(cg, open), OpenBlock
  PROVE  Compiling(cg', open')
<1>1. PICK x : x = Item("block", <<>>)
  OBVIOUS
<1>2. cg' = InitBlock(cg) /\ open' = Append(open, x)
  BY <1>1 DEF OpenBlock, Compile
<1>3. DOMAIN x = ItemFields /\ x.k = "block"
  BY <1>1 DEF Item, ItemFields
<1>4. CanAppend(open, x)
  <2>1. open[Len(open)].k # "handlers"
    BY TopIs DEF OpenBlock, CanOpen, CanStart, Compiling
  <2>2. QED
    BY <1>3, <2>1 DEF CanAppend
<1>5. PICK y : y = Tops(cg)
  OBVIOUS
<1>6. PICK F : F = BlockFlags(cg)
  OBVIOUS
<1>7. /\ InitPost(cg, {}, cg') /\ BlockBegun(cg, cg', y, F) /\ y \in Heights
      /\ "CONTEXT_PUSHED" \notin F /\ Later(cg, cg') /\ Apart(cg')
      /\ cg'.label_stack = cg.label_stack
  BY <1>2, <1>5, <1>6, InitKeeps
<1>8. /\ CodeOK(cg', {}) /\ GotoSame(cg, cg') /\ cg'.in_switch = FALSE
      /\ (cg'.in_loop => x.k \in Loops)
      /\ cg'.context_stack = cg.context_stack /\ cg'.mTryStack = cg.mTryStack
  BY <1>7 DEF InitPost, GotoSame
<1>9. Owns(x.k) /\ x.k \notin Loops /\ LabelsOf(x.k) = 0 /\ x.k \notin {"try", "handlers"}
  BY <1>3 DEF Owns, Blocks, Loops, LabelsOf
<1>10. BlockHeights(cg', y, F, x.k)
  <2>1. Bit("CONTEXT_PUSHED" \in F) = 0 /\ Bit(x.k \in {"try", "handlers"}) = 0
    BY <1>7, <1>9 DEF Bit
  <2>2. /\ y.label = Len(cg.label_stack) /\ y.ctx = Len(cg.context_stack)
        /\ y.try = Len(cg.mTryStack) /\ y.label \in Nat /\ y.ctx \in Nat /\ y.try \in Nat
    BY <1>5, <1>7 DEF Tops, Heights
  <2>3. QED
    BY <1>7, <1>8, <1>9, <2>1, <2>2 DEF BlockHeights
<1>11. QED
  BY <1>2, <1>4, <1>5, <1>7, <1>8, <1>9, <1>10, BlockOpensOK

\* A declaration.
LEMMA DeclareKeeps ==
  ASSUME Compiling(cg, open), Declare
  PROVE  Compiling(cg', open')
<1>1. PICK d : d = Begin(cg, open, "")
  OBVIOUS
<1>2. PICK v : v = Append(Top.live, cg.size + 1)
  OBVIOUS
<1>3. /\ CodeOK(cg, {}) /\ CodeShape(cg) /\ StackShape(cg) /\ OpenOK(open)
      /\ Standing(cg, open) /\ GotoOK(cg) /\ Apart(cg)
      /\ cg.in_switch = FALSE /\ (cg.in_loop => SomeLoop(open))
  BY DEF Compiling, CodeOK
<1>4. /\ Top = open[Len(open)] /\ Len(open) \in Nat /\ Len(open) >= 1
      /\ Top.k \in Blocks \ {"switch"} /\ cg.size < MaxObjects
  BY <1>3, TopIs DEF Declare
<1>5. cg' = Construct(d, "TOSD") /\ open' = [open EXCEPT ![Len(open)] = [@ EXCEPT !["live"] = v]]
  BY <1>1, <1>2, <1>4 DEF Declare, Compile
<1>6. OpenOK(open') /\ Len(open') = Len(open) /\ SameKinds(open, open', Len(open))
  BY <1>3, <1>5, AlteredOpen, ZenonT(60)
<1>7. PICK x : TopPost(cg, open, x)
  BY <1>3, TopFacts
<1>8. PICK k : k = Top.k
  OBVIOUS
<1>9. /\ k = open[Len(open)].k /\ k = open'[Len(open')].k /\ Owns(k)
      /\ k \notin Loops /\ k # "handlers" /\ LabelsOf(k) = 0
  BY <1>4, <1>6, <1>8 DEF SameKinds, Owns, Blocks, Loops, LabelsOf
<1>10. CodeOK(d, {}) /\ Aside(cg, d) /\ DOMAIN d = Fields
  BY <1>1, <1>3, HistoryOK DEF CodeOK, CodeShape
<1>11. ConstructPost(d, {}, cg')
  <2>1. Len(d.block_stack) >= 1 /\ d.size < MaxObjects
    BY <1>4, <1>7, <1>10 DEF TopPost, Aside, Frame
  <2>2. QED
    BY <1>5, <1>10, <2>1, ConstructOK
<1>12. /\ CodeOK(cg', {}) /\ SameLabels(cg, cg') /\ Contexted(cg, cg')
  <2>1. ContextGenerated(d) <=> ContextGenerated(cg)
    BY <1>10 DEF ContextGenerated, TOS, Aside, Frame
  <2>2. QED
    BY <1>3, <1>10, <1>11, <2>1
       DEF ConstructPost, SameLabels, Contexted, Aside, Frame, CodeShape
<1>13. /\ x \in Heights /\ Tops(cg) = After(x, k, FlagsAt(cg, x)) /\ ItemOK(cg, x, k)
       /\ StandsBelow(cg, open, x) /\ Below(x, Tops(cg))
  BY <1>7, <1>9 DEF TopPost
<1>14. PICK F : F = FlagsAt(cg, x)
  OBVIOUS
<1>15. /\ Len(cg.block_stack) = x.blk + 1 /\ x.blk \in Nat
       /\ Len(cg.context_stack) = x.ctx + Bit("CONTEXT_PUSHED" \in F)
       /\ x.ctx \in Nat /\ x.label <= Len(cg.label_stack) /\ x.brk <= Len(cg.break_stack)
  <2>1. Tops(cg).blk = x.blk + Bit(Owns(k))
        /\ Tops(cg).ctx = x.ctx + Bit(Owns(k) /\ "CONTEXT_PUSHED" \in F)
    BY <1>13, <1>14 DEF After
  <2>2. Bit(Owns(k)) = 1 /\ (Owns(k) /\ "CONTEXT_PUSHED" \in F) = ("CONTEXT_PUSHED" \in F)
    BY <1>9 DEF Bit
  <2>3. x.label <= Tops(cg).label /\ x.brk <= Tops(cg).brk
    BY <1>13 DEF Below
  <2>4. QED
    BY <1>13, <2>1, <2>2, <2>3 DEF Tops, Heights
<1>16. PICK G : G = F \union {"CONTEXT_PUSHED"}
  OBVIOUS
<1>17. FlagsAt(cg', x) = G
  BY <1>12, <1>14, <1>15, <1>16 DEF Contexted, FlagsAt
<1>18. Agree(cg, cg', x)
  <2>1. Kept(cg.block_stack, cg'.block_stack, x.blk)
    BY <1>12, <1>15 DEF Contexted
  <2>2. QED
    BY <1>12, <2>1 DEF Agree, Kept, SameLabels
<1>19. ContextGenerated(cg) <=> "CONTEXT_PUSHED" \in F
  <2>1. TOS(cg, "block_stack") = F
    BY <1>3, <1>14, <1>15, SeqShape DEF TOS, FlagsAt, StackShape
  <2>2. QED
    BY <2>1 DEF ContextGenerated
<1>20. Len(cg'.context_stack) = x.ctx + 1
  <2>1. CASE "CONTEXT_PUSHED" \in F
    BY <1>12, <1>15, <1>19, <2>1 DEF Contexted, Bit
  <2>2. CASE "CONTEXT_PUSHED" \notin F
    BY <1>12, <1>15, <1>19, <2>2 DEF Contexted, Bit
  <2>3. QED
    BY <2>1, <2>2
<1>21. Tops(cg') = After(x, k, G)
  <2>1. /\ (Owns(k) /\ "BREAKABLE" \in G) = (Owns(k) /\ "BREAKABLE" \in F)
        /\ (Owns(k) /\ "CONTINUEABLE" \in G) = (Owns(k) /\ "CONTINUEABLE" \in F)
        /\ (Owns(k) /\ "IN_SWITCH" \in G) = (Owns(k) /\ "IN_SWITCH" \in F)
        /\ (Owns(k) /\ "CONTEXT_PUSHED" \in G) = TRUE
    BY <1>9, <1>16
  <2>2. Bit(Owns(k) /\ "CONTEXT_PUSHED" \in G) = 1
    BY <2>1 DEF Bit
  <2>3. /\ Len(cg.label_stack) = x.label + LabelsOf(k)
        /\ Len(cg.break_stack) = x.brk + Bit(Owns(k) /\ "BREAKABLE" \in F)
        /\ Len(cg.continue_stack) = x.cont + Bit(Owns(k) /\ "CONTINUEABLE" \in F)
        /\ Len(cg.switch_stack) = x.sw + Bit(Owns(k) /\ "IN_SWITCH" \in F)
        /\ Len(cg.mTryStack) = x.try + Bit(k \in {"try", "handlers"})
        /\ Len(cg.block_stack) = x.blk + Bit(Owns(k))
    BY <1>13, <1>14 DEF Tops, After
  <2>4. /\ cg'.label_stack = cg.label_stack /\ cg'.break_stack = cg.break_stack
        /\ cg'.continue_stack = cg.continue_stack /\ cg'.switch_stack = cg.switch_stack
        /\ cg'.mTryStack = cg.mTryStack /\ Len(cg'.block_stack) = Len(cg.block_stack)
    BY <1>12 DEF SameLabels, Contexted
  <2>5. QED
    BY <1>20, <2>1, <2>2, <2>3, <2>4 DEF Tops, After
<1>22. ItemOK(cg', x, k)
  <2>1. /\ ("BREAKABLE" \in G) = ("BREAKABLE" \in F) /\ ("IN_SWITCH" \in G) = ("IN_SWITCH" \in F)
        /\ (F = FunFlags => G = FunFlags)
    BY <1>16 DEF FunFlags
  <2>2. QED
    BY <1>9, <1>12, <1>13, <1>14, <1>17, <2>1 DEF ItemOK, SameLabels
<1>23. Later(cg, cg')
  BY <1>3, <1>12, ShapeFacts DEF Later, SameLabels
<1>24. Standing(cg', open')
  <2>1. SameKinds(open, open', Len(open) - 1)
    BY <1>4, <1>6 DEF SameKinds
  <2>2. Tops(cg') = After(x, k, FlagsAt(cg', x)) /\ k = open'[Len(open)].k
    BY <1>6, <1>9, <1>17, <1>21
  <2>3. QED
    BY <1>3, <1>6, <1>13, <1>18, <1>22, <1>23, <2>1, <2>2, ReplaceStanding
<1>25. Apart(cg')
  <2>1. \A l \in 1 .. Len(cg.label) : Other(cg', l) => Other(cg, l)
    BY <1>12 DEF Other, SameLabels
  <2>2. QED
    BY <1>3, <1>12, <2>1, ApartKept DEF SameLabels
<1>26. GotoOK(cg')
  BY <1>3, <1>12, <1>23, GotoKept DEF SameLabels, GotoSame
<1>27. Handlers(cg', open')
  BY <1>9 DEF Handlers
<1>28. cg'.in_switch = FALSE /\ (cg'.in_loop => SomeLoop(open'))
  BY <1>3, <1>6, <1>12 DEF SameLabels, SomeLoop, SameKinds
<1>29. QED
  BY <1>6, <1>12, <1>24, <1>25, <1>26, <1>27, <1>28 DEF Compiling

\* A block that waits for what its statement does next.
Ready(c, d, y, F) ==
  /\ CodeOK(d, {}) /\ Later(c, d) /\ GotoSame(c, d) /\ Apart(d)
  /\ d.in_switch = FALSE /\ d.in_loop = FALSE /\ d.label_stack = c.label_stack
  /\ BlockBegun(c, d, y, F)
  /\ Len(d.context_stack) = y.ctx + Bit("CONTEXT_PUSHED" \in F)
ReadyPost(c, d, e, y, F) == Ready(c, e, y, F) /\ e.mTryStack = d.mTryStack
InitReadyPost(c, d, y, F) ==
  /\ Ready(c, d, y, F) /\ y \in Heights /\ "CONTEXT_PUSHED" \notin F
  /\ d.mTryStack = c.mTryStack /\ d.size = c.size /\ d.catch = c.catch /\ d.code = c.code

\* A new block is ready for its first object or statement.
LEMMA InitReady ==
  ASSUME NEW c, NEW o, Compiling(c, o), NEW d, d = InitBlock(c), NEW y, y = Tops(c),
         NEW F, F = BlockFlags(c)
  PROVE  InitReadyPost(c, d, y, F)
<1>1. /\ InitPost(c, {}, d) /\ BlockBegun(c, d, y, F) /\ y \in Heights
      /\ "CONTEXT_PUSHED" \notin F /\ Later(c, d) /\ Apart(d)
      /\ d.label_stack = c.label_stack
  BY InitKeeps
<1>2. /\ CodeOK(d, {}) /\ d.code = c.code /\ d.mTryStack = c.mTryStack
      /\ d.context_stack = c.context_stack /\ d.size = c.size
      /\ d.catch = c.catch /\ GotoSame(c, d) /\ d.in_loop = FALSE /\ d.in_switch = FALSE
  BY <1>1 DEF InitPost, GotoSame
<1>3. Len(d.context_stack) = y.ctx + Bit("CONTEXT_PUSHED" \in F)
  <2>1. y.ctx = Len(c.context_stack) /\ y.ctx \in Nat
    BY <1>1 DEF Tops, Heights
  <2>2. Bit("CONTEXT_PUSHED" \in F) = 0
    BY <1>1 DEF Bit
  <2>3. QED
    BY <1>2, <2>1, <2>2
<1>4. QED
  BY <1>1, <1>2, <1>3 DEF Ready, InitReadyPost

\* It still is when it has got its context.
LEMMA ReadyContext ==
  ASSUME NEW c, CodeOK(c, {}), NEW d, NEW y \in Heights, NEW F, Ready(c, d, y, F),
         "CONTEXT_PUSHED" \notin F, NEW e, CodeOK(e, {}), SameLabels(d, e), Contexted(d, e)
  PROVE  ReadyPost(c, d, e, y, F \union {"CONTEXT_PUSHED"})
<1>1. /\ CodeShape(d) /\ StackShape(d) /\ IsSeq(d.block_stack) /\ BlockBegun(c, d, y, F)
      /\ Apart(d) /\ CodeShape(c) /\ Len(d.label) \in Nat
  BY ShapeFacts DEF Ready, CodeOK, StackShape
<1>2. /\ e.label = d.label /\ e.label_stack = d.label_stack /\ e.break_stack = d.break_stack
      /\ e.continue_stack = d.continue_stack /\ e.mTryStack = d.mTryStack
      /\ e.goto = d.goto /\ e.in_loop = d.in_loop /\ e.in_switch = d.in_switch
  BY DEF SameLabels
<1>3. PICK G : G = F \union {"CONTEXT_PUSHED"}
  OBVIOUS
<1>4. BlockBegun(c, e, y, G) /\ Len(e.context_stack) = Len(d.context_stack) + 1
  BY <1>1, <1>3, ContextBegun
<1>5. Len(e.context_stack) = y.ctx + Bit("CONTEXT_PUSHED" \in G)
  <2>1. Bit("CONTEXT_PUSHED" \in G) = 1 /\ Bit("CONTEXT_PUSHED" \in F) = 0 /\ y.ctx \in Nat
    BY <1>3 DEF Bit, Heights
  <2>2. QED
    BY <1>4, <2>1 DEF Ready
<1>6. Apart(e)
  <2>1. \A l \in 1 .. Len(d.label) : Other(e, l) => Other(d, l)
    BY <1>2 DEF Other
  <2>2. QED
    BY <1>1, <1>2, <2>1, ApartKept
<1>7. Later(c, e) /\ GotoSame(c, e)
  BY <1>2 DEF Ready, Later, GotoSame
<1>8. Ready(c, e, y, G)
  BY <1>2, <1>4, <1>5, <1>6, <1>7 DEF Ready
<1>9. QED
  BY <1>2, <1>3, <1>8 DEF ReadyPost

\* One more than a natural number is at least one.
LEMMA OneMore ==
  ASSUME NEW b \in Nat
  PROVE  b + 1 >= 1
OBVIOUS

\* It still is when its first object has been constructed.
LEMMA ConstructReady ==
  ASSUME NEW c, CodeOK(c, {}), NEW d, NEW y \in Heights, NEW F, Ready(c, d, y, F),
         "CONTEXT_PUSHED" \notin F, d.size < MaxObjects, NEW op \in {"TOSD", "MARK"},
         NEW o, NEW e, e = Construct(Begin(d, o, ""), op)
  PROVE  ReadyPost(c, d, e, y, F \union {"CONTEXT_PUSHED"})
<1>1. PICK f : f = Begin(d, o, "")
  OBVIOUS
<1>2. CodeOK(d, {}) /\ Len(d.block_stack) = y.blk + 1 /\ y.blk \in Nat /\ DOMAIN d = Fields
  BY DEF Ready, BlockBegun, Heights, CodeOK, CodeShape
<1>3. CodeOK(f, {}) /\ Aside(d, f)
  BY <1>1, <1>2, HistoryOK
<1>4. ConstructPost(f, {}, e)
  <2>1. Len(f.block_stack) >= 1 /\ f.size < MaxObjects
    <3>1. f.block_stack = d.block_stack /\ f.size = d.size
      BY <1>3 DEF Aside, Frame
    <3>2. PICK b \in Nat : b = y.blk
      BY <1>2
    <3>3. b + 1 >= 1
      BY OneMore
    <3>4. QED
      BY <1>2, <3>1, <3>2, <3>3
  <2>2. QED
    BY <1>1, <1>3, <2>1, ConstructOK
<1>5. CodeOK(e, {}) /\ SameLabels(d, e) /\ Contexted(d, e)
  <2>1. ContextGenerated(f) <=> ContextGenerated(d)
    BY <1>3 DEF ContextGenerated, TOS, Aside, Frame
  <2>2. QED
    BY <1>2, <1>3, <1>4, <2>1 DEF ConstructPost, SameLabels, Contexted, Aside, Frame
<1>6. QED
  BY <1>5, ReadyContext

\* The block stands where it did when a loop begins above it.
LEMMA LabelsBegun ==
  ASSUME NEW c, NEW d, NEW x \in Heights, NEW F, BlockBegun(c, d, x, F), NEW k, NEW e,
         LabelOpens(d, e, k), Len(c.label) \in Nat, Len(d.label) \in Nat,
         Len(c.label) <= Len(d.label), x.label = Len(d.label_stack)
  PROVE  BlockBegun(c, e, x, F)
<1>1. /\ e.break_stack = d.break_stack /\ e.continue_stack = d.continue_stack
      /\ e.switch_stack = d.switch_stack /\ e.block_stack = d.block_stack /\ e.goto = d.goto
      /\ Kept(d.label_stack, e.label_stack, x.label)
      /\ \A l \in 1 .. Len(d.label) : In(e.label_stack, l) => In(d.label_stack, l)
  BY DEF LabelOpens
<1>2. Agree(c, e, x) /\ FlagsAt(e, x) = F
  BY <1>1 DEF BlockBegun, Agree, Kept, FlagsAt
<1>3. "BREAKABLE" \in F =>
        x.label >= 1 /\ e.break_stack[x.brk + 1] = e.label_stack[x.label]
  <2>1. x.label >= 1 => x.label \in 1 .. x.label
    BY DEF Heights
  <2>2. QED
    BY <1>1, <2>1 DEF BlockBegun, Kept
<1>4. \A l \in 1 .. Len(c.label) : Other(e, l) => Other(c, l)
  <2>1. \A l \in 1 .. Len(c.label) : l \in 1 .. Len(d.label)
    OBVIOUS
  <2>2. \A l \in 1 .. Len(d.label) : Other(e, l) => Other(d, l)
    BY <1>1 DEF Other
  <2>3. QED
    BY <2>1, <2>2 DEF BlockBegun
<1>5. QED
  BY <1>1, <1>2, <1>3, <1>4 DEF BlockBegun

\* A for, with or without an object of its own.
LEMMA ForKeeps ==
  ASSUME Compiling(cg, open), For
  PROVE  Compiling(cg', open')
<1>1. PICK c : c = InitBlock(cg)
  OBVIOUS
<1>2. PICK dcl \in {FALSE, "object" \in Kinds /\ cg.size < MaxObjects} :
        LET d == IF dcl THEN Construct(Begin(c, open, ""), "TOSD") ELSE c
            o == Append(open, Item("for", IF dcl THEN <<d.size>> ELSE <<>>))
        IN  Compile(StartLoop(d, o), o)
  BY <1>1 DEF For
<1>3. PICK d : d = IF dcl THEN Construct(Begin(c, open, ""), "TOSD") ELSE c
  OBVIOUS
<1>4. PICK x : x = Item("for", IF dcl THEN <<d.size>> ELSE <<>>)
  OBVIOUS
<1>5. PICK o : o = Append(open, x)
  OBVIOUS
<1>6. cg' = StartLoop(d, o) /\ open' = o
  BY <1>2, <1>3, <1>4, <1>5 DEF Compile
<1>7. /\ CodeOK(cg, {}) /\ CodeShape(cg) /\ StackShape(cg) /\ OpenOK(open)
      /\ open[Len(open)].k # "handlers"
  BY TopIs DEF Compiling, CodeOK, For, CanOpen, CanStart
<1>8. DOMAIN x = ItemFields /\ x.k = "for"
  BY <1>4 DEF Item, ItemFields
<1>9. CanAppend(open, x)
  BY <1>7, <1>8 DEF CanAppend
<1>10. PICK y : y = Tops(cg)
  OBVIOUS
<1>11. PICK F : F = BlockFlags(cg)
  OBVIOUS
<1>12. InitReadyPost(cg, c, y, F)
  BY <1>1, <1>10, <1>11, InitReady
<1>13. PICK G : Ready(cg, d, y, G) /\ d.mTryStack = cg.mTryStack
  <2>1. CASE dcl
    <3>1. c.size < MaxObjects
      BY <1>2, <1>12, <2>1 DEF InitReadyPost
    <3>2. PICK op \in {"TOSD", "MARK"} : op = "TOSD"
      OBVIOUS
    <3>3. d = Construct(Begin(c, open, ""), op)
      BY <1>3, <2>1, <3>2
    <3>4. /\ Ready(cg, c, y, F) /\ y \in Heights /\ "CONTEXT_PUSHED" \notin F
          /\ CodeOK(cg, {})
      BY <1>7, <1>12 DEF InitReadyPost
    <3>5. ReadyPost(cg, c, d, y, F \union {"CONTEXT_PUSHED"})
      BY <3>1, <3>3, <3>4, ConstructReady
    <3>6. QED
      BY <1>12, <3>5 DEF InitReadyPost, ReadyPost
  <2>2. CASE ~dcl
    BY <1>3, <1>12, <2>2 DEF InitReadyPost
  <2>3. QED
    BY <1>2, <2>1, <2>2
<1>14. y \in Heights /\ y.label = Len(cg.label_stack) /\ y.try = Len(cg.mTryStack)
  BY <1>10, <1>12 DEF InitReadyPost, Tops
<1>15. /\ CodeOK(d, {}) /\ CodeShape(d) /\ StackShape(d) /\ Later(cg, d) /\ Apart(d)
       /\ GotoSame(cg, d) /\ d.label_stack = cg.label_stack /\ d.in_switch = FALSE
       /\ BlockBegun(cg, d, y, G)
       /\ Len(d.context_stack) = y.ctx + Bit("CONTEXT_PUSHED" \in G)
  BY <1>13 DEF Ready, CodeOK
<1>16. Len(cg.label) \in Nat /\ Len(d.label) \in Nat /\ Len(cg.label) <= Len(d.label)
  BY <1>7, <1>15, ShapeFacts DEF Later
<1>17. "for" \in Loops /\ Owns("for") /\ LabelsOf("for") = 2
  BY DEF Loops, Owns, LabelsOf
<1>18. LabelOpens(d, cg', "for")
  BY <1>6, <1>15, <1>17, StartLoopOK
<1>19. BlockBegun(cg, cg', y, G)
  BY <1>14, <1>15, <1>16, <1>18, LabelsBegun
<1>20. BlockHeights(cg', y, G, "for")
  <2>1. Bit("for" \in {"try", "handlers"}) = 0 /\ y.try \in Nat
    BY <1>14 DEF Bit, Heights
  <2>2. /\ Len(cg'.label_stack) = y.label + LabelsOf("for")
        /\ cg'.context_stack = d.context_stack /\ cg'.mTryStack = d.mTryStack
        /\ cg'.label[cg'.label_stack[y.label + 1]].to # 0
    BY <1>14, <1>15, <1>17, <1>18 DEF LabelOpens
  <2>3. QED
    BY <1>13, <1>14, <1>15, <2>1, <2>2 DEF BlockHeights
<1>21. /\ CodeOK(cg', {}) /\ Later(d, cg') /\ cg'.goto = d.goto /\ cg'.in_switch = FALSE
       /\ CodeShape(cg') /\ cg'.mTryStack = d.mTryStack
  BY <1>15, <1>18 DEF LabelOpens, CodeOK
<1>22. Later(cg, cg') /\ GotoSame(cg, cg')
  BY <1>7, <1>15, <1>21, LaterTwice DEF GotoSame
<1>23. Apart(cg')
  <2>1. \A l \in 1 .. Len(d.label) : Other(cg', l) => Other(d, l)
    BY <1>18 DEF LabelOpens, Other
  <2>2. QED
    BY <1>15, <1>21, <2>1, ApartKept
<1>24. Owns(x.k) /\ (cg'.in_loop => x.k \in Loops) /\ BlockHeights(cg', y, G, x.k)
  BY <1>8, <1>17, <1>20
<1>25. QED
  BY <1>5, <1>6, <1>9, <1>10, <1>19, <1>21, <1>22, <1>23, <1>24, BlockOpensOK

\* A handler begins here.
CatchSetPost(c, d) ==
  /\ CodeOK(d, {}) /\ DOMAIN d = Fields
  /\ d.code = c.code /\ d.label = c.label /\ d.label_stack = c.label_stack
  /\ d.break_stack = c.break_stack /\ d.continue_stack = c.continue_stack
  /\ d.switch_stack = c.switch_stack /\ d.mTryStack = c.mTryStack
  /\ d.block_stack = c.block_stack /\ d.context_stack = c.context_stack
  /\ d.in_loop = c.in_loop /\ d.in_switch = c.in_switch /\ d.size = c.size
  /\ d.goto = c.goto

\* A handler that begins at the next instruction keeps the code in order.
LEMMA CatchSetOK ==
  ASSUME NEW c, CodeOK(c, {}), NEW i, NEW m \in 1 .. Len(c.code) + 1,
         NEW y, y = c.catch[i] \union {m},
         NEW d, d = [c EXCEPT !.catch = [@ EXCEPT ![i] = y]]
  PROVE  CatchSetPost(c, d)
<1>1. /\ CodeShape(c) /\ StackShape(c) /\ Linked(c) /\ Held(c, {}) /\ RefsClean(c, {})
      /\ Within(c, Len(c.code) + 1) /\ Switched(c) /\ DOMAIN c = Fields
      /\ Len(c.code) \in Nat
  BY ShapeFacts DEF CodeOK, CodeShape
<1>2. PICK s : s = c.catch
  OBVIOUS
<1>3. PICK t : t = [s EXCEPT ![i] = y]
  OBVIOUS
<1>4. DOMAIN d = Fields /\ d.catch = t /\ \A f \in Fields \ {"catch"} : d[f] = c[f]
  BY <1>1, <1>2, <1>3 DEF Fields
<1>5. /\ d.code = c.code /\ d.label = c.label /\ d.label_stack = c.label_stack
      /\ d.break_stack = c.break_stack /\ d.continue_stack = c.continue_stack
      /\ d.switch_stack = c.switch_stack /\ d.mTryStack = c.mTryStack
      /\ d.block_stack = c.block_stack /\ d.context_stack = c.context_stack
      /\ d.in_loop = c.in_loop /\ d.in_switch = c.in_switch /\ d.size = c.size
      /\ d.goto = c.goto
  BY <1>4 DEF Fields
<1>6. s \in [1 .. MaxObjects -> SUBSET Nat]
      /\ \A j \in 1 .. MaxObjects : s[j] \subseteq 1 .. Len(c.code) + 1
  BY <1>1, <1>2 DEF StackShape, Within
<1>7. m \in Nat
  BY <1>1
<1>8. /\ t \in [1 .. MaxObjects -> SUBSET Nat]
      /\ \A j \in 1 .. MaxObjects : t[j] \subseteq 1 .. Len(c.code) + 1
  <2>1. \A j \in 1 .. MaxObjects : t[j] = IF j = i THEN s[j] \union {m} ELSE s[j]
    BY <1>2, <1>3, <1>6
  <2>2. DOMAIN t = 1 .. MaxObjects /\ t = [j \in 1 .. MaxObjects |-> t[j]]
    BY <1>3, <1>6
  <2>3. \A j \in 1 .. MaxObjects :
          t[j] \in SUBSET Nat /\ t[j] \subseteq 1 .. Len(c.code) + 1
    BY <1>6, <1>7, <2>1
  <2>4. QED
    BY <2>2, <2>3
<1>9. CodeShape(d) /\ StackShape(d)
  BY <1>1, <1>4, <1>5, <1>8 DEF CodeShape, StackShape
<1>10. Linked(d) /\ Switched(d)
  BY <1>1, <1>5 DEF Linked, Switched
<1>11. Holders(d, {}) = Holders(c, {})
  BY <1>5 DEF Holders, Owned
<1>12. Held(d, {}) /\ RefsClean(d, {})
  BY <1>1, <1>5, <1>11 DEF Held, RefsClean
<1>13. Within(d, Len(d.code) + 1)
  BY <1>1, <1>4, <1>5, <1>8 DEF Within
<1>14. QED
  BY <1>4, <1>5, <1>9, <1>10, <1>12, <1>13 DEF CodeOK, CatchSetPost

\* What is ready stays so while only the handlers change.
LEMMA CatchSetReady ==
  ASSUME NEW c, NEW d, NEW y, NEW F, Ready(c, d, y, F), NEW e, CatchSetPost(d, e)
  PROVE  Ready(c, e, y, F) /\ e.mTryStack = d.mTryStack
<1>1. /\ CodeShape(d) /\ StackShape(d) /\ BlockBegun(c, d, y, F) /\ Apart(d)
  BY DEF Ready, CodeOK
<1>2. /\ CodeOK(e, {}) /\ e.label = d.label /\ e.label_stack = d.label_stack
      /\ e.break_stack = d.break_stack /\ e.continue_stack = d.continue_stack
      /\ e.switch_stack = d.switch_stack /\ e.mTryStack = d.mTryStack
      /\ e.block_stack = d.block_stack /\ e.context_stack = d.context_stack
      /\ e.in_loop = d.in_loop /\ e.in_switch = d.in_switch /\ e.goto = d.goto
  BY DEF CatchSetPost
<1>3. \A l : Other(e, l) <=> Other(d, l)
  BY <1>2 DEF Other
<1>4. Apart(e)
  BY <1>1, <1>2, <1>3, ApartKept
<1>5. BlockBegun(c, e, y, F)
  BY <1>1, <1>2, <1>3 DEF BlockBegun, Agree, FlagsAt
<1>6. QED
  BY <1>2, <1>4, <1>5 DEF Ready, Later, GotoSame

\* A handler.
LEMMA CatchKeeps ==
  ASSUME Compiling(cg, open), Catch
  PROVE  Compiling(cg', open')
<1>1. PICK c : c = InitBlock(cg)
  OBVIOUS
<1>2. PICK x : x = Item("catch", <<>>)
  OBVIOUS
<1>3. PICK i : i = TOS(cg, "mTryStack").slot
  OBVIOUS
<1>4. PICK m : m = IpOffset(cg)
  OBVIOUS
<1>5. PICK d : d = [c EXCEPT !.catch[i] = @ \union {m}]
  OBVIOUS
<1>6. cg' = CheckContext(d) /\ open' = Append(open, x) /\ Top.k = "handlers"
  BY <1>1, <1>2, <1>3, <1>4, <1>5 DEF Catch, Compile, Ending
<1>7. /\ CodeOK(cg, {}) /\ CodeShape(cg) /\ StackShape(cg) /\ OpenOK(open)
      /\ open[Len(open)].k = "handlers"
  BY <1>6, TopIs DEF Compiling, CodeOK
<1>8. DOMAIN x = ItemFields /\ x.k = "catch"
  BY <1>2 DEF Item, ItemFields
<1>9. CanAppend(open, x)
  BY <1>7, <1>8 DEF CanAppend
<1>10. PICK y : y = Tops(cg)
  OBVIOUS
<1>11. PICK F : F = BlockFlags(cg)
  OBVIOUS
<1>12. InitReadyPost(cg, c, y, F)
  BY <1>1, <1>10, <1>11, InitReady
<1>13. CatchSetPost(c, d)
  <2>1. CodeOK(c, {}) /\ m \in 1 .. Len(c.code) + 1
    BY <1>4, <1>7, <1>12, ShapeFacts DEF InitReadyPost, Ready, IpOffset
  <2>2. PICK z : z = c.catch[i] \union {m}
    OBVIOUS
  <2>3. d = [c EXCEPT !.catch = [@ EXCEPT ![i] = z]]
    BY <1>5, <2>2
  <2>4. QED
    BY <2>1, <2>2, <2>3, CatchSetOK
<1>14. Ready(cg, d, y, F) /\ d.mTryStack = c.mTryStack
  BY <1>12, <1>13, CatchSetReady DEF InitReadyPost
<1>15. CheckContextPost(d, {}, cg')
  <2>1. CodeOK(d, {}) /\ Len(d.block_stack) = y.blk + 1 /\ y.blk \in Nat
    BY <1>12, <1>14 DEF InitReadyPost, Ready, BlockBegun, Heights
  <2>2. Len(d.block_stack) >= 1
    BY <2>1, OneMore
  <2>3. QED
    BY <1>6, <2>1, <2>2, CheckContextOK
<1>16. PICK G : G = F \union {"CONTEXT_PUSHED"}
  OBVIOUS
<1>17. Ready(cg, cg', y, G) /\ cg'.mTryStack = d.mTryStack
  <2>1. CodeOK(cg', {}) /\ SameLabels(d, cg') /\ Contexted(d, cg')
    BY <1>15 DEF CheckContextPost
  <2>2. y \in Heights /\ "CONTEXT_PUSHED" \notin F
    BY <1>12 DEF InitReadyPost
  <2>3. CodeOK(cg, {}) /\ Ready(cg, d, y, F)
    BY <1>7, <1>14
  <2>4. ReadyPost(cg, d, cg', y, F \union {"CONTEXT_PUSHED"})
    BY <2>1, <2>2, <2>3, ReadyContext
  <2>5. QED
    BY <1>16, <2>4 DEF ReadyPost
<1>18. Owns(x.k) /\ x.k \notin Loops /\ LabelsOf(x.k) = 0 /\ x.k \notin {"try", "handlers"}
  BY <1>8 DEF Owns, Blocks, Loops, LabelsOf
<1>19. BlockHeights(cg', y, G, x.k)
  <2>1. Bit(x.k \in {"try", "handlers"}) = 0
    BY <1>18 DEF Bit
  <2>2. /\ y.label = Len(cg.label_stack) /\ y.try = Len(cg.mTryStack)
        /\ y.label \in Nat /\ y.try \in Nat
    BY <1>10, <1>12 DEF Tops, Heights, InitReadyPost
  <2>3. cg'.label_stack = cg.label_stack /\ cg'.mTryStack = cg.mTryStack
        /\ Len(cg'.context_stack) = y.ctx + Bit("CONTEXT_PUSHED" \in G)
    BY <1>12, <1>14, <1>17 DEF InitReadyPost, Ready
  <2>4. QED
    BY <1>18, <2>1, <2>2, <2>3 DEF BlockHeights
<1>20. /\ CodeOK(cg', {}) /\ Later(cg, cg') /\ GotoSame(cg, cg') /\ Apart(cg')
       /\ cg'.in_switch = FALSE /\ (cg'.in_loop => x.k \in Loops)
       /\ BlockBegun(cg, cg', y, G)
  BY <1>17 DEF Ready
<1>21. QED
  BY <1>6, <1>9, <1>10, <1>18, <1>19, <1>20, BlockOpensOK
-----------------------------------------------------------------------------
(* Statements that end                                                     *)
\* What a block drops from a stack leaves the stack as high as below the block.
LEMMA DropsTo ==
  ASSUME NEW b, NEW s, NEW t, Drops(b, s, t), NEW h \in Nat, Len(s) = h + Bit(b)
  PROVE  Len(t) = h /\ Kept(s, t, h) /\ \A k : In(t, k) => In(s, k)
<1>1. CASE b
  <2>1. Len(s) = h + 1
    BY <1>1 DEF Bit
  <2>2. Len(t) = h /\ Kept(s, t, h)
    <3>1. Len(s) - 1 = h
      BY <2>1
    <3>2. Len(t) = Len(s) - 1 /\ Kept(s, t, Len(s) - 1)
      BY <1>1 DEF Drops, Shrinks
    <3>3. QED
      BY <3>1, <3>2
  <2>3. \A i \in 1 .. h : i \in 1 .. Len(s)
    BY <2>1
  <2>4. QED
    BY <2>2, <2>3 DEF Kept, In
<1>2. CASE ~b
  BY <1>2 DEF Drops, Bit, Kept
<1>3. QED
  BY <1>1, <1>2

\* What a block with flags F, which stands above x, has put on the stacks.
BlockSums(c, x, F) ==
  /\ F = FlagsAt(c, x) /\ Len(c.label_stack) = x.label
  /\ Len(c.break_stack) = x.brk + Bit("BREAKABLE" \in F)
  /\ Len(c.continue_stack) = x.cont + Bit("CONTINUEABLE" \in F)
  /\ Len(c.switch_stack) = x.sw + Bit("IN_SWITCH" \in F)
  /\ Len(c.context_stack) = x.ctx + Bit("CONTEXT_PUSHED" \in F)
  /\ Len(c.block_stack) = x.blk + 1
  /\ "IN_SWITCH" \in F => "BREAKABLE" \in F
  /\ "BREAKABLE" \in F /\ "IN_SWITCH" \notin F =>
       x.label >= 1 /\ c.break_stack[x.brk + 1] = c.label_stack[x.label]

\* A block with these heights can end.
LEMMA SumsClose ==
  ASSUME NEW c, CodeOK(c, {}), NEW x \in Heights, NEW F, BlockSums(c, x, F)
  PROVE  Closable(c, F) /\ ("CONTEXT_PUSHED" \in F => Len(c.context_stack) >= 1)
<1>1. /\ x.label \in Nat /\ x.brk \in Nat /\ x.cont \in Nat /\ x.sw \in Nat /\ x.ctx \in Nat
      /\ x.blk \in Nat
  BY DEF Heights
<1>2. \A m \in Nat : m + 1 >= 1 /\ m + Bit(TRUE) = m + 1
  BY DEF Bit
<1>3. Len(c.block_stack) >= 1 /\ F = c.block_stack[Len(c.block_stack)]
  BY <1>1, <1>2 DEF BlockSums, FlagsAt
<1>4. "BREAKABLE" \in F => Len(c.break_stack) >= 1 /\ Len(c.break_stack) = x.brk + 1
  BY <1>1, <1>2 DEF BlockSums
<1>5. "CONTINUEABLE" \in F => Len(c.continue_stack) >= 1
  BY <1>1, <1>2 DEF BlockSums
<1>6. "IN_SWITCH" \in F => Len(c.switch_stack) >= 1
  BY <1>1, <1>2 DEF BlockSums
<1>7. "CONTEXT_PUSHED" \in F => Len(c.context_stack) >= 1
  BY <1>1, <1>2 DEF BlockSums
<1>8. "BREAKABLE" \in F /\ "IN_SWITCH" \notin F =>
        In(c.label_stack, c.break_stack[Len(c.break_stack)])
  <2>1. x.label >= 1 => x.label \in 1 .. Len(c.label_stack)
    BY <1>1 DEF BlockSums
  <2>2. QED
    BY <1>4, <2>1 DEF BlockSums, In
<1>9. QED
  BY <1>3, <1>4, <1>5, <1>6, <1>7, <1>8 DEF Closable, BlockSums

\* A block has gone from the stacks.
Closed(c, d, x) ==
  /\ CodeOK(d, {}) /\ Later(c, d) /\ GotoSame(c, d) /\ Agree(c, d, x)
  /\ d.label_stack = c.label_stack /\ d.mTryStack = c.mTryStack
  /\ Len(d.break_stack) = x.brk /\ Len(d.continue_stack) = x.cont
  /\ Len(d.switch_stack) = x.sw /\ Len(d.context_stack) = x.ctx
  /\ Len(d.block_stack) = x.blk
  /\ d.in_loop = c.in_loop /\ d.in_switch = c.in_switch
  /\ \A l : Other(d, l) => Other(c, l)

\* finalize_block() leaves the stacks as they were below the block.
LEMMA BlockCloses ==
  ASSUME NEW c, CodeOK(c, {}), NEW x \in Heights, NEW F, BlockSums(c, x, F),
         NEW d, d = FinalizeBlock(c)
  PROVE  Closed(c, d, x)
<1>1. FinalPost(c, {}, d, F)
  <2>1. Closable(c, F) /\ ("CONTEXT_PUSHED" \in F => Len(c.context_stack) >= 1)
    BY SumsClose
  <2>2. QED
    BY <2>1, FinalizeBlockOK
<1>2. /\ x.label \in Nat /\ x.brk \in Nat /\ x.cont \in Nat /\ x.sw \in Nat /\ x.ctx \in Nat
      /\ x.blk \in Nat
  BY DEF Heights
<1>3. Len(d.break_stack) = x.brk /\ Kept(c.break_stack, d.break_stack, x.brk)
      /\ \A k : In(d.break_stack, k) => In(c.break_stack, k)
  <2>1. Drops("BREAKABLE" \in F, c.break_stack, d.break_stack)
        /\ Len(c.break_stack) = x.brk + Bit("BREAKABLE" \in F)
    BY <1>1 DEF FinalPost, BlockSums
  <2>2. QED
    BY <1>2, <2>1, DropsTo
<1>4. Len(d.continue_stack) = x.cont /\ \A k : In(d.continue_stack, k) => In(c.continue_stack, k)
  <2>1. Drops("CONTINUEABLE" \in F, c.continue_stack, d.continue_stack)
        /\ Len(c.continue_stack) = x.cont + Bit("CONTINUEABLE" \in F)
    BY <1>1 DEF FinalPost, BlockSums
  <2>2. QED
    BY <1>2, <2>1, DropsTo
<1>5. Len(d.switch_stack) = x.sw
  <2>1. Drops("IN_SWITCH" \in F, c.switch_stack, d.switch_stack)
        /\ Len(c.switch_stack) = x.sw + Bit("IN_SWITCH" \in F)
    BY <1>1 DEF FinalPost, BlockSums
  <2>2. QED
    BY <1>2, <2>1, DropsTo
<1>6. Len(d.block_stack) = x.blk /\ Kept(c.block_stack, d.block_stack, x.blk)
  <2>1. Len(c.block_stack) = x.blk + 1
    BY DEF BlockSums
  <2>2. Len(c.block_stack) - 1 = x.blk
    BY <1>2, <2>1
  <2>3. Shrinks(c.block_stack, d.block_stack)
    BY <1>1 DEF FinalPost
  <2>4. QED
    BY <2>2, <2>3 DEF Shrinks
<1>7. Len(d.context_stack) = x.ctx
  <2>1. CASE "CONTEXT_PUSHED" \in F
    <3>1. Len(c.context_stack) = x.ctx + 1
      BY <2>1 DEF BlockSums, Bit
    <3>2. Len(c.context_stack) - 1 = x.ctx
      BY <1>2, <3>1
    <3>3. QED
      BY <1>1, <2>1, <3>2 DEF FinalPost
  <2>2. CASE "CONTEXT_PUSHED" \notin F
    BY <1>1, <1>2, <2>2 DEF FinalPost, BlockSums, Bit
  <2>3. QED
    BY <2>1, <2>2
<1>8. /\ CodeOK(d, {}) /\ Later(c, d) /\ GotoSame(c, d) /\ d.label_stack = c.label_stack
      /\ d.mTryStack = c.mTryStack /\ d.in_loop = c.in_loop /\ d.in_switch = c.in_switch
  BY <1>1 DEF FinalPost
<1>9. Agree(c, d, x)
  BY <1>3, <1>6, <1>8 DEF Agree, Kept
<1>10. \A l : Other(d, l) => Other(c, l)
  BY <1>3, <1>4, <1>8 DEF Other, GotoSame
<1>11. QED
  BY <1>3, <1>4, <1>5, <1>6, <1>7, <1>8, <1>9, <1>10 DEF Closed

\* The innermost statement has ended.
LEMMA ClosesOK ==
  ASSUME NEW c, NEW o, Compiling(c, o), o[Len(o)].k \notin {"function", "catch"},
         NEW x, StandsBelow(c, o, x), NEW d, CodeOK(d, {}), Later(c, d), GotoSame(c, d),
         d.in_switch = FALSE, d.in_loop => c.in_loop /\ o[Len(o)].k \notin Loops,
         Apart(d), Agree(c, d, x), Tops(d) = x, NEW p, p = Close(o)
  PROVE  Compiling(d, p)
<1>1. CodeShape(c) /\ StackShape(c) /\ OpenOK(o) /\ GotoOK(c) /\ (c.in_loop => SomeLoop(o))
  BY DEF Compiling, CodeOK
<1>2. /\ Len(o) >= 2 /\ OpenOK(p) /\ Len(p) = Len(o) - 1 /\ SameKinds(o, p, Len(o) - 1)
      /\ p[Len(p)].k # "handlers"
  BY <1>1, CloseOpen
<1>3. Standing(d, p)
  BY <1>1, <1>2, CloseStanding
<1>4. GotoOK(d)
  BY <1>1, GotoKept
<1>5. d.in_loop => SomeLoop(p)
  <2>1. SUFFICES ASSUME d.in_loop PROVE SomeLoop(p)
    OBVIOUS
  <2>2. PICK m : m = Len(o) - 1
    OBVIOUS
  <2>3. m \in Nat /\ m <= Len(p) /\ Len(p) \in Nat /\ Len(o) \in Nat /\ SameKinds(o, p, m)
    BY <1>1, <1>2, <2>2, SeqShape DEF OpenOK
  <2>4. m = Len(o) - 1 /\ o[Len(o)].k \notin Loops /\ SomeLoop(o)
    BY <1>1, <2>1, <2>2
  <2>5. QED
    BY <2>3, <2>4, LoopsKept
<1>6. Handlers(d, p)
  BY <1>2 DEF Handlers
<1>7. QED
  BY <1>2, <1>3, <1>4, <1>5, <1>6 DEF Compiling

\* The innermost loop has two labels, and its first one is put.
LEMMA LoopLabels ==
  ASSUME NEW c, NEW o, Compiling(c, o), o[Len(o)].k \in Loops
  PROVE  Len(c.label_stack) >= 2 /\ c.label[c.label_stack[Len(c.label_stack) - 1]].to # 0
<1>1. /\ CodeShape(c) /\ StackShape(c) /\ OpenOK(o) /\ Standing(c, o)
      /\ Len(o) \in Nat /\ Len(o) >= 1
  BY SeqShape DEF Compiling, CodeOK, OpenOK
<1>2. PICK x : TopPost(c, o, x)
  BY <1>1, TopFacts
<1>3. Len(c.label_stack) >= 2
  <2>1. Len(o) \in 1 .. Len(o)
    BY <1>1
  <2>2. QED
    BY <1>2, <2>1 DEF TopPost
<1>4. Len(c.label_stack) = x.label + 2 /\ x.label \in Nat
  <2>1. LabelsOf(o[Len(o)].k) = 2
    BY DEF LabelsOf
  <2>2. QED
    BY <1>2, <2>1 DEF TopPost, Tops, After, Heights
<1>5. Len(c.label_stack) - 1 = x.label + 1
  BY <1>4
<1>6. QED
  BY <1>2, <1>3, <1>5 DEF TopPost, ItemOK

\* Statements that only worked on the label stack end.
LabelCloses(c, d, k) ==
  /\ CodeOK(d, {}) /\ Later(c, d)
  /\ d.break_stack = c.break_stack /\ d.continue_stack = c.continue_stack
  /\ d.switch_stack = c.switch_stack /\ d.mTryStack = c.mTryStack
  /\ d.block_stack = c.block_stack /\ d.context_stack = c.context_stack
  /\ d.in_switch = c.in_switch /\ d.goto = c.goto
  /\ Len(d.label_stack) = Len(c.label_stack) - LabelsOf(k)
  /\ Kept(c.label_stack, d.label_stack, Len(c.label_stack) - LabelsOf(k))

\* An if or a loop that ends keeps what holds between two actions.
LEMMA LabelClosesOK ==
  ASSUME NEW c, NEW o, Compiling(c, o), NEW k, k = o[Len(o)].k,
         k \in {"if", "else", "while", "do"}, NEW d, LabelCloses(c, d, k),
         d.in_loop => c.in_loop /\ k \notin Loops, NEW p, p = Close(o)
  PROVE  Compiling(d, p)
<1>1. /\ CodeShape(c) /\ StackShape(c) /\ OpenOK(o) /\ Standing(c, o) /\ Apart(c)
      /\ c.in_switch = FALSE
  BY DEF Compiling, CodeOK
<1>2. ~Owns(k) /\ k \notin {"function", "catch", "try", "handlers"} /\ LabelsOf(k) \in Nat
  BY DEF Owns, Blocks, LabelsOf
<1>3. PICK x : TopPost(c, o, x)
  BY <1>1, TopFacts
<1>4. PICK F : F = FlagsAt(c, x)
  OBVIOUS
<1>5. x \in Heights /\ StandsBelow(c, o, x) /\ Tops(c) = After(x, k, F)
  BY <1>3, <1>4 DEF TopPost
<1>6. /\ Len(c.label_stack) = x.label + LabelsOf(k) /\ Len(c.break_stack) = x.brk
      /\ Len(c.continue_stack) = x.cont /\ Len(c.switch_stack) = x.sw
      /\ Len(c.context_stack) = x.ctx /\ Len(c.block_stack) = x.blk
      /\ Len(c.mTryStack) = x.try
  <2>1. \A b : Bit(Owns(k) /\ b) = 0
    BY <1>2 DEF Bit
  <2>2. Bit(Owns(k)) = 0 /\ Bit(k \in {"try", "handlers"}) = 0
    BY <1>2 DEF Bit
  <2>3. /\ Bit(Owns(k) /\ "BREAKABLE" \in F) = 0 /\ Bit(Owns(k) /\ "CONTINUEABLE" \in F) = 0
        /\ Bit(Owns(k) /\ "IN_SWITCH" \in F) = 0 /\ Bit(Owns(k) /\ "CONTEXT_PUSHED" \in F) = 0
    BY <2>1
  <2>4. QED
    BY <1>5, <2>2, <2>3, SMTT(40) DEF Tops, After, Heights
<1>7. Len(d.label_stack) = x.label /\ Kept(c.label_stack, d.label_stack, x.label)
  <2>1. Len(c.label_stack) - LabelsOf(k) = x.label
    BY <1>2, <1>5, <1>6 DEF Heights
  <2>2. QED
    BY <2>1 DEF LabelCloses
<1>8. Tops(d) = x
  BY <1>5, <1>6, <1>7 DEF LabelCloses, Tops, Heights
<1>9. Agree(c, d, x)
  BY <1>7 DEF LabelCloses, Agree, Kept
<1>10. Apart(d)
  <2>1. \A l \in 1 .. Len(c.label) : In(d.label_stack, l) => In(c.label_stack, l)
    <3>1. \A i \in 1 .. x.label : i \in 1 .. Len(c.label_stack)
      BY <1>2, <1>5, <1>6 DEF Heights
    <3>2. QED
      BY <1>7, <3>1 DEF In, Kept
  <2>2. \A l \in 1 .. Len(c.label) : Other(d, l) => Other(c, l)
    BY <2>1 DEF Other, LabelCloses
  <2>3. QED
    BY <1>1, <2>2, ApartKept DEF LabelCloses
<1>11. CodeOK(d, {}) /\ Later(c, d) /\ GotoSame(c, d) /\ d.in_switch = FALSE
  BY <1>1 DEF LabelCloses, GotoSame
<1>12. o[Len(o)].k \notin {"function", "catch"}
       /\ (d.in_loop => c.in_loop /\ o[Len(o)].k \notin Loops)
  BY <1>2
<1>13. QED
  BY <1>5, <1>8, <1>9, <1>10, <1>11, <1>12, ClosesOK

\* The end of an if drops its label.
LEMMA EndIfCloses ==
  ASSUME Compiling(cg, open), EndIf, NEW k, k = open[Len(open)].k
  PROVE  LabelCloses(cg, cg', k) /\ cg'.in_loop = cg.in_loop
<1>1. cg' = DoLoopEnd(cg, FALSE, FALSE)
  BY DEF EndIf, Reduce
<1>2. CodeOK(cg, {}) /\ OpenOK(open) /\ CodeShape(cg) /\ StackShape(cg) /\ Standing(cg, open)
  BY DEF Compiling, CodeOK
<1>3. k \in {"if", "else"}
  BY <1>2, TopIs DEF EndIf, Ending
<1>4. k \notin Loops /\ LabelsOf(k) = 1
  BY <1>3 DEF Loops, LabelsOf
<1>5. Len(cg.label_stack) >= 1
  <2>1. PICK x : TopPost(cg, open, x)
    BY <1>2, TopFacts
  <2>2. Len(cg.label_stack) = x.label + 1 /\ x.label \in Nat
    BY <1>4, <2>1 DEF TopPost, Tops, After, Heights
  <2>3. QED
    BY <2>2
<1>6. ShrinkPost(cg, {}, cg', 1)
  BY <1>1, <1>2, <1>5, IfEndOK
<1>7. QED
  BY <1>4, <1>6 DEF ShrinkPost, Works, LabelFrame, LabelCloses

\* The end of an if.
LEMMA EndIfKeeps ==
  ASSUME Compiling(cg, open), EndIf
  PROVE  Compiling(cg', open')
<1>1. open' = Close(open)
  BY DEF EndIf, Reduce
<1>2. PICK k : k = open[Len(open)].k
  OBVIOUS
<1>3. k \in {"if", "else"} /\ k \notin Loops
  BY <1>2, TopIs DEF EndIf, Ending, Compiling, Loops
<1>4. LabelCloses(cg, cg', k) /\ cg'.in_loop = cg.in_loop
  BY <1>2, EndIfCloses
<1>5. QED
  BY <1>1, <1>2, <1>3, <1>4, LabelClosesOK

\* A loop is complete, which the history notes.
LoopDone(c, op, i) == Ends([LoopEnd(c, op) EXCEPT !.in_loop = FALSE], i)

\* A loop ends: its label stack shrinks, and no loop waits for its block.
LEMMA LoopClosesOK ==
  ASSUME NEW c, CodeOK(c, {}), Len(c.label_stack) >= 2,
         c.label[c.label_stack[Len(c.label_stack) - 1]].to # 0, NEW k \in Loops,
         NEW op \in JumpOps, NEW i, NEW d, d = LoopDone(c, op, i)
  PROVE  LabelCloses(c, d, k) /\ d.in_loop = FALSE
<1>1. PICK e : e = LoopEnd(c, op)
  OBVIOUS
<1>2. ShrinkPost(c, {}, e, 2)
  BY <1>1, LoopEndOK
<1>3. PICK b : b = FALSE
  OBVIOUS
<1>4. PICK f : f = [e EXCEPT !.in_loop = b]
  OBVIOUS
<1>5. SetLoopPost(e, {}, f, b)
  <2>1. CodeOK(e, {}) /\ b \in BOOLEAN
    BY <1>2, <1>3 DEF ShrinkPost, Works
  <2>2. QED
    BY <1>4, <2>1, SetLoopOK
<1>6. d = Ends(f, i)
  BY <1>1, <1>3, <1>4 DEF LoopDone
<1>7. CodeOK(d, {}) /\ Aside(f, d)
  BY <1>5, <1>6, HistoryOK DEF SetLoopPost
<1>8. d.in_loop = FALSE
  BY <1>3, <1>5, <1>7 DEF SetLoopPost, Aside, Frame
<1>9. d.label = e.label /\ d.label_stack = e.label_stack
  BY <1>5, <1>7 DEF SetLoopPost, LoopAside, Aside, Frame
<1>10. Later(c, d)
  BY <1>2, <1>9 DEF ShrinkPost, Works, Later
<1>11. /\ d.break_stack = c.break_stack /\ d.continue_stack = c.continue_stack
       /\ d.switch_stack = c.switch_stack /\ d.mTryStack = c.mTryStack
       /\ d.block_stack = c.block_stack /\ d.context_stack = c.context_stack
       /\ d.in_switch = c.in_switch /\ d.goto = c.goto
  <2>1. LabelFrame(c, e) /\ LoopAside(e, f) /\ Aside(f, d)
    BY <1>2, <1>5, <1>7 DEF ShrinkPost, Works, SetLoopPost
  <2>2. QED
    BY <2>1 DEF LabelFrame, LoopAside, Aside, Frame
<1>12. LabelsOf(k) = 2
  BY DEF LabelsOf
<1>13. QED
  BY <1>2, <1>7, <1>8, <1>9, <1>10, <1>11, <1>12 DEF ShrinkPost, LabelCloses

LoopClosed(c, d, k) == LabelCloses(c, d, k) /\ d.in_loop = FALSE

\* What comes before it only changes the history.
LEMMA LoopShrinks ==
  ASSUME NEW c, NEW o, Compiling(c, o), NEW k, k = o[Len(o)].k, k \in Loops,
         NEW e, Aside(c, e), CodeOK(e, {}), NEW op \in JumpOps, NEW i,
         NEW d, d = LoopDone(e, op, i)
  PROVE  LoopClosed(c, d, k)
<1>1. e.label_stack = c.label_stack /\ e.label = c.label
  BY DEF Aside, Frame
<1>2. Len(c.label_stack) >= 2 /\ c.label[c.label_stack[Len(c.label_stack) - 1]].to # 0
  BY LoopLabels
<1>3. LabelCloses(e, d, k) /\ d.in_loop = FALSE
  BY <1>1, <1>2, LoopClosesOK, ZenonT(60)
<1>4. LabelCloses(c, d, k)
  BY <1>1, <1>3, ZenonT(60) DEF LabelCloses, Aside, Frame, Later
<1>5. QED
  BY <1>3, <1>4 DEF LoopClosed

\* A while or do is complete then.
LEMMA LoopFrom ==
  ASSUME NEW c, NEW o, Compiling(c, o), NEW k, k = o[Len(o)].k, k \in {"while", "do"},
         NEW e, Aside(c, e), CodeOK(e, {}), NEW op \in JumpOps, NEW i,
         NEW d, d = LoopDone(e, op, i),
         NEW p, p = Close(o)
  PROVE  Compiling(d, p)
<1>1. k \in Loops
  BY DEF Loops
<1>2. LoopClosed(c, d, k)
  BY <1>1, LoopShrinks
<1>3. QED
  BY <1>2, LabelClosesOK DEF LoopClosed

\* The end of a while.
LEMMA EndWhileKeeps ==
  ASSUME Compiling(cg, open), EndWhile
  PROVE  Compiling(cg', open')
<1>1. PICK e : e = Between(cg, open)
  OBVIOUS
<1>2. PICK k : k = open[Len(open)].k
  OBVIOUS
<1>3. CodeOK(cg, {}) /\ OpenOK(open)
  BY DEF Compiling
<1>4. k = "while"
  BY <1>2, <1>3, TopIs DEF EndWhile, Ending
<1>5. CodeOK(e, {}) /\ Aside(cg, e)
  BY <1>1, <1>3, HistoryOK
<1>6. cg' = LoopDone(e, "JMP", Top.id) /\ open' = Close(open)
  BY <1>1, LoopEnds DEF EndWhile, Reduce, LoopDone
<1>7. PICK op \in JumpOps : op = "JMP"
  BY DEF JumpOps
<1>8. QED
  BY <1>2, <1>4, <1>5, <1>6, <1>7, LoopFrom

\* The end of a do.
LEMMA EndDoKeeps ==
  ASSUME Compiling(cg, open), EndDo
  PROVE  Compiling(cg', open')
<1>1. PICK e : e = Begin(cg, open, "")
  OBVIOUS
<1>2. PICK k : k = open[Len(open)].k
  OBVIOUS
<1>3. CodeOK(cg, {}) /\ OpenOK(open)
  BY DEF Compiling
<1>4. k = "do"
  BY <1>2, <1>3, TopIs DEF EndDo, Ending
<1>5. CodeOK(e, {}) /\ Aside(cg, e)
  BY <1>1, <1>3, HistoryOK
<1>6. cg' = LoopDone(e, "JNZ", Top.id) /\ open' = Close(open)
  BY <1>1, LoopEnds DEF EndDo, Reduce, LoopDone
<1>7. PICK op \in JumpOps : op = "JNZ"
  BY DEF JumpOps
<1>8. QED
  BY <1>2, <1>4, <1>5, <1>6, <1>7, LoopFrom

\* The stacks above the heights below the innermost statement, which owns a block.
LEMMA OwnSums ==
  ASSUME NEW c, NEW o, NEW x, TopPost(c, o, x), NEW k, k = o[Len(o)].k, Owns(k),
         NEW F, F = FlagsAt(c, x)
  PROVE  /\ Len(c.label_stack) = x.label + LabelsOf(k)
         /\ Len(c.break_stack) = x.brk + Bit("BREAKABLE" \in F)
         /\ Len(c.continue_stack) = x.cont + Bit("CONTINUEABLE" \in F)
         /\ Len(c.switch_stack) = x.sw + Bit("IN_SWITCH" \in F)
         /\ Len(c.context_stack) = x.ctx + Bit("CONTEXT_PUSHED" \in F)
         /\ Len(c.mTryStack) = x.try + Bit(k \in {"try", "handlers"})
         /\ Len(c.block_stack) = x.blk + 1
<1>1. Tops(c) = After(x, k, F)
  BY DEF TopPost
<1>2. /\ (Owns(k) /\ "BREAKABLE" \in F) = ("BREAKABLE" \in F)
      /\ (Owns(k) /\ "CONTINUEABLE" \in F) = ("CONTINUEABLE" \in F)
      /\ (Owns(k) /\ "IN_SWITCH" \in F) = ("IN_SWITCH" \in F)
      /\ (Owns(k) /\ "CONTEXT_PUSHED" \in F) = ("CONTEXT_PUSHED" \in F)
      /\ Bit(Owns(k)) = 1
  BY DEF Bit
<1>3. QED
  BY <1>1, <1>2 DEF Tops, After

\* The break label of a block is the label of its loop or switch.
LEMMA OwnFlags ==
  ASSUME NEW c, NEW o, NEW x, TopPost(c, o, x), Owns(o[Len(o)].k), NEW F, F = FlagsAt(c, x)
  PROVE  /\ "IN_SWITCH" \in F => "BREAKABLE" \in F
         /\ "BREAKABLE" \in F /\ "IN_SWITCH" \notin F =>
              x.label >= 1 /\ c.break_stack[x.brk + 1] = c.label_stack[x.label]
BY DEF TopPost, ItemOK

\* The closing brace of a block or a switch.
LEMMA CloseBlockKeeps ==
  ASSUME Compiling(cg, open), CloseBlock
  PROVE  Compiling(cg', open')
<1>1. PICK c : c = Between(cg, open)
  OBVIOUS
<1>2. PICK i : i = IF Top.k = "switch" THEN Top.id ELSE Last(Front(open)).id
  OBVIOUS
<1>3. PICK d : d = IF Top.k = "switch" THEN Ends(c, i) ELSE BodyEnds(c, i)
  OBVIOUS
<1>4. cg' = FinalizeBlock(d) /\ open' = Close(open)
  <2>1. CASE Top.k = "switch"
    BY <1>1, <1>2, <1>3, <2>1 DEF CloseBlock, Reduce
  <2>2. CASE Top.k # "switch"
    BY <1>1, <1>2, <1>3, <2>2 DEF CloseBlock, Reduce
  <2>3. QED
    BY <2>1, <2>2
<1>5. PICK k : k = open[Len(open)].k
  OBVIOUS
<1>6. /\ CodeOK(cg, {}) /\ OpenOK(open) /\ CodeShape(cg) /\ StackShape(cg)
      /\ Standing(cg, open) /\ Apart(cg) /\ cg.in_switch = FALSE
  BY DEF Compiling, CodeOK
<1>7. k \in {"block", "switch"}
  BY <1>5, <1>6, TopIs DEF CloseBlock, Ending
<1>8. /\ Owns(k) /\ LabelsOf(k) = 0 /\ k \notin Loops
      /\ k \notin {"function", "catch", "try", "handlers"}
  BY <1>7 DEF Owns, Blocks, LabelsOf, Loops
<1>9. CodeOK(c, {}) /\ Aside(cg, c)
  BY <1>1, <1>6, HistoryOK
<1>10. CodeOK(d, {}) /\ Aside(c, d)
  BY <1>3, <1>9, HistoryOK
<1>11. Aside(cg, d)
  BY <1>9, <1>10 DEF Aside, Frame
<1>12. PICK x : TopPost(cg, open, x)
  BY <1>6, TopFacts
<1>13. PICK F : F = FlagsAt(cg, x)
  OBVIOUS
<1>14. x \in Heights /\ StandsBelow(cg, open, x)
  BY <1>12 DEF TopPost
<1>15. /\ Len(cg.label_stack) = x.label + LabelsOf(k)
       /\ Len(cg.break_stack) = x.brk + Bit("BREAKABLE" \in F)
       /\ Len(cg.continue_stack) = x.cont + Bit("CONTINUEABLE" \in F)
       /\ Len(cg.switch_stack) = x.sw + Bit("IN_SWITCH" \in F)
       /\ Len(cg.context_stack) = x.ctx + Bit("CONTEXT_PUSHED" \in F)
       /\ Len(cg.mTryStack) = x.try + Bit(k \in {"try", "handlers"})
       /\ Len(cg.block_stack) = x.blk + 1
  BY <1>5, <1>8, <1>12, <1>13, OwnSums
<1>16. /\ "IN_SWITCH" \in F => "BREAKABLE" \in F
       /\ "BREAKABLE" \in F /\ "IN_SWITCH" \notin F =>
            x.label >= 1 /\ cg.break_stack[x.brk + 1] = cg.label_stack[x.label]
  BY <1>5, <1>8, <1>12, <1>13, OwnFlags
<1>17. Len(cg.label_stack) = x.label /\ Len(cg.mTryStack) = x.try
  BY <1>8, <1>14, <1>15 DEF Bit, Heights
<1>18. BlockSums(d, x, F)
  BY <1>11, <1>13, <1>15, <1>16, <1>17 DEF BlockSums, FlagsAt, Aside, Frame
<1>19. Closed(d, cg', x)
  BY <1>4, <1>10, <1>14, <1>18, BlockCloses
<1>20. Closed(cg, cg', x)
  <2>1. \A l : Other(d, l) => Other(cg, l)
    BY <1>11 DEF Other, Aside, Frame
  <2>2. QED
    BY <1>11, <1>19, <2>1 DEF Closed, Aside, Frame, Later, GotoSame, Agree
<1>21. Tops(cg') = x
  BY <1>14, <1>17, <1>20 DEF Closed, Tops, Heights
<1>22. Apart(cg')
  BY <1>6, <1>20, ApartKept DEF Closed
<1>23. /\ CodeOK(cg', {}) /\ Later(cg, cg') /\ GotoSame(cg, cg') /\ cg'.in_switch = FALSE
       /\ Agree(cg, cg', x) /\ (cg'.in_loop => cg.in_loop /\ k \notin Loops)
  BY <1>6, <1>8, <1>20 DEF Closed
<1>24. k \notin {"function", "catch"}
  BY <1>8
<1>25. QED
  BY <1>4, <1>5, <1>14, <1>21, <1>22, <1>23, <1>24, ClosesOK

\* The end of a for.
LEMMA EndForKeeps ==
  ASSUME Compiling(cg, open), EndFor
  PROVE  Compiling(cg', open')
<1>1. PICK e : e = Begin(cg, open, "")
  OBVIOUS
<1>2. PICK f : f = Emit(e, "CALL", 0)
  OBVIOUS
<1>3. PICK i : i = Top.id
  OBVIOUS
<1>4. PICK g : g = LoopDone(f, "JMP", i)
  OBVIOUS
<1>5. PICK q : q = Front(open)
  OBVIOUS
<1>6. PICK h : h = Between(g, q)
  OBVIOUS
<1>7. cg' = FinalizeBlock(h) /\ open' = Close(open)
  BY <1>1, <1>2, <1>3, <1>4, <1>5, <1>6, LoopEnds DEF EndFor, Reduce, LoopDone
<1>8. PICK k : k = open[Len(open)].k
  OBVIOUS
<1>9. /\ CodeOK(cg, {}) /\ OpenOK(open) /\ CodeShape(cg) /\ StackShape(cg)
      /\ Standing(cg, open) /\ Apart(cg) /\ cg.in_switch = FALSE
  BY DEF Compiling, CodeOK
<1>10. k = "for"
  BY <1>8, <1>9, TopIs DEF EndFor, Ending
<1>11. /\ Owns(k) /\ LabelsOf(k) = 2 /\ k \in Loops
       /\ k \notin {"function", "catch", "try", "handlers"}
  BY <1>10 DEF Owns, LabelsOf, Loops
<1>12. CodeOK(e, {}) /\ Aside(cg, e) /\ CodeShape(e)
  BY <1>1, <1>9, HistoryOK DEF CodeOK
<1>13. CodeOK(f, {}) /\ Frame(e, f) /\ f.label = e.label /\ f.context_stack = e.context_stack
  <2>1. "CALL" \in Ops \ (JumpOps \union {"JSWITCH"})
        /\ "CALL" \notin {"TOSD", "MARK", "UNWIND"} /\ 0 \in Nat
    BY DEF Ops, JumpOps
  <2>2. CodeOK(f, {})
    BY <1>2, <1>12, <2>1, EmitOK
  <2>3. EmitPost(e, f, "CALL", 0)
    BY <1>2, <1>12, <2>1, EmitFacts
  <2>4. QED
    BY <2>2, <2>3 DEF EmitPost
<1>14. /\ Frame(cg, f) /\ f.label = cg.label /\ f.context_stack = cg.context_stack
  BY <1>12, <1>13 DEF Aside, Frame
<1>15. Len(f.label_stack) >= 2 /\ f.label[f.label_stack[Len(f.label_stack) - 1]].to # 0
  BY <1>8, <1>11, <1>14, LoopLabels DEF Frame
<1>16. PICK op \in JumpOps : op = "JMP"
  BY DEF JumpOps
<1>17. LabelCloses(f, g, k) /\ g.in_loop = FALSE
  BY <1>4, <1>11, <1>13, <1>15, <1>16, LoopClosesOK, ZenonT(60)
<1>18. LabelCloses(cg, g, k)
  BY <1>14, <1>17 DEF LabelCloses, Frame, Later
<1>19. CodeOK(h, {}) /\ Aside(g, h)
  BY <1>6, <1>17, HistoryOK DEF LabelCloses
<1>20. PICK x : TopPost(cg, open, x)
  BY <1>9, TopFacts
<1>21. PICK F : F = FlagsAt(cg, x)
  OBVIOUS
<1>22. x \in Heights /\ StandsBelow(cg, open, x)
  BY <1>20 DEF TopPost
<1>23. /\ Len(cg.label_stack) = x.label + LabelsOf(k)
       /\ Len(cg.break_stack) = x.brk + Bit("BREAKABLE" \in F)
       /\ Len(cg.continue_stack) = x.cont + Bit("CONTINUEABLE" \in F)
       /\ Len(cg.switch_stack) = x.sw + Bit("IN_SWITCH" \in F)
       /\ Len(cg.context_stack) = x.ctx + Bit("CONTEXT_PUSHED" \in F)
       /\ Len(cg.mTryStack) = x.try + Bit(k \in {"try", "handlers"})
       /\ Len(cg.block_stack) = x.blk + 1
  BY <1>8, <1>11, <1>20, <1>21, OwnSums
<1>24. /\ "IN_SWITCH" \in F => "BREAKABLE" \in F
       /\ "BREAKABLE" \in F /\ "IN_SWITCH" \notin F =>
            x.label >= 1 /\ cg.break_stack[x.brk + 1] = cg.label_stack[x.label]
  BY <1>8, <1>11, <1>20, <1>21, OwnFlags
<1>25. Len(cg.mTryStack) = x.try
  BY <1>11, <1>22, <1>23 DEF Bit, Heights
<1>26. x.label \in Nat /\ Len(cg.label_stack) - LabelsOf(k) = x.label
  BY <1>11, <1>22, <1>23 DEF Heights
<1>27. /\ Len(h.label_stack) = x.label /\ Kept(cg.label_stack, h.label_stack, x.label)
  BY <1>18, <1>19, <1>26 DEF LabelCloses, Aside, Frame
<1>28. /\ h.label = g.label /\ h.break_stack = cg.break_stack
       /\ h.continue_stack = cg.continue_stack /\ h.switch_stack = cg.switch_stack
       /\ h.mTryStack = cg.mTryStack /\ h.block_stack = cg.block_stack
       /\ h.context_stack = cg.context_stack /\ h.in_switch = cg.in_switch
       /\ h.goto = cg.goto /\ h.in_loop = FALSE
  BY <1>17, <1>18, <1>19 DEF LabelCloses, Aside, Frame
<1>29. BlockSums(h, x, F)
  <2>1. x.label >= 1 => h.label_stack[x.label] = cg.label_stack[x.label]
    <3>1. x.label >= 1 => x.label \in 1 .. x.label
      BY <1>26
    <3>2. QED
      BY <1>27, <3>1 DEF Kept
  <2>2. QED
    BY <1>21, <1>23, <1>24, <1>27, <1>28, <2>1 DEF BlockSums, FlagsAt
<1>30. Closed(h, cg', x)
  BY <1>7, <1>19, <1>22, <1>29, BlockCloses
<1>31. Tops(cg') = x
  BY <1>22, <1>25, <1>27, <1>28, <1>30 DEF Closed, Tops, Heights
<1>32. Agree(cg, cg', x)
  <2>1. Agree(h, cg', x)
    BY <1>30 DEF Closed
  <2>2. QED
    BY <1>27, <1>28, <2>1 DEF Agree, Kept
<1>33. Later(cg, cg')
  <2>1. Later(cg, g) /\ Later(h, cg') /\ CodeShape(g) /\ CodeShape(cg')
    BY <1>17, <1>18, <1>30 DEF LabelCloses, Closed, CodeOK
  <2>2. Later(g, cg')
    BY <1>28, <2>1 DEF Later
  <2>3. QED
    BY <1>9, <2>1, <2>2, LaterTwice
<1>34. Apart(cg')
  <2>1. \A l : In(h.label_stack, l) => In(cg.label_stack, l)
    <3>1. \A m \in 1 .. x.label : m \in 1 .. Len(cg.label_stack)
      BY <1>11, <1>23, <1>26
    <3>2. QED
      BY <1>27, <3>1 DEF In, Kept
  <2>2. \A l : Other(cg', l) => Other(cg, l)
    BY <1>28, <1>30, <2>1 DEF Closed, Other
  <2>3. cg'.mTryStack = cg.mTryStack
    BY <1>28, <1>30 DEF Closed
  <2>4. QED
    BY <1>9, <2>2, <2>3, ApartKept
<1>35. /\ CodeOK(cg', {}) /\ GotoSame(cg, cg') /\ cg'.in_switch = FALSE
       /\ cg'.in_loop = FALSE
  BY <1>9, <1>28, <1>30 DEF Closed, GotoSame
<1>36. k \notin {"function", "catch"}
  BY <1>11
<1>37. QED
  BY <1>7, <1>8, <1>22, <1>31, <1>32, <1>33, <1>34, <1>35, <1>36, ClosesOK

\* Another statement takes the place of the innermost one.
ReplacePost(o, x, p) ==
  /\ OpenOK(p) /\ Len(p) = Len(o) /\ SameKinds(o, p, Len(o) - 1) /\ p[Len(o)] = x
  /\ Len(o) \in Nat /\ Len(o) >= 2

\* The innermost statement gives way to another.
LEMMA ReplacedOpen ==
  ASSUME NEW o, OpenOK(o), o[Len(o)].k \notin {"function", "catch"}, NEW x,
         DOMAIN x = ItemFields, x.k \notin {"function", "catch"},
         NEW p, p = Append(Front(o), x)
  PROVE  ReplacePost(o, x, p)
<1>1. PICK q : q = Front(o)
  OBVIOUS
<1>2. /\ Len(o) >= 2 /\ OpenOK(q) /\ Len(q) = Len(o) - 1 /\ SameKinds(o, q, Len(o) - 1)
      /\ q[Len(q)].k # "handlers"
  BY <1>1, FrontOpen
<1>3. Len(o) \in Nat
  BY SeqShape DEF OpenOK
<1>4. CanAppend(q, x)
  BY <1>2 DEF CanAppend
<1>5. AppendPost(q, x, p)
  BY <1>1, <1>2, <1>4, AppendOpen
<1>6. Len(q) + 1 = Len(o)
  BY <1>2, <1>3
<1>7. QED
  BY <1>2, <1>3, <1>5, <1>6 DEF AppendPost, ReplacePost, SameKinds

\* That keeps what holds between two actions, when the other one stands.
LEMMA ReplacesOK ==
  ASSUME NEW c, NEW o, Compiling(c, o), o[Len(o)].k \notin Loops, NEW y, StandsBelow(c, o, y),
         NEW d, CodeOK(d, {}), Later(c, d), GotoSame(c, d), d.in_switch = FALSE,
         d.in_loop => c.in_loop, Apart(d), Agree(c, d, y), NEW x, Stands(d, y, x.k),
         NEW p, ReplacePost(o, x, p), Handlers(d, p)
  PROVE  Compiling(d, p)
<1>1. CodeShape(c) /\ StackShape(c) /\ OpenOK(o) /\ GotoOK(c) /\ (c.in_loop => SomeLoop(o))
  BY DEF Compiling, CodeOK
<1>2. /\ OpenOK(p) /\ Len(p) = Len(o) /\ SameKinds(o, p, Len(o) - 1) /\ p[Len(o)].k = x.k
      /\ Len(o) \in Nat /\ Len(o) >= 2
  BY DEF ReplacePost
<1>3. Standing(d, p)
  BY <1>1, <1>2, ReplaceStanding DEF Stands
<1>4. GotoOK(d)
  BY <1>1, GotoKept
<1>5. d.in_loop => SomeLoop(p)
  <2>1. SUFFICES ASSUME d.in_loop PROVE SomeLoop(p)
    OBVIOUS
  <2>2. PICK m : m = Len(o) - 1
    OBVIOUS
  <2>3. m \in Nat /\ m <= Len(p) /\ Len(p) \in Nat /\ SameKinds(o, p, m)
    BY <1>2, <2>2
  <2>4. m = Len(o) - 1 /\ SomeLoop(o)
    BY <1>1, <2>1, <2>2
  <2>5. QED
    BY <1>2, <2>3, <2>4, LoopsKept
<1>6. QED
  BY <1>2, <1>3, <1>4, <1>5 DEF Compiling

\* An else.
LEMMA ElseKeeps ==
  ASSUME Compiling(cg, open), Else
  PROVE  Compiling(cg', open')
<1>1. PICK c : c = Between(cg, open)
  OBVIOUS
<1>2. PICK x : x = Item("else", <<>>)
  OBVIOUS
<1>3. cg' = DoLoopEnd(c, TRUE, TRUE) /\ open' = Append(Front(open), x)
  BY <1>1, <1>2 DEF Else, Compile
<1>4. /\ CodeOK(cg, {}) /\ OpenOK(open) /\ CodeShape(cg) /\ StackShape(cg)
      /\ Standing(cg, open) /\ Apart(cg) /\ cg.in_switch = FALSE
  BY DEF Compiling, CodeOK
<1>5. open[Len(open)].k = "if"
  BY <1>4, TopIs DEF Else, Ending
<1>6. DOMAIN x = ItemFields /\ x.k = "else"
  BY <1>2 DEF Item, ItemFields
<1>7. ReplacePost(open, x, open')
  BY <1>3, <1>4, <1>5, <1>6, ReplacedOpen
<1>8. PICK y : TopPost(cg, open, y)
  BY <1>4, TopFacts
<1>9. PICK F : F = FlagsAt(cg, y)
  OBVIOUS
<1>10. y \in Heights /\ StandsBelow(cg, open, y) /\ Tops(cg) = After(y, "if", F)
  BY <1>5, <1>8, <1>9 DEF TopPost
<1>11. /\ Len(cg.label_stack) = y.label + 1 /\ Len(cg.break_stack) = y.brk
       /\ Len(cg.continue_stack) = y.cont /\ Len(cg.switch_stack) = y.sw
       /\ Len(cg.context_stack) = y.ctx /\ Len(cg.block_stack) = y.blk
       /\ Len(cg.mTryStack) = y.try
  <2>1. ~Owns("if") /\ LabelsOf("if") = 1
    BY DEF Owns, Blocks, LabelsOf, Loops
  <2>2. \A b : Bit(Owns("if") /\ b) = 0
    BY <2>1 DEF Bit
  <2>3. Bit(Owns("if")) = 0 /\ Bit("if" \in {"try", "handlers"}) = 0
    BY <2>1 DEF Bit
  <2>4. /\ Bit(Owns("if") /\ "BREAKABLE" \in F) = 0 /\ Bit(Owns("if") /\ "CONTINUEABLE" \in F) = 0
        /\ Bit(Owns("if") /\ "IN_SWITCH" \in F) = 0 /\ Bit(Owns("if") /\ "CONTEXT_PUSHED" \in F) = 0
    BY <2>2
  <2>5. QED
    BY <1>10, <2>1, <2>3, <2>4 DEF Tops, After, Heights
<1>12. CodeOK(c, {}) /\ Aside(cg, c) /\ CodeShape(c)
  BY <1>1, <1>4, HistoryOK DEF CodeOK
<1>13. /\ Works(c, {}, cg') /\ Len(cg'.label_stack) = Len(c.label_stack)
       /\ Kept(c.label_stack, cg'.label_stack, Len(c.label_stack) - 1)
       /\ cg'.label_stack[Len(c.label_stack)] = Len(c.label) + 1
  <2>1. y.label \in Nat /\ c.label_stack = cg.label_stack
    BY <1>10, <1>12 DEF Heights, Aside, Frame
  <2>2. Len(c.label_stack) >= 1
    BY <1>11, <2>1
  <2>3. QED
    BY <1>3, <1>12, <2>2, ElseOK
<1>14. /\ Len(cg'.label_stack) = y.label + 1 /\ Kept(cg.label_stack, cg'.label_stack, y.label)
       /\ cg'.label_stack[y.label + 1] = Len(cg.label) + 1
  <2>1. c.label_stack = cg.label_stack /\ c.label = cg.label
    BY <1>12 DEF Aside, Frame
  <2>2. Len(cg.label_stack) - 1 = y.label
    BY <1>10, <1>11 DEF Heights
  <2>3. QED
    BY <1>11, <1>13, <2>1, <2>2
<1>15. /\ CodeOK(cg', {}) /\ Later(cg, cg')
       /\ cg'.break_stack = cg.break_stack /\ cg'.continue_stack = cg.continue_stack
       /\ cg'.switch_stack = cg.switch_stack /\ cg'.mTryStack = cg.mTryStack
       /\ cg'.block_stack = cg.block_stack /\ cg'.context_stack = cg.context_stack
       /\ cg'.in_switch = cg.in_switch /\ cg'.goto = cg.goto /\ cg'.in_loop = cg.in_loop
  BY <1>12, <1>13 DEF Works, LabelFrame, Aside, Frame, Later
<1>16. ~Owns("else") /\ LabelsOf("else") = 1 /\ "else" \notin Loops
       /\ Bit("else" \in {"try", "handlers"}) = 0
  BY DEF Owns, Blocks, LabelsOf, Loops, Bit
<1>17. Tops(cg') = After(y, "else", FlagsAt(cg', y))
  <2>1. Len(cg'.mTryStack) = y.try + Bit("else" \in {"try", "handlers"})
    BY <1>10, <1>11, <1>15, <1>16 DEF Heights
  <2>2. QED
    BY <1>10, <1>11, <1>14, <1>15, <1>16, <2>1, PlainStands, SMTT(40)
<1>18. Stands(cg', y, "else")
  BY <1>16, <1>17 DEF Stands, ItemOK
<1>19. Agree(cg, cg', y)
  BY <1>14, <1>15 DEF Agree, Kept
<1>20. Apart(cg')
  <2>1. ASSUME NEW l \in 1 .. Len(cg.label), In(cg'.label_stack, l)
        PROVE  In(cg.label_stack, l)
    <3>1. PICK i \in 1 .. Len(cg'.label_stack) : l = cg'.label_stack[i]
      BY <2>1 DEF In
    <3>2. y.label \in Nat /\ Len(cg.label) \in Nat
      BY <1>4, <1>10, ShapeFacts DEF Heights
    <3>3. i # y.label + 1
      BY <1>14, <3>1, <3>2
    <3>4. i \in 1 .. y.label /\ i \in 1 .. Len(cg.label_stack)
      BY <1>11, <1>14, <3>1, <3>2, <3>3
    <3>5. QED
      BY <1>14, <3>1, <3>4 DEF Kept, In
  <2>2. \A l \in 1 .. Len(cg.label) : Other(cg', l) => Other(cg, l)
    BY <1>15, <2>1 DEF Other
  <2>3. QED
    BY <1>4, <1>15, <2>2, ApartKept
<1>21. Handlers(cg', open')
  BY <1>6, <1>7 DEF Handlers, ReplacePost
<1>22. Stands(cg', y, x.k) /\ open[Len(open)].k \notin Loops
  BY <1>5, <1>6, <1>18 DEF Loops
<1>23. GotoSame(cg, cg') /\ cg'.in_switch = FALSE
  BY <1>4, <1>15 DEF GotoSame
<1>24. QED
  BY <1>7, <1>10, <1>15, <1>19, <1>20, <1>21, <1>22, <1>23, ReplacesOK

\* The jump behind the handlers of a try block.
LEMMA JumpHandlers ==
  ASSUME NEW c, CodeOK(c, {}), NEW l, l \in 1 .. Len(c.label),
         l = c.mTryStack[Len(c.mTryStack)].label,
         NEW op, op = "JMP", NEW d, JumpPost(c, {}, d, op, l), NEW p
  PROVE  Handlers(d, p)
<1>1. /\ CodeShape(c) /\ StackShape(c) /\ RefsClean(c, {}) /\ Within(c, Len(c.code) + 1)
      /\ Len(c.code) \in Nat
  BY ShapeFacts DEF CodeOK
<1>2. PICK n1 : n1 = Len(c.code) + 1
  OBVIOUS
<1>3. /\ CodeOK(d, {}) /\ Frame(c, d) /\ Len(d.label) = Len(c.label)
      /\ \A k \in 1 .. Len(c.label) :
           d.label[k].to = c.label[k].to /\ (k # l => d.label[k].refs = c.label[k].refs)
      /\ Len(d.code) = n1 /\ \A i \in 1 .. Len(c.code) : d.code[i] = c.code[i]
      /\ d.code[n1] = [op |-> op, arg |-> c.label[l].to, table |-> {}, at |-> c.here]
  BY <1>2 DEF JumpPost
<1>4. \A i \in 1 .. n1 : i \in 1 .. Len(c.code) \/ i = n1
  BY <1>1, <1>2
<1>5. Within(d, n1)
  <2>1. \A i \in 1 .. n1 :
          /\ d.code[i].op \in JumpOps \union {"JSWITCH"} => d.code[i].arg <= n1
          /\ d.code[i].table \subseteq 1 .. n1
    <3>1. \A i \in 1 .. Len(c.code) :
            /\ c.code[i].op \in JumpOps \union {"JSWITCH"} => c.code[i].arg <= n1
            /\ c.code[i].table \subseteq 1 .. n1
      BY <1>1, <1>2 DEF Within
    <3>2. c.label[l].to <= n1
      BY <1>1, <1>2 DEF Within
    <3>3. d.code[n1].arg <= n1 /\ d.code[n1].table \subseteq 1 .. n1
      BY <1>3, <3>2
    <3>4. QED
      BY <1>3, <1>4, <3>1, <3>3, ZenonT(60)
  <2>2. \A k \in 1 .. Len(d.label) : d.label[k].to <= n1
    BY <1>1, <1>2, <1>3 DEF Within
  <2>3. /\ \A s \in 1 .. Len(d.switch_stack) :
             d.switch_stack[s].default <= n1 /\ d.switch_stack[s].cases \subseteq 1 .. n1
        /\ \A s \in 1 .. MaxObjects : d.catch[s] \subseteq 1 .. n1
    BY <1>1, <1>2, <1>3 DEF Within, Frame
  <2>4. QED
    BY <1>3, <2>1, <2>2, <2>3 DEF Within
<1>6. ASSUME NEW k \in 1 .. Len(d.label), k \in Owned(d),
             k # d.mTryStack[Len(d.mTryStack)].label
      PROVE  n1 \notin d.label[k].refs
  <2>1. k \in Owned(c) /\ k # l /\ k \in 1 .. Len(c.label)
    BY <1>3, <1>6 DEF Frame, Owned
  <2>2. k \in Holders(c, {})
    BY <2>1 DEF Holders
  <2>3. \A i \in c.label[k].refs : i \in 1 .. Len(c.code)
    BY <1>1, <2>1, <2>2 DEF RefsClean
  <2>4. n1 \notin 1 .. Len(c.code)
    BY <1>1, <1>2
  <2>5. QED
    BY <1>3, <2>1, <2>3, <2>4
<1>7. n1 >= 1
  BY <1>1, <1>2
<1>8. QED
  BY <1>3, <1>5, <1>6, <1>7 DEF Handlers

\* A block that belongs to a try block ends with a jump behind its handlers.
HandlerEnds(c, x, d) ==
  /\ CodeOK(d, {}) /\ Later(c, d) /\ GotoSame(c, d) /\ Agree(c, d, x) /\ Apart(d)
  /\ d.in_switch = FALSE /\ d.in_loop = c.in_loop
  /\ Len(d.label_stack) = x.label /\ d.mTryStack = c.mTryStack
  /\ Len(d.break_stack) = x.brk /\ Len(d.continue_stack) = x.cont
  /\ Len(d.switch_stack) = x.sw /\ Len(d.context_stack) = x.ctx
  /\ Len(d.block_stack) = x.blk /\ \A p : Handlers(d, p)

\* The end of such a block leaves the stacks as they were below it.
LEMMA HandlerEndsOK ==
  ASSUME NEW c, NEW o, Compiling(c, o), NEW k, k = o[Len(o)].k, k \in {"try", "catch"},
         NEW x, TopPost(c, o, x), Len(c.mTryStack) >= 1,
         NEW e, CodeOK(e, {}), Aside(c, e),
         NEW f, f = FinalizeBlock(e), NEW d, d = Jump(f, "JMP", TOS(f, "mTryStack").label)
  PROVE  HandlerEnds(c, x, d)
<1>1. CodeShape(c) /\ StackShape(c) /\ Apart(c) /\ c.in_switch = FALSE
  BY DEF Compiling, CodeOK
<1>2. Owns(k) /\ LabelsOf(k) = 0
  BY DEF Owns, Blocks, LabelsOf, Loops
<1>3. PICK F : F = FlagsAt(c, x)
  OBVIOUS
<1>4. x \in Heights
  BY DEF TopPost
<1>5. /\ Len(c.label_stack) = x.label + LabelsOf(k)
      /\ Len(c.break_stack) = x.brk + Bit("BREAKABLE" \in F)
      /\ Len(c.continue_stack) = x.cont + Bit("CONTINUEABLE" \in F)
      /\ Len(c.switch_stack) = x.sw + Bit("IN_SWITCH" \in F)
      /\ Len(c.context_stack) = x.ctx + Bit("CONTEXT_PUSHED" \in F)
      /\ Len(c.block_stack) = x.blk + 1
  BY <1>2, <1>3, OwnSums
<1>6. /\ "IN_SWITCH" \in F => "BREAKABLE" \in F
      /\ "BREAKABLE" \in F /\ "IN_SWITCH" \notin F =>
           x.label >= 1 /\ c.break_stack[x.brk + 1] = c.label_stack[x.label]
  BY <1>2, <1>3, OwnFlags
<1>7. Len(c.label_stack) = x.label
  BY <1>2, <1>4, <1>5 DEF Heights
<1>8. BlockSums(e, x, F)
  BY <1>3, <1>5, <1>6, <1>7 DEF BlockSums, FlagsAt, Aside, Frame
<1>9. Closed(e, f, x)
  BY <1>4, <1>8, BlockCloses
<1>10. Closed(c, f, x)
  <2>1. \A l : Other(e, l) => Other(c, l)
    BY DEF Other, Aside, Frame
  <2>2. QED
    BY <1>9, <2>1 DEF Closed, Aside, Frame, Later, GotoSame, Agree
<1>11. CodeOK(f, {}) /\ CodeShape(f) /\ StackShape(f) /\ f.mTryStack = c.mTryStack
       /\ Len(f.mTryStack) \in Nat /\ Len(f.mTryStack) >= 1
  BY <1>10, StackFacts DEF Closed, CodeOK
<1>12. PICK l : l = f.mTryStack[Len(f.mTryStack)].label
  OBVIOUS
<1>13. l \in 1 .. Len(f.label) /\ l = TOS(f, "mTryStack").label
  <2>1. Len(f.mTryStack) \in 1 .. Len(f.mTryStack)
    BY <1>11
  <2>2. f.mTryStack[Len(f.mTryStack)] \in Tries(Len(f.label))
    BY <1>11, <2>1, StackFacts
  <2>3. IsSeq(f.mTryStack)
    BY <1>11 DEF StackShape, IsSeq
  <2>4. TOS(f, "mTryStack") = f.mTryStack[Len(f.mTryStack)]
    BY <2>3, SeqShape DEF TOS
  <2>5. QED
    BY <1>12, <2>2, <2>4 DEF Tries
<1>14. PICK op \in JumpOps : op = "JMP"
  BY DEF JumpOps
<1>15. JumpPost(f, {}, d, op, l)
  BY <1>11, <1>13, <1>14, JumpOK
<1>16. \A p : Handlers(d, p)
  BY <1>11, <1>12, <1>13, <1>14, <1>15, JumpHandlers
<1>17. CodeOK(d, {}) /\ Frame(f, d) /\ Later(f, d) /\ d.context_stack = f.context_stack
       /\ CodeShape(d)
  BY <1>15 DEF JumpPost, CodeOK
<1>18. Later(c, d)
  BY <1>1, <1>10, <1>11, <1>17, LaterTwice DEF Closed
<1>19. Apart(d)
  <2>1. \A j : Other(d, j) => Other(c, j)
    BY <1>10, <1>17 DEF Closed, Other, Frame
  <2>2. QED
    BY <1>1, <1>11, <1>17, <2>1, ApartKept DEF Frame
<1>20. QED
  BY <1>1, <1>7, <1>10, <1>16, <1>17, <1>18, <1>19, SMTT(40)
     DEF HandlerEnds, Closed, Frame, GotoSame, Agree

\* The end of the block of a try.
LEMMA EndTryBlockKeeps ==
  ASSUME Compiling(cg, open), EndTryBlock
  PROVE  Compiling(cg', open')
<1>1. PICK e : e = Between(cg, open)
  OBVIOUS
<1>2. PICK f : f = FinalizeBlock(e)
  OBVIOUS
<1>3. PICK x : x = Item("handlers", <<>>)
  OBVIOUS
<1>4. cg' = Jump(f, "JMP", TOS(f, "mTryStack").label) /\ open' = Append(Front(open), x)
  BY <1>1, <1>2, <1>3 DEF EndTryBlock, Reduce
<1>5. /\ CodeOK(cg, {}) /\ OpenOK(open) /\ CodeShape(cg) /\ StackShape(cg) /\ Standing(cg, open)
  BY DEF Compiling, CodeOK
<1>6. PICK k : k = open[Len(open)].k
  OBVIOUS
<1>7. k = "try"
  BY <1>5, <1>6, TopIs DEF EndTryBlock, Ending
<1>8. DOMAIN x = ItemFields /\ x.k = "handlers"
  BY <1>3 DEF Item, ItemFields
<1>9. ReplacePost(open, x, open')
  BY <1>4, <1>5, <1>6, <1>7, <1>8, ReplacedOpen
<1>10. PICK y : TopPost(cg, open, y)
  BY <1>5, TopFacts
<1>11. y \in Heights /\ StandsBelow(cg, open, y) /\ Len(cg.mTryStack) = y.try + 1
  <2>1. Bit(k \in {"try", "handlers"}) = 1
    BY <1>7 DEF Bit
  <2>2. QED
    BY <1>6, <1>10, <2>1 DEF TopPost, Tops, After
<1>12. CodeOK(e, {}) /\ Aside(cg, e)
  BY <1>1, <1>5, HistoryOK
<1>13. HandlerEnds(cg, y, cg')
  <2>1. y.try \in Nat
    BY <1>11 DEF Heights
  <2>2. Len(cg.mTryStack) >= 1
    BY <1>11, <2>1, OneMore
  <2>3. QED
    BY <1>2, <1>4, <1>6, <1>7, <1>10, <1>12, <2>2, HandlerEndsOK
<1>14. ~Owns("handlers") /\ LabelsOf("handlers") = 0 /\ "handlers" \notin Loops
       /\ Bit("handlers" \in {"try", "handlers"}) = 1
  BY DEF Owns, Blocks, LabelsOf, Loops, Bit
<1>15. Stands(cg', y, "handlers")
  <2>1. y.label + LabelsOf("handlers") = y.label
    BY <1>11, <1>14 DEF Heights
  <2>2. Tops(cg') = After(y, "handlers", FlagsAt(cg', y))
    BY <1>11, <1>13, <1>14, <2>1, PlainStands DEF HandlerEnds
  <2>3. QED
    BY <1>14, <2>2 DEF Stands, ItemOK
<1>16. Stands(cg', y, x.k) /\ open[Len(open)].k \notin Loops
  BY <1>6, <1>7, <1>8, <1>15 DEF Loops
<1>17. /\ CodeOK(cg', {}) /\ Later(cg, cg') /\ GotoSame(cg, cg') /\ Agree(cg, cg', y)
       /\ Apart(cg') /\ cg'.in_switch = FALSE /\ cg'.in_loop = cg.in_loop
       /\ Handlers(cg', open')
  BY <1>13 DEF HandlerEnds
<1>18. QED
  BY <1>9, <1>11, <1>16, <1>17, ReplacesOK

\* The try block of the handlers that are open.
LEMMA HandlersTry ==
  ASSUME NEW c, NEW o, OpenOK(o), NEW h, Tower(c, o, h), NEW i \in 1 .. Len(o),
         o[i].k \in {"try", "handlers"}
  PROVE  Len(c.mTryStack) >= 1
<1>1. Len(o) \in Nat
  BY SeqShape DEF OpenOK
<1>2. /\ h \in [1 .. Len(o) + 1 -> Heights] /\ h[Len(o) + 1] = Tops(c)
      /\ \A j \in 1 .. Len(o) : h[j + 1] = After(h[j], o[j].k, FlagsAt(c, h[j]))
      /\ \A j, m \in 1 .. Len(o) + 1 : j <= m => Below(h[j], h[m])
  BY DEF Tower
<1>3. i \in 1 .. Len(o) + 1 /\ i + 1 \in 1 .. Len(o) + 1 /\ i + 1 <= Len(o) + 1
      /\ Len(o) + 1 \in 1 .. Len(o) + 1
  BY <1>1
<1>4. h[i + 1].try = h[i].try + 1
  <2>1. Bit(o[i].k \in {"try", "handlers"}) = 1
    BY DEF Bit
  <2>2. h[i + 1] = After(h[i], o[i].k, FlagsAt(c, h[i]))
    BY <1>2
  <2>3. QED
    BY <2>1, <2>2 DEF After
<1>5. PICK x \in Heights : x = h[i]
  BY <1>2, <1>3
<1>6. PICK y \in Heights : y = h[i + 1]
  BY <1>2, <1>3
<1>7. PICK z \in Heights : z = Tops(c)
  BY <1>2, <1>3
<1>8. z.try = Len(c.mTryStack)
  BY <1>7 DEF Tops
<1>9. Below(y, z)
  <2>1. Below(h[i + 1], h[Len(o) + 1])
    BY <1>2, <1>3
  <2>2. QED
    BY <1>2, <1>6, <1>7, <2>1
<1>10. y.try <= z.try
  BY <1>9 DEF Below
<1>11. x.try \in Nat /\ y.try \in Nat /\ z.try \in Nat
  BY DEF Heights
<1>12. QED
  BY <1>4, <1>5, <1>6, <1>8, <1>10, <1>11

\* The end of a handler.
LEMMA EndCatchKeeps ==
  ASSUME Compiling(cg, open), EndCatch
  PROVE  Compiling(cg', open')
<1>1. PICK e : e = Between(cg, open)
  OBVIOUS
<1>2. PICK f : f = FinalizeBlock(e)
  OBVIOUS
<1>3. PICK q : q = Front(open)
  OBVIOUS
<1>4. cg' = Jump(f, "JMP", TOS(f, "mTryStack").label)
      /\ open' = [q EXCEPT ![Len(q)] = [@ EXCEPT !["done"] = TRUE]]
  BY <1>1, <1>2, <1>3 DEF EndCatch, Reduce
<1>5. /\ CodeOK(cg, {}) /\ OpenOK(open) /\ CodeShape(cg) /\ StackShape(cg)
      /\ Standing(cg, open) /\ GotoOK(cg) /\ (cg.in_loop => SomeLoop(open))
      /\ Len(open) \in Nat
  BY SeqShape DEF Compiling, CodeOK, OpenOK
<1>6. PICK k : k = open[Len(open)].k
  OBVIOUS
<1>7. k = "catch"
  BY <1>5, <1>6, TopIs DEF EndCatch, Ending
<1>8. /\ Len(open) >= 2 /\ OpenOK(q) /\ Len(q) = Len(open) - 1
      /\ SameKinds(open, q, Len(open) - 1) /\ q[Len(q)].k = "handlers"
  BY <1>3, <1>5, <1>6, <1>7, FrontOpen
<1>9. OpenOK(open') /\ Len(open') = Len(q) /\ SameKinds(q, open', Len(q))
  BY <1>4, <1>8, AlteredOpen, ZenonT(60)
<1>10. SameKinds(open, open', Len(open) - 1) /\ Len(open') = Len(open) - 1
  BY <1>8, <1>9 DEF SameKinds
<1>11. PICK y : TopPost(cg, open, y)
  BY <1>5, TopFacts
<1>12. y \in Heights /\ StandsBelow(cg, open, y) /\ Len(cg.mTryStack) = y.try
  <2>1. Bit(k \in {"try", "handlers"}) = 0
    BY <1>7 DEF Bit
  <2>2. QED
    BY <1>6, <1>11, <2>1, SMTT(40) DEF TopPost, Tops, After, Heights
<1>13. Len(cg.mTryStack) >= 1
  <2>1. PICK h : Tower(cg, open, h)
    BY <1>5 DEF Standing
  <2>2. PICK i : i = Len(open) - 1
    OBVIOUS
  <2>3. i \in 1 .. Len(open) /\ i \in 1 .. Len(open) - 1
    BY <1>5, <1>8, <2>2
  <2>4. open[i].k = "handlers"
    BY <1>8, <2>2, <2>3 DEF SameKinds
  <2>5. QED
    BY <1>5, <2>1, <2>3, <2>4, HandlersTry
<1>14. CodeOK(e, {}) /\ Aside(cg, e)
  BY <1>1, <1>5, HistoryOK
<1>15. HandlerEnds(cg, y, cg')
  BY <1>2, <1>4, <1>6, <1>7, <1>11, <1>13, <1>14, HandlerEndsOK
<1>16. /\ CodeOK(cg', {}) /\ Later(cg, cg') /\ GotoSame(cg, cg') /\ Agree(cg, cg', y)
       /\ Apart(cg') /\ cg'.in_switch = FALSE /\ cg'.in_loop = cg.in_loop
       /\ Handlers(cg', open')
  BY <1>15 DEF HandlerEnds
<1>17. Tops(cg') = y
  BY <1>12, <1>15 DEF HandlerEnds, Tops, Heights
<1>18. Standing(cg', open')
  BY <1>5, <1>10, <1>12, <1>16, <1>17, CloseStanding
<1>19. GotoOK(cg')
  BY <1>5, <1>16, GotoKept
<1>20. cg'.in_loop => SomeLoop(open')
  <2>1. SUFFICES ASSUME cg'.in_loop PROVE SomeLoop(open')
    OBVIOUS
  <2>2. PICK m : m = Len(open) - 1
    OBVIOUS
  <2>3. m \in Nat /\ m <= Len(open') /\ Len(open') \in Nat /\ SameKinds(open, open', m)
    BY <1>5, <1>8, <1>10, <2>2
  <2>4. m = Len(open) - 1 /\ open[Len(open)].k \notin Loops /\ SomeLoop(open)
    BY <1>5, <1>6, <1>7, <1>16, <2>1, <2>2 DEF Loops
  <2>5. QED
    BY <1>5, <2>3, <2>4, LoopsKept
<1>21. QED
  BY <1>9, <1>16, <1>18, <1>19, <1>20 DEF Compiling

\* A label goes from the hand of the action to a try block.
TryFrame(c, d) ==
  /\ DOMAIN d = Fields
  /\ d.code = c.code /\ d.label = c.label /\ d.label_stack = c.label_stack
  /\ d.break_stack = c.break_stack /\ d.continue_stack = c.continue_stack
  /\ d.switch_stack = c.switch_stack /\ d.block_stack = c.block_stack
  /\ d.context_stack = c.context_stack /\ d.in_loop = c.in_loop
  /\ d.in_switch = c.in_switch /\ d.size = c.size /\ d.catch = c.catch
  /\ d.goto = c.goto
HoldTryPost(c, d, t) ==
  CodeOK(d, {}) /\ TryFrame(c, d) /\ Grows(c.mTryStack, d.mTryStack, t)

\* A label pushed on the stack of try blocks is held there.
LEMMA HoldTryOK ==
  ASSUME NEW c, NEW l \in 1 .. Len(c.label), CodeOK(c, {l}), NEW s \in Nat,
         NEW t, t = [label |-> l, slot |-> s], NEW d, d = Push(c, "mTryStack", t)
  PROVE  HoldTryPost(c, d, t)
<1>1. CodeShape(c) /\ StackShape(c)
  BY DEF CodeOK
<1>2. TryFrame(c, d) /\ d.mTryStack = Append(c.mTryStack, t)
  BY <1>1 DEF Push, CodeShape, Fields, TryFrame
<1>3. c.mTryStack \in Seq(Tries(Len(c.label))) /\ t \in Tries(Len(c.label))
  BY <1>1 DEF StackShape, Tries
<1>4. /\ d.mTryStack \in Seq(Tries(Len(c.label)))
      /\ Grows(c.mTryStack, d.mTryStack, t) /\ Len(c.mTryStack) \in Nat
  BY <1>2, <1>3, AppendGrows
<1>5. StackShape(d)
  BY <1>1, <1>2, <1>4 DEF StackShape, TryFrame
<1>6. \A k : InTries(d, k) <=> k = l \/ InTries(c, k)
  <2>1. SUFFICES ASSUME NEW k PROVE InTries(d, k) <=> k = l \/ InTries(c, k)
    OBVIOUS
  <2>2. /\ \A i \in 1 .. Len(d.mTryStack) : i \in 1 .. Len(c.mTryStack) \/ i = Len(c.mTryStack) + 1
        /\ \A i \in 1 .. Len(c.mTryStack) : i \in 1 .. Len(d.mTryStack)
        /\ Len(c.mTryStack) + 1 \in 1 .. Len(d.mTryStack)
    BY <1>4 DEF Grows
  <2>3. /\ \A i \in 1 .. Len(c.mTryStack) : d.mTryStack[i] = c.mTryStack[i]
        /\ d.mTryStack[Len(c.mTryStack) + 1].label = l
    BY <1>4 DEF Grows, Kept
  <2>4. QED
    BY <2>2, <2>3 DEF InTries
<1>7. \A k : k \in Owned(d) <=> k = l \/ k \in Owned(c)
  BY <1>2, <1>6, OwnedIn DEF TryFrame
<1>8. \A k : k \in Holders(d, {}) <=> k \in Holders(c, {l})
  BY <1>7 DEF Holders
<1>9. CodeOK(d, {})
  BY <1>2, <1>5, <1>8, RestackedOK DEF TryFrame
<1>10. QED
  BY <1>2, <1>4, <1>9 DEF HoldTryPost

\* The block of a try block waits for its marker.
TryReadyPost(c, d, y, F) ==
  /\ Ready(c, d, y, F) /\ Len(d.mTryStack) = Len(c.mTryStack) + 1 /\ d.size = c.size

\* The block of a try is ready for its marker.
LEMMA TryReady ==
  ASSUME NEW c, CodeOK(c, {}), NEW b, NEW y, NEW F, InitReadyPost(c, b, y, F),
         NEW e, e = NewLabel(b), NEW s \in Nat, NEW t, t = [label |-> Len(e.label), slot |-> s],
         NEW d, d = Push(e, "mTryStack", t)
  PROVE  TryReadyPost(c, d, y, F)
<1>1. PICK l : l = Len(b.label) + 1
  OBVIOUS
<1>2. /\ Ready(c, b, y, F) /\ y \in Heights /\ b.mTryStack = c.mTryStack /\ b.size = c.size
      /\ CodeOK(b, {}) /\ CodeShape(b) /\ StackShape(b) /\ Apart(b)
      /\ Len(b.label) \in Nat \ {0} /\ Len(b.mTryStack) \in Nat /\ CodeShape(c)
  BY ShapeFacts, StackFacts DEF InitReadyPost, Ready, CodeOK
<1>3. NewLabelPost(b, {}, e, l)
  BY <1>1, <1>2, NewLabelOK
<1>4. /\ CodeOK(e, {l}) /\ Frame(b, e) /\ Later(b, e) /\ e.context_stack = b.context_stack
      /\ Len(e.label) = l /\ l \in 1 .. Len(e.label) /\ l \in Nat
  BY <1>1, <1>2, <1>3 DEF NewLabelPost
<1>5. HoldTryPost(e, d, t)
  BY <1>4, HoldTryOK
<1>6. /\ CodeOK(d, {}) /\ TryFrame(e, d) /\ Grows(b.mTryStack, d.mTryStack, t) /\ t.label = l
  BY <1>4, <1>5 DEF HoldTryPost, Frame
<1>7. /\ d.label = e.label /\ d.label_stack = b.label_stack
      /\ d.break_stack = b.break_stack /\ d.continue_stack = b.continue_stack
      /\ d.switch_stack = b.switch_stack /\ d.block_stack = b.block_stack
      /\ d.context_stack = b.context_stack /\ d.in_loop = b.in_loop
      /\ d.in_switch = b.in_switch /\ d.size = b.size /\ d.goto = b.goto
  BY <1>4, <1>6 DEF TryFrame, Frame
<1>8. Later(c, d) /\ GotoSame(c, d)
  <2>1. Later(c, b) /\ GotoSame(c, b)
    BY <1>2 DEF Ready
  <2>2. Later(b, d) /\ CodeShape(d)
    BY <1>4, <1>6, <1>7 DEF Later, CodeOK
  <2>3. QED
    BY <1>2, <1>7, <2>1, <2>2, LaterTwice DEF GotoSame
<1>9. \A k : Other(d, k) <=> Other(b, k)
  BY <1>7 DEF Other
<1>10. ~Other(b, l)
  <2>1. l # RetLabel
    BY <1>1, <1>2 DEF RetLabel
  <2>2. l # b.goto.label
    <3>1. b.goto.label \in 0 .. Len(b.label)
      BY <1>2 DEF StackShape
    <3>2. QED
      BY <1>1, <1>2, <3>1
  <2>3. \A k \in 1 .. Len(b.label) : k # l
    BY <1>1, <1>2
  <2>4. ~In(b.label_stack, l) /\ ~In(b.break_stack, l) /\ ~In(b.continue_stack, l)
    BY <1>2, <2>3, StackFacts DEF In
  <2>5. QED
    BY <2>1, <2>2, <2>4 DEF Other
<1>11. Apart(d)
  <2>1. PICK m \in Nat : m = Len(b.mTryStack)
    BY <1>2
  <2>2. /\ Len(d.mTryStack) = m + 1 /\ d.mTryStack[m + 1].label = l
        /\ \A i \in 1 .. m : d.mTryStack[i] = b.mTryStack[i]
    BY <1>6, <2>1 DEF Grows, Kept
  <2>3. \A i \in 1 .. m : b.mTryStack[i].label # l
    <3>1. \A i \in 1 .. m : b.mTryStack[i].label \in 1 .. Len(b.label)
      BY <1>2, <2>1, StackFacts DEF Tries
    <3>2. \A k \in 1 .. Len(b.label) : k # l
      BY <1>1, <1>2
    <3>3. QED
      BY <3>1, <3>2
  <2>4. \A i \in 1 .. m + 1 : i \in 1 .. m \/ i = m + 1
    BY <2>1
  <2>5. \A i \in 1 .. m : /\ ~Other(b, b.mTryStack[i].label)
                          /\ \A u \in 1 .. m : u # i => b.mTryStack[u].label # b.mTryStack[i].label
    BY <1>2, <2>1 DEF Apart
  <2>6. \A i \in 1 .. m + 1 : ~Other(d, d.mTryStack[i].label)
    BY <1>9, <1>10, <2>2, <2>4, <2>5
  <2>7. ASSUME NEW i \in 1 .. m + 1, NEW u \in 1 .. m + 1, u # i
        PROVE  d.mTryStack[u].label # d.mTryStack[i].label
    <3>1. CASE i = m + 1
      <4>1. u \in 1 .. m
        BY <2>4, <2>7, <3>1
      <4>2. QED
        BY <2>2, <2>3, <3>1, <4>1
    <3>2. CASE i # m + 1 /\ u = m + 1
      <4>1. i \in 1 .. m
        BY <2>4, <3>2
      <4>2. QED
        BY <2>2, <2>3, <3>2, <4>1
    <3>3. CASE i # m + 1 /\ u # m + 1
      <4>1. i \in 1 .. m /\ u \in 1 .. m
        BY <2>4, <3>3
      <4>2. QED
        BY <2>2, <2>5, <2>7, <4>1, SMTT(40)
    <3>4. QED
      BY <3>1, <3>2, <3>3
  <2>8. QED
    BY <2>2, <2>6, <2>7, SMTT(40) DEF Apart
<1>12. BlockBegun(c, d, y, F)
  <2>1. BlockBegun(c, b, y, F)
    BY <1>2 DEF Ready
  <2>2. QED
    BY <1>7, <1>9, <2>1 DEF BlockBegun, Agree, FlagsAt
<1>13. /\ d.in_switch = FALSE /\ d.in_loop = FALSE /\ d.label_stack = c.label_stack
       /\ Len(d.context_stack) = y.ctx + Bit("CONTEXT_PUSHED" \in F)
  BY <1>2, <1>7 DEF Ready
<1>14. Len(d.mTryStack) = Len(c.mTryStack) + 1 /\ d.size = c.size
  BY <1>2, <1>6, <1>7 DEF Grows
<1>15. QED
  BY <1>6, <1>8, <1>11, <1>12, <1>13, <1>14 DEF Ready, TryReadyPost

\* A try.
LEMMA TryKeeps ==
  ASSUME Compiling(cg, open), Try
  PROVE  Compiling(cg', open')
<1>1. PICK b : b = InitBlock(cg)
  OBVIOUS
<1>2. PICK e : e = NewLabel(b)
  OBVIOUS
<1>3. PICK s : s = e.size + 1
  OBVIOUS
<1>4. PICK t : t = [label |-> Len(e.label), slot |-> s]
  OBVIOUS
<1>5. PICK d : d = Push(e, "mTryStack", t)
  OBVIOUS
<1>6. PICK x : x = Item("try", <<s>>)
  OBVIOUS
<1>7. cg' = Construct(Begin(d, open, ""), "MARK") /\ open' = Append(open, x)
      /\ cg.size < MaxObjects
  BY <1>1, <1>2, <1>3, <1>4, <1>5, <1>6 DEF Try, Compile
<1>8. /\ CodeOK(cg, {}) /\ CodeShape(cg) /\ StackShape(cg) /\ OpenOK(open)
      /\ open[Len(open)].k # "handlers"
  BY TopIs DEF Compiling, CodeOK, Try, CanOpen, CanStart
<1>9. DOMAIN x = ItemFields /\ x.k = "try"
  BY <1>6 DEF Item, ItemFields
<1>10. CanAppend(open, x)
  BY <1>8, <1>9 DEF CanAppend
<1>11. PICK y : y = Tops(cg)
  OBVIOUS
<1>12. PICK F : F = BlockFlags(cg)
  OBVIOUS
<1>13. InitReadyPost(cg, b, y, F)
  BY <1>1, <1>11, <1>12, InitReady
<1>14. s \in Nat
  <2>1. CodeOK(b, {}) /\ b.size = cg.size
    BY <1>13 DEF InitReadyPost, Ready
  <2>2. PICK l : l = Len(b.label) + 1
    OBVIOUS
  <2>3. NewLabelPost(b, {}, e, l)
    BY <1>2, <2>1, <2>2, NewLabelOK
  <2>4. e.size = cg.size /\ cg.size \in Nat
    BY <1>8, <2>1, <2>3 DEF NewLabelPost, Frame, CodeShape
  <2>5. QED
    BY <1>3, <2>4
<1>15. TryReadyPost(cg, d, y, F)
  BY <1>2, <1>4, <1>5, <1>8, <1>13, <1>14, TryReady
<1>16. PICK op \in {"TOSD", "MARK"} : op = "MARK"
  OBVIOUS
<1>17. PICK G : G = F \union {"CONTEXT_PUSHED"}
  OBVIOUS
<1>18. Ready(cg, cg', y, G) /\ cg'.mTryStack = d.mTryStack
  <2>1. /\ Ready(cg, d, y, F) /\ y \in Heights /\ "CONTEXT_PUSHED" \notin F
        /\ d.size < MaxObjects
    BY <1>7, <1>13, <1>15 DEF InitReadyPost, TryReadyPost
  <2>2. cg' = Construct(Begin(d, open, ""), op)
    BY <1>7, <1>16
  <2>3. ReadyPost(cg, d, cg', y, F \union {"CONTEXT_PUSHED"})
    BY <1>8, <2>1, <2>2, ConstructReady
  <2>4. QED
    BY <1>17, <2>3 DEF ReadyPost
<1>19. Owns(x.k) /\ x.k \notin Loops /\ LabelsOf(x.k) = 0 /\ x.k \in {"try", "handlers"}
  BY <1>9 DEF Owns, Blocks, Loops, LabelsOf
<1>20. BlockHeights(cg', y, G, x.k)
  <2>1. Bit(x.k \in {"try", "handlers"}) = 1
    BY <1>19 DEF Bit
  <2>2. /\ y.label = Len(cg.label_stack) /\ y.try = Len(cg.mTryStack) /\ y.label \in Nat
    BY <1>11, <1>13 DEF Tops, Heights, InitReadyPost
  <2>3. cg'.label_stack = cg.label_stack /\ Len(cg'.mTryStack) = Len(cg.mTryStack) + 1
        /\ Len(cg'.context_stack) = y.ctx + Bit("CONTEXT_PUSHED" \in G)
    BY <1>15, <1>18 DEF TryReadyPost, Ready
  <2>4. QED
    BY <1>19, <2>1, <2>2, <2>3 DEF BlockHeights
<1>21. /\ CodeOK(cg', {}) /\ Later(cg, cg') /\ GotoSame(cg, cg') /\ Apart(cg')
       /\ cg'.in_switch = FALSE /\ (cg'.in_loop => x.k \in Loops)
       /\ BlockBegun(cg, cg', y, G)
  BY <1>18 DEF Ready
<1>22. QED
  BY <1>7, <1>10, <1>11, <1>19, <1>20, <1>21, BlockOpensOK

-----------------------------------------------------------------------------
(* The block of a switch                                                   *)
\* All but whether a switch waits for its block is as it was.
SetSwitchPost(c, d) ==
  /\ CodeOK(d, {}) /\ DOMAIN d = Fields /\ d.code = c.code /\ d.label = c.label
  /\ d.label_stack = c.label_stack
  /\ d.break_stack = c.break_stack /\ d.continue_stack = c.continue_stack
  /\ d.switch_stack = c.switch_stack /\ d.mTryStack = c.mTryStack
  /\ d.block_stack = c.block_stack /\ d.context_stack = c.context_stack
  /\ d.in_loop = c.in_loop /\ d.in_switch = TRUE /\ d.goto = c.goto
  /\ d.size = c.size /\ d.catch = c.catch

\* Setting in_switch keeps the code in order.
LEMMA SetSwitchOK ==
  ASSUME NEW c, CodeOK(c, {}), NEW d, d = [c EXCEPT !.in_switch = TRUE]
  PROVE  SetSwitchPost(c, d)
<1>1. CodeShape(c) /\ StackShape(c) /\ DOMAIN c = Fields
  BY DEF CodeOK, CodeShape
<1>2. DOMAIN d = Fields /\ d.in_switch = TRUE /\ \A f \in Fields \ {"in_switch"} : d[f] = c[f]
  BY <1>1 DEF Fields
<1>3. /\ d.code = c.code /\ d.label = c.label /\ d.label_stack = c.label_stack
      /\ d.break_stack = c.break_stack /\ d.continue_stack = c.continue_stack
      /\ d.switch_stack = c.switch_stack /\ d.mTryStack = c.mTryStack
      /\ d.block_stack = c.block_stack /\ d.context_stack = c.context_stack
      /\ d.in_loop = c.in_loop /\ d.goto = c.goto
      /\ d.size = c.size /\ d.catch = c.catch
  BY <1>2 DEF Fields
<1>4. StackShape(d)
  BY <1>1, <1>2, <1>3 DEF StackShape
<1>5. d.goto.label = c.goto.label
  BY <1>3
<1>6. CodeOK(d, {})
  BY <1>2, <1>3, <1>4, <1>5, AsideOK
<1>7. QED
  BY <1>2, <1>3, <1>6 DEF SetSwitchPost

\* Zero and the empty set are below every bound.
LEMMA NothingUp ==
  ASSUME NEW m \in Nat, NEW v, v = 0, NEW t, t = {}
  PROVE  v <= m /\ t \subseteq 1 .. m
OBVIOUS

\* The jump of a switch waits for the end of its block.
SwitchBeginsPost(c, d) ==
  /\ CodeOK(d, {}) /\ DOMAIN d = Fields /\ d.label = c.label
  /\ d.label_stack = c.label_stack
  /\ d.break_stack = c.break_stack /\ d.continue_stack = c.continue_stack
  /\ d.mTryStack = c.mTryStack
  /\ d.block_stack = c.block_stack /\ d.context_stack = c.context_stack
  /\ d.in_loop = c.in_loop /\ d.in_switch = c.in_switch /\ d.goto = c.goto
  /\ d.size = c.size /\ d.catch = c.catch
  /\ Len(d.switch_stack) = Len(c.switch_stack) + 1

\* A switch and its jump, which waits for the end of its block, keep the code
\* in order.
LEMMA SwitchBeginsOK ==
  ASSUME NEW c, CodeOK(c, {}),
         NEW x, x = [start |-> IpOffset(c), cases |-> {}, default |-> 0],
         NEW s, s = Push(c, "switch_stack", x), NEW d, d = Emit(s, "JSWITCH", 0)
  PROVE  SwitchBeginsPost(c, d)
<1>1. /\ CodeShape(c) /\ StackShape(c) /\ Linked(c) /\ Held(c, {})
      /\ RefsClean(c, {}) /\ Within(c, Len(c.code) + 1) /\ Switched(c)
      /\ DOMAIN c = Fields /\ Len(c.code) \in Nat
  BY ShapeFacts DEF CodeOK, CodeShape
<1>2. x \in SwitchType /\ x.start = Len(c.code) + 1 /\ x.cases = {} /\ x.default = 0
  BY <1>1 DEF IpOffset, SwitchType
<1>3. DOMAIN s = Fields /\ s.switch_stack = Append(c.switch_stack, x)
      /\ \A f \in Fields \ {"switch_stack"} : s[f] = c[f]
  BY <1>1 DEF Push, Fields
<1>4. /\ s.code = c.code /\ s.label = c.label /\ s.label_stack = c.label_stack
      /\ s.break_stack = c.break_stack /\ s.continue_stack = c.continue_stack
      /\ s.mTryStack = c.mTryStack
      /\ s.block_stack = c.block_stack /\ s.context_stack = c.context_stack
      /\ s.in_loop = c.in_loop /\ s.in_switch = c.in_switch /\ s.goto = c.goto
      /\ s.size = c.size /\ s.catch = c.catch
  BY <1>3 DEF Fields
<1>5. /\ Grows(c.switch_stack, s.switch_stack, x) /\ s.switch_stack \in Seq(SwitchType)
      /\ Len(c.switch_stack) \in Nat
  <2>1. c.switch_stack \in Seq(SwitchType)
    BY <1>1 DEF StackShape
  <2>2. QED
    BY <1>2, <1>3, <2>1, AppendGrows, ZenonT(60)
<1>6. CodeShape(s)
  BY <1>1, <1>3, <1>4 DEF CodeShape
<1>7. PICK op \in Ops : op = "JSWITCH"
  BY DEF Ops
<1>8. PICK arg \in Nat : arg = 0
  OBVIOUS
<1>9. EmitPost(s, d, op, arg)
  <2>1. op \notin {"TOSD", "MARK", "UNWIND"}
    BY <1>7
  <2>2. d = Emit(s, op, arg)
    BY <1>7, <1>8
  <2>3. QED
    BY <1>6, <2>1, <2>2, EmitFacts
<1>10. /\ Frame(s, d) /\ CodeShape(d) /\ DOMAIN d = Fields
       /\ d.label = c.label /\ d.context_stack = c.context_stack
       /\ Len(d.code) = Len(c.code) + 1
       /\ \A i \in 1 .. Len(c.code) : d.code[i] = c.code[i]
       /\ d.code[Len(c.code) + 1].op = "JSWITCH" /\ d.code[Len(c.code) + 1].arg = 0
       /\ d.code[Len(c.code) + 1].table = {}
  <2>1. /\ Frame(s, d) /\ CodeShape(d) /\ d.label = s.label /\ d.context_stack = s.context_stack
        /\ Len(d.code) = Len(s.code) + 1
        /\ \A i \in 1 .. Len(s.code) : d.code[i] = s.code[i]
        /\ d.code[Len(s.code) + 1] = [op |-> op, arg |-> arg, table |-> {}, at |-> s.here]
    BY <1>9 DEF EmitPost
  <2>2. PICK r : r = [op |-> op, arg |-> arg, table |-> {}, at |-> s.here]
    OBVIOUS
  <2>3. r.op = op /\ r.arg = arg /\ r.table = {}
    BY <2>2
  <2>4. d.code[Len(s.code) + 1] = r
    BY <2>1, <2>2
  <2>5. DOMAIN d = Fields
    BY <2>1 DEF CodeShape
  <2>6. QED
    <3>1. d.label = c.label /\ d.context_stack = c.context_stack /\ Len(d.code) = Len(c.code) + 1
          /\ \A i \in 1 .. Len(c.code) : d.code[i] = c.code[i]
      <4>1. s.code = c.code /\ s.label = c.label /\ s.context_stack = c.context_stack
        BY <1>4
      <4>2. Len(s.code) = Len(c.code)
        BY <4>1
      <4>3. Len(d.code) = Len(c.code) + 1
        BY <2>1, <4>2
      <4>4. QED
        BY <2>1, <4>1, <4>3, ZenonT(60)
    <3>2. d.code[Len(c.code) + 1] = r
      BY <1>4, <2>4
    <3>3. r.op = "JSWITCH" /\ r.arg = 0 /\ r.table = {}
      BY <1>7, <1>8, <2>3
    <3>4. QED
      BY <2>1, <2>5, <3>1, <3>2, <3>3
<1>11. /\ d.label_stack = c.label_stack /\ d.break_stack = c.break_stack
       /\ d.continue_stack = c.continue_stack /\ d.mTryStack = c.mTryStack
       /\ d.block_stack = c.block_stack /\ d.in_loop = c.in_loop
       /\ d.in_switch = c.in_switch /\ d.goto = c.goto /\ d.size = c.size
       /\ d.catch = c.catch /\ d.switch_stack = s.switch_stack
  BY <1>4, <1>10 DEF Frame
<1>12. StackShape(d)
  BY <1>1, <1>5, <1>10, <1>11 DEF StackShape
<1>13. \A i \in 1 .. Len(d.code) : i \in 1 .. Len(c.code) \/ i = Len(c.code) + 1
  BY <1>1, <1>10
<1>14. \A i \in 1 .. Len(c.code) : i \in 1 .. Len(d.code)
  <2>1. PICK v \in Nat : v = Len(c.code)
    BY <1>1
  <2>2. Len(d.code) = v + 1
    BY <1>10, <2>1
  <2>3. QED
    BY <2>1, <2>2
<1>15. PICK w \in Nat : w = Len(c.switch_stack)
  BY <1>5
<1>16. /\ Len(d.switch_stack) = w + 1 /\ d.switch_stack[w + 1] = x
       /\ \A i \in 1 .. w : d.switch_stack[i] = c.switch_stack[i]
  BY <1>5, <1>11, <1>15, ZenonT(60) DEF Grows, Kept
<1>17. (\A i \in 1 .. w : i \in 1 .. w + 1) /\ w + 1 \in 1 .. w + 1
       /\ \A i \in 1 .. w + 1 : i \in 1 .. w \/ i = w + 1
  OBVIOUS
<1>18. Linked(d)
  <2>1. SUFFICES ASSUME NEW i \in 1 .. Len(d.code), d.code[i].arg = 0
                 PROVE  /\ d.code[i].op \in JumpOps =>
                             \E l \in 1 .. Len(d.label) : d.label[l].to = 0 /\ i \in d.label[l].refs
                        /\ d.code[i].op = "JSWITCH" =>
                             \E k \in 1 .. Len(d.switch_stack) : d.switch_stack[k].start = i
    BY DEF Linked
  <2>2. CASE i = Len(c.code) + 1
    <3>1. d.switch_stack[w + 1].start = i /\ w + 1 \in 1 .. Len(d.switch_stack)
      BY <1>2, <1>16, <1>17, <2>2
    <3>2. d.code[i].op \notin JumpOps
      BY <1>10, <2>2 DEF JumpOps
    <3>3. QED
      BY <3>1, <3>2
  <2>3. CASE i \in 1 .. Len(c.code)
    <3>1. d.code[i] = c.code[i]
      BY <1>10, <2>3
    <3>2. /\ d.code[i].op \in JumpOps =>
               \E l \in 1 .. Len(c.label) : c.label[l].to = 0 /\ i \in c.label[l].refs
          /\ d.code[i].op = "JSWITCH" =>
               \E k \in 1 .. w : c.switch_stack[k].start = i
      BY <1>1, <1>15, <2>1, <2>3, <3>1 DEF Linked
    <3>3. ASSUME NEW k \in 1 .. w, c.switch_stack[k].start = i
          PROVE  d.switch_stack[k].start = i /\ k \in 1 .. Len(d.switch_stack)
      BY <1>16, <1>17, <3>3
    <3>4. QED
      BY <1>10, <3>2, <3>3
  <2>4. QED
    BY <1>13, <2>2, <2>3
<1>19. Holders(d, {}) = Holders(c, {})
  <2>1. Owned(d) = Owned(c)
    <3>1. /\ d.label_stack = c.label_stack /\ d.break_stack = c.break_stack
          /\ d.continue_stack = c.continue_stack /\ d.mTryStack = c.mTryStack /\ d.goto = c.goto
      BY <1>11
    <3>2. ASSUME NEW k PROVE k \in Owned(d) <=> k \in Owned(c)
      <4>1. InTries(d, k) <=> InTries(c, k)
        BY <3>1 DEF InTries
      <4>2. QED
        BY <3>1, <4>1, OwnedIn
    <3>3. QED
      BY <3>2
  <2>2. QED
    BY <2>1 DEF Holders
<1>20. Held(d, {})
  BY <1>1, <1>10, <1>19 DEF Held
<1>21. RefsClean(d, {})
  <2>1. SUFFICES ASSUME NEW l \in 1 .. Len(c.label), l \in Holders(c, {}),
                        NEW i \in c.label[l].refs
                 PROVE  i \in 1 .. Len(d.code) /\ d.code[i].op \in JumpOps \union {"HALT"}
    BY <1>10, <1>19, ZenonT(60) DEF RefsClean
  <2>2. i \in 1 .. Len(c.code) /\ c.code[i].op \in JumpOps \union {"HALT"}
    BY <1>1, <2>1 DEF RefsClean
  <2>3. i \in 1 .. Len(d.code)
    BY <1>1, <1>10, <2>2
  <2>4. QED
    BY <1>10, <2>2, <2>3
<1>22. Within(d, Len(d.code) + 1)
  <2>1. Within(c, Len(d.code) + 1)
    BY <1>1, <1>10, WithinGrows
  <2>2. ASSUME NEW i \in 1 .. Len(d.code)
        PROVE  /\ d.code[i].op \in JumpOps \union {"JSWITCH"} => d.code[i].arg <= Len(d.code) + 1
               /\ d.code[i].table \subseteq 1 .. Len(d.code) + 1
    <3>1. CASE i \in 1 .. Len(c.code)
      BY <1>10, <2>1, <3>1 DEF Within
    <3>2. CASE i = Len(c.code) + 1
      <4>1. d.code[i].arg = 0 /\ d.code[i].table = {}
        BY <1>10, <3>2
      <4>2. Len(d.code) + 1 \in Nat
        BY <1>1, <1>10
      <4>3. QED
        BY <4>1, <4>2, NothingUp
    <3>3. QED
      BY <1>13, <3>1, <3>2
  <2>3. ASSUME NEW k \in 1 .. w + 1
        PROVE  /\ d.switch_stack[k].default <= Len(d.code) + 1
               /\ d.switch_stack[k].cases \subseteq 1 .. Len(d.code) + 1
    <3>1. CASE k = w + 1
      <4>1. d.switch_stack[k].default = 0 /\ d.switch_stack[k].cases = {}
        BY <1>2, <1>16, <3>1
      <4>2. Len(d.code) + 1 \in Nat
        BY <1>1, <1>10
      <4>3. QED
        BY <4>1, <4>2, NothingUp
    <3>2. CASE k \in 1 .. w
      BY <1>15, <1>16, <2>1, <3>2 DEF Within
    <3>3. QED
      BY <1>17, <3>1, <3>2
  <2>4. \A l \in 1 .. Len(d.label) : d.label[l].to <= Len(d.code) + 1
    BY <1>10, <2>1 DEF Within
  <2>5. \A k \in 1 .. MaxObjects : d.catch[k] \subseteq 1 .. Len(d.code) + 1
    BY <1>11, <2>1 DEF Within
  <2>6. QED
    BY <1>16, <2>2, <2>3, <2>4, <2>5, ZenonT(60) DEF Within
<1>23. Switched(d)
  <2>1. SUFFICES ASSUME NEW k \in 1 .. w + 1
                 PROVE  /\ d.switch_stack[k].start \in 1 .. Len(d.code)
                        /\ d.code[d.switch_stack[k].start].op \in {"JSWITCH", "HALT"}
    BY <1>16 DEF Switched
  <2>2. CASE k = w + 1
    <3>1. d.switch_stack[k].start = Len(c.code) + 1
      BY <1>2, <1>16, <2>2
    <3>2. QED
      BY <1>1, <1>10, <3>1
  <2>3. CASE k \in 1 .. w
    <3>1. /\ c.switch_stack[k].start \in 1 .. Len(c.code)
          /\ c.code[c.switch_stack[k].start].op \in {"JSWITCH", "HALT"}
      BY <1>1, <1>15, <2>3 DEF Switched
    <3>2. d.switch_stack[k] = c.switch_stack[k]
      BY <1>16, <2>3
    <3>3. PICK m \in 1 .. Len(c.code) : m = c.switch_stack[k].start
      BY <3>1
    <3>4. m \in 1 .. Len(d.code) /\ d.code[m] = c.code[m]
      BY <1>10, <1>14
    <3>5. QED
      BY <3>1, <3>2, <3>3, <3>4
  <2>4. QED
    BY <1>17, <2>2, <2>3
<1>24. CodeOK(d, {})
  BY <1>10, <1>12, <1>18, <1>20, <1>21, <1>22, <1>23 DEF CodeOK
<1>25. QED
  BY <1>10, <1>11, <1>15, <1>16, <1>24 DEF SwitchBeginsPost

\* The stacks when the block of a switch begins.
SwitchFlags(c) == {"BREAKABLE", "IN_SWITCH"} \union (IF c.in_loop THEN {"CONTINUEABLE"} ELSE {})
SwitchOpens(c, d) ==
  /\ CodeOK(d, {}) /\ Later(c, d) /\ GotoSame(c, d)
  /\ Len(d.label_stack) = Len(c.label_stack)
  /\ Kept(c.label_stack, d.label_stack, Len(c.label_stack))
  /\ Grows(c.break_stack, d.break_stack, Len(c.label) + 1)
  /\ IF c.in_loop THEN \E l : l \notin 1 .. Len(c.label)
                              /\ Grows(c.continue_stack, d.continue_stack, l)
     ELSE d.continue_stack = c.continue_stack
  /\ Len(d.switch_stack) = Len(c.switch_stack) + 1
  /\ Grows(c.block_stack, d.block_stack, SwitchFlags(c))
  /\ d.mTryStack = c.mTryStack /\ d.context_stack = c.context_stack
  /\ d.in_loop = FALSE /\ d.in_switch = FALSE

\* do_switch() and its block leave these stacks.
LEMMA SwitchOpensOK ==
  ASSUME NEW c, CodeOK(c, {}), NEW b, CodeOK(b, {}), Aside(c, b),
         NEW e, e = [b EXCEPT !.in_switch = TRUE], NEW f, f = PushLabelStack(e),
         NEW s, s = Push(f, "switch_stack", [start |-> IpOffset(f), cases |-> {}, default |-> 0]),
         NEW m, m = Emit(s, "JSWITCH", 0), NEW d, d = InitBlock(m)
  PROVE  SwitchOpens(c, d)
<1>1. SetSwitchPost(b, e)
  BY SetSwitchOK
<1>2. CodeOK(e, {}) /\ e.label = b.label
  BY <1>1 DEF SetSwitchPost
<1>3. PICK l : l = Len(e.label) + 1
  OBVIOUS
<1>4. PushLabelPost(e, {}, f, l)
  BY <1>2, <1>3, PushLabelStackOK
<1>5. CodeOK(f, {})
  BY <1>4 DEF PushLabelPost
<1>6. SwitchBeginsPost(f, m)
  BY <1>5, SwitchBeginsOK
<1>7. /\ CodeOK(m, {}) /\ m.label = f.label /\ m.label_stack = f.label_stack
      /\ m.in_switch = f.in_switch /\ m.in_loop = f.in_loop
      /\ m.break_stack = f.break_stack /\ m.continue_stack = f.continue_stack
      /\ m.mTryStack = f.mTryStack /\ m.block_stack = f.block_stack
      /\ m.context_stack = f.context_stack /\ m.goto = f.goto
      /\ Len(m.switch_stack) = Len(f.switch_stack) + 1
  BY <1>6 DEF SwitchBeginsPost
<1>8. /\ f.break_stack = e.break_stack /\ f.continue_stack = e.continue_stack
      /\ f.mTryStack = e.mTryStack /\ f.block_stack = e.block_stack
      /\ f.context_stack = e.context_stack /\ f.goto = e.goto
      /\ f.switch_stack = e.switch_stack /\ f.in_switch = e.in_switch /\ f.in_loop = e.in_loop
  <2>1. LabelFrame(e, f)
    BY <1>4 DEF PushLabelPost
  <2>2. QED
    BY <2>1 DEF LabelFrame
<1>9. /\ e.label_stack = c.label_stack /\ e.label = c.label
      /\ e.break_stack = c.break_stack /\ e.continue_stack = c.continue_stack
      /\ e.mTryStack = c.mTryStack /\ e.block_stack = c.block_stack
      /\ e.context_stack = c.context_stack /\ e.goto = c.goto
      /\ e.switch_stack = c.switch_stack /\ e.in_switch = TRUE /\ e.in_loop = c.in_loop
  BY <1>1 DEF SetSwitchPost, Aside, Frame
<1>10. CodeShape(c) /\ StackShape(c) /\ Len(c.label) \in Nat /\ Len(c.label_stack) \in Nat
  BY ShapeFacts, StackFacts DEF CodeOK
<1>11. /\ Len(f.label_stack) = Len(c.label_stack) + 1
       /\ Kept(c.label_stack, f.label_stack, Len(c.label_stack))
       /\ f.label_stack[Len(c.label_stack) + 1] = l
       /\ Len(f.label) = l /\ l = Len(c.label) + 1
       /\ \A k \in 1 .. Len(c.label) : f.label[k] = c.label[k]
  <2>1. /\ l = Len(e.label) + 1 /\ Len(f.label) = l
        /\ \A k \in 1 .. Len(e.label) : f.label[k] = e.label[k]
        /\ Len(f.label_stack) = Len(e.label_stack) + 1
        /\ \A i \in 1 .. Len(e.label_stack) : f.label_stack[i] = e.label_stack[i]
        /\ f.label_stack[Len(e.label_stack) + 1] = l
    BY <1>4 DEF PushLabelPost
  <2>2. e.label_stack = c.label_stack /\ e.label = c.label
    BY <1>9
  <2>3. Len(e.label_stack) = Len(c.label_stack) /\ Len(e.label) = Len(c.label)
    BY <2>2
  <2>4. /\ l = Len(c.label) + 1 /\ Len(f.label_stack) = Len(c.label_stack) + 1
        /\ f.label_stack[Len(c.label_stack) + 1] = l
    BY <2>1, <2>3
  <2>5. \A k \in 1 .. Len(c.label) : f.label[k] = c.label[k]
    BY <2>1, <2>2, <2>3
  <2>6. \A i \in 1 .. Len(c.label_stack) : f.label_stack[i] = c.label_stack[i]
    BY <2>1, <2>2, <2>3
  <2>7. QED
    BY <2>1, <2>4, <2>5, <2>6 DEF Kept
<1>12. InitPost(m, {}, d)
  <2>1. Len(m.label_stack) >= 1
    BY <1>7, <1>10, <1>11
  <2>2. QED
    BY <1>7, <2>1, InitBlockOK
<1>13. m.in_switch = TRUE /\ m.in_loop = c.in_loop
  BY <1>7, <1>8, <1>9, ZenonT(60)
<1>14. /\ CodeOK(d, {}) /\ Len(m.label) <= Len(d.label)
       /\ \A k \in 1 .. Len(m.label) : d.label[k] = m.label[k]
       /\ d.switch_stack = m.switch_stack /\ d.mTryStack = m.mTryStack
       /\ d.context_stack = m.context_stack /\ d.goto = m.goto
       /\ d.in_loop = FALSE /\ d.in_switch = FALSE
       /\ Grows(m.break_stack, d.break_stack, m.label_stack[Len(m.label_stack)])
       /\ Shrinks(m.label_stack, d.label_stack)
       /\ IF m.in_loop THEN Grows(m.continue_stack, d.continue_stack, Len(m.label) + 1)
          ELSE d.continue_stack = m.continue_stack
       /\ Grows(m.block_stack, d.block_stack, BlockFlags(m))
  BY <1>12, <1>13 DEF InitPost
<1>15. BlockFlags(m) = SwitchFlags(c)
  BY <1>13 DEF BlockFlags, SwitchFlags
<1>16. /\ Len(d.label_stack) = Len(c.label_stack)
       /\ Kept(c.label_stack, d.label_stack, Len(c.label_stack))
  <2>1. PICK w \in Nat : w = Len(c.label_stack)
    BY <1>10
  <2>2. Len(m.label_stack) = w + 1 /\ w + 1 - 1 = w
    BY <1>7, <1>11, <2>1
  <2>3. Len(d.label_stack) = w /\ Kept(m.label_stack, d.label_stack, w)
    <3>1. /\ Len(d.label_stack) = Len(m.label_stack) - 1
          /\ Kept(m.label_stack, d.label_stack, Len(m.label_stack) - 1)
      BY <1>14 DEF Shrinks
    <3>2. Len(m.label_stack) - 1 = w
      BY <2>2
    <3>3. QED
      BY <3>1, <3>2
  <2>4. m.label_stack = f.label_stack /\ Kept(c.label_stack, f.label_stack, w)
    BY <1>7, <1>11, <2>1
  <2>5. Kept(c.label_stack, d.label_stack, w)
    <3>1. SUFFICES ASSUME NEW i \in 1 .. w PROVE d.label_stack[i] = c.label_stack[i]
      BY DEF Kept
    <3>2. d.label_stack[i] = m.label_stack[i]
      BY <2>3 DEF Kept
    <3>3. f.label_stack[i] = c.label_stack[i]
      BY <2>4 DEF Kept
    <3>4. QED
      BY <2>4, <3>2, <3>3
  <2>6. QED
    BY <2>1, <2>3, <2>5
<1>17. Grows(c.break_stack, d.break_stack, Len(c.label) + 1)
  <2>1. m.label_stack[Len(m.label_stack)] = Len(c.label) + 1
    BY <1>7, <1>11
  <2>2. m.break_stack = c.break_stack
    BY <1>7, <1>8, <1>9
  <2>3. QED
    BY <1>14, <2>1, <2>2
<1>18. ASSUME c.in_loop
       PROVE  \E k : k \notin 1 .. Len(c.label) /\ Grows(c.continue_stack, d.continue_stack, k)
  <2>1. m.continue_stack = c.continue_stack
    BY <1>7, <1>8, <1>9
  <2>2. Grows(c.continue_stack, d.continue_stack, Len(m.label) + 1)
    BY <1>13, <1>14, <1>18, <2>1
  <2>3. PICK w \in Nat : w = Len(c.label)
    BY <1>10
  <2>4. Len(m.label) = w + 1
    BY <1>7, <1>11, <2>3
  <2>5. Len(m.label) + 1 \notin 1 .. Len(c.label)
    BY <2>3, <2>4
  <2>6. QED
    BY <2>2, <2>5
<1>19. ~c.in_loop => d.continue_stack = c.continue_stack
  BY <1>7, <1>8, <1>9, <1>13, <1>14
<1>20. Later(c, d)
  <2>1. PICK w \in Nat : w = Len(c.label)
    BY <1>10
  <2>2. Len(m.label) = w + 1 /\ m.label = f.label
    BY <1>7, <1>11, <2>1
  <2>3. Len(d.label) \in Nat
    BY <1>14, ShapeFacts DEF CodeOK
  <2>4. w <= Len(d.label) /\ \A k \in 1 .. w : k \in 1 .. Len(m.label)
    <3>1. w + 1 <= Len(d.label)
      BY <1>14, <2>2
    <3>2. PICK v \in Nat : v = Len(d.label)
      BY <2>3
    <3>3. w <= v /\ \A k \in 1 .. w : k \in 1 .. w + 1
      BY <3>1, <3>2
    <3>4. \A k \in 1 .. w : k \in 1 .. Len(m.label)
      BY <2>2, <3>3
    <3>5. QED
      BY <3>2, <3>3, <3>4
  <2>5. \A k \in 1 .. w : d.label[k] = c.label[k]
    <3>1. \A k \in 1 .. w : f.label[k] = c.label[k]
      BY <1>11, <2>1
    <3>2. \A k \in 1 .. w : d.label[k] = m.label[k]
      BY <1>14, <2>4
    <3>3. QED
      BY <2>2, <3>1, <3>2, ZenonT(60)
  <2>6. QED
    BY <2>1, <2>4, <2>5 DEF Later
<1>21. /\ d.mTryStack = c.mTryStack /\ d.context_stack = c.context_stack /\ d.goto = c.goto
       /\ m.block_stack = c.block_stack /\ Len(d.switch_stack) = Len(c.switch_stack) + 1
  BY <1>7, <1>8, <1>9, <1>14
<1>22. Grows(c.block_stack, d.block_stack, SwitchFlags(c))
  BY <1>14, <1>15, <1>21
<1>23. GotoSame(c, d)
  BY <1>21 DEF GotoSame
<1>24. QED
  BY <1>14, <1>16, <1>17, <1>18, <1>19, <1>20, <1>21, <1>22, <1>23 DEF SwitchOpens

\* The block of a switch stands on what was open before it.
LEMMA SwitchStands ==
  ASSUME NEW c, CodeOK(c, {}), NEW y, y = Tops(c), y \in Heights, NEW d, SwitchOpens(c, d),
         NEW k, k = "switch"
  PROVE  Stands(d, y, k) /\ Agree(c, d, y)
<1>1. /\ Len(d.label_stack) = Len(c.label_stack)
      /\ Kept(c.label_stack, d.label_stack, Len(c.label_stack))
      /\ Grows(c.break_stack, d.break_stack, Len(c.label) + 1)
      /\ Len(d.switch_stack) = Len(c.switch_stack) + 1
      /\ Grows(c.block_stack, d.block_stack, SwitchFlags(c))
      /\ d.mTryStack = c.mTryStack /\ d.context_stack = c.context_stack
  BY DEF SwitchOpens
<1>2. /\ y.label = Len(c.label_stack) /\ y.brk = Len(c.break_stack)
      /\ y.cont = Len(c.continue_stack) /\ y.sw = Len(c.switch_stack)
      /\ y.blk = Len(c.block_stack) /\ y.ctx = Len(c.context_stack)
      /\ y.try = Len(c.mTryStack)
  BY DEF Tops
<1>3. /\ y.label \in Nat /\ y.brk \in Nat /\ y.cont \in Nat /\ y.sw \in Nat
      /\ y.blk \in Nat /\ y.ctx \in Nat /\ y.try \in Nat
  BY DEF Heights
<1>4. PICK F : F = SwitchFlags(c)
  OBVIOUS
<1>5. /\ "BREAKABLE" \in F /\ "IN_SWITCH" \in F /\ "CONTEXT_PUSHED" \notin F
      /\ "CONTINUEABLE" \in F <=> c.in_loop
  BY <1>4 DEF SwitchFlags
<1>6. FlagsAt(d, y) = F /\ Len(d.block_stack) = y.blk + 1
  BY <1>1, <1>2, <1>4 DEF FlagsAt, Grows
<1>7. Agree(c, d, y)
  BY <1>1, <1>2 DEF Agree, Grows
<1>8. Owns(k) /\ k \notin Loops /\ k \notin {"try", "handlers"} /\ LabelsOf(k) = 0
      /\ k # "function"
  BY DEF Owns, Blocks, Loops, LabelsOf
<1>9. /\ Bit(Owns(k) /\ "BREAKABLE" \in F) = 1 /\ Bit(Owns(k) /\ "IN_SWITCH" \in F) = 1
      /\ Bit(Owns(k) /\ "CONTEXT_PUSHED" \in F) = 0 /\ Bit(k \in {"try", "handlers"}) = 0
      /\ Bit(Owns(k)) = 1
  BY <1>5, <1>8 DEF Bit
<1>10. Len(d.continue_stack) = y.cont + Bit(Owns(k) /\ "CONTINUEABLE" \in F)
  <2>1. CASE c.in_loop
    <3>1. Bit(Owns(k) /\ "CONTINUEABLE" \in F) = 1
      BY <1>5, <1>8, <2>1 DEF Bit
    <3>2. Len(d.continue_stack) = Len(c.continue_stack) + 1
      BY <2>1 DEF SwitchOpens, Grows
    <3>3. QED
      BY <1>2, <3>1, <3>2
  <2>2. CASE ~c.in_loop
    <3>1. Bit(Owns(k) /\ "CONTINUEABLE" \in F) = 0
      BY <1>5, <2>2 DEF Bit
    <3>2. d.continue_stack = c.continue_stack
      BY <2>2 DEF SwitchOpens
    <3>3. QED
      BY <1>2, <1>3, <3>1, <3>2
  <2>3. QED
    BY <2>1, <2>2
<1>11. /\ Len(d.label_stack) = y.label + LabelsOf(k)
       /\ Len(d.break_stack) = y.brk + Bit(Owns(k) /\ "BREAKABLE" \in F)
       /\ Len(d.switch_stack) = y.sw + Bit(Owns(k) /\ "IN_SWITCH" \in F)
       /\ Len(d.context_stack) = y.ctx + Bit(Owns(k) /\ "CONTEXT_PUSHED" \in F)
       /\ Len(d.mTryStack) = y.try + Bit(k \in {"try", "handlers"})
       /\ Len(d.block_stack) = y.blk + Bit(Owns(k))
  <2>1. Len(d.break_stack) = Len(c.break_stack) + 1
    BY <1>1 DEF Grows
  <2>2. /\ Len(d.label_stack) = y.label /\ Len(d.break_stack) = y.brk + 1
        /\ Len(d.switch_stack) = y.sw + 1 /\ Len(d.context_stack) = y.ctx
        /\ Len(d.mTryStack) = y.try /\ Len(d.block_stack) = y.blk + 1
    BY <1>1, <1>2, <1>6, <2>1
  <2>3. y.label + 0 = y.label /\ y.ctx + 0 = y.ctx /\ y.try + 0 = y.try
    BY <1>3
  <2>4. QED
    BY <1>8, <1>9, <2>2, <2>3
<1>12. Tops(d) = After(y, k, FlagsAt(d, y))
  BY <1>6, <1>10, <1>11 DEF Tops, After
<1>13. ItemOK(d, y, k)
  BY <1>5, <1>6, <1>8 DEF ItemOK
<1>14. QED
  BY <1>7, <1>12, <1>13 DEF Stands

\* A switch.
LEMMA SwitchKeeps ==
  ASSUME Compiling(cg, open), Switch
  PROVE  Compiling(cg', open')
<1>1. PICK x : x = Item("switch", <<>>)
  OBVIOUS
<1>2. PICK b : b = Begin(cg, open, "")
  OBVIOUS
<1>3. PICK e : e = [b EXCEPT !.in_switch = TRUE]
  OBVIOUS
<1>4. PICK f : f = PushLabelStack(e)
  OBVIOUS
<1>5. PICK s : s = Push(f, "switch_stack", [start |-> IpOffset(f), cases |-> {}, default |-> 0])
  OBVIOUS
<1>6. PICK m : m = Emit(s, "JSWITCH", 0)
  OBVIOUS
<1>7. cg' = InitBlock(m) /\ open' = Append(open, x)
  BY <1>1, <1>2, <1>3, <1>4, <1>5, <1>6 DEF Switch, Compile
<1>8. /\ CodeOK(cg, {}) /\ CodeShape(cg) /\ StackShape(cg) /\ OpenOK(open) /\ Standing(cg, open)
      /\ Apart(cg) /\ GotoOK(cg)
  BY DEF Compiling, CodeOK
<1>9. CodeOK(b, {}) /\ Aside(cg, b)
  BY <1>2, <1>8, HistoryOK
<1>10. SwitchOpens(cg, cg')
  BY <1>3, <1>4, <1>5, <1>6, <1>7, <1>8, <1>9, SwitchOpensOK
<1>11. /\ CodeOK(cg', {}) /\ Later(cg, cg') /\ GotoSame(cg, cg')
       /\ cg'.in_loop = FALSE /\ cg'.in_switch = FALSE /\ cg'.mTryStack = cg.mTryStack
       /\ Len(cg'.label_stack) = Len(cg.label_stack)
       /\ Kept(cg.label_stack, cg'.label_stack, Len(cg.label_stack))
       /\ Grows(cg.break_stack, cg'.break_stack, Len(cg.label) + 1)
       /\ IF cg.in_loop THEN \E l : l \notin 1 .. Len(cg.label)
                                    /\ Grows(cg.continue_stack, cg'.continue_stack, l)
          ELSE cg'.continue_stack = cg.continue_stack
  BY <1>10 DEF SwitchOpens
<1>12. DOMAIN x = ItemFields /\ x.k = "switch"
  BY <1>1 DEF Item, ItemFields
<1>13. CanAppend(open, x)
  <2>1. open[Len(open)].k # "handlers"
    BY TopIs DEF Switch, CanOpen, CanStart, Compiling
  <2>2. QED
    BY <1>12, <2>1 DEF CanAppend
<1>14. AppendPost(open, x, open')
  BY <1>7, <1>8, <1>13, AppendOpen
<1>15. /\ OpenOK(open') /\ Len(open') = Len(open) + 1 /\ SameKinds(open, open', Len(open))
       /\ open'[Len(open) + 1] = x
  BY <1>14 DEF AppendPost
<1>16. PICK y : y = Tops(cg)
  OBVIOUS
<1>17. y \in Heights
  BY <1>8, <1>16, TopFacts DEF TopPost
<1>18. PICK k : k = "switch"
  OBVIOUS
<1>19. Stands(cg', y, k) /\ Agree(cg, cg', y)
  BY <1>8, <1>10, <1>16, <1>17, <1>18, SwitchStands
<1>20. Standing(cg', open')
  <2>1. k = open'[Len(open) + 1].k
    BY <1>12, <1>15, <1>18
  <2>2. Tops(cg') = After(y, k, FlagsAt(cg', y)) /\ ItemOK(cg', y, k)
    BY <1>19 DEF Stands
  <2>3. QED
    BY <1>8, <1>11, <1>15, <1>16, <1>19, <2>1, <2>2, OpenStanding
<1>21. ASSUME NEW l \in 1 .. Len(cg.label), Other(cg', l)
       PROVE  Other(cg, l)
  <2>1. cg'.goto.label = cg.goto.label
    BY <1>11 DEF GotoSame
  <2>2. In(cg'.label_stack, l) => In(cg.label_stack, l)
    BY <1>11 DEF In, Kept
  <2>3. Len(cg.break_stack) \in Nat /\ Len(cg.continue_stack) \in Nat /\ Len(cg.label) \in Nat
    BY <1>8, StackFacts, ShapeFacts
  <2>4. In(cg'.break_stack, l) => In(cg.break_stack, l)
    <3>1. l # Len(cg.label) + 1
      BY <2>3
    <3>2. In(cg'.break_stack, l) <=> l = Len(cg.label) + 1 \/ In(cg.break_stack, l)
      BY <1>11, <2>3, GrowsIn
    <3>3. QED
      BY <3>1, <3>2
  <2>5. In(cg'.continue_stack, l) => In(cg.continue_stack, l)
    <3>1. CASE cg.in_loop
      <4>1. PICK j : j \notin 1 .. Len(cg.label) /\ Grows(cg.continue_stack, cg'.continue_stack, j)
        BY <1>11, <3>1
      <4>2. In(cg'.continue_stack, l) <=> l = j \/ In(cg.continue_stack, l)
        BY <2>3, <4>1, GrowsIn
      <4>3. QED
        BY <4>1, <4>2
    <3>2. CASE ~cg.in_loop
      BY <1>11, <3>2
    <3>3. QED
      BY <3>1, <3>2
  <2>6. QED
    BY <1>21, <2>1, <2>2, <2>4, <2>5 DEF Other
<1>22. Apart(cg')
  BY <1>8, <1>11, <1>21, ApartKept
<1>23. GotoOK(cg')
  BY <1>8, <1>11, GotoKept
<1>24. Handlers(cg', open')
  <2>1. open'[Len(open')].k # "handlers"
    BY <1>12, <1>15, SMTT(40)
  <2>2. QED
    BY <2>1 DEF Handlers
<1>25. QED
  BY <1>11, <1>15, <1>20, <1>22, <1>23, <1>24 DEF Compiling

-----------------------------------------------------------------------------
(* The end of a try block                                                  *)
\* The jump behind its handlers goes, and what jumps there leads to where it
\* was.
EndTryPost(c, e, l, m) ==
  /\ DOMAIN e = Fields
  /\ IsSeq(e.code) /\ Len(e.code) = m - 1
  /\ \A i \in 1 .. m - 1 :
       /\ e.code[i].op = c.code[i].op /\ e.code[i].table = c.code[i].table
       /\ e.code[i].arg = IF i \in c.label[l].refs THEN m ELSE c.code[i].arg
       /\ DOMAIN e.code[i] = DOMAIN c.code[i]
  /\ e.label \in Seq(LabelType) /\ Len(e.label) = Len(c.label)
  /\ \A k \in 1 .. Len(c.label) : k # l => e.label[k] = c.label[k]
  /\ e.label[l].to = m
  /\ e.label_stack = c.label_stack /\ e.break_stack = c.break_stack
  /\ e.continue_stack = c.continue_stack /\ e.switch_stack = c.switch_stack
  /\ Shrinks(c.mTryStack, e.mTryStack) /\ e.mTryStack \in Seq(Tries(Len(c.label)))
  /\ e.block_stack = c.block_stack /\ e.context_stack = c.context_stack
  /\ e.in_loop = c.in_loop /\ e.in_switch = c.in_switch /\ e.size = c.size
  /\ e.catch = c.catch /\ e.goto = c.goto

\* What the end of a try block does to the code and its labels.
LEMMA EndTryFacts ==
  ASSUME NEW c, CodeOK(c, {}), Len(c.mTryStack) >= 1, NEW m, m = Len(c.code), m >= 1,
         NEW l, l = c.mTryStack[Len(c.mTryStack)].label,
         NEW b, b = Backspace(c), NEW d, d = Here(b, l, 0), NEW e, e = Pop(d, "mTryStack")
  PROVE  EndTryPost(c, e, l, m) /\ l \in 1 .. Len(c.label)
<1>1. /\ CodeShape(c) /\ StackShape(c) /\ DOMAIN c = Fields /\ m \in Nat
      /\ IsSeq(c.code) /\ Len(c.label) \in Nat /\ Len(c.mTryStack) \in Nat
      /\ c.label \in Seq(LabelType)
  BY ShapeFacts, StackFacts DEF CodeOK, CodeShape
<1>2. l \in 1 .. Len(c.label)
  <2>1. Len(c.mTryStack) \in 1 .. Len(c.mTryStack)
    BY <1>1
  <2>2. QED
    BY <1>1, <2>1, StackFacts DEF Tries
<1>3. b.code = Front(c.code) /\ DOMAIN b = Fields /\ \A f \in Fields \ {"code"} : b[f] = c[f]
  BY <1>1 DEF Backspace, Pop, Fields
<1>4. /\ b.label = c.label /\ b.label_stack = c.label_stack
      /\ b.break_stack = c.break_stack /\ b.continue_stack = c.continue_stack
      /\ b.switch_stack = c.switch_stack /\ b.mTryStack = c.mTryStack
      /\ b.block_stack = c.block_stack /\ b.context_stack = c.context_stack
      /\ b.in_loop = c.in_loop /\ b.in_switch = c.in_switch /\ b.size = c.size
      /\ b.catch = c.catch /\ b.goto = c.goto
  BY <1>3 DEF Fields
<1>5. /\ IsSeq(b.code) /\ Len(b.code) = m - 1 /\ m - 1 \in Nat
      /\ \A i \in 1 .. m - 1 : b.code[i] = c.code[i]
  <2>1. Len(c.code) # 0
    BY <1>1
  <2>2. QED
    BY <1>1, <1>3, <2>1, FrontShape
<1>6. DOMAIN b.code = 1 .. m - 1
  BY <1>5, SeqShape, SMTT(40)
<1> DEFINE Code == [i \in DOMAIN b.code |->
                      IF i \in c.label[l].refs THEN [b.code[i] EXCEPT !.arg = m]
                      ELSE b.code[i]]
           x == [c.label[l] EXCEPT !.to = m]
<1>7. d = [b EXCEPT !.label[l].to = m, !.code = Code]
  <2>1. IpOffset(b) + 0 = m
    BY <1>1, <1>5 DEF IpOffset
  <2>2. QED
    BY <1>4, <2>1, ZenonT(60) DEF Here
<1> HIDE DEF Code
<1>8. /\ d.label = [c.label EXCEPT ![l] = x] /\ d.code = Code /\ DOMAIN d = Fields
      /\ \A f \in Fields \ {"code", "label"} : d[f] = b[f]
  <2>1. DOMAIN b = Fields /\ b.label = c.label
    BY <1>3, <1>4
  <2>2. PICK a : a = [b EXCEPT !.label[l].to = m]
    OBVIOUS
  <2>3. "label" \in Fields /\ "code" \in Fields
    BY DEF Fields
  <2>4. a.label = [c.label EXCEPT ![l] = x] /\ DOMAIN a = Fields
    BY <2>1, <2>2, <2>3
  <2>5. d = [a EXCEPT !.code = Code]
    BY <1>7, <2>2
  <2>6. d.label = [c.label EXCEPT ![l] = x]
    BY <2>3, <2>4, <2>5
  <2>7. d.code = Code /\ DOMAIN d = Fields
    BY <2>3, <2>4, <2>5
  <2>8. \A f \in Fields \ {"code", "label"} : d[f] = b[f]
    BY <1>7, <2>1 DEF Fields
  <2>9. QED
    BY <2>6, <2>7, <2>8
<1>9. c.label[l] \in LabelType
  BY <1>1, <1>2, ElementOfSeq, SMTT(40)
<1>10. x \in LabelType /\ x.to = m
  BY <1>1, <1>9 DEF LabelType
<1> HIDE DEF x
<1>11. /\ d.label \in Seq(LabelType) /\ Len(d.label) = Len(c.label)
       /\ \A k \in 1 .. Len(c.label) : d.label[k] = IF k = l THEN x ELSE c.label[k]
  <2>1. c.label \in Seq(LabelType) /\ x \in LabelType /\ d.label = [c.label EXCEPT ![l] = x]
    BY <1>1, <1>8, <1>10
  <2>2. QED
    BY <1>2, <2>1, ExceptSeq, SMTT(40)
<1>12. IsSeq(d.code) /\ Len(d.code) = m - 1
  <2>1. d.code = [i \in 1 .. m - 1 |-> d.code[i]]
    BY <1>6, <1>8 DEF Code
  <2>2. QED
    BY <1>5, <2>1, FunctionShape, SMTT(40)
<1>13. \A i \in 1 .. m - 1 :
       /\ d.code[i].op = c.code[i].op /\ d.code[i].table = c.code[i].table
       /\ d.code[i].arg = IF i \in c.label[l].refs THEN m ELSE c.code[i].arg
       /\ DOMAIN d.code[i] = DOMAIN c.code[i]
  <2>1. SUFFICES ASSUME NEW i \in 1 .. m - 1
                 PROVE  /\ d.code[i].op = c.code[i].op /\ d.code[i].table = c.code[i].table
                        /\ d.code[i].arg = IF i \in c.label[l].refs THEN m ELSE c.code[i].arg
                        /\ DOMAIN d.code[i] = DOMAIN c.code[i]
    BY SMTT(40)
  <2>2. d.code[i] = IF i \in c.label[l].refs THEN [c.code[i] EXCEPT !.arg = m] ELSE c.code[i]
    <3>1. i \in DOMAIN b.code /\ b.code[i] = c.code[i]
      BY <1>5, <1>6
    <3>2. d.code[i] = Code[i]
      BY <1>8
    <3>3. QED
      BY <3>1, <3>2 DEF Code
  <2>3. DOMAIN c.code[i] = {"op", "arg", "table", "at"}
    BY <1>1 DEF CodeShape, InstrOK
  <2>4. QED
    BY <2>2, <2>3, SMTT(40)
<1>14. /\ d.label_stack = c.label_stack /\ d.break_stack = c.break_stack
       /\ d.continue_stack = c.continue_stack /\ d.switch_stack = c.switch_stack
       /\ d.mTryStack = c.mTryStack
       /\ d.block_stack = c.block_stack /\ d.context_stack = c.context_stack
       /\ d.in_loop = c.in_loop /\ d.in_switch = c.in_switch /\ d.size = c.size
       /\ d.catch = c.catch /\ d.goto = c.goto
  BY <1>4, <1>8 DEF Fields
<1>15. e.mTryStack = Front(c.mTryStack) /\ DOMAIN e = Fields
       /\ \A f \in Fields \ {"mTryStack"} : e[f] = d[f]
  BY <1>8, <1>14, SMTT(40) DEF Pop, Fields
<1>16. /\ e.code = d.code /\ e.label = d.label
       /\ e.label_stack = c.label_stack /\ e.break_stack = c.break_stack
       /\ e.continue_stack = c.continue_stack /\ e.switch_stack = c.switch_stack
       /\ e.block_stack = c.block_stack /\ e.context_stack = c.context_stack
       /\ e.in_loop = c.in_loop /\ e.in_switch = c.in_switch /\ e.size = c.size
       /\ e.catch = c.catch /\ e.goto = c.goto
  BY <1>14, <1>15 DEF Fields
<1>17. Shrinks(c.mTryStack, e.mTryStack) /\ e.mTryStack \in Seq(Tries(Len(c.label)))
  <2>1. c.mTryStack \in Seq(Tries(Len(c.label)))
    BY <1>1, SMTT(40) DEF StackShape
  <2>2. QED
    BY <1>15, <2>1, FrontShrinks
<1>18. e.label[l].to = m
  BY <1>2, <1>10, <1>11, <1>16
<1>19. QED
  <2>1. \A k \in 1 .. Len(c.label) : k # l => e.label[k] = c.label[k]
    BY <1>11, <1>16, SMTT(40)
  <2>2. /\ e.label \in Seq(LabelType) /\ Len(e.label) = Len(c.label)
        /\ IsSeq(e.code) /\ Len(e.code) = m - 1
    BY <1>11, <1>12, <1>16, SMTT(40)
  <2>3. \A i \in 1 .. m - 1 :
          /\ e.code[i].op = c.code[i].op /\ e.code[i].table = c.code[i].table
          /\ e.code[i].arg = IF i \in c.label[l].refs THEN m ELSE c.code[i].arg
          /\ DOMAIN e.code[i] = DOMAIN c.code[i]
    <3>1. SUFFICES ASSUME NEW i \in 1 .. m - 1
                   PROVE  /\ e.code[i].op = c.code[i].op /\ e.code[i].table = c.code[i].table
                          /\ e.code[i].arg = IF i \in c.label[l].refs THEN m ELSE c.code[i].arg
                          /\ DOMAIN e.code[i] = DOMAIN c.code[i]
      OBVIOUS
    <3>2. e.code[i] = d.code[i]
      BY <1>16
    <3>3. QED
      BY <1>13, <3>2, SMTT(40)
  <2>4. QED
    BY <1>2, <1>15, <1>16, <1>17, <1>18, <2>1, <2>2, <2>3, ZenonT(60) DEF EndTryPost

\* The label behind the handlers is nobody's any more.
OwnedBut(c, e, l) == \A k : k \in Owned(e) <=> k \in Owned(c) /\ k # l

\* Whoever held a label still does, but for the try block that ends.
LEMMA EndTryOwned ==
  ASSUME NEW c, CodeOK(c, {}), Apart(c), Len(c.mTryStack) >= 1, NEW m,
         NEW l, l = c.mTryStack[Len(c.mTryStack)].label, NEW e, EndTryPost(c, e, l, m)
  PROVE  OwnedBut(c, e, l)
<1>1. CodeShape(c) /\ StackShape(c)
  BY DEF CodeOK
<1>2. PICK w \in Nat : w = Len(c.mTryStack)
  BY <1>1, StackFacts
<1>3. /\ e.label_stack = c.label_stack /\ e.break_stack = c.break_stack
      /\ e.continue_stack = c.continue_stack /\ e.goto = c.goto
      /\ Len(e.mTryStack) = w - 1 /\ \A i \in 1 .. w - 1 : e.mTryStack[i] = c.mTryStack[i]
  BY <1>2 DEF EndTryPost, Shrinks, Kept
<1>4. ~Other(c, l) /\ \A u \in 1 .. w : u # w => c.mTryStack[u].label # l
  <2>1. w \in 1 .. Len(c.mTryStack) /\ l = c.mTryStack[w].label
    BY <1>2
  <2>2. QED
    BY <1>2, <2>1 DEF Apart
<1>5. \A i \in 1 .. w : i = w \/ i \in 1 .. w - 1
  OBVIOUS
<1>6. \A i \in 1 .. w - 1 : i \in 1 .. w /\ i # w
  OBVIOUS
<1>7. SUFFICES ASSUME NEW k PROVE k \in Owned(e) <=> k \in Owned(c) /\ k # l
  BY DEF OwnedBut
<1>8. InTries(e, k) <=> InTries(c, k) /\ k # l
  <2>1. ASSUME InTries(e, k) PROVE InTries(c, k) /\ k # l
    <3>1. PICK i \in 1 .. w - 1 : k = e.mTryStack[i].label
      BY <1>3, <2>1 DEF InTries
    <3>2. QED
      BY <1>2, <1>3, <1>4, <1>6, <3>1 DEF InTries
  <2>2. ASSUME InTries(c, k), k # l PROVE InTries(e, k)
    <3>1. PICK i \in 1 .. w : k = c.mTryStack[i].label
      BY <1>2, <2>2 DEF InTries
    <3>2. i \in 1 .. w - 1
      BY <1>2, <1>5, <2>2, <3>1
    <3>3. QED
      BY <1>3, <3>1, <3>2 DEF InTries
  <2>3. QED
    BY <2>1, <2>2
<1>9. Other(e, k) <=> Other(c, k)
  BY <1>3 DEF Other
<1>10. /\ k \in Owned(e) <=> Other(e, k) \/ InTries(e, k)
       /\ k \in Owned(c) <=> Other(c, k) \/ InTries(c, k)
  BY OwnedIn DEF Other
<1>11. QED
  BY <1>4, <1>8, <1>9, <1>10

\* Nothing else led past that jump, so all is in order without it.
LEMMA EndTryOK ==
  ASSUME NEW c, CodeOK(c, {}), Apart(c), Len(c.mTryStack) >= 1, NEW m, m = Len(c.code), m >= 1,
         c.code[m].op = "JMP", Within(c, m),
         NEW l, l = c.mTryStack[Len(c.mTryStack)].label, l \in 1 .. Len(c.label),
         \A k \in 1 .. Len(c.label) : k \in Owned(c) /\ k # l => m \notin c.label[k].refs,
         NEW e, EndTryPost(c, e, l, m)
  PROVE  CodeOK(e, {}) /\ Later(c, e)
<1>1. /\ CodeShape(c) /\ StackShape(c) /\ Linked(c) /\ Held(c, {})
      /\ RefsClean(c, {}) /\ Switched(c) /\ m \in Nat /\ m # 0
  BY ShapeFacts DEF CodeOK
<1>2. \A i \in 1 .. m - 1 : i \in 1 .. m /\ i # m
  BY <1>1
<1>3. \A i \in 1 .. m : i # m => i \in 1 .. m - 1
  BY <1>1
<1>4. Len(c.label) \in Nat \ {0}
  BY <1>1, ShapeFacts, SMTT(40)
<1>5. /\ DOMAIN e = Fields /\ IsSeq(e.code) /\ Len(e.code) = m - 1
      /\ \A i \in 1 .. m - 1 :
           /\ e.code[i].op = c.code[i].op /\ e.code[i].table = c.code[i].table
           /\ e.code[i].arg = IF i \in c.label[l].refs THEN m ELSE c.code[i].arg
           /\ DOMAIN e.code[i] = DOMAIN c.code[i]
      /\ e.label \in Seq(LabelType) /\ Len(e.label) = Len(c.label) /\ e.label[l].to = m
      /\ \A k \in 1 .. Len(c.label) : k # l => e.label[k] = c.label[k]
  BY DEF EndTryPost
<1>6. /\ e.label_stack = c.label_stack /\ e.break_stack = c.break_stack
      /\ e.continue_stack = c.continue_stack /\ e.switch_stack = c.switch_stack
      /\ e.mTryStack \in Seq(Tries(Len(c.label)))
      /\ e.block_stack = c.block_stack /\ e.context_stack = c.context_stack
      /\ e.in_loop = c.in_loop /\ e.in_switch = c.in_switch /\ e.size = c.size
      /\ e.catch = c.catch /\ e.goto = c.goto
  BY DEF EndTryPost
<1>7. \A k : k \in Owned(e) <=> k \in Owned(c) /\ k # l
  <2>1. OwnedBut(c, e, l)
    BY EndTryOwned
  <2>2. QED
    BY <2>1 DEF OwnedBut
<1>8. Later(c, e)
  BY <1>1, <1>4, <1>5, SMTT(40) DEF Later
<1>9. CodeShape(e)
  <2>1. e.label # <<>>
    BY <1>4, <1>5, EmptySeq
  <2>2. \A i \in 1 .. m - 1 : InstrOK(e.code[i], e.size)
    <3>1. SUFFICES ASSUME NEW i \in 1 .. m - 1 PROVE InstrOK(e.code[i], c.size)
      BY <1>6
    <3>2. i \in 1 .. Len(c.code)
      BY <1>2
    <3>3. InstrOK(c.code[i], c.size)
      BY <1>1, <3>2 DEF CodeShape
    <3>4. i \in c.label[l].refs => c.code[i].op \notin {"TOSD", "MARK", "UNWIND"}
      <4>1. l \in Owned(c)
        <5>1. Len(c.mTryStack) \in 1 .. Len(c.mTryStack)
          BY <1>1, StackFacts
        <5>2. QED
          BY <5>1, OwnedIn DEF InTries
      <4>2. i \in c.label[l].refs => c.code[i].op \in JumpOps \union {"HALT"}
        BY <1>1, <4>1 DEF RefsClean, Holders
      <4>3. QED
        BY <4>2 DEF JumpOps
    <3>5. e.code[i].op = c.code[i].op /\ e.code[i].table = c.code[i].table
          /\ e.code[i].arg = (IF i \in c.label[l].refs THEN m ELSE c.code[i].arg)
          /\ DOMAIN e.code[i] = DOMAIN c.code[i]
      BY <1>5
    <3>6. QED
      BY <1>1, <3>3, <3>4, <3>5 DEF InstrOK
  <2>3. c.size \in 0 .. MaxObjects
    BY <1>1 DEF CodeShape
  <2>4. QED
    BY <1>5, <1>6, <2>1, <2>2, <2>3 DEF CodeShape
<1>10. StackShape(e)
  BY <1>1, <1>5, <1>6, SMTT(40) DEF StackShape
<1>11. Linked(e)
  <2>1. SUFFICES ASSUME NEW i \in 1 .. m - 1, e.code[i].arg = 0
                 PROVE  /\ e.code[i].op \in JumpOps =>
                             \E k \in 1 .. Len(e.label) : e.label[k].to = 0 /\ i \in e.label[k].refs
                        /\ e.code[i].op = "JSWITCH" =>
                             \E s \in 1 .. Len(e.switch_stack) : e.switch_stack[s].start = i
    BY <1>5 DEF Linked
  <2>2. c.code[i].arg = 0 /\ i \notin c.label[l].refs /\ e.code[i].op = c.code[i].op
    BY <1>1, <1>5, <2>1
  <2>3. /\ c.code[i].op \in JumpOps =>
             \E k \in 1 .. Len(c.label) : c.label[k].to = 0 /\ i \in c.label[k].refs
        /\ c.code[i].op = "JSWITCH" =>
             \E s \in 1 .. Len(c.switch_stack) : c.switch_stack[s].start = i
    BY <1>1, <1>2, <2>2 DEF Linked
  <2>4. ASSUME NEW k \in 1 .. Len(c.label), c.label[k].to = 0, i \in c.label[k].refs
        PROVE  e.label[k].to = 0 /\ i \in e.label[k].refs
    BY <1>5, <2>2, <2>4
  <2>5. QED
    BY <1>5, <1>6, <2>2, <2>3, <2>4
<1>12. Held(e, {})
  <2>1. SUFFICES ASSUME NEW k \in 1 .. Len(c.label), e.label[k].to = 0 PROVE k \in Owned(e)
    BY <1>5 DEF Held, Holders
  <2>2. k # l
    BY <1>1, <1>5, <2>1
  <2>3. c.label[k].to = 0
    BY <1>5, <2>1, <2>2
  <2>4. k \in Owned(c)
    BY <1>1, <2>3 DEF Held, Holders
  <2>5. QED
    BY <1>7, <2>2, <2>4
<1>13. RefsClean(e, {})
  <2>1. SUFFICES ASSUME NEW k \in 1 .. Len(c.label), k \in Owned(e), NEW i \in e.label[k].refs
                 PROVE  i \in 1 .. m - 1 /\ e.code[i].op \in JumpOps \union {"HALT"}
    BY <1>5 DEF RefsClean, Holders
  <2>2. k \in Owned(c) /\ k # l
    BY <1>7, <2>1
  <2>3. i \in c.label[k].refs /\ i # m
    BY <1>5, <2>1, <2>2
  <2>4. i \in 1 .. m /\ c.code[i].op \in JumpOps \union {"HALT"}
    BY <1>1, <2>2, <2>3 DEF RefsClean, Holders
  <2>5. QED
    BY <1>3, <1>5, <2>3, <2>4
<1>14. Within(e, Len(e.code) + 1)
  <2>1. Len(e.code) + 1 = m
    BY <1>1, <1>5
  <2>2. ASSUME NEW i \in 1 .. m - 1
        PROVE  /\ e.code[i].op \in JumpOps \union {"JSWITCH"} => e.code[i].arg <= m
               /\ e.code[i].table \subseteq 1 .. m
    <3>1. /\ c.code[i].op \in JumpOps \union {"JSWITCH"} => c.code[i].arg <= m
          /\ c.code[i].table \subseteq 1 .. m
      BY <1>2 DEF Within
    <3>2. m <= m
      BY <1>1
    <3>3. QED
      BY <1>5, <3>1, <3>2
  <2>3. ASSUME NEW k \in 1 .. Len(c.label) PROVE e.label[k].to <= m
    <3>1. m <= m /\ c.label[k].to <= m
      BY <1>1 DEF Within
    <3>2. QED
      BY <1>5, <3>1
  <2>4. /\ \A s \in 1 .. Len(e.switch_stack) :
             e.switch_stack[s].default <= m /\ e.switch_stack[s].cases \subseteq 1 .. m
        /\ \A s \in 1 .. MaxObjects : e.catch[s] \subseteq 1 .. m
    BY <1>6 DEF Within
  <2>5. QED
    BY <1>5, <2>1, <2>2, <2>3, <2>4 DEF Within
<1>15. Switched(e)
  <2>1. SUFFICES ASSUME NEW s \in 1 .. Len(c.switch_stack)
                 PROVE  /\ c.switch_stack[s].start \in 1 .. m - 1
                        /\ e.code[c.switch_stack[s].start].op \in {"JSWITCH", "HALT"}
    BY <1>5, <1>6 DEF Switched
  <2>2. PICK i : i = c.switch_stack[s].start
    OBVIOUS
  <2>3. i \in 1 .. m /\ c.code[i].op \in {"JSWITCH", "HALT"}
    BY <1>1, <2>2 DEF Switched
  <2>4. i # m
    BY <2>3
  <2>5. QED
    BY <1>3, <1>5, <2>2, <2>3, <2>4
<1>16. QED
  BY <1>8, <1>9, <1>10, <1>11, <1>12, <1>13, <1>14, <1>15 DEF CodeOK

\* The labels behind the handlers of the other try blocks stay apart.
LEMMA EndTryApart ==
  ASSUME NEW c, CodeOK(c, {}), Apart(c), Len(c.mTryStack) >= 1, NEW m, NEW l,
         NEW e, EndTryPost(c, e, l, m)
  PROVE  Apart(e)
<1>1. PICK w \in Nat : w = Len(c.mTryStack)
  BY StackFacts DEF CodeOK
<1>2. /\ Len(e.mTryStack) = w - 1 /\ \A i \in 1 .. w - 1 : e.mTryStack[i] = c.mTryStack[i]
      /\ \A i \in 1 .. w - 1 : i \in 1 .. w
  BY <1>1 DEF EndTryPost, Shrinks, Kept
<1>3. \A k : Other(e, k) <=> Other(c, k)
  BY DEF EndTryPost, Other
<1>4. SUFFICES ASSUME NEW t \in 1 .. w - 1
               PROVE  /\ ~Other(e, e.mTryStack[t].label)
                      /\ \A u \in 1 .. w - 1 :
                           u # t => e.mTryStack[u].label # e.mTryStack[t].label
  BY <1>2 DEF Apart
<1>5. /\ ~Other(c, c.mTryStack[t].label)
      /\ \A u \in 1 .. w : u # t => c.mTryStack[u].label # c.mTryStack[t].label
  BY <1>1, <1>2 DEF Apart
<1>6. QED
  BY <1>2, <1>3, <1>5

\* The end of a try block and of its handlers.
LEMMA EndTryKeeps ==
  ASSUME Compiling(cg, open), EndTry
  PROVE  Compiling(cg', open')
<1>1. /\ CodeOK(cg, {}) /\ CodeShape(cg) /\ StackShape(cg) /\ OpenOK(open) /\ Standing(cg, open)
      /\ Apart(cg) /\ Handlers(cg, open) /\ cg.in_switch = FALSE
  BY DEF Compiling, CodeOK
<1>2. open[Len(open)].k = "handlers"
  BY <1>1, TopIs DEF EndTry, Ending
<1>3. PICK m : m = Len(cg.code)
  OBVIOUS
<1>4. PICK l : l = cg.mTryStack[Len(cg.mTryStack)].label
  OBVIOUS
<1>5. /\ m >= 1 /\ cg.code[m].op = "JMP" /\ Within(cg, m)
      /\ \A k \in 1 .. Len(cg.label) : k \in Owned(cg) /\ k # l => m \notin cg.label[k].refs
  BY <1>1, <1>2, <1>3, <1>4 DEF Handlers
<1>6. PICK b : b = Backspace(cg)
  OBVIOUS
<1>7. PICK d : d = Here(b, l, 0)
  OBVIOUS
<1>8. b.mTryStack = cg.mTryStack
  BY <1>1, <1>6 DEF Backspace, Pop, CodeShape, Fields
<1>9. cg' = Pop(d, "mTryStack") /\ open' = Close(open)
  <2>1. Last(cg.code).op = "JMP"
    BY <1>3, <1>5 DEF Last
  <2>2. TOS(b, "mTryStack").label = l
    BY <1>4, <1>8 DEF TOS, Last
  <2>3. QED
    BY <1>6, <1>7, <2>1, <2>2 DEF EndTry, Reduce
<1>10. Len(cg.mTryStack) >= 1
  <2>1. PICK h : Tower(cg, open, h)
    BY <1>1 DEF Standing
  <2>2. Len(open) \in 1 .. Len(open)
    BY <1>1, SeqShape DEF OpenOK
  <2>3. QED
    BY <1>1, <1>2, <2>1, <2>2, HandlersTry
<1>11. EndTryPost(cg, cg', l, m) /\ l \in 1 .. Len(cg.label)
  BY <1>1, <1>3, <1>4, <1>5, <1>6, <1>7, <1>9, <1>10, EndTryFacts
<1>12. CodeOK(cg', {}) /\ Later(cg, cg')
  BY <1>1, <1>3, <1>4, <1>5, <1>10, <1>11, EndTryOK
<1>13. Apart(cg')
  BY <1>1, <1>10, <1>11, EndTryApart
<1>14. /\ cg'.label_stack = cg.label_stack /\ cg'.break_stack = cg.break_stack
       /\ cg'.continue_stack = cg.continue_stack /\ cg'.switch_stack = cg.switch_stack
       /\ Len(cg'.mTryStack) = Len(cg.mTryStack) - 1
       /\ cg'.block_stack = cg.block_stack /\ cg'.context_stack = cg.context_stack
       /\ cg'.in_loop = cg.in_loop /\ cg'.in_switch = cg.in_switch
       /\ cg'.goto = cg.goto
  BY <1>11 DEF EndTryPost, Shrinks
<1>15. PICK x : TopPost(cg, open, x)
  BY <1>1, TopFacts
<1>16. PICK k : k = "handlers"
  OBVIOUS
<1>17. /\ x \in Heights /\ StandsBelow(cg, open, x)
       /\ Tops(cg) = After(x, k, FlagsAt(cg, x))
  BY <1>2, <1>15, <1>16 DEF TopPost
<1>18. ~Owns(k) /\ LabelsOf(k) = 0 /\ k \in {"try", "handlers"}
  BY <1>16 DEF Owns, Blocks, LabelsOf, Loops
<1>19. Bit(k \in {"try", "handlers"}) = 1
  BY <1>18 DEF Bit
<1>20. /\ x.label \in Nat /\ x.brk \in Nat /\ x.cont \in Nat /\ x.sw \in Nat
       /\ x.ctx \in Nat /\ x.try \in Nat /\ x.blk \in Nat
  BY <1>17 DEF Heights
<1>21. /\ Len(cg.label_stack) = x.label /\ Len(cg.break_stack) = x.brk
       /\ Len(cg.continue_stack) = x.cont /\ Len(cg.switch_stack) = x.sw
       /\ Len(cg.context_stack) = x.ctx /\ Len(cg.block_stack) = x.blk
       /\ Len(cg.mTryStack) = x.try + 1
  <2>1. PICK F : F = FlagsAt(cg, x)
    OBVIOUS
  <2>2. /\ Bit(Owns(k) /\ "BREAKABLE" \in F) = 0 /\ Bit(Owns(k) /\ "CONTINUEABLE" \in F) = 0
        /\ Bit(Owns(k) /\ "IN_SWITCH" \in F) = 0 /\ Bit(Owns(k) /\ "CONTEXT_PUSHED" \in F) = 0
        /\ Bit(Owns(k)) = 0
    BY <1>18 DEF Bit
  <2>3. Tops(cg) = After(x, k, F)
    BY <1>17, <2>1
  <2>4. /\ Len(cg.label_stack) = x.label + 0 /\ Len(cg.break_stack) = x.brk + 0
        /\ Len(cg.continue_stack) = x.cont + 0 /\ Len(cg.switch_stack) = x.sw + 0
        /\ Len(cg.context_stack) = x.ctx + 0 /\ Len(cg.block_stack) = x.blk + 0
        /\ Len(cg.mTryStack) = x.try + 1
    BY <1>18, <1>19, <2>2, <2>3 DEF Tops, After
  <2>5. QED
    BY <1>20, <2>4
<1>22. Len(cg'.mTryStack) = x.try
  BY <1>14, <1>20, <1>21
<1>23. Tops(cg') = x
  BY <1>14, <1>17, <1>21, <1>22 DEF Tops, Heights
<1>24. Agree(cg, cg', x)
  BY <1>14 DEF Agree, Kept
<1>25. GotoSame(cg, cg')
  BY <1>14 DEF GotoSame
<1>26. open[Len(open)].k \notin {"function", "catch"} /\ open[Len(open)].k \notin Loops
  BY <1>2 DEF Loops
<1>27. QED
  BY <1>1, <1>9, <1>12, <1>13, <1>14, <1>17, <1>23, <1>24, <1>25, <1>26, ClosesOK

-----------------------------------------------------------------------------
(* Where the jumps of break and continue lead                              *)

\* What a label stands for: the end of a loop or switch, or of the block that
\* is a loop's statement; nothing that a break or continue is about; or, when
\* the try block that had it has ended, nothing any more.
Goals == {"end", "body"} \X Nat
None  == <<"none", 0>>
Dead  == <<"dead", 0>>
Goal(at) ==
  IF at.stmt = "break" THEN <<"end", Innermost(at.nest)>>
  ELSE <<"body", Innermost({b \in at.nest : b.loop})>>
Bound(x) == x.op = "JMP" /\ x.at.stmt \in {"break", "continue"}
InstrFields == {"op", "arg", "table", "at"}
HereFields  == {"live", "nest", "stmt"}
Shaped(c) ==
  /\ DOMAIN c = Fields
  /\ IsSeq(c.code) /\ \A i \in 1 .. Len(c.code) : DOMAIN c.code[i] = InstrFields
  /\ c.label \in Seq(LabelType)
  /\ DOMAIN c.here = HereFields
\* P says what each label stands for, E where the goals that are behind the
\* compiler are: a break or continue has the place of its goal for a target, or
\* only waits for labels of that goal.
Homing(c, P, E) ==
  /\ Shaped(c) /\ E \in [Goals -> Nat]
  /\ \A k \in 1 .. Len(c.label) : P[k] # Dead =>
       \A i \in c.label[k].refs :
         i \in 1 .. Len(c.code) /\ (Bound(c.code[i]) => Goal(c.code[i].at) = P[k])
  /\ \A i \in 1 .. Len(c.code) : Bound(c.code[i]) =>
       /\ Goal(c.code[i].at) \in Goals
       /\ c.code[i].arg = 0 \/ c.code[i].arg = E[Goal(c.code[i].at)]
  /\ \A k \in 1 .. Len(c.label) : P[k] \in Goals =>
       c.label[k].to = 0 \/ c.label[k].to = E[P[k]]
\* The history of where the compiler is.
SamePlace(c, d) ==
  d.here.stmt = c.here.stmt /\ d.here.nest = c.here.nest
  /\ d.body = c.body /\ d.end = c.end
Goes(c, d, P, E) ==
  /\ Homing(d, P, E) /\ SamePlace(c, d) /\ d.goto.label = c.goto.label
  /\ \A l \in 1 .. Len(c.label) : l \in 1 .. Len(d.label)
Plain(c) == c.here.stmt \notin {"break", "continue"}

\* A goal is neither nothing nor gone.
LEMMA GoalIsNone ==
  /\ None \notin Goals /\ Dead \notin Goals /\ None # Dead
  /\ \A at : Goal(at) # None /\ Goal(at) # Dead
<1>1. None \notin Goals /\ Dead \notin Goals /\ None # Dead
  BY DEF None, Dead, Goals
<1>2. ASSUME NEW at PROVE Goal(at) # None /\ Goal(at) # Dead
  <2>1. PICK x : x = Innermost(at.nest)
    OBVIOUS
  <2>2. PICK y : y = Innermost({b \in at.nest : b.loop})
    OBVIOUS
  <2>3. Goal(at) = <<"end", x>> \/ Goal(at) = <<"body", y>>
    BY <2>1, <2>2 DEF Goal
  <2>4. QED
    BY <2>3 DEF None, Dead
<1>3. QED
  BY <1>1, <1>2

\* The lengths that Shaped speaks of are numbers.
LEMMA ShapedFacts ==
  ASSUME NEW c, Shaped(c)
  PROVE  /\ Len(c.code) \in Nat /\ Len(c.label) \in Nat
         /\ DOMAIN c.code = 1 .. Len(c.code)
         /\ \A l \in 1 .. Len(c.label) : c.label[l] \in LabelType
         /\ \A l \in 1 .. Len(c.label) :
              c.label[l].to \in Nat /\ c.label[l].refs \in SUBSET Nat
<1>1. Len(c.code) \in Nat /\ DOMAIN c.code = 1 .. Len(c.code)
  BY SeqShape DEF Shaped
<1>2. c.label \in Seq(LabelType)
  BY DEF Shaped
<1>3. Len(c.label) \in Nat /\ \A l \in 1 .. Len(c.label) : c.label[l] \in LabelType
  BY <1>2, ElementOfSeq
<1>4. \A l \in 1 .. Len(c.label) :
        c.label[l].to \in Nat /\ c.label[l].refs \in SUBSET Nat
  BY <1>3 DEF LabelType
<1>5. QED
  BY <1>1, <1>3, <1>4

\* Only the code and the labels matter to the jumps.
LEMMA HomingSame ==
  ASSUME NEW c, NEW P, NEW E, Homing(c, P, E), NEW d, DOMAIN d = Fields,
         d.code = c.code, d.label = c.label, DOMAIN d.here = HereFields
  PROVE  Homing(d, P, E)
BY DEF Homing, Shaped

\* Labels that do not exist do not matter.
LEMMA HomingAgrees ==
  ASSUME NEW c, NEW P, NEW E, Homing(c, P, E), NEW Q,
         \A k \in 1 .. Len(c.label) : Q[k] = P[k]
  PROVE  Homing(c, Q, E)
BY DEF Homing

\* An instruction that becomes no jump of a break or continue.
LEMMA HomingPatch ==
  ASSUME NEW c, NEW P, NEW E, Homing(c, P, E), NEW d, DOMAIN d = Fields,
         d.label = c.label, DOMAIN d.here = HereFields,
         IsSeq(d.code), Len(d.code) = Len(c.code),
         \A i \in 1 .. Len(c.code) :
           d.code[i] = c.code[i] \/ (~Bound(d.code[i]) /\ DOMAIN d.code[i] = InstrFields)
  PROVE  Homing(d, P, E)
<1>1. Shaped(d)
  BY DEF Homing, Shaped
<1>2. QED
  BY <1>1, ZenonT(60) DEF Homing

\* Emit adds one instruction.
LEMMA EmitGoes ==
  ASSUME NEW c, NEW P, NEW E, Homing(c, P, E), NEW op, NEW arg,
         op = "JMP" => Plain(c), NEW d, d = Emit(c, op, arg)
  PROVE  Goes(c, d, P, E)
<1> DEFINE r == [op |-> op, arg |-> arg, table |-> {}, at |-> c.here]
<1>1. Shaped(c) /\ Len(c.code) \in Nat
  BY ShapedFacts DEF Homing
<1>2. /\ DOMAIN d = Fields /\ d.label = c.label /\ d.body = c.body /\ d.end = c.end
      /\ d.goto = c.goto
      /\ d.code = Append(c.code, r) /\ d.here = [c.here EXCEPT !.live = {}]
  BY <1>1 DEF Emit, Shaped, Fields
<1>3. DOMAIN d.here = HereFields /\ d.here.stmt = c.here.stmt /\ d.here.nest = c.here.nest
  BY <1>1, <1>2 DEF Shaped, HereFields
<1>4. ~Bound(r) /\ DOMAIN r = InstrFields
  BY DEF Bound, InstrFields, Plain
<1> HIDE DEF r
<1>5. /\ IsSeq(d.code) /\ Len(d.code) = Len(c.code) + 1
      /\ \A i \in 1 .. Len(c.code) : d.code[i] = c.code[i]
      /\ d.code[Len(c.code) + 1] = r
  BY <1>1, <1>2, AppendShape DEF Shaped
<1>6. \A i \in 1 .. Len(d.code) : i \in 1 .. Len(c.code) \/ i = Len(c.code) + 1
  BY <1>1, <1>5
<1>7. \A i \in 1 .. Len(c.code) : i \in 1 .. Len(d.code)
  BY <1>1, <1>5
<1>8. Shaped(d)
  BY <1>1, <1>2, <1>3, <1>4, <1>5, <1>6 DEF Shaped
<1>9. Homing(d, P, E)
  BY <1>2, <1>4, <1>5, <1>6, <1>7, <1>8 DEF Homing
<1>10. QED
  BY <1>2, <1>3, <1>9 DEF Goes, SamePlace

\* A label may refer to one instruction more.
RefersTo(s, t, l, i) ==
  \/ t = s
  \/ /\ t \in Seq(LabelType) /\ Len(t) = Len(s)
     /\ \A k \in 1 .. Len(s) :
          /\ t[k].to = s[k].to
          /\ t[k].refs = IF k = l THEN s[k].refs \union {i} ELSE s[k].refs

\* Noting an instruction at one label leaves the others alone.
LEMMA RefersOK ==
  ASSUME NEW s \in Seq(LabelType), NEW l, NEW i \in Nat, NEW t,
         NEW x, x = [s[l] EXCEPT !.refs = @ \union {i}], t = [s EXCEPT ![l] = x]
  PROVE  RefersTo(s, t, l, i)
<1>1. Len(s) \in Nat /\ DOMAIN s = 1 .. Len(s)
  BY LenProperties
<1>2. CASE l \notin 1 .. Len(s)
  <2>1. t = s
    BY <1>1, <1>2
  <2>2. QED
    BY <2>1 DEF RefersTo
<1>3. CASE l \in 1 .. Len(s)
  <2>1. s[l] \in LabelType
    BY <1>3, ElementOfSeq
  <2>2. x \in LabelType /\ x.to = s[l].to /\ x.refs = s[l].refs \union {i}
    BY <2>1 DEF LabelType
  <2>3. /\ t \in Seq(LabelType) /\ Len(t) = Len(s)
        /\ \A k \in 1 .. Len(s) : t[k] = IF k = l THEN x ELSE s[k]
    BY <1>3, <2>2, ExceptSeq
  <2>4. ASSUME NEW k \in 1 .. Len(s)
        PROVE  /\ t[k].to = s[k].to
               /\ t[k].refs = IF k = l THEN s[k].refs \union {i} ELSE s[k].refs
    <3>1. CASE k = l
      BY <2>2, <2>3, <3>1
    <3>2. CASE k # l
      BY <2>3, <3>2
    <3>3. QED
      BY <3>1, <3>2
  <2>5. QED
    BY <2>3, <2>4 DEF RefersTo
<1>4. QED
  BY <1>2, <1>3

\* What a jump does to the code and the labels.
JumpDoes(c, d, op, l) ==
  /\ DOMAIN d = Fields /\ SamePlace(c, d) /\ DOMAIN d.here = HereFields
  /\ d.goto = c.goto
  /\ RefersTo(c.label, d.label, l, Len(c.code) + 1)
  /\ IsSeq(d.code) /\ Len(d.code) = Len(c.code) + 1
  /\ \A i \in 1 .. Len(c.code) : d.code[i] = c.code[i]
  /\ d.code[Len(c.code) + 1] = [op |-> op, arg |-> c.label[l].to, table |-> {}, at |-> c.here]

\* jump() emits one instruction and notes it, unless the label has been put.
LEMMA JumpFacts ==
  ASSUME NEW c, Shaped(c), NEW op, NEW l, NEW d, d = Jump(c, op, l)
  PROVE  JumpDoes(c, d, op, l)
<1> DEFINE r == [op |-> op, arg |-> c.label[l].to, table |-> {}, at |-> c.here]
<1>1. PICK e : e = Emit(c, op, c.label[l].to)
  OBVIOUS
<1>2. /\ DOMAIN e = Fields /\ e.label = c.label /\ e.body = c.body /\ e.end = c.end
      /\ e.goto = c.goto
      /\ e.code = Append(c.code, r) /\ e.here = [c.here EXCEPT !.live = {}]
  BY <1>1 DEF Emit, Shaped, Fields
<1>3. DOMAIN e.here = HereFields /\ e.here.stmt = c.here.stmt /\ e.here.nest = c.here.nest
  BY <1>2 DEF Shaped, HereFields
<1> HIDE DEF r
<1>4. /\ IsSeq(e.code) /\ Len(e.code) = Len(c.code) + 1
      /\ \A i \in 1 .. Len(c.code) : e.code[i] = c.code[i]
      /\ e.code[Len(c.code) + 1] = r
  BY <1>2, AppendShape DEF Shaped
<1>5. d = IF c.label[l].to # 0 THEN e
          ELSE [e EXCEPT !.label[l].refs = @ \union {Len(e.code)}]
  BY <1>1 DEF Jump
<1>6. Len(c.code) + 1 \in Nat /\ c.label \in Seq(LabelType)
  BY ShapedFacts DEF Shaped
<1>7. /\ DOMAIN d = Fields /\ d.body = e.body /\ d.end = e.end /\ d.here = e.here
      /\ d.code = e.code /\ d.goto = e.goto
  BY <1>2, <1>5 DEF Fields
<1>8. RefersTo(c.label, d.label, l, Len(c.code) + 1)
  <2>1. CASE c.label[l].to # 0
    BY <1>2, <1>5, <2>1 DEF RefersTo
  <2>2. CASE c.label[l].to = 0
    <3>1. PICK x : x = [c.label[l] EXCEPT !.refs = @ \union {Len(c.code) + 1}]
      OBVIOUS
    <3>2. d.label = [c.label EXCEPT ![l] = x]
      BY <1>2, <1>4, <1>5, <2>2, <3>1 DEF Fields
    <3>3. QED
      BY <1>6, <3>1, <3>2, RefersOK
  <2>3. QED
    BY <2>1, <2>2
<1>9. QED
  BY <1>2, <1>3, <1>4, <1>7, <1>8 DEF JumpDoes, SamePlace, r

\* A jump that is of no break or continue.
LEMMA JumpGoes ==
  ASSUME NEW c, NEW P, NEW E, Homing(c, P, E), NEW op, NEW l,
         op = "JMP" => Plain(c), NEW d, d = Jump(c, op, l)
  PROVE  Goes(c, d, P, E)
<1> DEFINE r == [op |-> op, arg |-> c.label[l].to, table |-> {}, at |-> c.here]
           new == Len(c.code) + 1
<1>1. Shaped(c) /\ Len(c.code) \in Nat /\ JumpDoes(c, d, op, l)
  BY ShapedFacts, JumpFacts DEF Homing
<1>2. ~Bound(r) /\ DOMAIN r = InstrFields
  BY DEF Bound, InstrFields, Plain
<1>3. /\ IsSeq(d.code) /\ Len(d.code) = new /\ d.code[new] = r
      /\ \A i \in 1 .. Len(c.code) : d.code[i] = c.code[i]
      /\ RefersTo(c.label, d.label, l, new)
  BY <1>1 DEF JumpDoes
<1> HIDE DEF r
<1>4. /\ \A i \in 1 .. Len(d.code) : i \in 1 .. Len(c.code) \/ i = new
      /\ \A i \in 1 .. Len(c.code) : i \in 1 .. Len(d.code)
      /\ new \in 1 .. Len(d.code)
  BY <1>1, <1>3
<1> HIDE DEF new
<1>5. c.label \in Seq(LabelType)
  BY <1>1 DEF Shaped
<1>6. /\ d.label \in Seq(LabelType) /\ Len(d.label) = Len(c.label)
      /\ \A k \in 1 .. Len(c.label) :
           /\ d.label[k].to = c.label[k].to
           /\ \A i \in d.label[k].refs : i \in c.label[k].refs \/ i = new
  BY <1>3, <1>5, ZenonT(60) DEF RefersTo
<1>7. Shaped(d)
  <2>1. \A i \in 1 .. Len(d.code) : DOMAIN d.code[i] = InstrFields
    BY <1>1, <1>2, <1>3, <1>4 DEF Shaped
  <2>2. QED
    BY <1>1, <1>3, <1>6, <2>1 DEF Shaped, JumpDoes
<1>8. \A k \in 1 .. Len(d.label) : P[k] # Dead =>
        \A i \in d.label[k].refs :
          i \in 1 .. Len(d.code) /\ (Bound(d.code[i]) => Goal(d.code[i].at) = P[k])
  <2>1. SUFFICES ASSUME NEW k \in 1 .. Len(c.label), P[k] # Dead, NEW i \in d.label[k].refs
                 PROVE  i \in 1 .. Len(d.code) /\ (Bound(d.code[i]) => Goal(d.code[i].at) = P[k])
    BY <1>6
  <2>2. CASE i = new
    BY <1>2, <1>3, <1>4, <2>2
  <2>3. CASE i \in c.label[k].refs
    BY <1>3, <1>4, <2>1, <2>3 DEF Homing
  <2>4. QED
    BY <1>6, <2>2, <2>3
<1>9. \A i \in 1 .. Len(d.code) : Bound(d.code[i]) =>
       /\ Goal(d.code[i].at) \in Goals
       /\ d.code[i].arg = 0 \/ d.code[i].arg = E[Goal(d.code[i].at)]
  BY <1>2, <1>3, <1>4 DEF Homing
<1>10. Homing(d, P, E)
  BY <1>6, <1>7, <1>8, <1>9 DEF Homing
<1>11. QED
  BY <1>1, <1>6, <1>10 DEF Goes, JumpDoes

\* The jump of a break or continue, to a label of its goal.
LEMMA BoundGoes ==
  ASSUME NEW c, NEW P, NEW E, Homing(c, P, E), NEW l \in 1 .. Len(c.label),
         P[l] = Goal(c.here), P[l] \in Goals,
         NEW d, d = Jump(c, "JMP", l)
  PROVE  Goes(c, d, P, E)
<1> DEFINE r == [op |-> "JMP", arg |-> c.label[l].to, table |-> {}, at |-> c.here]
           new == Len(c.code) + 1
<1>1. Shaped(c) /\ Len(c.code) \in Nat /\ JumpDoes(c, d, "JMP", l)
  BY ShapedFacts, JumpFacts DEF Homing
<1>2. /\ DOMAIN r = InstrFields /\ Goal(r.at) = P[l]
      /\ r.arg = 0 \/ r.arg = E[P[l]]
  BY DEF InstrFields, Homing
<1>3. /\ IsSeq(d.code) /\ Len(d.code) = new /\ d.code[new] = r
      /\ \A i \in 1 .. Len(c.code) : d.code[i] = c.code[i]
      /\ RefersTo(c.label, d.label, l, new)
  BY <1>1 DEF JumpDoes
<1> HIDE DEF r
<1>4. /\ \A i \in 1 .. Len(d.code) : i \in 1 .. Len(c.code) \/ i = new
      /\ \A i \in 1 .. Len(c.code) : i \in 1 .. Len(d.code)
      /\ new \in 1 .. Len(d.code)
  BY <1>1, <1>3
<1> HIDE DEF new
<1>5. c.label \in Seq(LabelType)
  BY <1>1 DEF Shaped
<1>6. /\ d.label \in Seq(LabelType) /\ Len(d.label) = Len(c.label)
      /\ \A k \in 1 .. Len(c.label) :
           /\ d.label[k].to = c.label[k].to
           /\ \A i \in d.label[k].refs : i \in c.label[k].refs \/ (i = new /\ k = l)
  BY <1>3, <1>5 DEF RefersTo
<1>7. Shaped(d)
  <2>1. \A i \in 1 .. Len(d.code) : DOMAIN d.code[i] = InstrFields
    BY <1>1, <1>2, <1>3, <1>4 DEF Shaped
  <2>2. QED
    BY <1>1, <1>3, <1>6, <2>1 DEF Shaped, JumpDoes
<1>8. \A k \in 1 .. Len(d.label) : P[k] # Dead =>
        \A i \in d.label[k].refs :
          i \in 1 .. Len(d.code) /\ (Bound(d.code[i]) => Goal(d.code[i].at) = P[k])
  <2>1. SUFFICES ASSUME NEW k \in 1 .. Len(c.label), P[k] # Dead, NEW i \in d.label[k].refs
                 PROVE  i \in 1 .. Len(d.code) /\ (Bound(d.code[i]) => Goal(d.code[i].at) = P[k])
    BY <1>6
  <2>2. CASE i = new /\ k = l
    BY <1>2, <1>3, <1>4, <2>2
  <2>3. CASE i \in c.label[k].refs
    BY <1>3, <1>4, <2>1, <2>3, ZenonT(60) DEF Homing
  <2>4. QED
    BY <1>6, <2>2, <2>3
<1>9. \A i \in 1 .. Len(d.code) : Bound(d.code[i]) =>
       /\ Goal(d.code[i].at) \in Goals
       /\ d.code[i].arg = 0 \/ d.code[i].arg = E[Goal(d.code[i].at)]
  BY <1>2, <1>3, <1>4, SMTT(40) DEF Homing
<1>10. Homing(d, P, E)
  BY <1>6, <1>7, <1>8, <1>9 DEF Homing
<1>11. QED
  BY <1>1, <1>6, <1>10 DEF Goes, JumpDoes

\* A new label refers to nothing.
LEMMA NewLabelGoes ==
  ASSUME NEW c, NEW P, NEW E, Homing(c, P, E), NEW d, d = NewLabel(c)
  PROVE  Goes(c, d, P, E) /\ Len(d.label) = Len(c.label) + 1 /\ d.code = c.code
         /\ d.here = c.here /\ \A k \in 1 .. Len(c.label) : d.label[k] = c.label[k]
<1> DEFINE x == [to |-> 0, refs |-> {}]
           new == Len(c.label) + 1
<1>1. Shaped(c) /\ Len(c.label) \in Nat /\ c.label \in Seq(LabelType)
  BY ShapedFacts DEF Homing, Shaped
<1>2. /\ DOMAIN d = Fields /\ d.code = c.code /\ d.here = c.here /\ d.body = c.body
      /\ d.end = c.end /\ d.label = Append(c.label, x) /\ d.goto = c.goto
  BY <1>1 DEF NewLabel, Push, Shaped, Fields
<1>3. x \in LabelType /\ x.refs = {} /\ x.to = 0
  BY DEF LabelType
<1> HIDE DEF x
<1>4. /\ d.label \in Seq(LabelType) /\ Len(d.label) = new /\ d.label[new] = x
      /\ \A k \in 1 .. Len(c.label) : d.label[k] = c.label[k]
  BY <1>1, <1>2, <1>3, AppendProperties
<1>5. \A k \in 1 .. Len(d.label) : k \in 1 .. Len(c.label) \/ d.label[k] = x
  BY <1>1, <1>4
<1>6. Shaped(d)
  BY <1>1, <1>2, <1>4 DEF Shaped
<1>7. Homing(d, P, E)
  BY <1>2, <1>3, <1>4, <1>5, <1>6 DEF Homing
<1>8. QED
  BY <1>2, <1>4, <1>7 DEF Goes, SamePlace

\* What putting a label does to the code and the labels.
HereDoes(c, d, l, to) ==
  /\ Shaped(d) /\ SamePlace(c, d) /\ d.goto = c.goto
  /\ Len(d.code) = Len(c.code) /\ Len(d.label) = Len(c.label)
  /\ \A k \in 1 .. Len(c.label) :
       /\ d.label[k].refs = c.label[k].refs
       /\ d.label[k].to = IF k = l THEN to ELSE c.label[k].to
  /\ \A i \in 1 .. Len(c.code) :
       /\ d.code[i].op = c.code[i].op /\ d.code[i].at = c.code[i].at
       /\ d.code[i].arg = IF i \in c.label[l].refs THEN to ELSE c.code[i].arg

\* here() gives the label its place, and every jump noted at it.
LEMMA HereFacts ==
  ASSUME NEW c, Shaped(c), NEW l \in 1 .. Len(c.label), NEW off \in {0, -1},
         NEW d, d = Here(c, l, off), NEW to, to = Len(c.code) + 1 + off
  PROVE  HereDoes(c, d, l, to)
<1> DEFINE Code == [i \in DOMAIN c.code |->
                      IF i \in c.label[l].refs THEN [c.code[i] EXCEPT !.arg = to]
                      ELSE c.code[i]]
           x == [c.label[l] EXCEPT !.to = to]
<1>1. /\ Len(c.code) \in Nat /\ DOMAIN c.code = 1 .. Len(c.code) /\ Len(c.label) \in Nat
      /\ c.label[l] \in LabelType /\ c.label \in Seq(LabelType) /\ DOMAIN c = Fields
      /\ DOMAIN c.here = HereFields
  BY ShapedFacts DEF Shaped
<1>2. to \in Nat
  BY <1>1
<1>3. d = [c EXCEPT !.label[l].to = to, !.code = Code]
  <2>1. IpOffset(c) + off = to
    BY <1>1 DEF IpOffset
  <2>2. QED
    BY <2>1 DEF Here
<1>4. /\ d.label = [c.label EXCEPT ![l] = x]
      /\ d.code = Code /\ DOMAIN d = Fields /\ d.here = c.here
      /\ d.body = c.body /\ d.end = c.end /\ d.goto = c.goto
  BY <1>1, <1>3 DEF Fields
<1>5. x \in LabelType /\ x.refs = c.label[l].refs /\ x.to = to
  BY <1>1, <1>2 DEF LabelType
<1> HIDE DEF x
<1>6. /\ d.label \in Seq(LabelType) /\ Len(d.label) = Len(c.label)
      /\ \A k \in 1 .. Len(c.label) : d.label[k] = IF k = l THEN x ELSE c.label[k]
  BY <1>1, <1>4, <1>5, ExceptSeq
<1>7. \A k \in 1 .. Len(c.label) :
       /\ d.label[k].refs = c.label[k].refs
       /\ d.label[k].to = IF k = l THEN to ELSE c.label[k].to
  BY <1>5, <1>6
<1>8. IsSeq(d.code) /\ Len(d.code) = Len(c.code)
  <2>1. d.code = [i \in 1 .. Len(c.code) |-> d.code[i]]
    BY <1>1, <1>4
  <2>2. QED
    BY <1>1, <2>1, FunctionShape
<1>9. ASSUME NEW i \in 1 .. Len(c.code)
      PROVE  /\ d.code[i].op = c.code[i].op /\ d.code[i].at = c.code[i].at
             /\ d.code[i].arg = IF i \in c.label[l].refs THEN to ELSE c.code[i].arg
             /\ DOMAIN d.code[i] = InstrFields
  <2>1. d.code[i] = IF i \in c.label[l].refs THEN [c.code[i] EXCEPT !.arg = to]
                    ELSE c.code[i]
    BY <1>1, <1>4
  <2>2. DOMAIN c.code[i] = InstrFields
    BY DEF Shaped
  <2>3. QED
    BY <2>1, <2>2 DEF InstrFields
<1>10. Shaped(d)
  BY <1>1, <1>4, <1>6, <1>8, <1>9 DEF Shaped
<1>11. QED
  BY <1>4, <1>6, <1>7, <1>8, <1>9, <1>10 DEF HereDoes, SamePlace

\* A label that stands for nothing is put, once or again.
LEMMA HereGoes ==
  ASSUME NEW c, NEW P, NEW E, Homing(c, P, E), NEW l \in 1 .. Len(c.label), P[l] = None,
         NEW off \in {0, -1}, NEW d, d = Here(c, l, off)
  PROVE  Goes(c, d, P, E)
<1>1. PICK to : to = Len(c.code) + 1 + off
  OBVIOUS
<1>2. HereDoes(c, d, l, to)
  BY <1>1, HereFacts DEF Homing
<1>3. ASSUME NEW i \in 1 .. Len(c.code), Bound(d.code[i])
      PROVE  Bound(c.code[i]) /\ d.code[i].at = c.code[i].at /\ d.code[i].arg = c.code[i].arg
  <2>1. Bound(c.code[i]) /\ d.code[i].at = c.code[i].at
    BY <1>2, <1>3 DEF HereDoes, Bound
  <2>2. i \notin c.label[l].refs
    BY <2>1, GoalIsNone DEF Homing
  <2>3. QED
    BY <1>2, <2>1, <2>2 DEF HereDoes
<1>4. \A k \in 1 .. Len(c.label) : P[k] \in Goals => k # l
  BY GoalIsNone
<1>5. Homing(d, P, E)
  <2>1. Shaped(d) /\ E \in [Goals -> Nat]
    BY <1>2 DEF HereDoes, Homing
  <2>2. ASSUME NEW k \in 1 .. Len(c.label), P[k] # Dead, NEW i \in d.label[k].refs
        PROVE  i \in 1 .. Len(c.code) /\ (Bound(d.code[i]) => Goal(d.code[i].at) = P[k])
    <3>1. i \in c.label[k].refs
      BY <1>2, <2>2 DEF HereDoes
    <3>2. i \in 1 .. Len(c.code) /\ (Bound(c.code[i]) => Goal(c.code[i].at) = P[k])
      BY <2>2, <3>1 DEF Homing
    <3>3. QED
      BY <1>3, <3>2
  <2>3. ASSUME NEW i \in 1 .. Len(c.code), Bound(d.code[i])
        PROVE  /\ Goal(d.code[i].at) \in Goals
               /\ d.code[i].arg = 0 \/ d.code[i].arg = E[Goal(d.code[i].at)]
    <3>1. /\ Goal(c.code[i].at) \in Goals
          /\ c.code[i].arg = 0 \/ c.code[i].arg = E[Goal(c.code[i].at)]
      BY <1>3, <2>3 DEF Homing
    <3>2. QED
      BY <1>3, <2>3, <3>1
  <2>4. ASSUME NEW k \in 1 .. Len(c.label), P[k] \in Goals
        PROVE  d.label[k].to = 0 \/ d.label[k].to = E[P[k]]
    <3>1. d.label[k].to = c.label[k].to
      BY <1>2, <1>4, <2>4 DEF HereDoes
    <3>2. QED
      BY <2>4, <3>1 DEF Homing
  <2>5. Len(d.label) = Len(c.label) /\ Len(d.code) = Len(c.code)
    BY <1>2 DEF HereDoes
  <2>6. QED
    BY <2>1, <2>2, <2>3, <2>4, <2>5 DEF Homing
<1>6. QED
  BY <1>2, <1>5 DEF Goes, HereDoes

\* A label that stands for a goal is put: that is where the goal is.
LEMMA GoalGoes ==
  ASSUME NEW c, NEW P, NEW E, Homing(c, P, E), NEW l \in 1 .. Len(c.label),
         NEW g \in Goals, P[l] = g, E[g] = 0,
         NEW F, F = [E EXCEPT ![g] = Len(c.code) + 1], NEW d, d = Here(c, l, 0)
  PROVE  Goes(c, d, P, F)
<1>1. PICK to : to = Len(c.code) + 1
  OBVIOUS
<1>2. Len(c.code) \in Nat /\ to \in Nat /\ to = Len(c.code) + 1 + 0
  BY <1>1, ShapedFacts DEF Homing
<1>3. HereDoes(c, d, l, to)
  <2>1. PICK off \in {0, -1} : off = 0
    OBVIOUS
  <2>2. QED
    BY <1>2, <2>1, HereFacts DEF Homing
<1>4. F \in [Goals -> Nat] /\ F[g] = to /\ \A x \in Goals : x # g => F[x] = E[x]
  BY <1>1, <1>2 DEF Homing
<1>5. ASSUME NEW i \in 1 .. Len(c.code), Bound(d.code[i])
      PROVE  /\ Bound(c.code[i]) /\ d.code[i].at = c.code[i].at
             /\ Goal(d.code[i].at) \in Goals
             /\ d.code[i].arg = 0 \/ d.code[i].arg = F[Goal(d.code[i].at)]
  <2>1. Bound(c.code[i]) /\ d.code[i].at = c.code[i].at
    BY <1>3, <1>5 DEF HereDoes, Bound
  <2>2. PICK x : x = Goal(c.code[i].at)
    OBVIOUS
  <2>3. x \in Goals /\ (c.code[i].arg = 0 \/ c.code[i].arg = E[x])
    BY <2>1, <2>2 DEF Homing
  <2>4. CASE i \in c.label[l].refs
    <3>1. x = g
      BY <2>1, <2>2, <2>4, GoalIsNone DEF Homing
    <3>2. d.code[i].arg = to
      BY <1>3, <2>4 DEF HereDoes
    <3>3. QED
      BY <1>4, <2>1, <2>2, <2>3, <3>1, <3>2
  <2>5. CASE i \notin c.label[l].refs
    <3>1. d.code[i].arg = c.code[i].arg
      BY <1>3, <2>5 DEF HereDoes
    <3>2. QED
      BY <1>4, <2>1, <2>2, <2>3, <3>1
  <2>6. QED
    BY <2>4, <2>5
<1>6. ASSUME NEW k \in 1 .. Len(c.label), P[k] \in Goals
      PROVE  d.label[k].to = 0 \/ d.label[k].to = F[P[k]]
  <2>1. CASE k = l
    BY <1>3, <1>4, <2>1 DEF HereDoes
  <2>2. CASE k # l
    <3>1. d.label[k].to = c.label[k].to
      BY <1>3, <2>2 DEF HereDoes
    <3>2. c.label[k].to = 0 \/ c.label[k].to = E[P[k]]
      BY <1>6 DEF Homing
    <3>3. QED
      BY <1>4, <1>6, <3>1, <3>2
  <2>3. QED
    BY <2>1, <2>2
<1>7. ASSUME NEW k \in 1 .. Len(c.label), P[k] # Dead, NEW i \in d.label[k].refs
      PROVE  i \in 1 .. Len(c.code) /\ (Bound(d.code[i]) => Goal(d.code[i].at) = P[k])
  <2>1. i \in c.label[k].refs
    BY <1>3, <1>7 DEF HereDoes
  <2>2. i \in 1 .. Len(c.code) /\ (Bound(c.code[i]) => Goal(c.code[i].at) = P[k])
    BY <1>7, <2>1 DEF Homing
  <2>3. QED
    BY <1>5, <2>2
<1>8. Homing(d, P, F)
  BY <1>3, <1>4, <1>5, <1>6, <1>7 DEF HereDoes, Homing
<1>9. QED
  BY <1>3, <1>8 DEF Goes, HereDoes

\* From here on the goal g is behind the compiler, at m.
Reached(E, g, m) == [E EXCEPT ![g] = m]
\* The same with the place of the goal in a name.
LEMMA PutGoes ==
  ASSUME NEW c, NEW P, NEW E, Homing(c, P, E), NEW l, l \in 1 .. Len(c.label),
         NEW g \in Goals, P[l] = g, E[g] = 0, NEW m, m = Len(c.code) + 1,
         NEW F, F = Reached(E, g, m), NEW off, off = 0, NEW d, d = Here(c, l, off)
  PROVE  Goes(c, d, P, F) /\ Len(d.code) = Len(c.code)
<1>1. F = [E EXCEPT ![g] = Len(c.code) + 1]
  BY DEF Reached
<1>2. d = Here(c, l, 0)
  OBVIOUS
<1>3. Goes(c, d, P, F)
  BY <1>1, <1>2, GoalGoes
<1>4. PICK z \in {0, -1} : z = 0
  OBVIOUS
<1>5. PICK to : to = Len(c.code) + 1 + z
  OBVIOUS
<1>6. HereDoes(c, d, l, to)
  BY <1>2, <1>4, <1>5, HereFacts DEF Homing
<1>7. QED
  BY <1>3, <1>6 DEF HereDoes

\* Two steps are one.
LEMMA GoesTwice ==
  ASSUME NEW c, NEW d, NEW e, NEW P, NEW E, NEW F, Goes(c, d, P, E), Goes(d, e, P, F)
  PROVE  Goes(c, e, P, F)
BY DEF Goes, SamePlace

\* What is neither code nor a label leads nowhere.
LEMMA AsideGoes ==
  ASSUME NEW c, NEW P, NEW E, Homing(c, P, E), NEW d, DOMAIN d = Fields,
         d.code = c.code, d.label = c.label, d.here = c.here,
         d.goto.label = c.goto.label, d.body = c.body, d.end = c.end
  PROVE  Goes(c, d, P, E)
<1>1. DOMAIN d.here = HereFields
  BY DEF Homing, Shaped
<1>2. Homing(d, P, E)
  BY <1>1, HomingSame
<1>3. QED
  BY <1>2 DEF Goes, SamePlace

Stacks == {"label_stack", "break_stack", "continue_stack", "switch_stack", "mTryStack",
           "block_stack", "context_stack"}
SetTo(c, d, f, x) == d = [c EXCEPT ![f] = x]
\* One of the stacks changes.
LEMMA StackGoes ==
  ASSUME NEW c, NEW P, NEW E, Homing(c, P, E), NEW f \in Stacks, NEW x,
         NEW d, SetTo(c, d, f, x)
  PROVE  Goes(c, d, P, E) /\ d[f] = x /\ \A q \in Fields : q # f => d[q] = c[q]
<1>1. DOMAIN c = Fields
  BY DEF Homing, Shaped
<1>2. DOMAIN d = Fields /\ d[f] = x /\ \A q \in Fields : q # f => d[q] = c[q]
  BY <1>1 DEF Stacks, Fields, SetTo
<1>3. /\ d.code = c.code /\ d.label = c.label /\ d.here = c.here /\ d.goto = c.goto
      /\ d.body = c.body /\ d.end = c.end
  BY <1>2 DEF Stacks, Fields
<1>4. QED
  BY <1>2, <1>3, AsideGoes

\* Something is pushed.
LEMMA PushGoes ==
  ASSUME NEW c, NEW P, NEW E, Homing(c, P, E), NEW f \in Stacks, NEW x,
         NEW d, d = Push(c, f, x)
  PROVE  Goes(c, d, P, E) /\ d[f] = Append(c[f], x)
         /\ \A q \in Fields : q # f => d[q] = c[q]
<1>1. DOMAIN c = Fields
  BY DEF Homing, Shaped
<1>2. PICK y : y = Append(c[f], x)
  OBVIOUS
<1>3. SetTo(c, d, f, y)
  BY <1>1, <1>2 DEF Push, SetTo, Stacks, Fields
<1>4. Goes(c, d, P, E) /\ d[f] = y /\ \A q \in Fields : q # f => d[q] = c[q]
  BY <1>3, StackGoes
<1>5. QED
  BY <1>2, <1>4

\* Something is popped.
LEMMA PopGoes ==
  ASSUME NEW c, NEW P, NEW E, Homing(c, P, E), NEW f \in Stacks, NEW d, d = Pop(c, f)
  PROVE  Goes(c, d, P, E) /\ d[f] = Front(c[f])
         /\ \A q \in Fields : q # f => d[q] = c[q]
<1>1. DOMAIN c = Fields
  BY DEF Homing, Shaped
<1>2. PICK y : y = Front(c[f])
  OBVIOUS
<1>3. SetTo(c, d, f, y)
  BY <1>1, <1>2 DEF Pop, SetTo, Stacks, Fields
<1>4. Goes(c, d, P, E) /\ d[f] = y /\ \A q \in Fields : q # f => d[q] = c[q]
  BY <1>3, StackGoes
<1>5. QED
  BY <1>2, <1>4

\* Where a statement begins, or an instruction without one.
BeginsAt(c, d, o, stmt) ==
  /\ DOMAIN d = DOMAIN c /\ \A q \in Fields : q # "here" => d[q] = c[q]
  /\ d.here.stmt = stmt /\ d.here.nest = Nest(o)

\* To begin a statement, or to emit between two, only sets the place in the
\* source.
LEMMA BeginGoes ==
  ASSUME NEW c, NEW P, NEW E, Homing(c, P, E), NEW o, NEW stmt,
         NEW d, d = Begin(c, o, stmt) \/ (d = Between(c, o) /\ stmt = "")
  PROVE  Homing(d, P, E) /\ BeginsAt(c, d, o, stmt)
<1>1. DOMAIN c = Fields
  BY DEF Homing, Shaped
<1>2. PICK live : d = [c EXCEPT !.here = [live |-> live, nest |-> Nest(o), stmt |-> stmt]]
  BY DEF Begin, Between
<1>3. PICK nest : nest = Nest(o)
  OBVIOUS
<1>4. PICK h : h = [live |-> live, nest |-> nest, stmt |-> stmt]
  OBVIOUS
<1>5. d = [c EXCEPT !.here = h]
  BY <1>2, <1>3, <1>4
<1>6. DOMAIN d = Fields /\ d.here = h /\ \A q \in Fields : q # "here" => d[q] = c[q]
  BY <1>1, <1>5 DEF Fields
<1>7. DOMAIN h = HereFields /\ h.stmt = stmt /\ h.nest = nest
  BY <1>4 DEF HereFields
<1>8. d.code = c.code /\ d.label = c.label
  BY <1>6 DEF Fields
<1>9. Homing(d, P, E)
  BY <1>6, <1>7, <1>8, HomingSame
<1>10. QED
  BY <1>1, <1>3, <1>6, <1>7, <1>9 DEF BeginsAt

-----------------------------------------------------------------------------
(* The label stack                                                         *)

\* push_label_stack().
LEMMA PushLabelGoes ==
  ASSUME NEW c, NEW P, NEW E, Homing(c, P, E), NEW d, d = PushLabelStack(c)
  PROVE  Goes(c, d, P, E) /\ Len(d.label) = Len(c.label) + 1 /\ d.code = c.code
         /\ d.label_stack = Append(c.label_stack, Len(c.label) + 1)
<1>1. PICK e : e = NewLabel(c)
  OBVIOUS
<1>2. Goes(c, e, P, E) /\ Len(e.label) = Len(c.label) + 1 /\ e.code = c.code
  BY <1>1, NewLabelGoes
<1>3. e.label_stack = c.label_stack /\ Homing(e, P, E)
  BY <1>1, <1>2 DEF NewLabel, Push, Goes, Homing, Shaped, Fields
<1>4. PICK f \in Stacks : f = "label_stack"
  BY DEF Stacks
<1>5. PICK l : l = Len(e.label)
  OBVIOUS
<1>6. d = Push(e, f, l)
  BY <1>1, <1>4, <1>5 DEF PushLabelStack
<1>7. Goes(e, d, P, E) /\ d[f] = Append(e[f], l) /\ \A q \in Fields : q # f => d[q] = e[q]
  BY <1>3, <1>6, PushGoes
<1>8. d.label_stack = Append(e.label_stack, l) /\ d.label = e.label /\ d.code = e.code
  BY <1>4, <1>7 DEF Fields
<1>9. Goes(c, d, P, E)
  BY <1>2, <1>7, GoesTwice
<1>10. QED
  BY <1>2, <1>3, <1>5, <1>8, <1>9

\* label_here(): the new label stands for nothing.
LEMMA LabelHereGoes ==
  ASSUME NEW c, NEW P, NEW E, Homing(c, P, E), IsSeq(c.label_stack),
         P[Len(c.label) + 1] = None, NEW d, d = LabelHere(c)
  PROVE  Goes(c, d, P, E)
<1>1. PICK e : e = PushLabelStack(c)
  OBVIOUS
<1>2. /\ Goes(c, e, P, E) /\ Len(e.label) = Len(c.label) + 1
      /\ e.label_stack = Append(c.label_stack, Len(c.label) + 1)
  BY <1>1, PushLabelGoes
<1>3. PICK l : l = Len(c.label) + 1
  OBVIOUS
<1>4. TOS(e, "label_stack") = l
  <2>1. e.label_stack = Append(c.label_stack, l)
    BY <1>2, <1>3
  <2>2. Last(e.label_stack) = l
    BY <2>1, AppendShape
  <2>3. QED
    BY <2>2 DEF TOS
<1>5. l \in 1 .. Len(e.label)
  BY <1>2, <1>3, ShapedFacts DEF Homing
<1>6. PICK off \in {0, -1} : off = 0
  OBVIOUS
<1>7. d = Here(e, l, off)
  BY <1>1, <1>4, <1>6 DEF LabelHere
<1>8. Goes(e, d, P, E)
  BY <1>2, <1>3, <1>5, <1>7, HereGoes DEF Goes
<1>9. QED
  BY <1>2, <1>8, GoesTwice

\* label_jump().
LEMMA LabelJumpGoes ==
  ASSUME NEW c, NEW P, NEW E, Homing(c, P, E), NEW op, op = "JMP" => Plain(c),
         NEW push \in BOOLEAN, NEW d, d = LabelJump(c, op, push)
  PROVE  Goes(c, d, P, E)
<1>1. PICK b : b = IF push THEN PushLabelStack(c) ELSE c
  OBVIOUS
<1>2. Goes(c, b, P, E)
  <2>1. CASE push
    BY <1>1, <2>1, PushLabelGoes
  <2>2. CASE ~push
    BY <1>1, <2>2 DEF Goes, SamePlace
  <2>3. QED
    BY <2>1, <2>2
<1>3. PICK l : l = TOS(b, "label_stack")
  OBVIOUS
<1>4. PICK j : j = Jump(b, op, l)
  OBVIOUS
<1>5. op = "JMP" => Plain(b)
  BY <1>2 DEF Goes, SamePlace, Plain
<1>6. Homing(b, P, E)
  BY <1>2 DEF Goes
<1>7. Goes(b, j, P, E)
  BY <1>4, <1>5, <1>6, JumpGoes
<1>8. d = IF push THEN j ELSE Pop(j, "label_stack")
  BY <1>1, <1>3, <1>4 DEF LabelJump
<1>9. Goes(j, d, P, E)
  <2>1. CASE push
    BY <1>7, <1>8, <2>1 DEF Goes, SamePlace
  <2>2. CASE ~push
    <3>1. PICK f \in Stacks : f = "label_stack"
      BY DEF Stacks
    <3>2. d = Pop(j, f)
      BY <1>8, <2>2, <3>1
    <3>3. Homing(j, P, E)
      BY <1>7 DEF Goes
    <3>4. QED
      BY <3>2, <3>3, PopGoes
  <2>3. QED
    BY <2>1, <2>2
<1>10. QED
  BY <1>2, <1>7, <1>9, GoesTwice

\* The end of an if, and its else.
LEMMA IfEndGoes ==
  ASSUME NEW c, NEW P, NEW E, Homing(c, P, E), NEW l, l = TOS(c, "label_stack"),
         l \in 1 .. Len(c.label), P[l] = None, NEW is_jump \in BOOLEAN,
         is_jump => Plain(c),
         NEW push \in BOOLEAN, NEW d, d = DoLoopEnd(c, is_jump, push)
  PROVE  Goes(c, d, P, E)
<1>1. PICK f \in Stacks : f = "label_stack"
  BY DEF Stacks
<1>2. PICK e : e = Pop(c, f)
  OBVIOUS
<1>3. Goes(c, e, P, E) /\ e.label = c.label
  <2>1. Goes(c, e, P, E) /\ \A q \in Fields : q # f => e[q] = c[q]
    BY <1>2, PopGoes
  <2>2. QED
    BY <1>1, <2>1 DEF Fields
<1>4. PICK j : j = IF is_jump THEN LabelJump(e, "JMP", push) ELSE e
  OBVIOUS
<1>5. Homing(e, P, E) /\ (is_jump => Plain(e))
  BY <1>3 DEF Goes, SamePlace, Plain
<1>6. Goes(e, j, P, E)
  <2>1. CASE is_jump
    <3>1. PICK op : op = "JMP"
      OBVIOUS
    <3>2. j = LabelJump(e, op, push)
      BY <1>4, <2>1, <3>1
    <3>3. QED
      BY <1>5, <2>1, <3>2, LabelJumpGoes
  <2>2. CASE ~is_jump
    BY <1>4, <1>5, <2>2 DEF Goes, SamePlace
  <2>3. QED
    BY <2>1, <2>2
<1>7. PICK off \in {0, -1} : off = 0
  OBVIOUS
<1>8. d = Here(j, l, off)
  BY <1>1, <1>2, <1>4, <1>7 DEF DoLoopEnd
<1>9. l \in 1 .. Len(j.label)
  BY <1>3, <1>6 DEF Goes
<1>10. Homing(j, P, E)
  BY <1>6 DEF Goes
<1>11. Goes(j, d, P, E)
  BY <1>8, <1>9, <1>10, HereGoes
<1>12. QED
  BY <1>3, <1>6, <1>11, GoesTwice

-----------------------------------------------------------------------------
(* What the labels on the parser's stacks stand for                        *)

\* The block that is a loop's statement.
IsBody(o, i) == i > 1 /\ o[i].k = "block" /\ o[i - 1].k \in Loops
\* How many labels and blocks the parser's stacks hold below each open
\* statement; unlike the tower, this is known from the statements alone.
Marks  == [label : Nat, brk : Nat, cont : Nat, blk : Nat]
Ground == [label |-> 0, brk |-> 0, cont |-> 0, blk |-> 0]
Highs(c) ==
  [label |-> Len(c.label_stack), brk |-> Len(c.break_stack),
   cont |-> Len(c.continue_stack), blk |-> Len(c.block_stack)]
BreaksOf(o, i)    == IF o[i].k = "switch" \/ IsBody(o, i) THEN 1 ELSE 0
ContinuesOf(o, i) == IF IsBody(o, i) THEN 1 ELSE 0
BlocksOf(o, i)    == IF Owns(o[i].k) THEN 1 ELSE 0
Above(x, o, i) ==
  [label |-> x.label + LabelsOf(o[i].k), brk |-> x.brk + BreaksOf(o, i),
   cont |-> x.cont + ContinuesOf(o, i), blk |-> x.blk + BlocksOf(o, i)]
Under(x, y) ==
  x.label <= y.label /\ x.brk <= y.brk /\ x.cont <= y.cont /\ x.blk <= y.blk
\* What the i-th statement has put there, above the marks x.
Spot(c, o, x, i, P) ==
  /\ o[i].k \in {"if", "else"} \union Loops => P[c.label_stack[x.label + 1]] = None
  /\ o[i].k \in Loops => P[c.label_stack[x.label + 2]] = <<"end", o[i].id>>
  /\ Owns(o[i].k) =>
       /\ "BREAKABLE" \in c.block_stack[x.blk + 1] <=> o[i].k = "switch" \/ IsBody(o, i)
       /\ "CONTINUEABLE" \in c.block_stack[x.blk + 1] <=> IsBody(o, i)
       /\ "IN_SWITCH" \in c.block_stack[x.blk + 1] <=> o[i].k = "switch"
  /\ IsBody(o, i) =>
       /\ P[c.break_stack[x.brk + 1]] = <<"end", o[i - 1].id>>
       /\ P[c.continue_stack[x.cont + 1]] = <<"body", o[i - 1].id>>
  /\ o[i].k = "switch" => P[c.break_stack[x.brk + 1]] = <<"end", o[i].id>>
HomePart(c, o, P, h, m) ==
  /\ h \in [1 .. m + 1 -> Marks] /\ h[1] = Ground
  /\ \A i \in 1 .. m : h[i + 1] = Above(h[i], o, i)
  /\ \A i \in 1 .. m : Spot(c, o, h[i], i, P)
  /\ \A i, j \in 1 .. m + 1 : i <= j => Under(h[i], h[j])
Home(c, o, P, h) == HomePart(c, o, P, h, Len(o)) /\ h[Len(o) + 1] = Highs(c)
AtHome(c, o, P) == \E h : Home(c, o, P, h)
Base(c, o, P, x) == \E h : Home(c, o, P, h) /\ x = h[Len(o)]
\* The stacks are the same up to these marks, but for contexts.
Alike(c, d, x) ==
  /\ Kept(c.label_stack, d.label_stack, x.label)
  /\ Kept(c.break_stack, d.break_stack, x.brk)
  /\ Kept(c.continue_stack, d.continue_stack, x.cont)
  /\ \A i \in 1 .. x.blk : \A f \in {"BREAKABLE", "CONTINUEABLE", "IN_SWITCH"} :
       f \in d.block_stack[i] <=> f \in c.block_stack[i]
SameItems(o, p, m) == \A i \in 1 .. m : p[i].k = o[i].k /\ p[i].id = o[i].id
\* The stacks have lengths and hold labels.
Stacked(c) ==
  /\ Len(c.label) \in Nat /\ Highs(c) \in Marks
  /\ \A i \in 1 .. Len(c.label_stack) : c.label_stack[i] \in 1 .. Len(c.label)
  /\ \A i \in 1 .. Len(c.break_stack) : c.break_stack[i] \in 1 .. Len(c.label)
  /\ \A i \in 1 .. Len(c.continue_stack) : c.continue_stack[i] \in 1 .. Len(c.label)

\* That is part of what holds of the compiler's state.
LEMMA StackedOK ==
  ASSUME NEW c, CodeOK(c, {})
  PROVE  Stacked(c)
<1>1. CodeShape(c) /\ StackShape(c)
  BY DEF CodeOK
<1>2. /\ Len(c.label) \in Nat
      /\ Len(c.label_stack) \in Nat /\ Len(c.break_stack) \in Nat
      /\ Len(c.continue_stack) \in Nat /\ Len(c.block_stack) \in Nat
  BY <1>1, ShapeFacts, StackFacts
<1>3. Highs(c) \in Marks
  BY <1>2 DEF Highs, Marks
<1>4. QED
  BY <1>1, <1>2, <1>3, StackFacts DEF Stacked

AbovePost(x, o, i, y) ==
  /\ y \in Marks /\ Under(x, y)
  /\ y.label = x.label + LabelsOf(o[i].k)
  /\ y.brk = x.brk + BreaksOf(o, i) /\ y.cont = x.cont + ContinuesOf(o, i)
  /\ y.blk = x.blk + BlocksOf(o, i)
\* The marks above a statement are marks, and none is lower than below it.
LEMMA AboveFacts ==
  ASSUME NEW x \in Marks, NEW o, NEW i, NEW y, y = Above(x, o, i)
  PROVE  AbovePost(x, o, i, y)
<1>1. PICK a \in Nat : a = LabelsOf(o[i].k)
  BY DEF LabelsOf
<1>2. PICK b \in Nat : b = BreaksOf(o, i)
  BY DEF BreaksOf
<1>3. PICK e \in Nat : e = ContinuesOf(o, i)
  BY DEF ContinuesOf
<1>4. PICK f \in Nat : f = BlocksOf(o, i)
  BY DEF BlocksOf
<1>5. y = [label |-> x.label + a, brk |-> x.brk + b, cont |-> x.cont + e, blk |-> x.blk + f]
  BY <1>1, <1>2, <1>3, <1>4 DEF Above
<1>6. x.label \in Nat /\ x.brk \in Nat /\ x.cont \in Nat /\ x.blk \in Nat
  BY DEF Marks
<1>7. QED
  BY <1>1, <1>2, <1>3, <1>4, <1>5, <1>6 DEF Marks, Under, AbovePost

\* What holds of an open statement still does when only the stacks above it
\* change.
LEMMA SpotKept ==
  ASSUME NEW c, Stacked(c), NEW d, NEW o, NEW p, NEW i \in Nat, i >= 1, NEW P, NEW Q,
         NEW x \in Marks, NEW y \in Marks, Under(Above(x, o, i), y), Under(y, Highs(c)),
         Alike(c, d, y), p[i].k = o[i].k /\ p[i].id = o[i].id,
         i > 1 => p[i - 1].k = o[i - 1].k /\ p[i - 1].id = o[i - 1].id,
         \A k \in 1 .. Len(c.label) : Q[k] = P[k], Spot(c, o, x, i, P)
  PROVE  Spot(d, p, x, i, Q) /\ Above(x, p, i) = Above(x, o, i)
<1>1. IsBody(p, i) <=> IsBody(o, i)
  BY DEF IsBody
<1>2. Above(x, p, i) = Above(x, o, i)
  <2>1. BreaksOf(p, i) = BreaksOf(o, i) /\ ContinuesOf(p, i) = ContinuesOf(o, i)
        /\ BlocksOf(p, i) = BlocksOf(o, i)
    BY <1>1 DEF BreaksOf, ContinuesOf, BlocksOf
  <2>2. QED
    BY <2>1 DEF Above
<1>3. PICK a : a = Above(x, o, i)
  OBVIOUS
<1>4. /\ a \in Marks
      /\ a.label = x.label + LabelsOf(o[i].k)
      /\ a.brk = x.brk + BreaksOf(o, i) /\ a.cont = x.cont + ContinuesOf(o, i)
      /\ a.blk = x.blk + BlocksOf(o, i)
  <2>1. AbovePost(x, o, i, a)
    BY <1>3, AboveFacts
  <2>2. QED
    BY <2>1 DEF AbovePost
<1>5. /\ a.label <= y.label /\ a.brk <= y.brk /\ a.cont <= y.cont /\ a.blk <= y.blk
      /\ y.label <= Len(c.label_stack) /\ y.brk <= Len(c.break_stack)
      /\ y.cont <= Len(c.continue_stack) /\ y.blk <= Len(c.block_stack)
  BY <1>3 DEF Under, Highs
<1>6. /\ x.label \in Nat /\ x.brk \in Nat /\ x.cont \in Nat /\ x.blk \in Nat
      /\ y.label \in Nat /\ y.brk \in Nat /\ y.cont \in Nat /\ y.blk \in Nat
      /\ Len(c.label_stack) \in Nat /\ Len(c.break_stack) \in Nat
      /\ Len(c.continue_stack) \in Nat /\ Len(c.block_stack) \in Nat
  BY DEF Marks, Stacked, Highs
<1>7. /\ o[i].k \in {"if", "else"} \union Loops =>
           x.label + 1 \in 1 .. y.label /\ x.label + 1 \in 1 .. Len(c.label_stack)
      /\ o[i].k \in Loops =>
           x.label + 2 \in 1 .. y.label /\ x.label + 2 \in 1 .. Len(c.label_stack)
  <2>1. CASE o[i].k \in Loops
    <3>1. LabelsOf(o[i].k) = 2
      BY <2>1 DEF LabelsOf
    <3>2. x.label + 2 <= y.label /\ x.label + 2 <= Len(c.label_stack)
      BY <1>4, <1>5, <1>6, <3>1, SMTT(40)
    <3>3. PICK k \in Nat : k = x.label
      BY <1>6
    <3>4. /\ k + 1 \in Nat /\ k + 1 >= 1 /\ k + 1 <= k + 2
          /\ k + 2 \in Nat /\ k + 2 >= 1
      OBVIOUS
    <3>5. x.label + 1 \in 1 .. y.label /\ x.label + 2 \in 1 .. y.label
      <4>1. y.label \in Nat /\ k + 2 <= y.label
        BY <1>6, <3>2, <3>3
      <4>2. QED
        BY <3>3, <3>4, <4>1
    <3>6. /\ x.label + 1 \in 1 .. Len(c.label_stack)
          /\ x.label + 2 \in 1 .. Len(c.label_stack)
      <4>1. Len(c.label_stack) \in Nat /\ k + 2 <= Len(c.label_stack)
        BY <1>6, <3>2, <3>3
      <4>2. QED
        BY <3>3, <3>4, <4>1
    <3>7. QED
      BY <3>5, <3>6
  <2>2. CASE o[i].k \in {"if", "else"}
    <3>1. LabelsOf(o[i].k) = 1 /\ o[i].k \notin Loops
      BY <2>2 DEF LabelsOf, Loops
    <3>2. x.label + 1 <= y.label /\ x.label + 1 <= Len(c.label_stack)
      BY <1>4, <1>5, <1>6, <3>1, SMTT(40)
    <3>3. x.label + 1 \in 1 .. y.label /\ x.label + 1 \in 1 .. Len(c.label_stack)
      BY <1>6, <3>2, SMTT(40)
    <3>4. QED
      BY <3>1, <3>3
  <2>3. QED
    BY <2>1, <2>2
<1>8. o[i].k = "switch" \/ IsBody(o, i) =>
        x.brk + 1 \in 1 .. y.brk /\ x.brk + 1 \in 1 .. Len(c.break_stack)
  BY <1>4, <1>5, <1>6, SMTT(40) DEF BreaksOf
<1>9. IsBody(o, i) =>
        x.cont + 1 \in 1 .. y.cont /\ x.cont + 1 \in 1 .. Len(c.continue_stack)
  BY <1>4, <1>5, <1>6, SMTT(40) DEF ContinuesOf
<1>10. Owns(o[i].k) => x.blk + 1 \in 1 .. y.blk
  BY <1>4, <1>5, <1>6 DEF BlocksOf
<1>11. \A j \in 1 .. y.label : j \in 1 .. Len(c.label_stack) =>
         Q[d.label_stack[j]] = P[c.label_stack[j]]
  BY DEF Alike, Kept, Stacked
<1>12. \A j \in 1 .. y.brk : j \in 1 .. Len(c.break_stack) =>
         Q[d.break_stack[j]] = P[c.break_stack[j]]
  BY DEF Alike, Kept, Stacked
<1>13. \A j \in 1 .. y.cont : j \in 1 .. Len(c.continue_stack) =>
         Q[d.continue_stack[j]] = P[c.continue_stack[j]]
  BY DEF Alike, Kept, Stacked
<1>14. /\ o[i].k \in {"if", "else"} \union Loops => Q[d.label_stack[x.label + 1]] = None
       /\ o[i].k \in Loops => Q[d.label_stack[x.label + 2]] = <<"end", o[i].id>>
  BY <1>7, <1>11 DEF Spot
<1>15. Owns(o[i].k) =>
       /\ "BREAKABLE" \in d.block_stack[x.blk + 1] <=> o[i].k = "switch" \/ IsBody(o, i)
       /\ "CONTINUEABLE" \in d.block_stack[x.blk + 1] <=> IsBody(o, i)
       /\ "IN_SWITCH" \in d.block_stack[x.blk + 1] <=> o[i].k = "switch"
  BY <1>10 DEF Spot, Alike
<1>16. /\ IsBody(o, i) =>
            /\ Q[d.break_stack[x.brk + 1]] = <<"end", o[i - 1].id>>
            /\ Q[d.continue_stack[x.cont + 1]] = <<"body", o[i - 1].id>>
       /\ o[i].k = "switch" => Q[d.break_stack[x.brk + 1]] = <<"end", o[i].id>>
  BY <1>8, <1>9, <1>12, <1>13 DEF Spot
<1>17. IsBody(o, i) => p[i - 1].id = o[i - 1].id
  BY DEF IsBody
<1>18. Spot(d, p, x, i, Q)
  BY <1>1, <1>14, <1>15, <1>16, <1>17 DEF Spot
<1>19. QED
  BY <1>2, <1>18

\* The marks of the first m statements hold in every state that is alike up to
\* there.
LEMMA HomeCut ==
  ASSUME NEW c, Stacked(c), NEW d, NEW o, IsSeq(o), NEW P, NEW h, Home(c, o, P, h),
         NEW m \in 0 .. Len(o), NEW p, SameItems(o, p, m), Alike(c, d, h[m + 1]),
         NEW Q, \A k \in 1 .. Len(c.label) : Q[k] = P[k],
         NEW g, g = [i \in 1 .. m + 1 |-> h[i]]
  PROVE  HomePart(d, p, Q, g, m)
<1>1. PICK w \in Nat : w = Len(o)
  BY SeqShape
<1>2. m \in Nat /\ m <= w
  BY <1>1
<1>3. /\ h \in [1 .. w + 1 -> Marks] /\ h[1] = Ground /\ h[w + 1] = Highs(c)
      /\ \A i \in 1 .. w : h[i + 1] = Above(h[i], o, i)
      /\ \A i \in 1 .. w : Spot(c, o, h[i], i, P)
      /\ \A i, j \in 1 .. w + 1 : i <= j => Under(h[i], h[j])
  BY <1>1 DEF Home, HomePart
<1>4. g \in [1 .. m + 1 -> Marks] /\ \A i \in 1 .. m + 1 : g[i] = h[i]
  BY <1>2, <1>3
<1>5. g[1] = Ground
  BY <1>2, <1>3, <1>4
<1>6. \A i, j \in 1 .. m + 1 : i <= j => Under(g[i], g[j])
  BY <1>2, <1>3, <1>4
<1>7. PICK y \in Marks : y = h[m + 1]
  BY <1>2, <1>3
<1>8. Under(y, Highs(c))
  BY <1>2, <1>3, <1>7
<1>9. ASSUME NEW i \in 1 .. m
      PROVE  g[i + 1] = Above(g[i], p, i) /\ Spot(d, p, g[i], i, Q)
  <2>1. /\ i \in 1 .. w /\ i \in 1 .. w + 1 /\ i + 1 \in 1 .. m + 1 /\ i \in 1 .. m + 1
        /\ i + 1 \in 1 .. w + 1 /\ m + 1 \in 1 .. w + 1 /\ i + 1 <= m + 1
        /\ i \in Nat /\ i >= 1 /\ (i > 1 => i - 1 \in 1 .. m)
    BY <1>2
  <2>2. PICK x \in Marks : x = h[i]
    BY <1>3, <2>1
  <2>3. Under(Above(x, o, i), y)
    BY <1>3, <1>7, <2>1, <2>2
  <2>4. /\ p[i].k = o[i].k /\ p[i].id = o[i].id
        /\ i > 1 => p[i - 1].k = o[i - 1].k /\ p[i - 1].id = o[i - 1].id
    BY <2>1 DEF SameItems
  <2>5. Spot(c, o, x, i, P) /\ Alike(c, d, y)
    BY <1>3, <1>7, <2>1, <2>2
  <2>6. Spot(d, p, x, i, Q) /\ Above(x, p, i) = Above(x, o, i)
    BY <1>8, <2>1, <2>3, <2>4, <2>5, SpotKept
  <2>7. h[i + 1] = Above(x, o, i)
    BY <1>3, <2>1, <2>2
  <2>8. QED
    BY <1>4, <2>1, <2>2, <2>6, <2>7
<1>10. QED
  BY <1>4, <1>5, <1>6, <1>9 DEF HomePart

\* The statements above the first m have ended.
LEMMA HomeDown ==
  ASSUME NEW c, Stacked(c), NEW d, NEW o, IsSeq(o), NEW P, NEW h, Home(c, o, P, h),
         NEW m \in 0 .. Len(o), NEW p, Len(p) = m, SameItems(o, p, m),
         Alike(c, d, h[m + 1]), Highs(d) = h[m + 1],
         NEW Q, \A k \in 1 .. Len(c.label) : Q[k] = P[k]
  PROVE  AtHome(d, p, Q)
<1>1. PICK g : g = [i \in 1 .. m + 1 |-> h[i]]
  OBVIOUS
<1>2. HomePart(d, p, Q, g, m)
  BY <1>1, HomeCut
<1>3. m \in Nat
  BY SeqShape
<1>4. g[m + 1] = h[m + 1]
  BY <1>1, <1>3
<1>5. QED
  BY <1>2, <1>4 DEF AtHome, Home

\* A statement was begun above the first m.
LEMMA HomeUp ==
  ASSUME NEW c, Stacked(c), NEW d, NEW o, IsSeq(o), NEW P, NEW h, Home(c, o, P, h),
         NEW m \in 0 .. Len(o), NEW p, Len(p) = m + 1, SameItems(o, p, m),
         NEW x, x = h[m + 1], Alike(c, d, x), NEW i, i = m + 1,
         NEW Q, \A k \in 1 .. Len(c.label) : Q[k] = P[k],
         Highs(d) = Above(x, p, i), Spot(d, p, x, i, Q)
  PROVE  AtHome(d, p, Q)
<1>1. PICK g : g = [j \in 1 .. m + 1 |-> h[j]]
  OBVIOUS
<1>2. HomePart(d, p, Q, g, m) /\ m \in Nat
  BY <1>1, HomeCut, SeqShape
<1>3. /\ g \in [1 .. m + 1 -> Marks] /\ g[1] = Ground /\ g[m + 1] = x
      /\ \A j \in 1 .. m : g[j + 1] = Above(g[j], p, j)
      /\ \A j \in 1 .. m : Spot(d, p, g[j], j, Q)
      /\ \A j, k \in 1 .. m + 1 : j <= k => Under(g[j], g[k])
  <2>1. m + 1 \in 1 .. m + 1
    BY <1>2
  <2>2. g[m + 1] = x
    BY <1>1, <2>1
  <2>3. QED
    BY <1>2, <2>2 DEF HomePart
<1>4. PICK y : y = Above(x, p, i)
  OBVIOUS
<1>5. x \in Marks
  BY <1>2, <1>3
<1>6. y \in Marks /\ Under(x, y)
  BY <1>4, <1>5, AboveFacts DEF AbovePost
<1>7. PICK f : f = [j \in 1 .. m + 2 |-> IF j = m + 2 THEN y ELSE g[j]]
  OBVIOUS
<1>8. /\ f \in [1 .. m + 2 -> Marks] /\ f[m + 2] = y
      /\ \A j \in 1 .. m + 1 : f[j] = g[j]
  BY <1>2, <1>3, <1>6, <1>7
<1>9. f[1] = Ground
  BY <1>2, <1>3, <1>8
<1>10. ASSUME NEW j \in 1 .. m + 1
       PROVE  f[j + 1] = Above(f[j], p, j) /\ Spot(d, p, f[j], j, Q)
  <2>1. CASE j = m + 1
    <3>1. j + 1 = m + 2 /\ j = i /\ f[j] = x
      BY <1>2, <1>3, <1>8, <2>1
    <3>2. QED
      BY <1>4, <1>8, <3>1
  <2>2. CASE j # m + 1
    <3>1. j \in 1 .. m /\ j + 1 \in 1 .. m + 1
      BY <1>2, <2>2
    <3>2. QED
      BY <1>3, <1>8, <3>1
  <2>3. QED
    BY <2>1, <2>2
<1>11. ASSUME NEW j \in 1 .. m + 2, NEW k \in 1 .. m + 2, j <= k
       PROVE  Under(f[j], f[k])
  <2>1. CASE k \in 1 .. m + 1
    <3>1. j \in 1 .. m + 1
      BY <1>2, <1>11, <2>1
    <3>2. QED
      BY <1>3, <1>8, <1>11, <2>1, <3>1
  <2>2. CASE k = m + 2 /\ j = m + 2
    BY <1>6, <1>8, <2>2, SMTT(40) DEF Under, Marks
  <2>3. CASE k = m + 2 /\ j \in 1 .. m + 1
    <3>1. Under(g[j], x) /\ g[j] \in Marks
      BY <1>2, <1>3, <2>3
    <3>2. Under(g[j], y)
      <4>1. PICK z \in Marks : z = g[j]
        BY <3>1
      <4>2. /\ z.label <= x.label /\ z.brk <= x.brk /\ z.cont <= x.cont /\ z.blk <= x.blk
            /\ x.label <= y.label /\ x.brk <= y.brk /\ x.cont <= y.cont /\ x.blk <= y.blk
        BY <1>6, <3>1, <4>1 DEF Under
      <4>3. Under(z, y)
        BY <1>5, <1>6, <4>2, SMTT(40) DEF Under, Marks
      <4>4. QED
        BY <4>1, <4>3
    <3>3. QED
      BY <1>8, <2>3, <3>2
  <2>4. QED
    BY <1>2, <2>1, <2>2, <2>3
<1>12. HomePart(d, p, Q, f, m + 1)
  <2>1. m + 1 + 1 = m + 2
    BY <1>2
  <2>2. QED
    BY <1>8, <1>9, <1>10, <1>11, <2>1 DEF HomePart
<1>13. f[m + 1 + 1] = Highs(d)
  BY <1>2, <1>4, <1>8
<1>14. QED
  BY <1>12, <1>13 DEF AtHome, Home

\* They hold when no stack changes.
LEMMA HomeSame ==
  ASSUME NEW c, Stacked(c), NEW d, NEW o, IsSeq(o), NEW P, AtHome(c, o, P),
         NEW p, Len(p) = Len(o), SameItems(o, p, Len(o)),
         NEW x, x = Highs(c), Alike(c, d, x), Highs(d) = x,
         NEW Q, \A k \in 1 .. Len(c.label) : Q[k] = P[k]
  PROVE  AtHome(d, p, Q)
<1>1. PICK h : Home(c, o, P, h)
  BY DEF AtHome
<1>2. PICK m \in 0 .. Len(o) : m = Len(o)
  BY SeqShape
<1>3. h[m + 1] = x
  BY <1>1, <1>2 DEF Home
<1>4. Len(p) = m /\ SameItems(o, p, m)
  BY <1>2
<1>5. QED
  BY <1>1, <1>3, <1>4, HomeDown

\* They hold with one more statement, when that has its labels.
LEMMA HomeOpen ==
  ASSUME NEW c, Stacked(c), NEW d, NEW o, IsSeq(o), NEW P, AtHome(c, o, P),
         NEW p, NEW i, i = Len(o) + 1, Len(p) = i, SameItems(o, p, Len(o)),
         NEW x, x = Highs(c), Alike(c, d, x),
         NEW Q, \A k \in 1 .. Len(c.label) : Q[k] = P[k],
         Highs(d) = Above(x, p, i), Spot(d, p, x, i, Q)
  PROVE  AtHome(d, p, Q)
<1>1. PICK h : Home(c, o, P, h)
  BY DEF AtHome
<1>2. PICK m \in 0 .. Len(o) : m = Len(o)
  BY SeqShape
<1>3. x = h[m + 1]
  BY <1>1, <1>2 DEF Home
<1>4. Len(p) = m + 1 /\ SameItems(o, p, m) /\ i = m + 1
  BY <1>2
<1>5. QED
  BY <1>1, <1>3, <1>4, HomeUp

\* They hold without the innermost statement.
LEMMA HomeClose ==
  ASSUME NEW c, Stacked(c), NEW d, NEW o, IsSeq(o), Len(o) >= 1, NEW P, NEW x,
         Base(c, o, P, x), NEW p, Len(p) = Len(o) - 1, SameItems(o, p, Len(o) - 1),
         Alike(c, d, x), Highs(d) = x,
         NEW Q, \A k \in 1 .. Len(c.label) : Q[k] = P[k]
  PROVE  AtHome(d, p, Q)
<1>1. PICK h : Home(c, o, P, h) /\ x = h[Len(o)]
  BY DEF Base
<1>2. PICK m \in 0 .. Len(o) : m = Len(o) - 1 /\ m + 1 = Len(o)
  BY SeqShape
<1>3. x = h[m + 1]
  BY <1>1, <1>2
<1>4. Len(p) = m /\ SameItems(o, p, m)
  BY <1>2
<1>5. QED
  BY <1>1, <1>3, <1>4, HomeDown

\* They hold with another statement in place of the innermost one.
LEMMA HomeReplace ==
  ASSUME NEW c, Stacked(c), NEW d, NEW o, IsSeq(o), Len(o) >= 1, NEW P, NEW x,
         Base(c, o, P, x), NEW p, NEW i, i = Len(o), Len(p) = i, SameItems(o, p, i - 1),
         Alike(c, d, x), NEW Q, \A k \in 1 .. Len(c.label) : Q[k] = P[k],
         Highs(d) = Above(x, p, i), Spot(d, p, x, i, Q)
  PROVE  AtHome(d, p, Q)
<1>1. PICK h : Home(c, o, P, h) /\ x = h[Len(o)]
  BY DEF Base
<1>2. PICK m \in 0 .. Len(o) : m = Len(o) - 1 /\ m + 1 = Len(o)
  BY SeqShape
<1>3. x = h[m + 1]
  BY <1>1, <1>2
<1>4. Len(p) = m + 1 /\ SameItems(o, p, m) /\ i = m + 1
  BY <1>2
<1>5. QED
  BY <1>1, <1>3, <1>4, HomeUp, ZenonT(60)

\* What the innermost statement has on the stacks.
TopHome(c, o, P, x) ==
  /\ Base(c, o, P, x) /\ x \in Marks /\ Under(x, Highs(c))
  /\ Highs(c) = Above(x, o, Len(o)) /\ Spot(c, o, x, Len(o), P)
\* There are such marks.
LEMMA HomeTop ==
  ASSUME NEW c, NEW o, IsSeq(o), Len(o) >= 1, NEW P, AtHome(c, o, P)
  PROVE  \E x : TopHome(c, o, P, x)
<1>1. PICK h : Home(c, o, P, h)
  BY DEF AtHome
<1>2. PICK w \in Nat : w = Len(o)
  BY SeqShape
<1>3. /\ h \in [1 .. w + 1 -> Marks] /\ h[w + 1] = Highs(c)
      /\ \A i \in 1 .. w : h[i + 1] = Above(h[i], o, i)
      /\ \A i \in 1 .. w : Spot(c, o, h[i], i, P)
      /\ \A i, j \in 1 .. w + 1 : i <= j => Under(h[i], h[j])
  BY <1>1, <1>2 DEF Home, HomePart
<1>4. w \in 1 .. w /\ w \in 1 .. w + 1 /\ w + 1 \in 1 .. w + 1 /\ w <= w + 1
  BY <1>2
<1>5. h[w] \in Marks /\ Under(h[w], Highs(c)) /\ Highs(c) = Above(h[w], o, w)
      /\ Spot(c, o, h[w], w, P)
  BY <1>3, <1>4
<1>6. Base(c, o, P, h[w])
  BY <1>1, <1>2 DEF Base
<1>7. QED
  BY <1>2, <1>5, <1>6 DEF TopHome

\* What does not change from one number to the next does not change.
LEMMA Unchanging ==
  ASSUME NEW w \in Nat, NEW b \in 1 .. w + 1, NEW f,
         \A i \in b .. w : f[i + 1] = f[i]
  PROVE  f[w + 1] = f[b]
<1>1. SUFFICES ASSUME f[w + 1] # f[b] PROVE FALSE
  OBVIOUS
<1>2. PICK T : T = {i \in b .. w + 1 : f[i] # f[b]}
  OBVIOUS
<1>3. T \in SUBSET Nat /\ w + 1 \in T
  BY <1>1, <1>2
<1>4. PICK i \in T : \A j \in T : i <= j
  BY <1>3, LeastExists
<1>5. i \in b .. w + 1 /\ f[i] # f[b]
  BY <1>2, <1>4
<1>6. i - 1 \in b .. w /\ i - 1 \in b .. w + 1 /\ i - 1 < i /\ i - 1 + 1 = i
  BY <1>5
<1>7. i - 1 \notin T
  BY <1>4, <1>6
<1>8. f[i - 1] = f[b]
  BY <1>2, <1>6, <1>7
<1>9. f[i] = f[i - 1]
  BY <1>6
<1>10. QED
  BY <1>5, <1>8, <1>9

\* The j-th statement is the innermost one of its kinds; if it is a loop, it has
\* its block.
IsLast(o, K, j) ==
  /\ j \in 1 .. Len(o) /\ o[j].k \in K
  /\ \A i \in j + 1 .. Len(o) : o[i].k \notin K
HasBody(o, j) == o[j].k \in Loops => j < Len(o) /\ o[j + 1].k = "block"

\* The label on top of the break stack is that of the innermost loop or switch,
\* j, whose block is the last one to have one.
LEMMA BreakHome ==
  ASSUME NEW c, Stacked(c), NEW o, IsSeq(o), NEW P, AtHome(c, o, P),
         NEW j, IsLast(o, Breakable, j), HasBody(o, j),
         NEW l, l = TOS(c, "break_stack")
  PROVE  l \in 1 .. Len(c.label) /\ P[l] = <<"end", o[j].id>>
<1> USE DEF IsLast, HasBody
<1>1. PICK h : Home(c, o, P, h)
  BY DEF AtHome
<1>2. PICK w \in Nat : w = Len(o)
  BY SeqShape
<1>3. /\ h \in [1 .. w + 1 -> Marks] /\ h[w + 1] = Highs(c)
      /\ \A i \in 1 .. w : h[i + 1] = Above(h[i], o, i)
      /\ \A i \in 1 .. w : Spot(c, o, h[i], i, P)
  BY <1>1, <1>2 DEF Home, HomePart
<1>4. PICK b \in 1 .. w : b = IF o[j].k \in Loops THEN j + 1 ELSE j
  BY <1>2
<1>5. PICK x \in Marks : x = h[b]
  BY <1>3
<1>6. BreaksOf(o, b) = 1 /\ P[c.break_stack[x.brk + 1]] = <<"end", o[j].id>>
  <2>1. CASE o[j].k \in Loops
    <3>1. b > 1 /\ b - 1 = j /\ o[b].k = "block"
      BY <1>2, <1>4, <2>1
    <3>2. IsBody(o, b)
      BY <2>1, <3>1 DEF IsBody
    <3>3. QED
      BY <1>3, <1>5, <3>1, <3>2 DEF BreaksOf, Spot
  <2>2. CASE o[j].k \notin Loops
    <3>1. b = j /\ o[b].k = "switch"
      BY <1>4, <2>2 DEF Breakable
    <3>2. QED
      BY <1>3, <1>5, <3>1 DEF BreaksOf, Spot
  <2>3. QED
    BY <2>1, <2>2
<1>7. PICK f : f = [i \in 1 .. w + 1 |-> h[i].brk]
  OBVIOUS
<1>8. f[b + 1] = x.brk + 1
  <2>1. h[b + 1] = Above(x, o, b) /\ b + 1 \in 1 .. w + 1
    BY <1>3, <1>5
  <2>2. h[b + 1].brk = x.brk + BreaksOf(o, b)
    BY <2>1 DEF Above
  <2>3. QED
    BY <1>6, <1>7, <2>1, <2>2
<1>9. ASSUME NEW i \in b + 1 .. w
      PROVE  f[i + 1] = f[i]
  <2>1. i \in 1 .. w /\ i \in 1 .. w + 1 /\ i + 1 \in 1 .. w + 1
    OBVIOUS
  <2>2. o[i].k \notin Breakable /\ o[i - 1].k \notin Loops
    <3>1. o[i].k \notin Breakable
      BY <1>2, <1>4, <2>1
    <3>2. CASE i - 1 = j
      <4>1. b = j
        BY <1>2, <1>4, <3>2
      <4>2. QED
        BY <1>2, <1>4, <3>1, <3>2, <4>1
    <3>3. CASE i - 1 # j
      <4>1. i - 1 \in j + 1 .. Len(o)
        BY <1>2, <1>4, <3>3
      <4>2. QED
        BY <3>1, <4>1 DEF Breakable
    <3>4. QED
      BY <3>1, <3>2, <3>3
  <2>3. BreaksOf(o, i) = 0
    BY <2>2 DEF BreaksOf, IsBody, Breakable
  <2>4. h[i + 1] = Above(h[i], o, i) /\ h[i] \in Marks
    BY <1>3, <2>1
  <2>5. h[i + 1].brk = h[i].brk + 0
    BY <2>3, <2>4 DEF Above
  <2>6. h[i].brk \in Nat
    BY <2>4 DEF Marks
  <2>7. QED
    BY <1>7, <2>1, <2>5, <2>6
<1>10. f[w + 1] = f[b + 1]
  <2>1. b + 1 \in 1 .. w + 1
    OBVIOUS
  <2>2. QED
    BY <1>9, <2>1, Unchanging
<1>11. Len(c.break_stack) = x.brk + 1
  <2>1. f[w + 1] = h[w + 1].brk
    BY <1>7
  <2>2. QED
    BY <1>3, <1>8, <1>10, <2>1 DEF Highs
<1>12. Len(c.break_stack) \in 1 .. Len(c.break_stack)
  BY <1>5, <1>11 DEF Marks
<1>13. l = c.break_stack[Len(c.break_stack)]
  BY DEF TOS, Last
<1>14. QED
  BY <1>6, <1>11, <1>12, <1>13 DEF Stacked

\* The label on top of the continue stack is that of the block of the innermost
\* loop, j.
LEMMA ContinueHome ==
  ASSUME NEW c, Stacked(c), NEW o, IsSeq(o), NEW P, AtHome(c, o, P),
         NEW j, IsLast(o, Loops, j), HasBody(o, j),
         NEW l, l = TOS(c, "continue_stack")
  PROVE  l \in 1 .. Len(c.label) /\ P[l] = <<"body", o[j].id>>
<1> USE DEF IsLast, HasBody
<1>1. PICK h : Home(c, o, P, h)
  BY DEF AtHome
<1>2. PICK w \in Nat : w = Len(o)
  BY SeqShape
<1>3. /\ h \in [1 .. w + 1 -> Marks] /\ h[w + 1] = Highs(c)
      /\ \A i \in 1 .. w : h[i + 1] = Above(h[i], o, i)
      /\ \A i \in 1 .. w : Spot(c, o, h[i], i, P)
  BY <1>1, <1>2 DEF Home, HomePart
<1>4. PICK b \in 1 .. w : b = j + 1
  BY <1>2
<1>5. PICK x \in Marks : x = h[b]
  BY <1>3, SMTT(40)
<1>6. ContinuesOf(o, b) = 1 /\ P[c.continue_stack[x.cont + 1]] = <<"body", o[j].id>>
  <2>1. b > 1 /\ b - 1 = j /\ o[b].k = "block"
    BY <1>2, <1>4
  <2>2. IsBody(o, b)
    BY <2>1 DEF IsBody
  <2>3. QED
    BY <1>3, <1>5, <2>1, <2>2 DEF ContinuesOf, Spot
<1>7. PICK f : f = [i \in 1 .. w + 1 |-> h[i].cont]
  OBVIOUS
<1>8. f[b + 1] = x.cont + 1
  <2>1. h[b + 1] = Above(x, o, b) /\ b + 1 \in 1 .. w + 1
    BY <1>3, <1>5
  <2>2. h[b + 1].cont = x.cont + ContinuesOf(o, b)
    BY <2>1 DEF Above
  <2>3. QED
    BY <1>6, <1>7, <2>1, <2>2
<1>9. ASSUME NEW i \in b + 1 .. w
      PROVE  f[i + 1] = f[i]
  <2>1. i \in 1 .. w /\ i \in 1 .. w + 1 /\ i + 1 \in 1 .. w + 1 /\ i - 1 \in j + 1 .. Len(o)
    BY <1>2, <1>4
  <2>2. ContinuesOf(o, i) = 0
    BY <2>1 DEF ContinuesOf, IsBody
  <2>3. h[i + 1] = Above(h[i], o, i) /\ h[i] \in Marks
    BY <1>3, <2>1
  <2>4. h[i + 1].cont = h[i].cont + 0
    BY <2>2, <2>3 DEF Above
  <2>5. h[i].cont \in Nat
    BY <2>3 DEF Marks
  <2>6. QED
    BY <1>7, <2>1, <2>4, <2>5, SMTT(40)
<1>10. f[w + 1] = f[b + 1]
  <2>1. b + 1 \in 1 .. w + 1
    OBVIOUS
  <2>2. QED
    BY <1>9, <2>1, Unchanging
<1>11. Len(c.continue_stack) = x.cont + 1
  <2>1. f[w + 1] = h[w + 1].cont
    BY <1>7
  <2>2. QED
    BY <1>3, <1>8, <1>10, <2>1 DEF Highs
<1>12. Len(c.continue_stack) \in 1 .. Len(c.continue_stack)
  BY <1>5, <1>11 DEF Marks
<1>13. l = c.continue_stack[Len(c.continue_stack)]
  BY DEF TOS, Last
<1>14. QED
  BY <1>6, <1>11, <1>12, <1>13 DEF Stacked
=============================================================================
